--------------------------- MODULE SyncImport_proofs ---------------------------
(***************************************************************************)
(* What an import that fails or is killed leaves on disk, proved with      *)
(* TLAPS for any number of files, sources, imports, edits and failures.    *)
(*                                                                         *)
(* The first invariant describes the transaction directories and needs no  *)
(* hypothesis.  The second one relates them to the files.  It needs what   *)
(* the code takes for granted: the write of the COMMITTED manifest does    *)
(* not fail after it took effect (the README describes what happens when   *)
(* it does).                                                               *)
(***************************************************************************)
EXTENDS SyncImport, Extrema

CleanCommit == CommitFaults \subseteq {"early"}

-----------------------------------------------------------------------------
(* The transaction directories.                                            *)

(* The labels before a directory is created; of the commit, which ends in  *)
(* the removal of the directory; of its compensation; of what makes an     *)
(* operation a recorded one; and of recover.                               *)
StartLabels == {"prune", "create"}

CommitLabels == {"begin", "intend", "write", "finish"}

UndoLabels == {"undo", "unmark", "settle"}

FlagLabels == {"flagFiles", "flagOperation", "flagRecord"}

RecoverLabels == {"restore", "settleFiles", "settleOperation", "clear"}

Jobs ==
    [at : Labels, op : Nat, mem : Transactions \cup {Absent}, item : 0 .. StateItem,
     approved : SUBSET {Scope[p] : p \in Paths}, failed : BOOLEAN, todo : SUBSET Items]

(* latest_incomplete finds an operation.                                   *)
Unfinished(m) == m.remains = "manifest" /\ ~Finalized(m)

(* A command at work on a transaction has the newest one in hand, whose    *)
(* manifest can be read; one that is about to create it found none that    *)
(* recovery is waiting for.                                                *)
JobOK(jb, ms, rec) ==
    /\ jb \in Jobs
    /\ jb.op \in 0 .. Len(ms)
    /\ jb.at # "idle" => jb.mem \in Transactions /\ jb.mem.remains = "manifest"
    /\ jb.at \in StartLabels =>
          Listed(jb.mem) # {} /\ \A op \in 1 .. Len(ms) : ~Unfinished(ms[op])
    /\ jb.at \notin {"idle"} \cup StartLabels =>
          /\ jb.op = Len(ms) /\ Len(ms) > 0
          /\ ms[Len(ms)].remains = "manifest"
    /\ jb.at \in StartLabels \cup CommitLabels \cup UndoLabels \cup FlagLabels \cup {"discard"} =>
          rec = NoRecord
    /\ jb.at \in RecoverLabels => rec # NoRecord
    /\ jb.at = "begin" => Listed(jb.mem) # {}
    /\ jb.at \in {"intend", "write", "finish", "undo"} => jb.item \in Listed(jb.mem)
    /\ jb.at = "finish" => \A k \in Listed(jb.mem) : k <= jb.item
    /\ jb.at = "restore" => jb.todo # {} /\ jb.todo \subseteq Listed(jb.mem)

(* Only the newest operation may be unfinished, and it alone is recorded.  *)
StoreOK(image, log, ms, rec) ==
    /\ image \in Disks
    /\ log \in Archives
    /\ ms \in Seq(Transactions)
    /\ rec \in 0 .. Len(ms)
    /\ \A op \in 1 .. Len(ms) : Unfinished(ms[op]) => op = Len(ms)
    /\ rec # NoRecord => rec = Len(ms) /\ ms[Len(ms)].remains = "manifest"

StoreInv == StoreOK(disk, journal, store, recovery) /\ JobOK(job, store, recovery)

-----------------------------------------------------------------------------
(* The transaction directories and the files.  The operators speak of an   *)
(* image of the disk, the manifest m of the newest operation and           *)
(* recovery.json.                                                          *)

(* Recovery is still possible: the operation is not final, or recorded.    *)
Open(m, rec) == rec # NoRecord \/ Unfinished(m)

SameOperation(m, n) ==
    /\ m.source = n.source /\ m.incoming = n.incoming /\ m.before = n.before
    /\ Listed(m) = Listed(n)

AllKept(image, m) == \A i \in Listed(m) : image[i] = m.before[i]

AllGiven(image, m) == \A i \in Listed(m) : image[i] = Written(m, i)

KeptFrom(image, m, i) == \A k \in Listed(m) : k >= i => image[k] = m.before[k]

GivenUpTo(image, m, i) == \A k \in Listed(m) : k < i => image[k] = Written(m, k)

(* The transaction lists every file it changes and no file the archive     *)
(* does not mention.                                                       *)
ListsChanges(m) ==
    /\ \A i \in Listed(m) \ {StateItem} : m.incoming[i] # Absent
    /\ \A i \in Items \ Listed(m) :
          i = StateItem \/ m.incoming[i] # Absent => m.before[i] = Written(m, i)

(* LastImport, of a given sequence of transactions.                        *)
LastOf(ms, s) ==
    LET committed == {op \in 1 .. Len(ms) : ms[op].source = s /\ ms[op].state = "COMMITTED"} IN
    IF committed = {} THEN Nothing
    ELSE ms[CHOOSE op \in committed : \A k \in committed : k <= op].incoming

Truthful(baselines, ms) == \A s \in Sources : baselines[s] \in {Nothing, LastOf(ms, s)}

(* Every file of the import may be replaced.                               *)
Permitted(jb, ms) ==
    \A p \in Listed(jb.mem) \ {StateItem} :
        \/ jb.mem.before[p] \in {Absent, jb.mem.incoming[p], LastOf(ms, jb.mem.source)[p]}
        \/ Scope[p] \in jb.approved
        \/ p \in Merged

(* What holds whether or not a command is at work, so also after a crash.  *)
Durable(image, ms, rec) ==
    LET m == ms[Len(ms)]
        open == Len(ms) > 0 /\ Open(m, rec) IN
    /\ ~open => Truthful(image[StateItem], ms)
    /\ open => /\ Truthful(m.before[StateItem], ms)
               /\ \A i \in Items \ Listed(m) : image[i] = m.before[i]
               /\ m.state # "COMMITTED"
    /\ rec # NoRecord =>
          \A i \in Listed(m) :
              \/ m.files[i] \in {"MODIFIED", "RECOVERY_REQUIRED"} /\ ~Finalized(m)
              \/ image[i] = m.before[i]

(* How far the command with the job jb has come.                           *)
Progress(jb, image, ms, rec) ==
    LET m == ms[Len(ms)] IN
    /\ jb.at \in StartLabels => jb.mem.before = image
    /\ jb.at \in StartLabels \cup CommitLabels =>
          ListsChanges(jb.mem) /\ Permitted(jb, ms)
    /\ jb.at \in StartLabels \cup CommitLabels \cup UndoLabels \cup FlagLabels =>
          ~Finalized(jb.mem)
    /\ jb.at \in CommitLabels \cup UndoLabels \cup FlagLabels =>
          SameOperation(jb.mem, m) /\ ~Finalized(m)
    /\ jb.at \in RecoverLabels \cup {"discard", "flagOperation", "flagRecord"} => jb.mem = m
    /\ jb.at = "discard" => m.state = "COMMITTED"
    /\ jb.at = "begin" => AllKept(image, m)
    /\ jb.at \in {"intend", "write"} =>
          GivenUpTo(image, jb.mem, jb.item) /\ KeptFrom(image, jb.mem, jb.item)
    /\ jb.at = "finish" => AllGiven(image, jb.mem)
    /\ jb.at = "undo" /\ ~jb.failed => KeptFrom(image, jb.mem, jb.item + 1)
    /\ jb.at \in {"unmark", "settle", "settleFiles", "settleOperation", "clear"} =>
          AllKept(image, jb.mem)
    /\ jb.at \in {"flagOperation", "flagRecord"} =>
          \A i \in Listed(m) : m.files[i] = "RECOVERY_REQUIRED"
    /\ jb.at = "restore" => \A i \in Listed(m) \ jb.todo : image[i] = m.before[i]
    /\ jb.at = "clear" => Finalized(m)

FileInv == Durable(disk, store, recovery) /\ Progress(job, disk, store, recovery)

-----------------------------------------------------------------------------
(* Items, disks, transactions and jobs.                                    *)

LEMMA ItemFacts ==
    /\ StateItem \in Items /\ StateItem \notin Paths
    /\ \A i \in Items : i # StateItem => i \in Paths
    /\ Paths \subseteq Items
    /\ Items \subseteq 0 .. StateItem /\ Items \subseteq Nat
    /\ StateItem \in Nat
    /\ \A i \in Items : i \in Nat /\ i > 0
BY PathsAssumption DEF Items, StateItem, Paths

LEMMA DiskFacts ==
    ASSUME NEW d \in Disks
    PROVE  /\ \A p \in Paths : d[p] \in Contents
           /\ d[StateItem] \in [Sources -> Archives]
           /\ DOMAIN d = Items
BY DEF Disks

(* A content that item i may have.                                         *)
Fits(i, content) ==
    /\ i \in Paths => content \in Contents
    /\ i = StateItem => content \in [Sources -> Archives]

LEMMA DiskUpdate ==
    ASSUME NEW d \in Disks, NEW i \in Items, NEW content, Fits(i, content)
    PROVE  [d EXCEPT ![i] = content] \in Disks
<1>1. content \in Contents \cup [Sources -> Archives]
  BY ItemFacts DEF Fits
<1>2. [d EXCEPT ![i] = content] \in [Items -> Contents \cup [Sources -> Archives]]
  BY <1>1 DEF Disks
<1>3. \A p \in Paths : [d EXCEPT ![i] = content][p] \in Contents
  BY ItemFacts DEF Disks, Fits
<1>4. [d EXCEPT ![i] = content][StateItem] \in [Sources -> Archives]
  BY ItemFacts DEF Disks, Fits
<1>5. QED
  BY <1>2, <1>3, <1>4 DEF Disks

LEMMA DiskFits ==
    ASSUME NEW d \in Disks, NEW i \in Items
    PROVE  Fits(i, d[i])
BY DiskFacts DEF Fits

LEMMA DiskMade ==
    ASSUME NEW files \in Archives, NEW baselines \in [Sources -> Archives]
    PROVE  [i \in Items |-> IF i = StateItem THEN baselines ELSE files[i]] \in Disks
<1> DEFINE d == [i \in Items |-> IF i = StateItem THEN baselines ELSE files[i]]
<1>1. \A p \in Paths : p \in Items /\ d[p] \in Contents
  BY ItemFacts DEF Archives
<1>2. d[StateItem] \in [Sources -> Archives]
  BY ItemFacts
<1>3. \A i \in Items : d[i] \in Contents \cup [Sources -> Archives]
  BY <1>1, <1>2, ItemFacts
<1>4. QED
  BY <1>1, <1>2, <1>3 DEF Disks

LEMMA NothingType ==
    /\ Nothing \in Archives
    /\ [s \in Sources |-> Nothing] \in [Sources -> Archives]
    /\ NoBackup \in Disks
<1>1. Nothing \in Archives
  BY DEF Nothing, Archives, Contents
<1>2. NoBackup = [i \in Items |-> IF i = StateItem THEN [s \in Sources |-> Nothing]
                                                    ELSE Nothing[i]]
  BY ItemFacts DEF NoBackup, Nothing
<1>3. QED
  BY <1>1, <1>2, DiskMade

LEMMA TransactionFacts ==
    ASSUME NEW m \in Transactions
    PROVE  /\ m.source \in Sources /\ m.incoming \in Archives /\ m.before \in Disks
           /\ m.files \in [Items -> FileStates]
           /\ m.state \in OperationStates
           /\ m.remains \in {"manifest", "backups", "none"}
           /\ Listed(m) \subseteq Items
BY DEF Transactions, Listed

LEMMA ListedFacts ==
    ASSUME NEW m \in Transactions
    PROVE  \A k \in Listed(m) : k \in Items /\ k \in Nat /\ k > 0
<1>1. SUFFICES ASSUME NEW k \in Listed(m) PROVE k \in Items /\ k \in Nat /\ k > 0
  OBVIOUS
<1>2. k \in Items
  BY DEF Listed
<1>3. QED
  BY <1>2, ItemFacts

LEMMA WrittenFits ==
    ASSUME NEW m \in Transactions, NEW i \in Items
    PROVE  Fits(i, Written(m, i))
<1>1. CASE i = StateItem
  <2>1. m.before[i] \in [Sources -> Archives] /\ m.source \in Sources /\ m.incoming \in Archives
    BY <1>1, TransactionFacts, DiskFacts
  <2>2. [m.before[i] EXCEPT ![m.source] = m.incoming] \in [Sources -> Archives]
    BY <2>1
  <2>3. QED
    BY <1>1, <2>2, ItemFacts DEF Fits, Written
<1>2. CASE i # StateItem
  BY <1>2, TransactionFacts, ItemFacts DEF Fits, Written, Archives
<1>3. QED
  BY <1>1, <1>2

(* A manifest updated in its state or in the states of its files is that   *)
(* of the same operation.                                                  *)
LEMMA StateUpdate ==
    ASSUME NEW m \in Transactions, NEW state \in OperationStates
    PROVE  LET n == [m EXCEPT !.state = state] IN
           /\ n \in Transactions /\ SameOperation(n, m)
           /\ n.state = state /\ n.remains = m.remains /\ n.files = m.files
BY DEF Transactions, SameOperation, Listed

LEMMA FileUpdate ==
    ASSUME NEW m \in Transactions, NEW i \in Listed(m)
    PROVE  LET n == UpdateFileState(m, i, "MODIFIED") IN
           /\ n \in Transactions /\ SameOperation(n, m)
           /\ n.state = m.state /\ n.remains = m.remains
<1> DEFINE files == [m.files EXCEPT ![i] = "MODIFIED"]
<1>1. files \in [Items -> FileStates]
  BY DEF Transactions, FileStates
<1>2. \A k \in Items : files[k] # "UNLISTED" <=> m.files[k] # "UNLISTED"
  BY DEF Transactions, Listed
<1>3. UpdateFileState(m, i, "MODIFIED") = [m EXCEPT !.files = files]
  BY DEF UpdateFileState, Transactions
<1> HIDE DEF files
<1>4. QED
  BY <1>1, <1>2, <1>3 DEF Transactions, SameOperation, Listed

LEMMA AllFilesUpdate ==
    ASSUME NEW m \in Transactions, NEW state \in FileStates \ {"UNLISTED"}
    PROVE  LET n == UpdateAllFileStates(m, state) IN
           /\ n \in Transactions /\ SameOperation(n, m)
           /\ n.state = m.state /\ n.remains = m.remains
           /\ \A i \in Listed(n) : n.files[i] = state
<1> DEFINE files == [i \in Items |-> IF i \in Listed(m) THEN state ELSE m.files[i]]
<1>1. files \in [Items -> FileStates]
  BY DEF Transactions
<1>2. \A k \in Items : (files[k] # "UNLISTED") = (m.files[k] # "UNLISTED")
  BY DEF Listed
<1>3. \A k \in Items : files[k] # "UNLISTED" => files[k] = state
  BY DEF Listed
<1>4. UpdateAllFileStates(m, state) = [m EXCEPT !.files = files]
  BY DEF UpdateAllFileStates
<1> HIDE DEF files
<1>5. QED
  BY <1>1, <1>2, <1>3, <1>4 DEF Transactions, SameOperation, Listed

LEMMA LeftOfFacts ==
    ASSUME NEW m \in Transactions, NEW remains \in {"manifest", "backups", "none"}
    PROVE  LET n == LeftOf(m, remains) IN
           /\ n \in Transactions
           /\ n.source = m.source /\ n.incoming = m.incoming /\ n.state = m.state
           /\ n.remains = IF remains = "manifest" THEN m.remains ELSE remains
           /\ remains = "manifest" => n = m
<1>1. CASE remains = "manifest"
  BY <1>1 DEF LeftOf
<1>2. CASE remains # "manifest"
  <2> DEFINE files == [i \in Items |-> "UNLISTED"]
  <2>1. files \in [Items -> FileStates]
    BY DEF FileStates
  <2>2. LeftOf(m, remains) = [m EXCEPT !.remains = remains, !.before = NoBackup,
                                       !.files = files]
    BY <1>2 DEF LeftOf
  <2> HIDE DEF files
  <2>3. QED
    BY <1>2, <2>1, <2>2, NothingType DEF Transactions
<1>3. QED
  BY <1>1, <1>2

LEMMA IdleOK ==
    ASSUME NEW ms \in Seq(Transactions), NEW rec
    PROVE  JobOK(IdleJob, ms, rec) /\ IdleJob.at = "idle"
<1>1. /\ IdleJob.at = "idle" /\ IdleJob.op = 0 /\ IdleJob.item = 0
      /\ IdleJob.mem = Absent /\ IdleJob.approved = {} /\ IdleJob.failed = FALSE
      /\ IdleJob.todo = {}
  BY DEF IdleJob
<1>2. IdleJob \in Jobs
  BY ItemFacts DEF IdleJob, Jobs, Labels
<1>3. 0 \in 0 .. Len(ms)
  OBVIOUS
<1>4. QED
  BY <1>1, <1>2, <1>3
     DEF JobOK, StartLabels, CommitLabels, UndoLabels, FlagLabels, RecoverLabels

LEMMA JobFacts ==
    ASSUME NEW jb \in Jobs
    PROVE  /\ jb.at \in Labels /\ jb.op \in Nat /\ jb.mem \in Transactions \cup {Absent}
           /\ jb.item \in 0 .. StateItem /\ jb.failed \in BOOLEAN /\ jb.todo \subseteq Items
           /\ jb.approved \in SUBSET {Scope[p] : p \in Paths}
BY DEF Jobs

LEMMA JobGoto ==
    ASSUME NEW jb \in Jobs, NEW label \in Labels
    PROVE  LET n == [jb EXCEPT !.at = label] IN
           /\ n \in Jobs
           /\ n.at = label /\ n.mem = jb.mem
           /\ n.op = jb.op /\ n.item = jb.item /\ n.approved = jb.approved
           /\ n.failed = jb.failed /\ n.todo = jb.todo
BY DEF Jobs

(* The first listed item after i is next, if there is one.                 *)
LEMMA AdvanceFacts ==
    ASSUME NEW jb \in Jobs, jb.mem \in Transactions, NEW i \in Nat
    PROVE  LET n == Advance(jb, i) IN
           /\ n \in Jobs
           /\ n.mem = jb.mem /\ n.op = jb.op /\ n.approved = jb.approved
           /\ n.failed = jb.failed /\ n.todo = jb.todo
           /\ \/ /\ n.at = "finish" /\ n.item = jb.item
                 /\ \A k \in Listed(jb.mem) : k <= i
              \/ /\ n.at = "intend" /\ n.item \in Listed(jb.mem) /\ n.item > i
                 /\ \A k \in Listed(jb.mem) : k > i => k >= n.item
<1> DEFINE rest == {k \in Listed(jb.mem) : k > i}
           n == Advance(jb, i)
<1>1. rest \subseteq Items /\ rest \subseteq Nat /\ rest \subseteq 0 .. StateItem
  BY ItemFacts, TransactionFacts
<1>2. CASE rest = {}
  <2>1. n = [jb EXCEPT !.at = "finish"]
    BY <1>2 DEF Advance
  <2>2. "finish" \in Labels
    BY DEF Labels
  <2>3. \A k \in Listed(jb.mem) : k \in Nat /\ k \notin rest
    BY <1>2, ItemFacts, TransactionFacts
  <2>4. \A k \in Listed(jb.mem) : k <= i
    BY <2>3
  <2> HIDE DEF n
  <2>5. /\ n \in Jobs /\ n.at = "finish" /\ n.item = jb.item
        /\ n.mem = jb.mem /\ n.op = jb.op /\ n.approved = jb.approved
        /\ n.failed = jb.failed /\ n.todo = jb.todo
    BY <2>1, <2>2, JobGoto
  <2>6. QED
    BY <2>4, <2>5 DEF n
<1>3. CASE rest # {}
  <2> DEFINE first == CHOOSE k \in rest : \A l \in rest : k <= l
  <2>1. first \in rest /\ \A l \in rest : first <= l
    <3> HIDE DEF rest
    <3> QED BY <1>1, <1>3, Least
  <2>2. n = [jb EXCEPT !.at = "intend", !.item = first]
    BY <1>3 DEF Advance
  <2>3. \A k \in Listed(jb.mem) : k > i => k >= first
    BY <2>1, ItemFacts, TransactionFacts
  <2>4. first \in Listed(jb.mem) /\ first > i /\ first \in 0 .. StateItem
    BY <1>1, <2>1
  <2> HIDE DEF n, rest, first
  <2>5. n \in Jobs /\ n.at = "intend" /\ n.item = first
    BY <2>2, <2>4 DEF Jobs, Labels
  <2>6. /\ n.mem = jb.mem /\ n.op = jb.op /\ n.approved = jb.approved
        /\ n.failed = jb.failed /\ n.todo = jb.todo
    BY <2>2 DEF Jobs
  <2>7. QED
    BY <2>3, <2>4, <2>5, <2>6 DEF n
<1>4. QED
  BY <1>2, <1>3

(* The last listed item before i is next, if there is one.                 *)
LEMMA RetreatFacts ==
    ASSUME NEW jb \in Jobs, jb.mem \in Transactions, NEW i \in Nat
    PROVE  LET n == Retreat(jb, i) IN
           /\ n \in Jobs
           /\ n.mem = jb.mem /\ n.op = jb.op /\ n.approved = jb.approved
           /\ n.failed = jb.failed /\ n.todo = jb.todo
           /\ \/ /\ n.at = IF jb.failed THEN "flagFiles" ELSE "unmark"
                 /\ \A k \in Listed(jb.mem) : k >= i
              \/ /\ n.at = "undo" /\ n.item \in Listed(jb.mem) /\ n.item < i
                 /\ \A k \in Listed(jb.mem) : k < i => k <= n.item
<1> DEFINE rest == {k \in Listed(jb.mem) : k < i}
           n == Retreat(jb, i)
<1>1. rest \subseteq Items /\ rest \subseteq Nat /\ rest \subseteq 0 .. StateItem
  BY ItemFacts, TransactionFacts
<1>2. CASE rest = {}
  <2> DEFINE label == IF jb.failed THEN "flagFiles" ELSE "unmark"
  <2>1. n = [jb EXCEPT !.at = label]
    BY <1>2 DEF Retreat
  <2>2. label \in Labels
    BY DEF Labels
  <2>3. \A k \in Listed(jb.mem) : k \in Nat /\ k \notin rest
    BY <1>2, ItemFacts, TransactionFacts
  <2>4. \A k \in Listed(jb.mem) : k >= i
    BY <2>3
  <2> HIDE DEF n, label
  <2>5. n \in Jobs /\ n.at = label
    BY <2>1, <2>2, JobGoto
  <2>6. /\ n.mem = jb.mem /\ n.op = jb.op /\ n.approved = jb.approved
        /\ n.failed = jb.failed /\ n.todo = jb.todo
    BY <2>1, <2>2, JobGoto
  <2>7. QED
    BY <2>4, <2>5, <2>6 DEF label, n
<1>3. CASE rest # {}
  <2> DEFINE last == CHOOSE k \in rest : \A l \in rest : k >= l
  <2>1. last \in rest /\ \A l \in rest : last >= l
    <3>1. PICK x \in rest : \A y \in rest : y <= x
      <4> HIDE DEF rest
      <4> QED BY <1>1, <1>3, Greatest, ItemFacts
    <3>2. \A y \in rest : x >= y
      BY <1>1, <3>1
    <3> HIDE DEF rest
    <3> QED BY <3>2
  <2>2. n = [jb EXCEPT !.at = "undo", !.item = last]
    BY <1>3 DEF Retreat
  <2>3. \A k \in Listed(jb.mem) : k < i => k <= last
    BY <2>1, ItemFacts, TransactionFacts
  <2>4. last \in Listed(jb.mem) /\ last < i /\ last \in 0 .. StateItem
    BY <1>1, <2>1
  <2> HIDE DEF n, rest, last
  <2>5. n \in Jobs /\ n.at = "undo" /\ n.item = last
    BY <2>2, <2>4 DEF Jobs, Labels
  <2>6. /\ n.mem = jb.mem /\ n.op = jb.op /\ n.approved = jb.approved
        /\ n.failed = jb.failed /\ n.todo = jb.todo
    BY <2>2 DEF Jobs
  <2>7. QED
    BY <2>3, <2>4, <2>5, <2>6 DEF n
<1>4. QED
  BY <1>2, <1>3

-----------------------------------------------------------------------------
(* The transaction directories stay in order: one lemma per action.        *)

(* What the write of the newest manifest does, whether or not it fails.    *)
LEMMA StoreStep ==
    ASSUME StoreInv, job.at \notin {"idle"} \cup StartLabels,
           NEW m \in Transactions, m.remains = "manifest",
           NEW o, NEW next, NEW otherwise,
           StoreThen(m, o, next, otherwise), UNCHANGED recovery
    PROVE  /\ StoreOK(disk', journal', store', recovery')
           /\ Len(store') = Len(store) /\ Len(store) > 0
           /\ store'[Len(store)] = IF Takes(o) THEN m ELSE store[Len(store)]
           /\ store'[Len(store)].remains = "manifest"
           /\ \A op \in 1 .. Len(store) : op # Len(store) => store'[op] = store[op]
           /\ disk' = disk /\ journal' = journal
           /\ job' = IF o = "ok" THEN next ELSE otherwise
<1>1. /\ store \in Seq(Transactions) /\ Len(store) \in Nat
      /\ job.op = Len(store) /\ Len(store) > 0 /\ store[Len(store)].remains = "manifest"
  BY DEF StoreInv, StoreOK, JobOK
<1>2. /\ store' = IF Takes(o) THEN [store EXCEPT ![Len(store)] = m] ELSE store
      /\ disk' = disk /\ journal' = journal
      /\ job' = IF o = "ok" THEN next ELSE otherwise
  BY <1>1 DEF StoreThen
<1>3. store' \in Seq(Transactions) /\ Len(store') = Len(store)
  BY <1>1, <1>2
<1>4. store'[Len(store)] = IF Takes(o) THEN m ELSE store[Len(store)]
  BY <1>1, <1>2
<1>5. \A op \in 1 .. Len(store) : op # Len(store) => store'[op] = store[op]
  BY <1>1, <1>2
<1>6. StoreOK(disk', journal', store', recovery')
  BY <1>1, <1>2, <1>3, <1>4, <1>5 DEF StoreInv, StoreOK
<1>7. QED
  BY <1>1, <1>2, <1>3, <1>4, <1>5, <1>6

(* A command at work goes on with its transaction.                         *)
LEMMA JobGoesOn ==
    ASSUME NEW jb \in Jobs, NEW ms \in Seq(Transactions), NEW rec,
           Len(ms) > 0, ms[Len(ms)].remains = "manifest", jb.op = Len(ms),
           jb.mem \in Transactions, jb.mem.remains = "manifest",
           jb.at \notin {"idle"} \cup StartLabels,
           jb.at \in RecoverLabels <=> rec # NoRecord,
           jb.at = "begin" => Listed(jb.mem) # {},
           jb.at \in {"intend", "write", "finish", "undo"} => jb.item \in Listed(jb.mem),
           jb.at = "finish" => \A k \in Listed(jb.mem) : k <= jb.item,
           jb.at = "restore" => jb.todo # {} /\ jb.todo \subseteq Listed(jb.mem)
    PROVE  JobOK(jb, ms, rec)
BY DEF JobOK, StartLabels, CommitLabels, UndoLabels, FlagLabels, RecoverLabels

LEMMA JobAtWork ==
    ASSUME StoreInv, job.at \notin {"idle"} \cup StartLabels
    PROVE  /\ job \in Jobs /\ job.mem \in Transactions /\ job.mem.remains = "manifest"
           /\ store \in Seq(Transactions) /\ Len(store) \in Nat
           /\ job.op = Len(store) /\ Len(store) > 0
           /\ store[Len(store)] \in Transactions /\ store[Len(store)].remains = "manifest"
           /\ job.at \in RecoverLabels <=> recovery # NoRecord
<1>1. /\ job \in Jobs /\ job.mem \in Transactions /\ job.mem.remains = "manifest"
      /\ store \in Seq(Transactions) /\ Len(store) \in Nat
      /\ job.op = Len(store) /\ Len(store) > 0
      /\ store[Len(store)].remains = "manifest"
  BY DEF StoreInv, StoreOK, JobOK
<1>2. store[Len(store)] \in Transactions
  BY <1>1
<1>3. job.at \in Labels
  BY <1>1 DEF Jobs
<1>4. job.at \in RecoverLabels <=> recovery # NoRecord
  BY <1>3 DEF StoreInv, JobOK, Labels, StartLabels, CommitLabels, UndoLabels, FlagLabels,
              RecoverLabels
<1>5. QED
  BY <1>1, <1>2, <1>4

LEMMA WithFacts ==
    ASSUME job \in Jobs, NEW m \in Transactions, NEW label \in Labels
    PROVE  /\ With(m, label) \in Jobs
           /\ With(m, label).at = label /\ With(m, label).mem = m
           /\ With(m, label).op = job.op /\ With(m, label).item = job.item
           /\ With(m, label).approved = job.approved
           /\ With(m, label).failed = job.failed /\ With(m, label).todo = job.todo
BY DEF With, Jobs

(* After a write of the manifest every command that was right before it is *)
(* right after it.                                                         *)
LEMMA StoreThenOK ==
    ASSUME StoreInv, job.at \notin {"idle"} \cup StartLabels,
           NEW m \in Transactions, m.remains = "manifest",
           NEW o, NEW next, NEW otherwise,
           StoreThen(m, o, next, otherwise), UNCHANGED recovery,
           JobOK(next, store, recovery), next.at \notin StartLabels,
           JobOK(otherwise, store, recovery), otherwise.at \notin StartLabels
    PROVE  StoreInv'
<1>1. /\ StoreOK(disk', journal', store', recovery')
      /\ Len(store') = Len(store) /\ store'[Len(store')].remains = "manifest"
      /\ job' = IF o = "ok" THEN next ELSE otherwise
  BY StoreStep
<1>2. JobOK(job', store', recovery')
  BY <1>1 DEF JobOK
<1>3. QED
  BY <1>1, <1>2 DEF StoreInv

LEMMA BeginStore ==
    ASSUME StoreInv, BeginCommit
    PROVE  StoreInv'
<1> USE DEF StartLabels, RecoverLabels
<1>1. job.at = "begin" /\ recovery' = recovery
  BY DEF BeginCommit
<1> DEFINE m == [job.mem EXCEPT !.state = "COMMITTING"]
           jb == With(m, "intend")
           next == Advance(jb, 0)
           otherwise == [job EXCEPT !.at = "unmark"]
<1>2. m \in Transactions /\ m.remains = "manifest" /\ Listed(m) = Listed(job.mem)
  BY <1>1, JobAtWork, StateUpdate DEF OperationStates, SameOperation
<1>3. PICK o : StoreThen(m, o, next, otherwise)
  BY DEF BeginCommit
<1>4. /\ otherwise \in Jobs /\ otherwise.mem = job.mem /\ otherwise.op = job.op
      /\ otherwise.at = "unmark"
  BY <1>1, JobAtWork DEF Jobs, Labels
<1> HIDE DEF m, otherwise
<1>5. jb \in Jobs /\ jb.mem = m /\ jb.op = job.op
  BY <1>1, <1>2, JobAtWork, WithFacts DEF Labels
<1> HIDE DEF jb
<1>6. \E k \in Listed(m) : ~(k <= 0)
  <2>1. Listed(m) # {}
    BY <1>1, <1>2 DEF StoreInv, JobOK
  <2>2. \A k \in Listed(m) : k \in Nat /\ k > 0
    BY <1>2, ItemFacts, TransactionFacts
  <2>3. QED
    BY <2>1, <2>2
<1>7. /\ next \in Jobs /\ next.mem = m /\ next.op = job.op
      /\ next.at = "intend" /\ next.item \in Listed(m)
  BY <1>2, <1>5, <1>6, AdvanceFacts
<1> HIDE DEF next
<1>8. JobOK(next, store, recovery)
  BY <1>1, <1>2, <1>7, JobAtWork, JobGoesOn
<1>9. JobOK(otherwise, store, recovery)
  BY <1>1, <1>4, JobAtWork, JobGoesOn
<1>10. QED
  BY <1>1, <1>2, <1>3, <1>4, <1>7, <1>8, <1>9, StoreThenOK

LEMMA IntendStore ==
    ASSUME StoreInv, Intend
    PROVE  StoreInv'
<1> USE DEF StartLabels, RecoverLabels
<1>1. job.at = "intend" /\ recovery' = recovery
  BY DEF Intend
<1>2. job.item \in Listed(job.mem)
  BY <1>1 DEF StoreInv, JobOK
<1> DEFINE m == UpdateFileState(job.mem, job.item, "MODIFIED")
           next == With(m, "write")
           otherwise == [job EXCEPT !.at = "undo"]
<1>3. m \in Transactions /\ m.remains = "manifest" /\ Listed(m) = Listed(job.mem)
  BY <1>1, <1>2, JobAtWork, FileUpdate DEF SameOperation
<1>4. PICK o : StoreThen(m, o, next, otherwise)
  BY DEF Intend
<1>5. /\ otherwise \in Jobs /\ otherwise.mem = job.mem /\ otherwise.op = job.op
      /\ otherwise.at = "undo" /\ otherwise.item = job.item
  BY <1>1, JobAtWork DEF Jobs, Labels
<1> HIDE DEF m, otherwise
<1>6. /\ next \in Jobs /\ next.mem = m /\ next.op = job.op /\ next.at = "write"
      /\ next.item = job.item
  BY <1>1, <1>3, JobAtWork, WithFacts DEF Labels
<1> HIDE DEF next
<1>7. JobOK(next, store, recovery)
  BY <1>1, <1>2, <1>3, <1>6, JobAtWork, JobGoesOn
<1>8. JobOK(otherwise, store, recovery)
  BY <1>1, <1>2, <1>5, JobAtWork, JobGoesOn
<1>9. QED
  BY <1>1, <1>3, <1>4, <1>5, <1>6, <1>7, <1>8, StoreThenOK

LEMMA FinishStore ==
    ASSUME StoreInv, FinishCommit
    PROVE  StoreInv'
<1> USE DEF StartLabels, RecoverLabels
<1>1. job.at = "finish" /\ recovery' = recovery
  BY DEF FinishCommit
<1>2. job.item \in Listed(job.mem)
  BY <1>1 DEF StoreInv, JobOK
<1> DEFINE m == [job.mem EXCEPT !.state = "COMMITTED"]
           next == With(m, "discard")
           otherwise == [job EXCEPT !.at = "undo"]
<1>3. m \in Transactions /\ m.remains = "manifest"
  BY <1>1, JobAtWork, StateUpdate DEF OperationStates
<1>4. PICK o : StoreThen(m, o, next, otherwise)
  BY DEF FinishCommit
<1>5. /\ otherwise \in Jobs /\ otherwise.mem = job.mem /\ otherwise.op = job.op
      /\ otherwise.at = "undo" /\ otherwise.item = job.item
  BY <1>1, JobAtWork DEF Jobs, Labels
<1> HIDE DEF m, otherwise
<1>6. next \in Jobs /\ next.mem = m /\ next.op = job.op /\ next.at = "discard"
  BY <1>1, <1>3, JobAtWork, WithFacts DEF Labels
<1> HIDE DEF next
<1>7. JobOK(next, store, recovery)
  BY <1>1, <1>3, <1>6, JobAtWork, JobGoesOn
<1>8. JobOK(otherwise, store, recovery)
  BY <1>1, <1>2, <1>5, JobAtWork, JobGoesOn
<1>9. QED
  BY <1>1, <1>3, <1>4, <1>5, <1>6, <1>7, <1>8, StoreThenOK

LEMMA UnmarkStore ==
    ASSUME StoreInv, Unmark
    PROVE  StoreInv'
<1> USE DEF StartLabels, RecoverLabels
<1>1. job.at = "unmark" /\ recovery' = recovery
  BY DEF Unmark
<1> DEFINE m == UpdateAllFileStates(job.mem, "ROLLED_BACK")
           next == With(m, "settle")
<1>2. m \in Transactions /\ m.remains = "manifest"
  BY <1>1, JobAtWork, AllFilesUpdate DEF FileStates
<1>3. PICK o : StoreThen(m, o, next, IdleJob)
  BY DEF Unmark
<1> HIDE DEF m
<1>4. JobOK(IdleJob, store, recovery) /\ IdleJob.at = "idle"
  BY <1>1, IdleOK, JobAtWork
<1>5. next \in Jobs /\ next.mem = m /\ next.op = job.op /\ next.at = "settle"
  BY <1>1, <1>2, JobAtWork, WithFacts DEF Labels
<1> HIDE DEF next
<1>6. JobOK(next, store, recovery)
  BY <1>1, <1>2, <1>5, JobAtWork, JobGoesOn
<1>7. QED
  BY <1>1, <1>2, <1>3, <1>4, <1>5, <1>6, StoreThenOK

LEMMA SettleStore ==
    ASSUME StoreInv, Settle
    PROVE  StoreInv'
<1> USE DEF StartLabels, RecoverLabels
<1>1. job.at = "settle" /\ recovery' = recovery
  BY DEF Settle
<1> DEFINE m == [job.mem EXCEPT !.state = "ROLLED_BACK"]
<1>2. m \in Transactions /\ m.remains = "manifest"
  BY <1>1, JobAtWork, StateUpdate DEF OperationStates
<1>3. PICK o : StoreThen(m, o, IdleJob, IdleJob)
  BY DEF Settle
<1> HIDE DEF m
<1>4. JobOK(IdleJob, store, recovery) /\ IdleJob.at = "idle"
  BY <1>1, IdleOK, JobAtWork
<1>5. QED
  BY <1>1, <1>2, <1>3, <1>4, StoreThenOK

LEMMA FlagFilesStore ==
    ASSUME StoreInv, FlagFiles
    PROVE  StoreInv'
<1> USE DEF StartLabels, RecoverLabels
<1>1. job.at = "flagFiles" /\ recovery' = recovery
  BY DEF FlagFiles
<1> DEFINE m == UpdateAllFileStates(job.mem, "RECOVERY_REQUIRED")
           next == With(m, "flagOperation")
<1>2. m \in Transactions /\ m.remains = "manifest"
  BY <1>1, JobAtWork, AllFilesUpdate DEF FileStates
<1>3. PICK o : StoreThen(m, o, next, IdleJob)
  BY DEF FlagFiles
<1> HIDE DEF m
<1>4. JobOK(IdleJob, store, recovery) /\ IdleJob.at = "idle"
  BY <1>1, IdleOK, JobAtWork
<1>5. next \in Jobs /\ next.mem = m /\ next.op = job.op /\ next.at = "flagOperation"
  BY <1>1, <1>2, JobAtWork, WithFacts DEF Labels
<1> HIDE DEF next
<1>6. JobOK(next, store, recovery)
  BY <1>1, <1>2, <1>5, JobAtWork, JobGoesOn
<1>7. QED
  BY <1>1, <1>2, <1>3, <1>4, <1>5, <1>6, StoreThenOK

LEMMA FlagOperationStore ==
    ASSUME StoreInv, FlagOperation
    PROVE  StoreInv'
<1> USE DEF StartLabels, RecoverLabels
<1>1. job.at = "flagOperation" /\ recovery' = recovery
  BY DEF FlagOperation
<1> DEFINE m == [job.mem EXCEPT !.state = "RECOVERY_REQUIRED"]
           next == With(m, "flagRecord")
<1>2. m \in Transactions /\ m.remains = "manifest"
  BY <1>1, JobAtWork, StateUpdate DEF OperationStates
<1>3. PICK o : StoreThen(m, o, next, IdleJob)
  BY DEF FlagOperation
<1> HIDE DEF m
<1>4. JobOK(IdleJob, store, recovery) /\ IdleJob.at = "idle"
  BY <1>1, IdleOK, JobAtWork
<1>5. next \in Jobs /\ next.mem = m /\ next.op = job.op /\ next.at = "flagRecord"
  BY <1>1, <1>2, JobAtWork, WithFacts DEF Labels
<1> HIDE DEF next
<1>6. JobOK(next, store, recovery)
  BY <1>1, <1>2, <1>5, JobAtWork, JobGoesOn
<1>7. QED
  BY <1>1, <1>2, <1>3, <1>4, <1>5, <1>6, StoreThenOK

LEMMA SettleFilesStore ==
    ASSUME StoreInv, SettleFiles
    PROVE  StoreInv'
<1> USE DEF StartLabels, RecoverLabels
<1>1. job.at = "settleFiles" /\ recovery' = recovery
  BY DEF SettleFiles
<1> DEFINE m == UpdateAllFileStates(job.mem, "ROLLED_BACK")
           next == With(m, "settleOperation")
<1>2. m \in Transactions /\ m.remains = "manifest"
  BY <1>1, JobAtWork, AllFilesUpdate DEF FileStates
<1>3. PICK o : StoreThen(m, o, next, IdleJob)
  BY DEF SettleFiles
<1> HIDE DEF m
<1>4. JobOK(IdleJob, store, recovery) /\ IdleJob.at = "idle"
  BY <1>1, IdleOK, JobAtWork
<1>5. next \in Jobs /\ next.mem = m /\ next.op = job.op /\ next.at = "settleOperation"
  BY <1>1, <1>2, JobAtWork, WithFacts DEF Labels
<1> HIDE DEF next
<1>6. JobOK(next, store, recovery)
  BY <1>1, <1>2, <1>5, JobAtWork, JobGoesOn
<1>7. QED
  BY <1>1, <1>2, <1>3, <1>4, <1>5, <1>6, StoreThenOK

LEMMA SettleOperationStore ==
    ASSUME StoreInv, SettleOperation
    PROVE  StoreInv'
<1> USE DEF StartLabels, RecoverLabels
<1>1. job.at = "settleOperation" /\ recovery' = recovery
  BY DEF SettleOperation
<1> DEFINE m == [job.mem EXCEPT !.state = "ROLLED_BACK"]
           next == With(m, "clear")
<1>2. m \in Transactions /\ m.remains = "manifest"
  BY <1>1, JobAtWork, StateUpdate DEF OperationStates
<1>3. PICK o : StoreThen(m, o, next, IdleJob)
  BY DEF SettleOperation
<1> HIDE DEF m
<1>4. JobOK(IdleJob, store, recovery) /\ IdleJob.at = "idle"
  BY <1>1, IdleOK, JobAtWork
<1>5. next \in Jobs /\ next.mem = m /\ next.op = job.op /\ next.at = "clear"
  BY <1>1, <1>2, JobAtWork, WithFacts DEF Labels
<1> HIDE DEF next
<1>6. JobOK(next, store, recovery)
  BY <1>1, <1>2, <1>5, JobAtWork, JobGoesOn
<1>7. QED
  BY <1>1, <1>2, <1>3, <1>4, <1>5, <1>6, StoreThenOK

LEMMA OutcomeFacts ==
    ASSUME NEW kinds \in SUBSET Faults, NEW o \in Outcomes(kinds)
    PROVE  /\ o \in {"ok", "early", "late"}
           /\ Remains(o) \in {"manifest", "backups", "none"}
           /\ o = "ok" => Remains(o) = "none"
           /\ o # "ok" => o \in kinds
<1>1. o \in {"ok", "early", "late"} /\ (o # "ok" => o \in kinds)
  BY DEF Outcomes, Faults
<1>2. QED
  BY <1>1 DEF Remains

LEMMA WriteItemOK ==
    ASSUME disk \in Disks, journal \in Archives, NEW i \in Items, NEW content,
           Fits(i, content), NEW o, WriteItem(i, content, o)
    PROVE  disk' \in Disks /\ journal' \in Archives
<1>1. disk' \in Disks
  BY DiskUpdate DEF WriteItem
<1>2. Absent \in Contents
  BY DEF Contents
<1>3. journal' \in Archives
  BY <1>2 DEF WriteItem, Archives
<1>4. QED
  BY <1>1, <1>3

LEMMA Same ==
    ASSUME StoreInv, UNCHANGED <<disk, journal, store, recovery, job>>
    PROVE  StoreInv'
BY DEF StoreInv

(* What a command has in hand when it has decided to import.               *)
LEMMA StartFacts ==
    ASSUME StoreInv, NEW source \in Sources, NEW archive \in Archives,
           NEW approved, StartImport(source, archive, approved)
    PROVE  /\ MayStart
           /\ UNCHANGED <<disk, journal, store, recovery>>
           /\ job' \in Jobs /\ job'.at = "prune" /\ job'.op = 0
           /\ job'.approved = {Scope[p] : p \in Conflicts(source, archive)}
           /\ LET m == job'.mem IN
              /\ m \in Transactions /\ m.remains = "manifest" /\ m.state = "PREPARED"
              /\ m.source = source /\ m.before = disk
              /\ \A p \in Paths :
                    IF p \in Merged /\ archive[p] # Absent THEN m.incoming[p] # Absent
                                                           ELSE m.incoming[p] = archive[p]
              /\ Listed(m) # {}
              /\ \A i \in Listed(m) \ {StateItem} : m.incoming[i] # Absent
              /\ \A i \in Items \ Listed(m) :
                    i = StateItem \/ m.incoming[i] # Absent => disk[i] = Written(m, i)
<1>1. MayStart /\ UNCHANGED <<disk, journal, store, recovery>>
  BY DEF StartImport
<1> DEFINE M(incoming, files) ==
              [source |-> source, incoming |-> incoming, before |-> disk,
               files |-> files, state |-> "PREPARED", remains |-> "manifest"]
           unlisted == [i \in Items |-> "UNLISTED"]
           Changed(incoming, named) ==
              {i \in Items \ {p \in Paths : incoming[p] = Absent} :
                  disk[i] # Written(M(incoming, unlisted), i)} \cup named
<1>2. PICK incoming \in Archives, named \in SUBSET {StateItem} :
        /\ \A p \in Paths :
              IF p \in Merged /\ archive[p] # Absent THEN incoming[p] # Absent
                                                     ELSE incoming[p] = archive[p]
        /\ LET m == M(incoming, unlisted)
               changed == Changed(incoming, named) IN
           /\ changed # {}
           /\ job' = [IdleJob EXCEPT
                        !.at = "prune",
                        !.approved = {Scope[p] : p \in Conflicts(source, archive)},
                        !.mem = [m EXCEPT !.files =
                                   [i \in Items |-> IF i \in changed THEN "STAGED"
                                                                     ELSE "UNLISTED"]]]
  BY DEF StartImport
<1> DEFINE changed == Changed(incoming, named)
           files == [i \in Items |-> IF i \in changed THEN "STAGED" ELSE "UNLISTED"]
           m == M(incoming, files)
           scopes == {Scope[p] : p \in Conflicts(source, archive)}
<1>3. job' = [IdleJob EXCEPT !.at = "prune", !.approved = scopes, !.mem = m]
  <2>1. job' = [IdleJob EXCEPT !.at = "prune", !.approved = scopes,
                               !.mem = [M(incoming, unlisted) EXCEPT !.files = files]]
    BY <1>2
  <2>2. [M(incoming, unlisted) EXCEPT !.files = files] = m
    <3> HIDE DEF files, unlisted
    <3> QED OBVIOUS
  <2> HIDE DEF files, unlisted, scopes, M
  <2>3. QED
    BY <2>1, <2>2
<1>4. changed \subseteq Items /\ changed # {}
  BY <1>2, ItemFacts
<1>5. \A i \in Items : Written(M(incoming, unlisted), i) = Written(m, i)
  BY DEF Written
<1>6. \A i \in changed \ {StateItem} : i \in Paths /\ incoming[i] # Absent
  BY <1>4, ItemFacts
<1>7. \A i \in Items \ changed :
        i = StateItem \/ incoming[i] # Absent => disk[i] = Written(m, i)
  BY <1>5, ItemFacts
<1>8. files \in [Items -> FileStates] /\ {i \in Items : files[i] # "UNLISTED"} = changed
  <2> HIDE DEF changed
  <2> QED BY <1>4 DEF FileStates
<1>9. m \in Transactions
  BY <1>8 DEF Transactions, StoreInv, StoreOK, OperationStates
<1>10. Listed(m) = changed
  BY <1>8 DEF Listed
<1>11. scopes \in SUBSET {Scope[p] : p \in Paths}
  BY DEF Conflicts
<1>12. /\ m.source = source /\ m.incoming = incoming /\ m.before = disk
       /\ m.state = "PREPARED" /\ m.remains = "manifest"
  OBVIOUS
<1> HIDE DEF m, scopes, changed
<1>13. /\ job' = [at |-> "prune", op |-> 0, mem |-> m, item |-> 0, approved |-> scopes,
                  failed |-> FALSE, todo |-> {}]
  BY <1>3 DEF IdleJob
<1>14. job' \in Jobs
  BY <1>9, <1>11, <1>13, ItemFacts DEF Jobs, Labels
<1>15. job'.at = "prune" /\ job'.op = 0 /\ job'.mem = m /\ job'.approved = scopes
  BY <1>13
<1>16. QED
  BY <1>1, <1>2, <1>4, <1>6, <1>7, <1>9, <1>10, <1>12, <1>14, <1>15 DEF scopes

LEMMA StartStore ==
    ASSUME StoreInv, NEW source \in Sources, NEW archive \in Archives,
           NEW approved, StartImport(source, archive, approved)
    PROVE  StoreInv'
<1>1. /\ MayStart /\ UNCHANGED <<disk, journal, store, recovery>>
      /\ job' \in Jobs /\ job'.at = "prune" /\ job'.op = 0
      /\ job'.mem \in Transactions /\ job'.mem.remains = "manifest"
      /\ Listed(job'.mem) # {}
  BY StartFacts
<1>2. recovery = NoRecord /\ \A op \in 1 .. Len(store) : ~Unfinished(store[op])
  BY <1>1 DEF MayStart, Incomplete, Unfinished
<1>3. 0 \in 0 .. Len(store)
  BY DEF StoreInv, StoreOK
<1>4. JobOK(job', store, recovery)
  BY <1>1, <1>2, <1>3
     DEF JobOK, StartLabels, CommitLabels, UndoLabels, FlagLabels, RecoverLabels
<1>5. QED
  BY <1>1, <1>4 DEF StoreInv

(* Pruning takes what finished imports left and nothing else.              *)
LEMMA PruneFacts ==
    ASSUME StoreInv, Prune
    PROVE  /\ disk' = disk /\ journal' = journal /\ recovery' = recovery
           /\ job.at = "prune" /\ job' = [job EXCEPT !.at = "create"]
           /\ store' \in Seq(Transactions) /\ Len(store') = Len(store)
           /\ \A op \in 1 .. Len(store) :
                 /\ store'[op].source = store[op].source
                 /\ store'[op].incoming = store[op].incoming
                 /\ store'[op].state = store[op].state
                 /\ ~Unfinished(store[op]) /\ ~Unfinished(store'[op])
<1>1. /\ disk' = disk /\ journal' = journal /\ recovery' = recovery
      /\ job.at = "prune" /\ job' = [job EXCEPT !.at = "create"]
  BY DEF Prune, Goto
<1> DEFINE finished == {op \in 1 .. Len(store) :
                          store[op].remains = "manifest" /\ Finalized(store[op])}
<1>2. PICK o \in Outcomes(RemovalFaults), stuck \in finished \cup {0} :
        store' = [op \in 1 .. Len(store) |->
                    IF op \notin finished THEN store[op]
                    ELSE LeftOf(store[op], IF op # stuck THEN "none" ELSE Remains(o))]
  BY DEF Prune
<1>3. Remains(o) \in {"manifest", "backups", "none"}
  BY OutcomeFacts, FaultsAssumption
<1>4. store \in Seq(Transactions) /\ Len(store) \in Nat
  BY DEF StoreInv, StoreOK
<1>5. \A op \in 1 .. Len(store) : store[op] \in Transactions /\ ~Unfinished(store[op])
  BY <1>1, <1>4 DEF StoreInv, JobOK, StartLabels
<1>6. \A op \in 1 .. Len(store) :
        \/ store'[op] = store[op]
        \/ /\ op \in finished
           /\ \E remains \in {"manifest", "backups", "none"} :
                 store'[op] = LeftOf(store[op], remains)
  <2> HIDE DEF finished
  <2> QED BY <1>2, <1>3
<1>7. \A op \in 1 .. Len(store) :
        /\ store'[op] \in Transactions
        /\ store'[op].source = store[op].source
        /\ store'[op].incoming = store[op].incoming
        /\ store'[op].state = store[op].state
        /\ ~Unfinished(store'[op])
  <2>1. SUFFICES ASSUME NEW op \in 1 .. Len(store)
                 PROVE  /\ store'[op] \in Transactions
                        /\ store'[op].source = store[op].source
                        /\ store'[op].incoming = store[op].incoming
                        /\ store'[op].state = store[op].state
                        /\ ~Unfinished(store'[op])
    OBVIOUS
  <2>2. CASE store'[op] = store[op]
    BY <1>5, <2>2
  <2>3. ASSUME op \in finished, NEW remains \in {"manifest", "backups", "none"},
               store'[op] = LeftOf(store[op], remains)
        PROVE  /\ store'[op] \in Transactions
               /\ store'[op].source = store[op].source
               /\ store'[op].incoming = store[op].incoming
               /\ store'[op].state = store[op].state
               /\ ~Unfinished(store'[op])
    <3>1. Finalized(store[op]) /\ store[op] \in Transactions
      BY <1>5, <2>3
    <3>2. /\ store'[op] \in Transactions
          /\ store'[op].source = store[op].source
          /\ store'[op].incoming = store[op].incoming
          /\ store'[op].state = store[op].state
      BY <2>3, <3>1, LeftOfFacts
    <3>3. QED
      BY <3>1, <3>2 DEF Unfinished, Finalized
  <2>4. QED
    BY <1>6, <2>2, <2>3
<1>8. store' \in Seq(Transactions) /\ Len(store') = Len(store)
  <2>1. store' = [op \in 1 .. Len(store) |-> store'[op]]
    <3> HIDE DEF finished
    <3> QED BY <1>2
  <2>2. store' \in [1 .. Len(store) -> Transactions]
    BY <1>7, <2>1
  <2>3. QED
    BY <1>4, <2>2
<1>9. QED
  BY <1>1, <1>5, <1>7, <1>8

LEMMA PruneStore ==
    ASSUME StoreInv, Prune
    PROVE  StoreInv'
<1>1. /\ disk' = disk /\ journal' = journal /\ recovery' = recovery
      /\ job.at = "prune" /\ job' = [job EXCEPT !.at = "create"]
      /\ store' \in Seq(Transactions) /\ Len(store') = Len(store)
      /\ \A op \in 1 .. Len(store) : ~Unfinished(store'[op])
  BY PruneFacts
<1>2. /\ job \in Jobs /\ job.op \in 0 .. Len(store) /\ recovery = NoRecord
      /\ job.mem \in Transactions /\ job.mem.remains = "manifest" /\ Listed(job.mem) # {}
  BY <1>1 DEF StoreInv, JobOK, StartLabels
<1>3. /\ job' \in Jobs /\ job'.at = "create" /\ job'.op = job.op /\ job'.mem = job.mem
  BY <1>1, <1>2 DEF Jobs, Labels
<1>4. StoreOK(disk', journal', store', recovery')
  BY <1>1, <1>2 DEF StoreInv, StoreOK
<1>5. JobOK(job', store', recovery')
  BY <1>1, <1>2, <1>3
     DEF JobOK, StartLabels, CommitLabels, UndoLabels, FlagLabels, RecoverLabels
<1>6. QED
  BY <1>4, <1>5 DEF StoreInv

LEMMA CreateFacts ==
    ASSUME StoreInv, CreateManifest
    PROVE  /\ disk' = disk /\ journal' = journal /\ recovery' = recovery
           /\ job.at = "create" /\ recovery = NoRecord
           /\ job \in Jobs /\ job.mem \in Transactions /\ job.mem.remains = "manifest"
           /\ store \in Seq(Transactions) /\ store' \in Seq(Transactions)
           /\ Len(store') = Len(store) + 1 /\ Len(store) \in Nat
           /\ \A op \in 1 .. Len(store) :
                 ~Unfinished(store[op]) /\ store'[op] = store[op]
           /\ \/ store'[Len(store')] = job.mem
              \/ store'[Len(store')] = LeftOf(job.mem, "backups")
           /\ \/ /\ job' = [job EXCEPT !.at = "begin", !.op = Len(store')]
                 /\ store'[Len(store')] = job.mem
              \/ job' = IdleJob
<1>1. job.at = "create" /\ disk' = disk /\ journal' = journal /\ recovery' = recovery
  BY DEF CreateManifest
<1>2. PICK o : /\ store' = Append(store, LeftOf(job.mem, IF Takes(o) THEN "manifest"
                                                                       ELSE "backups"))
               /\ IF o = "ok" THEN job' = [job EXCEPT !.at = "begin", !.op = Len(store) + 1]
                              ELSE Exit
  BY DEF CreateManifest
<1>3. /\ job \in Jobs /\ job.mem \in Transactions /\ job.mem.remains = "manifest"
      /\ recovery = NoRecord /\ store \in Seq(Transactions) /\ Len(store) \in Nat
      /\ \A op \in 1 .. Len(store) : ~Unfinished(store[op])
  BY <1>1 DEF StoreInv, StoreOK, JobOK, StartLabels
<1> DEFINE n == LeftOf(job.mem, IF Takes(o) THEN "manifest" ELSE "backups")
<1>4. n \in Transactions /\ (Takes(o) => n = job.mem) /\ (~Takes(o) => n = LeftOf(job.mem, "backups"))
  <2>1. CASE Takes(o)
    BY <1>3, <2>1, LeftOfFacts
  <2>2. CASE ~Takes(o)
    BY <1>3, <2>2, LeftOfFacts
  <2>3. QED
    BY <2>1, <2>2
<1> HIDE DEF n
<1>5. store' = Append(store, n)
  BY <1>2 DEF n
<1>6. /\ store' \in Seq(Transactions) /\ Len(store') = Len(store) + 1
      /\ store'[Len(store')] = n
      /\ \A op \in 1 .. Len(store) : store'[op] = store[op]
  BY <1>3, <1>4, <1>5
<1>7. QED
  BY <1>1, <1>2, <1>3, <1>4, <1>6 DEF Takes, Exit

LEMMA CreateStore ==
    ASSUME StoreInv, CreateManifest
    PROVE  StoreInv'
<1>1. /\ disk' = disk /\ journal' = journal /\ recovery' = NoRecord /\ recovery = NoRecord
      /\ job.at = "create" /\ job \in Jobs
      /\ job.mem \in Transactions /\ job.mem.remains = "manifest"
      /\ store' \in Seq(Transactions) /\ Len(store') = Len(store) + 1 /\ Len(store) \in Nat
      /\ \A op \in 1 .. Len(store) : ~Unfinished(store'[op])
  BY CreateFacts
<1>2. \/ /\ job' = [job EXCEPT !.at = "begin", !.op = Len(store')]
         /\ store'[Len(store')] = job.mem
      \/ job' = IdleJob
  BY CreateFacts
<1>3. StoreOK(disk', journal', store', recovery')
  BY <1>1 DEF StoreInv, StoreOK
<1>4. CASE job' = IdleJob
  BY <1>1, <1>3, <1>4, IdleOK DEF StoreInv
<1>5. CASE /\ job' = [job EXCEPT !.at = "begin", !.op = Len(store')]
           /\ store'[Len(store')] = job.mem
  <2>0. Len(store') \in Nat /\ Len(store') > 0
    BY <1>1
  <2>1. job' \in Jobs /\ job'.at = "begin" /\ job'.op = Len(store') /\ job'.mem = job.mem
    <3> DEFINE n == Len(store')
    <3>1. n \in Nat /\ job' = [job EXCEPT !.at = "begin", !.op = n] /\ job \in Jobs
      BY <1>1, <1>5, <2>0
    <3> HIDE DEF n
    <3>2. job' \in Jobs /\ job'.at = "begin" /\ job'.op = n /\ job'.mem = job.mem
      BY <3>1 DEF Jobs, Labels
    <3>3. QED
      BY <3>2 DEF n
  <2>2. Listed(job.mem) # {}
    BY <1>1 DEF StoreInv, JobOK, StartLabels
  <2>3. JobOK(job', store', recovery')
    BY <1>1, <1>5, <2>0, <2>1, <2>2, JobGoesOn DEF StartLabels, RecoverLabels
  <2>4. QED
    BY <1>3, <2>3 DEF StoreInv
<1>6. QED
  BY <1>2, <1>4, <1>5

(* An item is written, or written back; the manifest is left alone.        *)
LEMMA WriteStore ==
    ASSUME StoreInv, WriteTarget
    PROVE  StoreInv'
<1> USE DEF StartLabels, RecoverLabels
<1>1. job.at = "write" /\ store' = store /\ recovery' = recovery
  BY DEF WriteTarget
<1>2. PICK o : /\ WriteItem(job.item, Written(job.mem, job.item), o)
               /\ job' = IF o = "ok" THEN Advance(job, job.item)
                                     ELSE [job EXCEPT !.at = "undo"]
  BY DEF WriteTarget
<1>3. job.item \in Listed(job.mem) /\ job.item \in Items
  BY <1>1, JobAtWork, TransactionFacts DEF StoreInv, JobOK
<1>4. Fits(job.item, Written(job.mem, job.item))
  BY <1>1, <1>3, JobAtWork, WrittenFits
<1>5. disk' \in Disks /\ journal' \in Archives
  BY <1>2, <1>3, <1>4, WriteItemOK DEF StoreInv, StoreOK
<1>6. JobOK(job', store, recovery)
  <2> DEFINE jb == Advance(job, job.item)
  <2>1. /\ jb \in Jobs /\ jb.mem = job.mem /\ jb.op = job.op
        /\ \/ /\ jb.at = "finish" /\ jb.item = job.item
              /\ \A k \in Listed(job.mem) : k <= job.item
           \/ jb.at = "intend" /\ jb.item \in Listed(job.mem)
    BY <1>1, <1>3, JobAtWork, AdvanceFacts, ItemFacts
  <2> HIDE DEF jb
  <2>2. JobOK(jb, store, recovery)
    BY <1>1, <1>3, <2>1, JobAtWork, JobGoesOn
  <2> DEFINE jb2 == [job EXCEPT !.at = "undo"]
  <2>3. jb2 \in Jobs /\ jb2.mem = job.mem /\ jb2.op = job.op /\ jb2.at = "undo"
        /\ jb2.item = job.item
    BY <1>1, JobAtWork DEF Jobs, Labels
  <2> HIDE DEF jb2
  <2>4. JobOK(jb2, store, recovery)
    BY <1>1, <1>3, <2>3, JobAtWork, JobGoesOn
  <2>5. QED
    BY <1>2, <2>2, <2>4 DEF jb, jb2
<1>7. QED
  BY <1>1, <1>5, <1>6 DEF StoreInv, StoreOK

LEMMA UndoStore ==
    ASSUME StoreInv, Undo
    PROVE  StoreInv'
<1> USE DEF StartLabels, RecoverLabels
<1>1. job.at = "undo" /\ store' = store /\ recovery' = recovery
  BY DEF Undo
<1>2. PICK o : /\ WriteItem(job.item, job.mem.before[job.item], o)
               /\ job' = Retreat([job EXCEPT !.failed = @ \/ o # "ok"], job.item)
  BY DEF Undo
<1>3. job.item \in Listed(job.mem) /\ job.item \in Items
  BY <1>1, JobAtWork, TransactionFacts DEF StoreInv, JobOK
<1>4. Fits(job.item, job.mem.before[job.item])
  BY <1>1, <1>3, JobAtWork, TransactionFacts, DiskFits
<1>5. disk' \in Disks /\ journal' \in Archives
  BY <1>2, <1>3, <1>4, WriteItemOK DEF StoreInv, StoreOK
<1>6. JobOK(job', store, recovery)
  <2> DEFINE failed == job.failed \/ o # "ok"
             jb == [job EXCEPT !.failed = failed]
             jb2 == Retreat(jb, job.item)
  <2>1. failed \in BOOLEAN
    OBVIOUS
  <2> HIDE DEF failed
  <2>2. jb \in Jobs /\ jb.mem = job.mem /\ jb.op = job.op
    BY <1>1, <2>1, JobAtWork DEF Jobs
  <2> HIDE DEF jb
  <2>3. /\ jb2 \in Jobs /\ jb2.mem = job.mem /\ jb2.op = job.op
        /\ \/ jb2.at \in {"flagFiles", "unmark"}
           \/ jb2.at = "undo" /\ jb2.item \in Listed(job.mem)
    BY <1>1, <1>3, <2>2, JobAtWork, RetreatFacts, ItemFacts
  <2> HIDE DEF jb2
  <2>4. JobOK(jb2, store, recovery)
    BY <1>1, <1>3, <2>3, JobAtWork, JobGoesOn
  <2>5. QED
    BY <1>2, <2>4 DEF jb, jb2, failed
<1>7. QED
  BY <1>1, <1>5, <1>6 DEF StoreInv, StoreOK

LEMMA DiscardFacts ==
    ASSUME StoreInv, Discard
    PROVE  /\ disk' = disk /\ journal' = journal /\ recovery' = recovery /\ job' = IdleJob
           /\ job.at = "discard" /\ job.mem \in Transactions /\ Len(store) \in Nat
           /\ Len(store) > 0 /\ Len(store') = Len(store) /\ store' \in Seq(Transactions)
           /\ \A op \in 1 .. Len(store) : op # Len(store) => store'[op] = store[op]
           /\ store'[Len(store)].source = job.mem.source
           /\ store'[Len(store)].incoming = job.mem.incoming
           /\ store'[Len(store)].state = job.mem.state
<1>1. /\ job.at = "discard" /\ disk' = disk /\ journal' = journal /\ recovery' = recovery
      /\ job' = IdleJob
  BY DEF Discard, Exit
<1>2. PICK o \in Outcomes(RemovalFaults) :
        store' = [store EXCEPT ![job.op] = LeftOf(job.mem, Remains(o))]
  BY DEF Discard
<1>3. Remains(o) \in {"manifest", "backups", "none"}
  BY OutcomeFacts, FaultsAssumption
<1>4. /\ job.mem \in Transactions /\ store \in Seq(Transactions)
      /\ job.op = Len(store) /\ Len(store) > 0 /\ Len(store) \in Nat
  BY <1>1, JobAtWork DEF StartLabels
<1> DEFINE n == LeftOf(job.mem, Remains(o))
<1>5. /\ n \in Transactions /\ n.source = job.mem.source /\ n.incoming = job.mem.incoming
      /\ n.state = job.mem.state
  BY <1>3, <1>4, LeftOfFacts
<1> HIDE DEF n
<1>6. store' = [store EXCEPT ![Len(store)] = n]
  BY <1>2, <1>4 DEF n
<1>7. QED
  BY <1>1, <1>4, <1>5, <1>6

LEMMA DiscardStore ==
    ASSUME StoreInv, Discard
    PROVE  StoreInv'
<1>1. recovery = NoRecord
  BY DEF StoreInv, JobOK, Discard
<1>2. StoreOK(disk', journal', store', recovery')
  BY <1>1, DiscardFacts DEF StoreInv, StoreOK
<1>3. JobOK(job', store', recovery')
  BY DiscardFacts, IdleOK
<1>4. QED
  BY <1>2, <1>3 DEF StoreInv

LEMMA GateFacts ==
    ASSUME StoreInv, GateIncomplete
    PROVE  /\ UNCHANGED <<disk, journal, store, recovery>>
           /\ recovery = NoRecord /\ Len(store) > 0 /\ store[Len(store)] \in Transactions
           /\ Unfinished(store[Len(store)])
           /\ job' \in Jobs /\ job'.at = "flagFiles" /\ job'.op = Len(store)
           /\ job'.mem = store[Len(store)]
<1>1. UNCHANGED <<disk, journal, store, recovery>> /\ recovery = NoRecord
  BY DEF GateIncomplete
<1>2. PICK op \in Incomplete :
        job' = [IdleJob EXCEPT !.at = "flagFiles", !.op = op, !.mem = store[op]]
  BY DEF GateIncomplete
<1>3. store \in Seq(Transactions) /\ op \in 1 .. Len(store) /\ Unfinished(store[op])
  BY <1>2 DEF Incomplete, Unfinished, StoreInv, StoreOK
<1>4. op = Len(store) /\ Len(store) > 0 /\ Len(store) \in Nat
  BY <1>3 DEF StoreInv, StoreOK
<1>5. store[op] \in Transactions
  BY <1>3
<1>6. job' = [at |-> "flagFiles", op |-> op, mem |-> store[op], item |-> 0, approved |-> {},
              failed |-> FALSE, todo |-> {}]
  BY <1>2 DEF IdleJob
<1>7. job' \in Jobs
  BY <1>4, <1>5, <1>6, ItemFacts DEF Jobs, Labels
<1>8. QED
  BY <1>1, <1>3, <1>4, <1>5, <1>6, <1>7

LEMMA GateStore ==
    ASSUME StoreInv, GateIncomplete
    PROVE  StoreInv'
<1>1. JobOK(job', store, recovery)
  BY GateFacts, JobGoesOn DEF StoreInv, StoreOK, Unfinished, StartLabels, RecoverLabels
<1>2. QED
  BY <1>1, GateFacts DEF StoreInv

LEMMA FlagRecordStore ==
    ASSUME StoreInv, FlagRecord
    PROVE  StoreInv'
<1>1. job.at = "flagRecord" /\ UNCHANGED <<disk, journal, store>> /\ job' = IdleJob
      /\ recovery' \in {job.op, recovery}
  BY DEF FlagRecord, Exit
<1>2. /\ job.op = Len(store) /\ Len(store) > 0 /\ Len(store) \in Nat
      /\ store[Len(store)].remains = "manifest"
  BY <1>1, JobAtWork DEF StartLabels
<1>3. JobOK(job', store', recovery')
  BY <1>1, IdleOK DEF StoreInv, StoreOK
<1>4. QED
  BY <1>1, <1>2, <1>3 DEF StoreInv, StoreOK

(* What recover has in hand: the recorded operation and what is to be      *)
(* restored.                                                               *)
LEMMA StartRecoverFacts ==
    ASSUME StoreInv, StartRecover
    PROVE  /\ UNCHANGED <<disk, journal, store, recovery>>
           /\ recovery # NoRecord /\ recovery = Len(store) /\ Len(store) > 0
           /\ store[Len(store)] \in Transactions
           /\ store[Len(store)].remains = "manifest"
           /\ job' \in Jobs /\ job'.op = Len(store) /\ job'.mem = store[Len(store)]
           /\ job'.todo = {i \in Listed(store[Len(store)]) :
                             store[Len(store)].files[i] \in {"MODIFIED", "RECOVERY_REQUIRED"}}
           /\ \/ job'.at = "restore" /\ job'.todo # {}
              \/ job'.at = "settleFiles" /\ job'.todo = {}
<1>1. UNCHANGED <<disk, journal, store, recovery>> /\ recovery # NoRecord
  BY DEF StartRecover
<1>2. /\ recovery = Len(store) /\ Len(store) > 0 /\ store \in Seq(Transactions)
      /\ Len(store) \in Nat /\ store[Len(store)].remains = "manifest"
  BY <1>1 DEF StoreInv, StoreOK, NoRecord
<1>3. store[Len(store)] \in Transactions
  BY <1>2
<1> DEFINE m == store[Len(store)]
           todo == {i \in Listed(m) : m.files[i] \in {"MODIFIED", "RECOVERY_REQUIRED"}}
<1>4. job' = [IdleJob EXCEPT !.at = IF todo = {} THEN "settleFiles" ELSE "restore",
                             !.op = Len(store), !.mem = m, !.todo = todo]
  BY <1>2 DEF StartRecover
<1>5. todo \subseteq Items
  BY <1>3, TransactionFacts
<1> HIDE DEF m, todo
<1>6. job' = [at |-> IF todo = {} THEN "settleFiles" ELSE "restore", op |-> Len(store),
              mem |-> m, item |-> 0, approved |-> {}, failed |-> FALSE, todo |-> todo]
  BY <1>4 DEF IdleJob
<1>7. job' \in Jobs
  BY <1>2, <1>3, <1>5, <1>6, ItemFacts DEF Jobs, Labels, m
<1>8. /\ job'.op = Len(store) /\ job'.mem = m /\ job'.todo = todo
      /\ job'.at = IF todo = {} THEN "settleFiles" ELSE "restore"
  BY <1>6
<1>9. QED
  BY <1>1, <1>2, <1>3, <1>7, <1>8 DEF m, todo

LEMMA StartRecoverStore ==
    ASSUME StoreInv, StartRecover
    PROVE  StoreInv'
<1>1. job'.todo \subseteq Listed(job'.mem)
  BY StartRecoverFacts
<1>2. JobOK(job', store, recovery)
  BY <1>1, StartRecoverFacts, JobGoesOn DEF StoreInv, StoreOK, StartLabels, RecoverLabels
<1>3. QED
  BY <1>2, StartRecoverFacts DEF StoreInv

LEMMA RestoreFacts ==
    ASSUME StoreInv, Restore
    PROVE  /\ job.at = "restore" /\ UNCHANGED <<journal, store, recovery>>
           /\ \E i \in job.todo :
                 /\ i \in Listed(job.mem)
                 /\ disk' \in {disk, [disk EXCEPT ![i] = job.mem.before[i]]}
                 /\ \/ job' = IdleJob
                    \/ /\ disk' = [disk EXCEPT ![i] = job.mem.before[i]]
                       /\ job' \in Jobs /\ job'.mem = job.mem /\ job'.op = job.op
                       /\ job'.todo = job.todo \ {i}
                       /\ \/ job'.at = "restore" /\ job'.todo # {}
                          \/ job'.at = "settleFiles" /\ job'.todo = {}
<1>1. job.at = "restore" /\ UNCHANGED <<journal, store, recovery>>
  BY DEF Restore
<1>2. PICK i \in job.todo, o \in Outcomes(TargetFaults) :
        /\ disk' = IF Takes(o) THEN [disk EXCEPT ![i] = job.mem.before[i]] ELSE disk
        /\ IF o # "ok" THEN Exit
           ELSE job' = [job EXCEPT !.todo = @ \ {i},
                                   !.at = IF job.todo = {i} THEN "settleFiles" ELSE @]
  BY DEF Restore
<1>3. job \in Jobs /\ i \in Listed(job.mem)
  BY <1>1, JobAtWork DEF StoreInv, JobOK, StartLabels
<1> DEFINE label == IF job.todo = {i} THEN "settleFiles" ELSE "restore"
<1>4. ASSUME o = "ok"
      PROVE  /\ disk' = [disk EXCEPT ![i] = job.mem.before[i]]
             /\ job' \in Jobs /\ job'.mem = job.mem /\ job'.op = job.op
             /\ job'.todo = job.todo \ {i} /\ job'.at = label
  <2>1. job' = [job EXCEPT !.todo = job.todo \ {i}, !.at = label]
    BY <1>1, <1>2, <1>4
  <2>2. label \in Labels /\ job.todo \ {i} \subseteq Items
    BY <1>3 DEF Labels, Jobs
  <2> HIDE DEF label
  <2>3. QED
    BY <1>2, <1>3, <1>4, <2>1, <2>2 DEF Jobs, Takes
<1>5. disk' \in {disk, [disk EXCEPT ![i] = job.mem.before[i]]}
  BY <1>2
<1>6. CASE o = "ok"
  BY <1>1, <1>3, <1>4, <1>5, <1>6
<1>7. CASE o # "ok"
  BY <1>1, <1>2, <1>3, <1>5, <1>7 DEF Exit
<1>8. QED
  BY <1>6, <1>7

LEMMA RestoreStore ==
    ASSUME StoreInv, Restore
    PROVE  StoreInv'
<1>1. job.at = "restore" /\ UNCHANGED <<journal, store, recovery>>
  BY RestoreFacts
<1>2. PICK i \in job.todo :
        /\ i \in Listed(job.mem)
        /\ disk' \in {disk, [disk EXCEPT ![i] = job.mem.before[i]]}
        /\ \/ job' = IdleJob
           \/ /\ job' \in Jobs /\ job'.mem = job.mem /\ job'.op = job.op
              /\ job'.todo = job.todo \ {i}
              /\ \/ job'.at = "restore" /\ job'.todo # {}
                 \/ job'.at = "settleFiles" /\ job'.todo = {}
  BY RestoreFacts
<1>3. /\ job.mem \in Transactions /\ i \in Items /\ job.todo \subseteq Listed(job.mem)
      /\ disk \in Disks
  BY <1>1, <1>2, JobAtWork, TransactionFacts DEF StoreInv, StoreOK, JobOK, StartLabels
<1>4. disk' \in Disks
  <2>1. Fits(i, job.mem.before[i])
    BY <1>3, TransactionFacts, DiskFits
  <2>2. [disk EXCEPT ![i] = job.mem.before[i]] \in Disks
    BY <1>3, <2>1, DiskUpdate
  <2>3. QED
    BY <1>2, <1>3, <2>2
<1>5. JobOK(job', store, recovery)
  <2>1. CASE job' = IdleJob
    BY <2>1, IdleOK DEF StoreInv, StoreOK
  <2>2. CASE /\ job' \in Jobs /\ job'.mem = job.mem /\ job'.op = job.op
             /\ job'.todo = job.todo \ {i}
             /\ \/ job'.at = "restore" /\ job'.todo # {}
                \/ job'.at = "settleFiles" /\ job'.todo = {}
    BY <1>1, <1>3, <2>2, JobAtWork, JobGoesOn DEF StartLabels, RecoverLabels
  <2>3. QED
    BY <1>2, <2>1, <2>2
<1>6. QED
  BY <1>1, <1>4, <1>5 DEF StoreInv, StoreOK

LEMMA ClearStore ==
    ASSUME StoreInv, ClearRecord
    PROVE  StoreInv'
<1>1. UNCHANGED <<disk, journal, store>> /\ recovery' = NoRecord /\ job' = IdleJob
  BY DEF ClearRecord, Exit
<1>2. JobOK(job', store', recovery')
  BY <1>1, IdleOK DEF StoreInv, StoreOK
<1>3. QED
  BY <1>1, <1>2 DEF StoreInv, StoreOK, NoRecord

LEMMA EnvironmentFacts ==
    ASSUME StoreInv, Environment
    PROVE  /\ Untouched /\ UNCHANGED <<store, recovery, job>>
           /\ disk' \in Disks /\ journal' \in Archives
           /\ \/ disk' = disk
              \/ \E p \in Paths, content \in Contents : disk' = [disk EXCEPT ![p] = content]
              \/ \E forgotten \in SUBSET Sources :
                    disk' = [disk EXCEPT ![StateItem] =
                       [s \in Sources |-> IF s \in forgotten THEN Nothing
                                                            ELSE disk[StateItem][s]]]
<1> USE DEF StoreInv, StoreOK
<1>1. Absent \in Contents /\ Database \subseteq Paths /\ Values \subseteq Contents
  BY PathsAssumption DEF Contents
<1>2. ASSUME NEW p \in Paths, NEW content \in Contents, EditFile(p, content)
      PROVE  /\ Untouched /\ UNCHANGED <<store, recovery, job>>
             /\ disk' \in Disks /\ journal' \in Archives
             /\ disk' = [disk EXCEPT ![p] = content]
  <2>1. disk' \in Disks
    BY <1>2, DiskUpdate, ItemFacts DEF EditFile, Fits
  <2>2. journal' \in Archives
    BY <1>1, <1>2 DEF EditFile, Archives
  <2>3. QED
    BY <1>2, <2>1, <2>2 DEF EditFile
<1>3. ASSUME NEW p \in Database, NEW content \in Values, EditJournal(p, content)
      PROVE  /\ Untouched /\ UNCHANGED <<disk, store, recovery, job>>
             /\ journal' \in Archives
  <2>1. journal' \in Archives
    BY <1>1, <1>3 DEF EditJournal, Archives
  <2>2. QED
    BY <1>3, <2>1 DEF EditJournal
<1>4. ASSUME NEW forgotten \in SUBSET Sources, ForgetBaselines(forgotten)
      PROVE  /\ Untouched /\ UNCHANGED <<journal, store, recovery, job>>
             /\ disk' \in Disks
             /\ disk' = [disk EXCEPT ![StateItem] =
                  [s \in Sources |-> IF s \in forgotten THEN Nothing
                                                       ELSE disk[StateItem][s]]]
  <2> DEFINE kept == [s \in Sources |-> IF s \in forgotten THEN Nothing
                                                          ELSE disk[StateItem][s]]
  <2>1. disk' = [disk EXCEPT ![StateItem] = kept]
    BY <1>4 DEF ForgetBaselines
  <2>2. kept \in [Sources -> Archives]
    BY DiskFacts, NothingType
  <2>3. Fits(StateItem, kept)
    <3> HIDE DEF kept
    <3> QED BY <2>2, ItemFacts DEF Fits
  <2>4. disk' \in Disks
    <3> HIDE DEF kept
    <3> QED BY <2>1, <2>3, DiskUpdate, ItemFacts
  <2>5. QED
    BY <1>4, <2>1, <2>4 DEF ForgetBaselines
<1>5. CASE \E p \in Paths, content \in Contents : EditFile(p, content)
  BY <1>2, <1>5
<1>6. CASE \E p \in Database, content \in Values : EditJournal(p, content)
  BY <1>3, <1>6
<1>7. CASE \E forgotten \in SUBSET Sources : ForgetBaselines(forgotten)
  BY <1>4, <1>7
<1>8. QED
  BY <1>5, <1>6, <1>7 DEF Environment

LEMMA EnvironmentStore ==
    ASSUME StoreInv, Environment
    PROVE  StoreInv'
<1>1. UNCHANGED <<store, recovery, job>> /\ disk' \in Disks /\ journal' \in Archives
  BY EnvironmentFacts
<1>2. QED
  BY <1>1 DEF StoreInv, StoreOK

LEMMA CrashStore ==
    ASSUME StoreInv, Crash
    PROVE  StoreInv'
<1>1. UNCHANGED <<disk, journal, store, recovery>> /\ job' = IdleJob
  BY DEF Crash, Exit
<1>2. JobOK(job', store, recovery)
  BY <1>1, IdleOK DEF StoreInv, StoreOK
<1>3. QED
  BY <1>1, <1>2 DEF StoreInv

LEMMA InitStore ==
    ASSUME Init
    PROVE  StoreInv
<1>1. /\ store = <<>> /\ recovery = 0 /\ job = IdleJob /\ journal = Nothing
      /\ store \in Seq(Transactions)
  BY DEF Init, NoRecord
<1>2. disk \in Disks
  BY DiskMade, NothingType DEF Init
<1>3. JobOK(job, store, recovery)
  BY <1>1, IdleOK
<1>4. Len(store) = 0 /\ 1 .. Len(store) = {}
  BY <1>1
<1>5. StoreOK(disk, journal, store, recovery)
  BY <1>1, <1>2, <1>4, NothingType DEF StoreOK, NoRecord
<1>6. QED
  BY <1>3, <1>5 DEF StoreInv

(* The transaction directories are in order, whatever fails.               *)
LEMMA StoreStepOK ==
    ASSUME StoreInv, [Next]_vars
    PROVE  StoreInv'
<1>1. CASE UNCHANGED vars
  BY <1>1, Same DEF vars
<1>2. ASSUME NEW source \in Sources, NEW archive \in Archives, NEW approved \in Approvals,
             StartImport(source, archive, approved)
      PROVE  StoreInv'
  BY <1>2, StartStore
<1>3. CASE Import
  BY <1>2, <1>3, PruneStore, CreateStore, BeginStore, IntendStore, WriteStore, FinishStore,
     DiscardStore, UndoStore, UnmarkStore, SettleStore DEF Import
<1>4. CASE Recover
  BY <1>4, GateStore, FlagFilesStore, FlagOperationStore, FlagRecordStore,
     StartRecoverStore, RestoreStore, SettleFilesStore, SettleOperationStore, ClearStore
     DEF Recover
<1>5. CASE Environment
  BY <1>5, EnvironmentStore
<1>6. CASE Crash
  BY <1>6, CrashStore
<1>7. QED
  BY <1>1, <1>3, <1>4, <1>5, <1>6 DEF Next

(* Every command that runs has the newest transaction in hand, which alone *)
(* may be unfinished or recorded.                                          *)
THEOREM StoreInvariant == Spec => []StoreInv
<1>1. Init => StoreInv
  BY InitStore
<1>2. StoreInv /\ [Next]_vars => StoreInv'
  BY StoreStepOK
<1>3. QED
  BY <1>1, <1>2, PTL DEF Spec

(* TypeOK: every variable keeps its type.                                  *)
THEOREM TypeCorrect == Spec => []TypeOK
<1>1. StoreInv => TypeOK
  <2>1. SUFFICES ASSUME StoreInv PROVE TypeOK
    OBVIOUS
  <2>2. \A op \in 1 .. Len(store) : store[op] \in Transactions
    BY <2>1 DEF StoreInv, StoreOK
  <2>3. /\ job.at \in Labels /\ job.op \in 0 .. Len(store) /\ job.item \in 0 .. StateItem
        /\ job.todo \subseteq Items
    BY <2>1, JobFacts DEF StoreInv, JobOK
  <2>4. QED
    BY <2>1, <2>2, <2>3, TransactionFacts DEF TypeOK, StoreInv, StoreOK
<1>2. QED
  BY <1>1, StoreInvariant, PTL

(* RecordHasPayload: pruning never takes what recover will ask for.        *)
THEOREM RecordHasPayloadHolds == Spec => []RecordHasPayload
<1>1. StoreInv => RecordHasPayload
  BY DEF StoreInv, StoreOK, RecordHasPayload
<1>2. QED
  BY <1>1, StoreInvariant, PTL

-----------------------------------------------------------------------------
(* The last committed import of a source.                                  *)

CommittedFrom(ms, s) ==
    {op \in 1 .. Len(ms) : ms[op].source = s /\ ms[op].state = "COMMITTED"}

LEMMA LastIs ==
    ASSUME NEW ms, Len(ms) \in Nat, NEW s, CommittedFrom(ms, s) # {}
    PROVE  \E op \in CommittedFrom(ms, s) :
              /\ op = CHOOSE n \in CommittedFrom(ms, s) :
                        \A k \in CommittedFrom(ms, s) : k <= n
              /\ \A k \in CommittedFrom(ms, s) : k <= op
              /\ LastOf(ms, s) = ms[op].incoming
<1> DEFINE C == CommittedFrom(ms, s)
           op == CHOOSE n \in C : \A k \in C : k <= n
<1>1. C \subseteq 0 .. Len(ms) /\ C # {}
  BY DEF CommittedFrom
<1>2. op \in C /\ \A k \in C : k <= op
  <2> HIDE DEF C
  <2> QED BY <1>1, Greatest
<1>3. LastOf(ms, s) = ms[op].incoming
  BY <1>1 DEF LastOf, CommittedFrom
<1>4. QED
  BY <1>2, <1>3

(* It is decided by the committed transactions of that source alone.       *)
LEMMA LastAgrees ==
    ASSUME NEW ms, NEW ms2, Len(ms) \in Nat, Len(ms2) \in Nat, NEW s,
           CommittedFrom(ms2, s) = CommittedFrom(ms, s),
           \A op \in CommittedFrom(ms, s) : ms2[op].incoming = ms[op].incoming
    PROVE  LastOf(ms2, s) = LastOf(ms, s)
<1>1. CASE CommittedFrom(ms, s) = {}
  BY <1>1 DEF LastOf, CommittedFrom
<1>2. CASE CommittedFrom(ms, s) # {}
  <2>1. PICK op \in CommittedFrom(ms, s) :
          /\ op = CHOOSE n \in CommittedFrom(ms, s) :
                    \A k \in CommittedFrom(ms, s) : k <= n
          /\ LastOf(ms, s) = ms[op].incoming
    BY <1>2, LastIs
  <2>2. PICK op2 \in CommittedFrom(ms2, s) :
          /\ op2 = CHOOSE n \in CommittedFrom(ms2, s) :
                     \A k \in CommittedFrom(ms2, s) : k <= n
          /\ LastOf(ms2, s) = ms2[op2].incoming
    BY <1>2, LastIs
  <2>3. op2 = op
    BY <2>1, <2>2
  <2>4. QED
    BY <2>1, <2>2, <2>3
<1>3. QED
  BY <1>1, <1>2

(* The newest transaction was not and is not committed, or is no other     *)
(* than it was: nothing changes.                                           *)
LEMMA LastKept ==
    ASSUME NEW ms, NEW ms2, Len(ms) \in Nat, Len(ms2) = Len(ms),
           \A op \in 1 .. Len(ms) :
              /\ ms2[op].source = ms[op].source
              /\ ms2[op].incoming = ms[op].incoming
              /\ ms2[op].state = "COMMITTED" <=> ms[op].state = "COMMITTED"
    PROVE  \A s : LastOf(ms2, s) = LastOf(ms, s)
<1>1. SUFFICES ASSUME NEW s PROVE LastOf(ms2, s) = LastOf(ms, s)
  OBVIOUS
<1>2. CommittedFrom(ms2, s) = CommittedFrom(ms, s)
  BY DEF CommittedFrom
<1>3. \A op \in CommittedFrom(ms, s) : ms2[op].incoming = ms[op].incoming
  BY DEF CommittedFrom
<1>4. QED
  BY <1>2, <1>3, LastAgrees

LEMMA LastAppended ==
    ASSUME NEW ms, NEW ms2, Len(ms) \in Nat, Len(ms2) = Len(ms) + 1,
           \A op \in 1 .. Len(ms) : ms2[op] = ms[op],
           ms2[Len(ms2)].state # "COMMITTED"
    PROVE  \A s : LastOf(ms2, s) = LastOf(ms, s)
<1>1. SUFFICES ASSUME NEW s PROVE LastOf(ms2, s) = LastOf(ms, s)
  OBVIOUS
<1>2. CommittedFrom(ms2, s) = CommittedFrom(ms, s)
  <2>1. \A op : op \in 1 .. Len(ms2) <=> op \in 1 .. Len(ms) \/ op = Len(ms2)
    OBVIOUS
  <2>2. QED
    BY <2>1 DEF CommittedFrom
<1>3. \A op \in CommittedFrom(ms, s) : ms2[op].incoming = ms[op].incoming
  BY DEF CommittedFrom
<1>4. Len(ms2) \in Nat
  OBVIOUS
<1>5. QED
  BY <1>2, <1>3, <1>4, LastAgrees

(* The newest transaction becomes committed.                               *)
LEMMA LastCommitted ==
    ASSUME NEW ms, NEW ms2, Len(ms) \in Nat, Len(ms) > 0, Len(ms2) = Len(ms),
           \A op \in 1 .. Len(ms) : op # Len(ms) => ms2[op] = ms[op],
           ms[Len(ms)].state # "COMMITTED",
           ms2[Len(ms)].state = "COMMITTED"
    PROVE  \A s : LastOf(ms2, s) = IF s = ms2[Len(ms)].source THEN ms2[Len(ms)].incoming
                                                              ELSE LastOf(ms, s)
<1>1. SUFFICES ASSUME NEW s
               PROVE  LastOf(ms2, s) = IF s = ms2[Len(ms)].source
                                       THEN ms2[Len(ms)].incoming ELSE LastOf(ms, s)
  OBVIOUS
<1>2. CASE s = ms2[Len(ms)].source
  <2>1. Len(ms) \in CommittedFrom(ms2, s) /\ CommittedFrom(ms2, s) \subseteq 1 .. Len(ms)
    BY <1>2 DEF CommittedFrom
  <2>2. PICK op \in CommittedFrom(ms2, s) :
          /\ \A k \in CommittedFrom(ms2, s) : k <= op
          /\ LastOf(ms2, s) = ms2[op].incoming
    BY <2>1, LastIs
  <2>3. op = Len(ms)
    BY <2>1, <2>2
  <2>4. QED
    BY <1>2, <2>2, <2>3
<1>3. CASE s # ms2[Len(ms)].source
  <2>1. CommittedFrom(ms2, s) = CommittedFrom(ms, s)
    BY <1>3 DEF CommittedFrom
  <2>2. \A op \in CommittedFrom(ms, s) : ms2[op].incoming = ms[op].incoming
    BY DEF CommittedFrom
  <2>3. QED
    BY <1>3, <2>1, <2>2, LastAgrees
<1>4. QED
  BY <1>2, <1>3

-----------------------------------------------------------------------------
(* The transaction and the files.                                          *)

LEMMA SameWrites ==
    ASSUME NEW m, NEW n, SameOperation(m, n)
    PROVE  /\ \A i : Written(m, i) = Written(n, i)
           /\ ListsChanges(m) <=> ListsChanges(n)
           /\ \A image : AllKept(image, m) <=> AllKept(image, n)
<1>1. \A i : Written(m, i) = Written(n, i)
  BY DEF SameOperation, Written
<1>2. QED
  BY <1>1 DEF SameOperation, ListsChanges, AllKept

LEMMA IdleProgress ==
    ASSUME NEW image, NEW ms, NEW rec
    PROVE  Progress(IdleJob, image, ms, rec)
<1>1. IdleJob.at = "idle"
  BY DEF IdleJob
<1>2. QED
  BY <1>1 DEF Progress, StartLabels, CommitLabels, UndoLabels, FlagLabels, RecoverLabels

(* The operation stays unfinished and only files it lists were written.    *)
LEMMA DurableWhileOpen ==
    ASSUME NEW image, NEW ms \in Seq(Transactions), NEW rec, Durable(image, ms, rec),
           Len(ms) > 0, Unfinished(ms[Len(ms)]),
           NEW image2, NEW ms2 \in Seq(Transactions), Len(ms2) = Len(ms),
           \A op \in 1 .. Len(ms) : op # Len(ms) => ms2[op] = ms[op],
           SameOperation(ms2[Len(ms)], ms[Len(ms)]), Unfinished(ms2[Len(ms)]),
           \A i \in Items \ Listed(ms[Len(ms)]) : image2[i] = image[i],
           rec # NoRecord =>
              \A i \in Listed(ms2[Len(ms)]) :
                  \/ ms2[Len(ms)].files[i] \in {"MODIFIED", "RECOVERY_REQUIRED"}
                  \/ image2[i] = ms2[Len(ms)].before[i]
    PROVE  Durable(image2, ms2, rec) /\ \A s : LastOf(ms2, s) = LastOf(ms, s)
<1> DEFINE m == ms[Len(ms)]
           m2 == ms2[Len(ms)]
<1>1. \A s : LastOf(ms2, s) = LastOf(ms, s)
  <2>1. Len(ms) \in Nat
    OBVIOUS
  <2>2. m.state # "COMMITTED" /\ m2.state # "COMMITTED"
    BY DEF Unfinished, Finalized
  <2>3. m2.source = m.source /\ m2.incoming = m.incoming
    BY DEF SameOperation
  <2>4. \A op \in 1 .. Len(ms) :
          /\ ms2[op].source = ms[op].source
          /\ ms2[op].incoming = ms[op].incoming
          /\ ms2[op].state = "COMMITTED" <=> ms[op].state = "COMMITTED"
    BY <2>2, <2>3
  <2>5. QED
    BY <2>1, <2>4, LastKept
<1>2. m.state # "COMMITTED" /\ m2.state # "COMMITTED" /\ ~Finalized(m2)
  BY DEF Unfinished, Finalized
<1>3. m2.before = m.before /\ Listed(m2) = Listed(m)
  BY DEF SameOperation
<1>4. Open(m, rec) /\ Open(m2, rec)
  BY DEF Open
<1>5. /\ Truthful(m2.before[StateItem], ms2)
      /\ \A i \in Items \ Listed(m2) : image2[i] = m2.before[i]
  BY <1>1, <1>3, <1>4 DEF Durable, Truthful
<1> HIDE DEF m, m2
<1>6. QED
  BY <1>1, <1>2, <1>4, <1>5 DEF Durable, m, m2

(* Every file is as the operation found it: it may be settled, or stay.    *)
LEMMA DurableWhenKept ==
    ASSUME NEW image, NEW ms \in Seq(Transactions), NEW rec, Durable(image, ms, rec),
           Len(ms) > 0, Open(ms[Len(ms)], rec), AllKept(image, ms[Len(ms)]),
           NEW ms2 \in Seq(Transactions), Len(ms2) = Len(ms), NEW rec2,
           \A op \in 1 .. Len(ms) : op # Len(ms) => ms2[op] = ms[op],
           SameOperation(ms2[Len(ms)], ms[Len(ms)]), ms2[Len(ms)].state # "COMMITTED"
    PROVE  Durable(image, ms2, rec2) /\ \A s : LastOf(ms2, s) = LastOf(ms, s)
<1> DEFINE m == ms[Len(ms)]
           m2 == ms2[Len(ms)]
<1>1. m.state # "COMMITTED" /\ Truthful(m.before[StateItem], ms)
      /\ \A i \in Items \ Listed(m) : image[i] = m.before[i]
  BY DEF Durable
<1>2. \A s : LastOf(ms2, s) = LastOf(ms, s)
  <2>1. Len(ms) \in Nat
    OBVIOUS
  <2>2. m2.source = m.source /\ m2.incoming = m.incoming
    BY DEF SameOperation
  <2>3. \A op \in 1 .. Len(ms) :
          /\ ms2[op].source = ms[op].source
          /\ ms2[op].incoming = ms[op].incoming
          /\ ms2[op].state = "COMMITTED" <=> ms[op].state = "COMMITTED"
    BY <1>1, <2>2
  <2>4. QED
    BY <2>1, <2>3, LastKept
<1>3. m2.before = m.before /\ Listed(m2) = Listed(m)
  BY DEF SameOperation
<1>4. \A i \in Items : image[i] = m2.before[i]
  BY <1>1, <1>3 DEF AllKept
<1>5. Truthful(m2.before[StateItem], ms2) /\ Truthful(image[StateItem], ms2)
  BY <1>1, <1>2, <1>3, <1>4, ItemFacts DEF Truthful
<1>6. Listed(m2) \subseteq Items
  BY DEF Listed
<1> HIDE DEF m, m2
<1>7. QED
  BY <1>2, <1>4, <1>5, <1>6 DEF Durable, m2

-----------------------------------------------------------------------------
(* The files are as the transaction says: one lemma per action.            *)

LEMMA WorkFacts ==
    ASSUME StoreInv, FileInv, job.at \in CommitLabels \cup UndoLabels \cup FlagLabels
    PROVE  /\ job.at \notin {"idle"} \cup StartLabels
           /\ recovery = NoRecord
           /\ Unfinished(store[Len(store)]) /\ Open(store[Len(store)], recovery)
           /\ SameOperation(job.mem, store[Len(store)]) /\ ~Finalized(job.mem)
           /\ Durable(disk, store, recovery)
           /\ \A i \in Items \ Listed(job.mem) : disk[i] = job.mem.before[i]
<1>1. job.at \notin {"idle"} \cup StartLabels
  BY DEF StartLabels, CommitLabels, UndoLabels, FlagLabels
<1>2. recovery = NoRecord
  BY DEF StoreInv, JobOK
<1>3. /\ SameOperation(job.mem, store[Len(store)]) /\ ~Finalized(job.mem)
      /\ ~Finalized(store[Len(store)]) /\ Durable(disk, store, recovery)
  BY DEF FileInv, Progress
<1>4. Unfinished(store[Len(store)]) /\ Len(store) > 0
  BY <1>1, <1>3, JobAtWork DEF Unfinished
<1>5. Open(store[Len(store)], recovery)
  BY <1>4 DEF Open
<1>6. \A i \in Items \ Listed(job.mem) : disk[i] = job.mem.before[i]
  BY <1>3, <1>4, <1>5 DEF Durable, SameOperation
<1>7. QED
  BY <1>1, <1>2, <1>3, <1>4, <1>5, <1>6

(* A write of the manifest that leaves the operation unfinished.           *)
LEMMA Rewrite ==
    ASSUME StoreInv, FileInv, job.at \in CommitLabels \cup UndoLabels \cup FlagLabels,
           NEW m \in Transactions, m.remains = "manifest", SameOperation(m, job.mem),
           ~Finalized(m), NEW o, NEW next, NEW otherwise,
           StoreThen(m, o, next, otherwise), UNCHANGED recovery
    PROVE  /\ Durable(disk', store', recovery')
           /\ \A s : LastOf(store', s) = LastOf(store, s)
           /\ disk' = disk /\ Len(store') = Len(store)
           /\ job' = IF o = "ok" THEN next ELSE otherwise
           /\ store'[Len(store)] = IF Takes(o) THEN m ELSE store[Len(store)]
           /\ SameOperation(job.mem, store'[Len(store)])
           /\ SameOperation(m, store'[Len(store)])
           /\ ~Finalized(store'[Len(store)])
<1>1. /\ job.at \notin {"idle"} \cup StartLabels
      /\ recovery = NoRecord
      /\ Unfinished(store[Len(store)])
      /\ SameOperation(job.mem, store[Len(store)])
      /\ Durable(disk, store, recovery)
  BY WorkFacts
<1>2. /\ StoreOK(disk', journal', store', recovery')
      /\ Len(store') = Len(store) /\ Len(store) > 0
      /\ store'[Len(store)] = IF Takes(o) THEN m ELSE store[Len(store)]
      /\ store'[Len(store)].remains = "manifest"
      /\ \A op \in 1 .. Len(store) : op # Len(store) => store'[op] = store[op]
      /\ disk' = disk
      /\ job' = IF o = "ok" THEN next ELSE otherwise
  BY <1>1, StoreStep
<1>3. store \in Seq(Transactions) /\ store' \in Seq(Transactions)
  BY <1>1, <1>2, JobAtWork DEF StoreOK
<1>4. SameOperation(store'[Len(store)], store[Len(store)])
  BY <1>1, <1>2 DEF SameOperation
<1>5. Unfinished(store'[Len(store)])
  BY <1>1, <1>2 DEF Unfinished
<1>6. Durable(disk, store', recovery) /\ \A s : LastOf(store', s) = LastOf(store, s)
  <2>1. \A i \in Items \ Listed(store[Len(store)]) : disk[i] = disk[i]
    OBVIOUS
  <2>2. recovery # NoRecord =>
           \A i \in Listed(store'[Len(store)]) :
               \/ store'[Len(store)].files[i] \in {"MODIFIED", "RECOVERY_REQUIRED"}
               \/ disk[i] = store'[Len(store)].before[i]
    BY <1>1
  <2> DEFINE ms == store'
  <2>3. /\ ms \in Seq(Transactions) /\ Len(ms) = Len(store) /\ Len(store) > 0
        /\ \A op \in 1 .. Len(store) : op # Len(store) => ms[op] = store[op]
        /\ SameOperation(ms[Len(store)], store[Len(store)]) /\ Unfinished(ms[Len(store)])
    BY <1>2, <1>3, <1>4, <1>5
  <2>4. recovery # NoRecord =>
           \A i \in Listed(ms[Len(store)]) :
               \/ ms[Len(store)].files[i] \in {"MODIFIED", "RECOVERY_REQUIRED"}
               \/ disk[i] = ms[Len(store)].before[i]
    BY <2>2
  <2> HIDE DEF ms
  <2>5. Durable(disk, ms, recovery) /\ \A s : LastOf(ms, s) = LastOf(store, s)
    <3>1. /\ store \in Seq(Transactions) /\ Durable(disk, store, recovery)
          /\ Unfinished(store[Len(store)])
      BY <1>1, <1>3
    <3>2. QED
      BY <2>1, <2>3, <2>4, <3>1, DurableWhileOpen
  <2>6. QED
    BY <2>5 DEF ms
<1>7. SameOperation(job.mem, store'[Len(store)]) /\ SameOperation(m, store'[Len(store)])
  BY <1>1, <1>4 DEF SameOperation
<1>8. QED
  BY <1>1, <1>2, <1>5, <1>6, <1>7 DEF Unfinished

LEMMA BeginFile ==
    ASSUME StoreInv, FileInv, BeginCommit
    PROVE  FileInv'
<1> USE DEF CommitLabels, UndoLabels, FlagLabels
<1>1. job.at = "begin" /\ recovery' = recovery
  BY DEF BeginCommit
<1> DEFINE m == [job.mem EXCEPT !.state = "COMMITTING"]
           jb == With(m, "intend")
           next == Advance(jb, 0)
           otherwise == [job EXCEPT !.at = "unmark"]
<1>2. /\ job \in Jobs /\ job.mem \in Transactions /\ job.mem.remains = "manifest"
  BY <1>1, JobAtWork DEF StartLabels
<1>3. /\ m \in Transactions /\ m.remains = "manifest" /\ SameOperation(m, job.mem)
      /\ ~Finalized(m)
  BY <1>2, StateUpdate DEF OperationStates, Finalized
<1>4. PICK o : StoreThen(m, o, next, otherwise)
  BY DEF BeginCommit
<1>5. otherwise.at = "unmark" /\ otherwise.mem = job.mem
  BY <1>2 DEF Jobs
<1> HIDE DEF m, otherwise
<1>6. jb \in Jobs /\ jb.mem = m /\ jb.approved = job.approved
  BY <1>2, <1>3, WithFacts DEF Labels
<1> HIDE DEF jb
<1>7. \A k \in Listed(m) : k \in Nat /\ k > 0
  BY <1>3, ItemFacts, TransactionFacts
<1>8. Listed(m) # {}
  BY <1>1, <1>3 DEF StoreInv, JobOK, SameOperation
<1>9. /\ next.mem = m /\ next.at = "intend" /\ next.approved = job.approved
      /\ next.item \in Listed(m) /\ \A k \in Listed(m) : k >= next.item
  <2>1. /\ next.mem = m /\ next.approved = job.approved
        /\ \/ next.at = "finish" /\ \A k \in Listed(m) : k <= 0
           \/ /\ next.at = "intend" /\ next.item \in Listed(m)
              /\ \A k \in Listed(m) : k > 0 => k >= next.item
    BY <1>3, <1>6, AdvanceFacts
  <2> HIDE DEF next
  <2>2. QED
    BY <1>7, <1>8, <2>1
<1> HIDE DEF next
<1>10. AllKept(disk, job.mem) /\ ListsChanges(job.mem) /\ Permitted(job, store)
       /\ ~Finalized(job.mem)
  BY <1>1, WorkFacts, SameWrites DEF FileInv, Progress
<1>11. /\ Durable(disk', store', recovery')
       /\ \A s : LastOf(store', s) = LastOf(store, s)
       /\ disk' = disk /\ Len(store') = Len(store)
       /\ job' = IF o = "ok" THEN next ELSE otherwise
       /\ SameOperation(job.mem, store'[Len(store)])
       /\ SameOperation(m, store'[Len(store)])
       /\ ~Finalized(store'[Len(store)])
  BY <1>1, <1>3, <1>4, Rewrite
<1>12. CASE o = "ok"
  <2>1. ListsChanges(m) /\ AllKept(disk, m)
    BY <1>3, <1>10, SameWrites
  <2>2. Permitted(next, store')
    BY <1>3, <1>9, <1>10, <1>11 DEF Permitted, SameOperation
  <2>3. GivenUpTo(disk, m, next.item) /\ KeptFrom(disk, m, next.item)
    <3>1. \A k \in Listed(m) : ~(k < next.item)
      BY <1>7, <1>9
    <3>2. QED
      BY <2>1, <3>1 DEF GivenUpTo, KeptFrom, AllKept
  <2>4. Progress(next, disk, store', recovery')
    BY <1>3, <1>9, <1>11, <2>1, <2>2, <2>3 DEF Progress, StartLabels, RecoverLabels
  <2>5. QED
    BY <1>11, <1>12, <2>4 DEF FileInv
<1>13. CASE o # "ok"
  <2>1. Progress(otherwise, disk, store', recovery')
    BY <1>5, <1>10, <1>11 DEF Progress, StartLabels, RecoverLabels
  <2>2. QED
    BY <1>11, <1>13, <2>1 DEF FileInv
<1>14. QED
  BY <1>12, <1>13

LEMMA IntendFile ==
    ASSUME StoreInv, FileInv, Intend
    PROVE  FileInv'
<1> USE DEF CommitLabels, UndoLabels, FlagLabels
<1>1. job.at = "intend" /\ recovery' = recovery
  BY DEF Intend
<1>2. /\ job \in Jobs /\ job.mem \in Transactions /\ job.mem.remains = "manifest"
      /\ job.item \in Listed(job.mem)
  BY <1>1, JobAtWork DEF StartLabels, StoreInv, JobOK
<1> DEFINE m == UpdateFileState(job.mem, job.item, "MODIFIED")
           next == With(m, "write")
           otherwise == [job EXCEPT !.at = "undo"]
<1>3. /\ ListsChanges(job.mem) /\ Permitted(job, store) /\ ~Finalized(job.mem)
      /\ GivenUpTo(disk, job.mem, job.item) /\ KeptFrom(disk, job.mem, job.item)
  BY <1>1 DEF FileInv, Progress
<1>4. /\ m \in Transactions /\ m.remains = "manifest" /\ SameOperation(m, job.mem)
      /\ ~Finalized(m)
  BY <1>2, <1>3, FileUpdate DEF Finalized
<1>5. PICK o : StoreThen(m, o, next, otherwise)
  BY DEF Intend
<1>6. otherwise.at = "undo" /\ otherwise.mem = job.mem /\ otherwise.item = job.item
  BY <1>2 DEF Jobs
<1> HIDE DEF m, otherwise
<1>7. /\ next.mem = m /\ next.at = "write" /\ next.approved = job.approved
      /\ next.item = job.item
  BY <1>2, <1>4, WithFacts DEF Labels
<1> HIDE DEF next
<1>8. /\ Durable(disk', store', recovery')
      /\ \A s : LastOf(store', s) = LastOf(store, s)
      /\ disk' = disk /\ Len(store') = Len(store)
      /\ job' = IF o = "ok" THEN next ELSE otherwise
      /\ SameOperation(job.mem, store'[Len(store)])
      /\ SameOperation(m, store'[Len(store)])
      /\ ~Finalized(store'[Len(store)])
  BY <1>1, <1>4, <1>5, Rewrite
<1>9. CASE o = "ok"
  <2>1. ListsChanges(m)
    BY <1>3, <1>4, SameWrites
  <2>2. Permitted(next, store')
    BY <1>3, <1>4, <1>7, <1>8 DEF Permitted, SameOperation
  <2>3. GivenUpTo(disk, m, job.item) /\ KeptFrom(disk, m, job.item)
    BY <1>3, <1>4, SameWrites DEF GivenUpTo, KeptFrom, SameOperation
  <2>4. Progress(next, disk, store', recovery')
    BY <1>4, <1>7, <1>8, <2>1, <2>2, <2>3 DEF Progress, StartLabels, RecoverLabels
  <2>5. QED
    BY <1>8, <1>9, <2>4 DEF FileInv
<1>10. CASE o # "ok"
  <2>1. KeptFrom(disk, job.mem, job.item + 1)
    <3>1. \A k \in Listed(job.mem) : k >= job.item + 1 => k >= job.item
      <4>1. job.item \in Nat /\ \A k \in Listed(job.mem) : k \in Nat
        BY <1>2, ListedFacts
      <4>2. QED
        BY <4>1
    <3>2. QED
      BY <1>3, <3>1 DEF KeptFrom
  <2>2. Progress(otherwise, disk, store', recovery')
    BY <1>3, <1>6, <1>8, <2>1 DEF Progress, StartLabels, RecoverLabels
  <2>3. QED
    BY <1>8, <1>10, <2>2 DEF FileInv
<1>11. QED
  BY <1>9, <1>10

LEMMA WriteFile ==
    ASSUME StoreInv, FileInv, WriteTarget
    PROVE  FileInv'
<1> USE DEF CommitLabels, UndoLabels, FlagLabels
<1>1. job.at = "write" /\ store' = store /\ recovery' = recovery
  BY DEF WriteTarget
<1>2. PICK o : /\ WriteItem(job.item, Written(job.mem, job.item), o)
               /\ job' = IF o = "ok" THEN Advance(job, job.item)
                                     ELSE [job EXCEPT !.at = "undo"]
  BY DEF WriteTarget
<1> DEFINE m == job.mem
           i == job.item
           next == Advance(job, i)
           otherwise == [job EXCEPT !.at = "undo"]
<1>3. /\ job \in Jobs /\ m \in Transactions /\ i \in Listed(m) /\ i \in Items
      /\ disk \in Disks
      /\ store \in Seq(Transactions) /\ Len(store) > 0
  BY <1>1, JobAtWork, TransactionFacts DEF StartLabels, StoreInv, StoreOK, JobOK
<1>4. \A k \in Listed(m) : k \in Nat
  BY <1>3, ListedFacts
<1>5. /\ ListsChanges(m) /\ Permitted(job, store) /\ ~Finalized(m)
      /\ GivenUpTo(disk, m, i) /\ KeptFrom(disk, m, i)
  BY <1>1 DEF FileInv, Progress
<1>6. /\ recovery = NoRecord /\ Unfinished(store[Len(store)])
      /\ SameOperation(m, store[Len(store)]) /\ Durable(disk, store, recovery)
  BY <1>1, WorkFacts
<1>7. disk' = IF Takes(o) THEN [disk EXCEPT ![i] = Written(m, i)] ELSE disk
  BY <1>2 DEF WriteItem
<1>8. \A k : k # i => disk'[k] = disk[k]
  BY <1>3, <1>7 DEF Disks
<1>9. Takes(o) => disk'[i] = Written(m, i)
  BY <1>3, <1>7 DEF Disks
<1>10. Durable(disk', store, recovery)
  <2>1. \A k \in Items \ Listed(store[Len(store)]) : disk'[k] = disk[k]
    BY <1>3, <1>6, <1>8 DEF SameOperation
  <2>2. SameOperation(store[Len(store)], store[Len(store)])
    BY DEF SameOperation
  <2> DEFINE image == disk'
  <2> HIDE DEF image
  <2>3. \A k \in Items \ Listed(store[Len(store)]) : image[k] = disk[k]
    BY <2>1 DEF image
  <2>4. Durable(image, store, recovery)
    BY <1>3, <1>6, <2>2, <2>3, DurableWhileOpen
  <2>5. QED
    BY <2>4 DEF image
<1>11. CASE o = "ok"
  <2>1. /\ next.mem = m /\ next.approved = job.approved
        /\ \/ next.at = "finish" /\ \A k \in Listed(m) : k <= i
           \/ /\ next.at = "intend" /\ next.item \in Listed(m) /\ next.item > i
              /\ \A k \in Listed(m) : k > i => k >= next.item
    BY <1>3, <1>4, AdvanceFacts
  <2> HIDE DEF next
  <2>2. Permitted(next, store)
    BY <1>5, <2>1 DEF Permitted
  <2>3. \A k \in Listed(m) : k <= i => disk'[k] = Written(m, k)
    <3>1. SUFFICES ASSUME NEW k \in Listed(m), k <= i PROVE disk'[k] = Written(m, k)
      OBVIOUS
    <3>2. CASE k = i
      BY <1>9, <1>11, <3>2 DEF Takes
    <3>3. CASE k # i
      <4>1. k < i
        BY <1>3, <1>4, <3>1, <3>3
      <4>2. QED
        BY <1>5, <1>8, <3>1, <3>3, <4>1 DEF GivenUpTo
    <3>4. QED
      BY <3>2, <3>3
  <2>4. \A k \in Listed(m) : k > i => disk'[k] = m.before[k]
    <3>1. SUFFICES ASSUME NEW k \in Listed(m), k > i PROVE disk'[k] = m.before[k]
      OBVIOUS
    <3>2. k # i /\ k >= i
      BY <1>3, <1>4, <3>1
    <3>3. QED
      BY <1>5, <1>8, <3>1, <3>2 DEF KeptFrom
  <2>5. CASE next.at = "finish" /\ \A k \in Listed(m) : k <= i
    <3>1. AllGiven(disk', m)
      BY <2>3, <2>5 DEF AllGiven
    <3> HIDE DEF m, i
    <3>2. Progress(next, disk', store, recovery)
      BY <1>5, <1>6, <2>1, <2>2, <2>5, <3>1
         DEF Progress, StartLabels, RecoverLabels, Unfinished
    <3>3. QED
      BY <1>1, <1>2, <1>10, <1>11, <3>2 DEF FileInv, next, i
  <2>6. CASE /\ next.at = "intend" /\ next.item \in Listed(m) /\ next.item > i
             /\ \A k \in Listed(m) : k > i => k >= next.item
    <3>1. \A k \in Listed(m) : k < next.item => k <= i
      BY <1>3, <1>4, <2>6
    <3>2. \A k \in Listed(m) : k >= next.item => k > i
      BY <1>3, <1>4, <2>6
    <3>3. GivenUpTo(disk', m, next.item) /\ KeptFrom(disk', m, next.item)
      BY <2>3, <2>4, <3>1, <3>2 DEF GivenUpTo, KeptFrom
    <3> HIDE DEF m, i
    <3>4. Progress(next, disk', store, recovery)
      BY <1>5, <1>6, <2>1, <2>2, <2>6, <3>3
         DEF Progress, StartLabels, RecoverLabels, Unfinished
    <3>5. QED
      BY <1>1, <1>2, <1>10, <1>11, <3>4 DEF FileInv, next, i
  <2>7. QED
    BY <2>1, <2>5, <2>6
<1>12. CASE o # "ok"
  <2>1. otherwise.at = "undo" /\ otherwise.mem = m /\ otherwise.item = i
    BY <1>3 DEF Jobs
  <2> HIDE DEF otherwise
  <2>2. KeptFrom(disk', m, i + 1)
    <3>1. SUFFICES ASSUME NEW k \in Listed(m), k >= i + 1 PROVE disk'[k] = m.before[k]
      BY DEF KeptFrom
    <3>2. k # i /\ k >= i
      BY <1>3, <1>4, <3>1
    <3>3. QED
      BY <1>5, <1>8, <3>1, <3>2 DEF KeptFrom
  <2> HIDE DEF m, i
  <2>3. Progress(otherwise, disk', store, recovery)
    BY <1>5, <1>6, <2>1, <2>2 DEF Progress, StartLabels, RecoverLabels, Unfinished
  <2>4. QED
    BY <1>1, <1>2, <1>10, <1>12, <2>3 DEF FileInv, otherwise
<1>13. QED
  BY <1>11, <1>12

LEMMA UndoFile ==
    ASSUME StoreInv, FileInv, Undo
    PROVE  FileInv'
<1> USE DEF CommitLabels, UndoLabels, FlagLabels
<1>1. job.at = "undo" /\ store' = store /\ recovery' = recovery
  BY DEF Undo
<1>2. PICK o : /\ WriteItem(job.item, job.mem.before[job.item], o)
               /\ job' = Retreat([job EXCEPT !.failed = @ \/ o # "ok"], job.item)
  BY DEF Undo
<1> DEFINE m == job.mem
           i == job.item
           failed == job.failed \/ o # "ok"
           jb == [job EXCEPT !.failed = failed]
           next == Retreat(jb, i)
<1>3. /\ job \in Jobs /\ m \in Transactions /\ i \in Listed(m) /\ i \in Items
      /\ disk \in Disks
      /\ store \in Seq(Transactions) /\ Len(store) > 0
  BY <1>1, JobAtWork, TransactionFacts DEF StartLabels, StoreInv, StoreOK, JobOK
<1>4. \A k \in Listed(m) : k \in Nat
  BY <1>3, ListedFacts
<1>5. ~Finalized(m) /\ (~job.failed => KeptFrom(disk, m, i + 1))
  BY <1>1 DEF FileInv, Progress
<1>6. /\ recovery = NoRecord /\ Unfinished(store[Len(store)])
      /\ SameOperation(m, store[Len(store)]) /\ Durable(disk, store, recovery)
  BY <1>1, WorkFacts
<1>7. disk' = IF Takes(o) THEN [disk EXCEPT ![i] = m.before[i]] ELSE disk
  BY <1>2 DEF WriteItem
<1>8. \A k : k # i => disk'[k] = disk[k]
  BY <1>3, <1>7 DEF Disks
<1>9. o = "ok" => disk'[i] = m.before[i]
  BY <1>3, <1>7 DEF Disks, Takes
<1>10. Durable(disk', store, recovery)
  <2>1. \A k \in Items \ Listed(store[Len(store)]) : disk'[k] = disk[k]
    BY <1>3, <1>6, <1>8 DEF SameOperation
  <2>2. SameOperation(store[Len(store)], store[Len(store)])
    BY DEF SameOperation
  <2> DEFINE image == disk'
  <2> HIDE DEF image
  <2>3. \A k \in Items \ Listed(store[Len(store)]) : image[k] = disk[k]
    BY <2>1 DEF image
  <2>4. Durable(image, store, recovery)
    BY <1>3, <1>6, <2>2, <2>3, DurableWhileOpen
  <2>5. QED
    BY <2>4 DEF image
<1>11. failed \in BOOLEAN
  OBVIOUS
<1>12. ~failed => \A k \in Listed(m) : k >= i => disk'[k] = m.before[k]
  <2>1. SUFFICES ASSUME ~failed, NEW k \in Listed(m), k >= i PROVE disk'[k] = m.before[k]
    OBVIOUS
  <2>2. CASE k = i
    BY <1>9, <2>1, <2>2
  <2>3. CASE k # i
    <3>1. k >= i + 1
      BY <1>3, <1>4, <2>1, <2>3
    <3>2. QED
      BY <1>5, <1>8, <2>1, <2>3, <3>1 DEF KeptFrom
  <2>4. QED
    BY <2>2, <2>3
<1> HIDE DEF failed
<1>13. jb \in Jobs /\ jb.mem = m /\ jb.failed = failed
  BY <1>3, <1>11 DEF Jobs
<1> HIDE DEF jb
<1>14. /\ next.mem = m /\ next.failed = failed
       /\ \/ /\ next.at = IF failed THEN "flagFiles" ELSE "unmark"
             /\ \A k \in Listed(m) : k >= i
          \/ /\ next.at = "undo" /\ next.item \in Listed(m) /\ next.item < i
             /\ \A k \in Listed(m) : k < i => k <= next.item
  BY <1>3, <1>4, <1>13, RetreatFacts
<1> HIDE DEF next
<1>15. job' = next
  BY <1>2 DEF next, jb, failed
<1>16. CASE /\ next.at = IF failed THEN "flagFiles" ELSE "unmark"
            /\ \A k \in Listed(m) : k >= i
  <2>1. ~failed => AllKept(disk', m)
    BY <1>12, <1>16 DEF AllKept
  <2> HIDE DEF m, i
  <2>2. Progress(next, disk', store, recovery)
    BY <1>5, <1>6, <1>14, <1>16, <2>1 DEF Progress, StartLabels, RecoverLabels, Unfinished
  <2>3. QED
    BY <1>1, <1>10, <1>15, <2>2 DEF FileInv
<1>17. CASE /\ next.at = "undo" /\ next.item \in Listed(m) /\ next.item < i
            /\ \A k \in Listed(m) : k < i => k <= next.item
  <2>1. \A k \in Listed(m) : k >= next.item + 1 => k >= i
    BY <1>3, <1>4, <1>17
  <2>2. ~failed => KeptFrom(disk', m, next.item + 1)
    BY <1>12, <2>1 DEF KeptFrom
  <2> HIDE DEF m, i
  <2>3. Progress(next, disk', store, recovery)
    BY <1>5, <1>6, <1>14, <1>17, <2>2 DEF Progress, StartLabels, RecoverLabels, Unfinished
  <2>4. QED
    BY <1>1, <1>10, <1>15, <2>3 DEF FileInv
<1>18. QED
  BY <1>14, <1>16, <1>17

(* A write of the manifest when every file is as the operation found it.   *)
LEMMA Settling ==
    ASSUME StoreInv, FileInv,
           job.at \in {"unmark", "settle", "settleFiles", "settleOperation"},
           NEW m \in Transactions, m.remains = "manifest", SameOperation(m, job.mem),
           m.state # "COMMITTED", NEW o, NEW next, NEW otherwise,
           StoreThen(m, o, next, otherwise), UNCHANGED recovery
    PROVE  /\ Durable(disk', store', recovery')
           /\ disk' = disk /\ Len(store') = Len(store)
           /\ job' = IF o = "ok" THEN next ELSE otherwise
           /\ o = "ok" => store'[Len(store)] = m
           /\ AllKept(disk, m)
           /\ SameOperation(job.mem, store[Len(store)])
<1> USE DEF CommitLabels, UndoLabels, FlagLabels, RecoverLabels
<1>1. AllKept(disk, job.mem) /\ Durable(disk, store, recovery)
  BY DEF FileInv, Progress
<1>2. job.at \notin {"idle"} \cup StartLabels
  BY DEF StartLabels
<1>3. SameOperation(job.mem, store[Len(store)]) /\ Open(store[Len(store)], recovery)
  <2>1. CASE job.at \in {"unmark", "settle"}
    BY <2>1, WorkFacts
  <2>2. CASE job.at \in {"settleFiles", "settleOperation"}
    BY <1>2, <2>2, JobAtWork DEF FileInv, Progress, Open, SameOperation
  <2>3. QED
    BY <2>1, <2>2
<1>4. /\ StoreOK(disk', journal', store', recovery')
      /\ Len(store') = Len(store) /\ Len(store) > 0
      /\ store'[Len(store)] = IF Takes(o) THEN m ELSE store[Len(store)]
      /\ \A op \in 1 .. Len(store) : op # Len(store) => store'[op] = store[op]
      /\ disk' = disk
      /\ job' = IF o = "ok" THEN next ELSE otherwise
  BY <1>2, StoreStep
<1>5. store \in Seq(Transactions) /\ store' \in Seq(Transactions)
  BY <1>2, <1>4, JobAtWork DEF StoreOK
<1>6. AllKept(disk, store[Len(store)]) /\ AllKept(disk, m)
  BY <1>1, <1>3, SameWrites
<1>7. store[Len(store)].state # "COMMITTED"
  BY <1>1, <1>3, <1>4 DEF Durable
<1>8. SameOperation(store'[Len(store)], store[Len(store)]) /\ store'[Len(store)].state # "COMMITTED"
  BY <1>3, <1>4, <1>7 DEF SameOperation
<1>9. Durable(disk, store', recovery)
  <2> DEFINE ms == store'
  <2>1. /\ ms \in Seq(Transactions) /\ Len(ms) = Len(store) /\ Len(store) > 0
        /\ \A op \in 1 .. Len(store) : op # Len(store) => ms[op] = store[op]
        /\ SameOperation(ms[Len(store)], store[Len(store)])
        /\ ms[Len(store)].state # "COMMITTED"
    BY <1>4, <1>5, <1>8
  <2> HIDE DEF ms
  <2>2. Durable(disk, ms, recovery)
    BY <1>1, <1>3, <1>5, <1>6, <2>1, DurableWhenKept
  <2>3. QED
    BY <2>2 DEF ms
<1>10. QED
  BY <1>3, <1>4, <1>6, <1>9 DEF Takes

LEMMA UnmarkFile ==
    ASSUME StoreInv, FileInv, Unmark
    PROVE  FileInv'
<1> USE DEF CommitLabels, UndoLabels, FlagLabels
<1>1. job.at = "unmark" /\ recovery' = recovery
  BY DEF Unmark
<1> DEFINE m == UpdateAllFileStates(job.mem, "ROLLED_BACK")
           next == With(m, "settle")
<1>2. job \in Jobs /\ job.mem \in Transactions /\ job.mem.remains = "manifest"
  BY <1>1, JobAtWork DEF StartLabels
<1>3. ~Finalized(job.mem) /\ AllKept(disk, job.mem)
  BY <1>1 DEF FileInv, Progress
<1>4. /\ m \in Transactions /\ m.remains = "manifest" /\ SameOperation(m, job.mem)
      /\ ~Finalized(m)
  BY <1>2, <1>3, AllFilesUpdate DEF Finalized, FileStates
<1>5. PICK o : StoreThen(m, o, next, IdleJob)
  BY DEF Unmark
<1> HIDE DEF m
<1>6. next.mem = m /\ next.at = "settle"
  BY <1>2, <1>4, WithFacts DEF Labels
<1> HIDE DEF next
<1>7. /\ Durable(disk', store', recovery')
      /\ disk' = disk /\ Len(store') = Len(store)
      /\ job' = IF o = "ok" THEN next ELSE IdleJob
      /\ SameOperation(m, store'[Len(store)])
      /\ ~Finalized(store'[Len(store)])
  BY <1>1, <1>4, <1>5, Rewrite
<1>8. AllKept(disk, m)
  BY <1>3, <1>4, SameWrites
<1>9. Progress(next, disk, store', recovery')
  BY <1>4, <1>6, <1>7, <1>8 DEF Progress, StartLabels, RecoverLabels
<1>10. QED
  BY <1>7, <1>9, IdleProgress DEF FileInv

LEMMA SettleFile ==
    ASSUME StoreInv, FileInv, Settle
    PROVE  FileInv'
<1>1. job.at = "settle" /\ recovery' = recovery
  BY DEF Settle
<1> DEFINE m == [job.mem EXCEPT !.state = "ROLLED_BACK"]
<1>2. job.mem \in Transactions /\ job.mem.remains = "manifest"
  BY <1>1, JobAtWork DEF StartLabels
<1>3. /\ m \in Transactions /\ m.remains = "manifest" /\ SameOperation(m, job.mem)
      /\ m.state = "ROLLED_BACK"
  BY <1>2, StateUpdate DEF OperationStates
<1>4. PICK o : StoreThen(m, o, IdleJob, IdleJob)
  BY DEF Settle
<1> HIDE DEF m
<1>5. Durable(disk', store', recovery') /\ job' = IdleJob
  BY <1>1, <1>3, <1>4, Settling
<1>6. QED
  BY <1>5, IdleProgress DEF FileInv

LEMMA SettleFilesFile ==
    ASSUME StoreInv, FileInv, SettleFiles
    PROVE  FileInv'
<1> USE DEF RecoverLabels
<1>1. job.at = "settleFiles" /\ recovery' = recovery
  BY DEF SettleFiles
<1> DEFINE m == UpdateAllFileStates(job.mem, "ROLLED_BACK")
           next == With(m, "settleOperation")
<1>2. job \in Jobs /\ job.mem \in Transactions /\ job.mem.remains = "manifest"
      /\ recovery # NoRecord /\ Len(store) > 0
  BY <1>1, JobAtWork DEF StartLabels
<1>3. job.mem.state # "COMMITTED"
  BY <1>1, <1>2 DEF FileInv, Progress, Durable, Open
<1>4. /\ m \in Transactions /\ m.remains = "manifest" /\ SameOperation(m, job.mem)
      /\ m.state # "COMMITTED"
  BY <1>2, <1>3, AllFilesUpdate DEF FileStates
<1>5. PICK o : StoreThen(m, o, next, IdleJob)
  BY DEF SettleFiles
<1> HIDE DEF m
<1>6. next.mem = m /\ next.at = "settleOperation"
  BY <1>2, <1>4, WithFacts DEF Labels
<1> HIDE DEF next
<1>7. /\ Durable(disk', store', recovery') /\ disk' = disk
      /\ job' = IF o = "ok" THEN next ELSE IdleJob
      /\ Len(store') = Len(store) /\ (o = "ok" => store'[Len(store)] = m)
      /\ AllKept(disk, m)
  BY <1>1, <1>4, <1>5, Settling
<1>8. o = "ok" => Progress(next, disk, store', recovery')
  BY <1>6, <1>7 DEF Progress, StartLabels, CommitLabels, UndoLabels, FlagLabels
<1>9. QED
  BY <1>7, <1>8, IdleProgress DEF FileInv

LEMMA SettleOperationFile ==
    ASSUME StoreInv, FileInv, SettleOperation
    PROVE  FileInv'
<1> USE DEF RecoverLabels
<1>1. job.at = "settleOperation" /\ recovery' = recovery
  BY DEF SettleOperation
<1> DEFINE m == [job.mem EXCEPT !.state = "ROLLED_BACK"]
           next == With(m, "clear")
<1>2. job \in Jobs /\ job.mem \in Transactions /\ job.mem.remains = "manifest"
  BY <1>1, JobAtWork DEF StartLabels
<1>3. /\ m \in Transactions /\ m.remains = "manifest" /\ SameOperation(m, job.mem)
      /\ m.state = "ROLLED_BACK"
  BY <1>2, StateUpdate DEF OperationStates
<1>4. PICK o : StoreThen(m, o, next, IdleJob)
  BY DEF SettleOperation
<1> HIDE DEF m
<1>5. next.mem = m /\ next.at = "clear"
  BY <1>2, <1>3, WithFacts DEF Labels
<1> HIDE DEF next
<1>6. /\ Durable(disk', store', recovery') /\ disk' = disk
      /\ job' = IF o = "ok" THEN next ELSE IdleJob
      /\ Len(store') = Len(store) /\ (o = "ok" => store'[Len(store)] = m)
      /\ AllKept(disk, m)
  BY <1>1, <1>3, <1>4, Settling
<1>7. o = "ok" => Progress(next, disk, store', recovery')
  BY <1>3, <1>5, <1>6
     DEF Progress, StartLabels, CommitLabels, UndoLabels, FlagLabels, Finalized
<1>8. QED
  BY <1>6, <1>7, IdleProgress DEF FileInv

LEMMA ClearFile ==
    ASSUME StoreInv, FileInv, ClearRecord
    PROVE  FileInv'
<1> USE DEF RecoverLabels
<1>1. job.at = "clear" /\ UNCHANGED <<disk, store>> /\ recovery' = NoRecord /\ job' = IdleJob
  BY DEF ClearRecord, Exit
<1>2. /\ Durable(disk, store, recovery) /\ AllKept(disk, store[Len(store)])
      /\ recovery # NoRecord /\ store \in Seq(Transactions) /\ Len(store) > 0
  BY <1>1, JobAtWork DEF FileInv, Progress, StartLabels
<1>3. Open(store[Len(store)], recovery) /\ store[Len(store)].state # "COMMITTED"
  BY <1>2 DEF Durable, Open
<1>4. SameOperation(store[Len(store)], store[Len(store)])
  BY DEF SameOperation
<1>5. Durable(disk, store, NoRecord)
  BY <1>2, <1>3, <1>4, DurableWhenKept
<1>6. QED
  BY <1>1, <1>5, IdleProgress DEF FileInv

LEMMA FlagFilesFile ==
    ASSUME StoreInv, FileInv, FlagFiles
    PROVE  FileInv'
<1> USE DEF CommitLabels, UndoLabels, FlagLabels
<1>1. job.at = "flagFiles" /\ recovery' = recovery
  BY DEF FlagFiles
<1> DEFINE m == UpdateAllFileStates(job.mem, "RECOVERY_REQUIRED")
           next == With(m, "flagOperation")
<1>2. job \in Jobs /\ job.mem \in Transactions /\ job.mem.remains = "manifest"
  BY <1>1, JobAtWork DEF StartLabels
<1>3. ~Finalized(job.mem)
  BY <1>1 DEF FileInv, Progress
<1>4. /\ m \in Transactions /\ m.remains = "manifest" /\ SameOperation(m, job.mem)
      /\ ~Finalized(m) /\ \A i \in Listed(m) : m.files[i] = "RECOVERY_REQUIRED"
  BY <1>2, <1>3, AllFilesUpdate DEF Finalized, FileStates
<1>5. PICK o : StoreThen(m, o, next, IdleJob)
  BY DEF FlagFiles
<1> HIDE DEF m
<1>6. next.mem = m /\ next.at = "flagOperation"
  BY <1>2, <1>4, WithFacts DEF Labels
<1> HIDE DEF next
<1>7. /\ Durable(disk', store', recovery')
      /\ disk' = disk /\ Len(store') = Len(store)
      /\ job' = IF o = "ok" THEN next ELSE IdleJob
      /\ store'[Len(store)] = IF Takes(o) THEN m ELSE store[Len(store)]
      /\ SameOperation(m, store'[Len(store)])
      /\ ~Finalized(store'[Len(store)])
  BY <1>1, <1>4, <1>5, Rewrite
<1>8. o = "ok" => Progress(next, disk, store', recovery')
  BY <1>4, <1>6, <1>7 DEF Progress, StartLabels, RecoverLabels, Takes
<1>9. QED
  BY <1>7, <1>8, IdleProgress DEF FileInv

LEMMA FlagOperationFile ==
    ASSUME StoreInv, FileInv, FlagOperation
    PROVE  FileInv'
<1> USE DEF CommitLabels, UndoLabels, FlagLabels
<1>1. job.at = "flagOperation" /\ recovery' = recovery
  BY DEF FlagOperation
<1> DEFINE m == [job.mem EXCEPT !.state = "RECOVERY_REQUIRED"]
           next == With(m, "flagRecord")
<1>2. job \in Jobs /\ job.mem \in Transactions /\ job.mem.remains = "manifest"
  BY <1>1, JobAtWork DEF StartLabels
<1>3. \A i \in Listed(job.mem) : job.mem.files[i] = "RECOVERY_REQUIRED"
  BY <1>1 DEF FileInv, Progress
<1>4. /\ m \in Transactions /\ m.remains = "manifest" /\ SameOperation(m, job.mem)
      /\ ~Finalized(m) /\ m.files = job.mem.files
  BY <1>2, StateUpdate DEF Finalized, OperationStates
<1>5. PICK o : StoreThen(m, o, next, IdleJob)
  BY DEF FlagOperation
<1> HIDE DEF m
<1>6. next.mem = m /\ next.at = "flagRecord"
  BY <1>2, <1>4, WithFacts DEF Labels
<1> HIDE DEF next
<1>7. /\ Durable(disk', store', recovery')
      /\ disk' = disk /\ Len(store') = Len(store)
      /\ job' = IF o = "ok" THEN next ELSE IdleJob
      /\ store'[Len(store)] = IF Takes(o) THEN m ELSE store[Len(store)]
      /\ SameOperation(m, store'[Len(store)])
      /\ ~Finalized(store'[Len(store)])
  BY <1>1, <1>4, <1>5, Rewrite
<1>8. \A i \in Listed(m) : m.files[i] = "RECOVERY_REQUIRED"
  BY <1>3, <1>4 DEF SameOperation
<1>9. o = "ok" => Progress(next, disk, store', recovery')
  BY <1>4, <1>6, <1>7, <1>8 DEF Progress, StartLabels, RecoverLabels, Takes
<1>10. QED
  BY <1>7, <1>9, IdleProgress DEF FileInv

LEMMA FlagRecordFile ==
    ASSUME StoreInv, FileInv, FlagRecord
    PROVE  FileInv'
<1> USE DEF CommitLabels, UndoLabels, FlagLabels
<1>1. /\ job.at = "flagRecord" /\ UNCHANGED <<disk, store>> /\ job' = IdleJob
      /\ recovery' \in {job.op, recovery}
  BY DEF FlagRecord, Exit
<1>2. /\ Durable(disk, store, recovery) /\ Unfinished(store[Len(store)])
      /\ Open(store[Len(store)], recovery)
  BY <1>1, WorkFacts
<1>3. \A i \in Listed(store[Len(store)]) : store[Len(store)].files[i] = "RECOVERY_REQUIRED"
  BY <1>1 DEF FileInv, Progress
<1>4. Open(store[Len(store)], recovery') /\ Len(store) > 0
  BY <1>1, <1>2, JobAtWork DEF Open, StartLabels
<1>5. Durable(disk, store, recovery')
  BY <1>2, <1>3, <1>4 DEF Durable, Unfinished
<1>6. QED
  BY <1>1, <1>5, IdleProgress DEF FileInv

LEMMA GateFile ==
    ASSUME StoreInv, FileInv, GateIncomplete
    PROVE  FileInv'
<1>1. /\ disk' = disk /\ store' = store /\ recovery' = recovery
      /\ Unfinished(store[Len(store)])
      /\ job'.at = "flagFiles" /\ job'.mem = store[Len(store)]
  BY GateFacts
<1>2. SameOperation(store[Len(store)], store[Len(store)])
  BY DEF SameOperation
<1>3. Progress(job', disk, store, recovery)
  BY <1>1, <1>2 DEF Progress, Unfinished, StartLabels, CommitLabels, UndoLabels, FlagLabels,
                    RecoverLabels
<1>4. QED
  BY <1>1, <1>3 DEF FileInv

LEMMA StartRecoverFile ==
    ASSUME StoreInv, FileInv, StartRecover
    PROVE  FileInv'
<1> DEFINE m == store[Len(store)]
<1>1. /\ disk' = disk /\ store' = store /\ recovery' = recovery /\ recovery # NoRecord
      /\ job'.mem = m
      /\ job'.todo = {i \in Listed(m) : m.files[i] \in {"MODIFIED", "RECOVERY_REQUIRED"}}
      /\ \/ job'.at = "restore" /\ job'.todo # {}
         \/ job'.at = "settleFiles" /\ job'.todo = {}
  BY StartRecoverFacts
<1>2. \A i \in Listed(m) \ job'.todo : disk[i] = m.before[i]
  BY <1>1 DEF FileInv, Durable
<1> HIDE DEF m
<1>3. job'.at = "settleFiles" => AllKept(disk, m)
  BY <1>1, <1>2 DEF AllKept
<1>4. Progress(job', disk, store, recovery)
  BY <1>1, <1>2, <1>3 DEF Progress, StartLabels, CommitLabels, UndoLabels, FlagLabels,
                          RecoverLabels, m
<1>5. QED
  BY <1>1, <1>4 DEF FileInv

LEMMA RestoreFile ==
    ASSUME StoreInv, FileInv, Restore
    PROVE  FileInv'
<1> DEFINE m == store[Len(store)]
<1>1. job.at = "restore" /\ store' = store /\ recovery' = recovery
  BY RestoreFacts
<1>2. /\ recovery # NoRecord /\ Len(store) > 0 /\ job.mem = m /\ disk \in Disks
      /\ Durable(disk, store, recovery)
      /\ \A k \in Listed(m) \ job.todo : disk[k] = m.before[k]
  BY <1>1, JobAtWork DEF StoreInv, StoreOK, FileInv, Progress, StartLabels, RecoverLabels
<1>3. PICK i \in job.todo :
        /\ i \in Listed(m)
        /\ disk' \in {disk, [disk EXCEPT ![i] = m.before[i]]}
        /\ \/ job' = IdleJob
           \/ /\ disk' = [disk EXCEPT ![i] = m.before[i]]
              /\ job'.mem = m
              /\ job'.todo = job.todo \ {i}
              /\ \/ job'.at = "restore" /\ job'.todo # {}
                 \/ job'.at = "settleFiles" /\ job'.todo = {}
  BY <1>2, RestoreFacts
<1>4. i \in Items /\ \A k \in Listed(m) : k \in Items
  BY <1>3 DEF Listed
<1>5. \A k \in Items : disk'[k] = disk[k] \/ (k = i /\ disk'[k] = m.before[k])
  <2> HIDE DEF m
  <2>1. DOMAIN disk = Items
    BY <1>2, DiskFacts
  <2>2. CASE disk' = disk
    BY <2>2
  <2>3. CASE disk' = [disk EXCEPT ![i] = m.before[i]]
    BY <1>4, <2>1, <2>3
  <2>4. QED
    BY <1>3, <2>2, <2>3
<1>6. Open(m, recovery)
  BY <1>2 DEF Open
<1>7. /\ Truthful(m.before[StateItem], store) /\ m.state # "COMMITTED"
      /\ \A k \in Items \ Listed(m) : disk'[k] = m.before[k]
      /\ \A k \in Listed(m) :
            \/ m.files[k] \in {"MODIFIED", "RECOVERY_REQUIRED"} /\ ~Finalized(m)
            \/ disk'[k] = m.before[k]
  BY <1>2, <1>4, <1>5, <1>6 DEF Durable
<1> HIDE DEF m
<1>8. Durable(disk', store, recovery)
  BY <1>2, <1>6, <1>7 DEF Durable, m
<1>9. CASE job' = IdleJob
  BY <1>1, <1>8, <1>9, IdleProgress DEF FileInv
<1>10. CASE /\ disk' = [disk EXCEPT ![i] = m.before[i]]
            /\ job'.mem = m
            /\ job'.todo = job.todo \ {i}
            /\ \/ job'.at = "restore" /\ job'.todo # {}
               \/ job'.at = "settleFiles" /\ job'.todo = {}
  <2>1. disk'[i] = m.before[i]
    BY <1>2, <1>4, <1>10 DEF Disks
  <2>2. \A k \in Listed(m) \ job'.todo : disk'[k] = m.before[k]
    BY <1>2, <1>4, <1>5, <1>10, <2>1
  <2>3. job'.at = "settleFiles" => AllKept(disk', m)
    BY <1>10, <2>2 DEF AllKept
  <2>4. Progress(job', disk', store, recovery)
    BY <1>10, <2>2, <2>3 DEF Progress, StartLabels, CommitLabels, UndoLabels, FlagLabels,
                             RecoverLabels, m
  <2>5. QED
    BY <1>1, <1>8, <2>4 DEF FileInv
<1>11. QED
  BY <1>3, <1>9, <1>10

(* The import takes effect: its files have their new content, and the      *)
(* baseline of its source is what it brought.                              *)
LEMMA FinishFile ==
    ASSUME StoreInv, FileInv, CleanCommit, FinishCommit
    PROVE  /\ FileInv'
           /\ disk' = disk /\ Len(store') = Len(store)
           /\ \A op \in 1 .. Len(store) : op # Len(store) => store'[op] = store[op]
           /\ \/ store' = store
              \/ /\ SameOperation(store'[Len(store)], job.mem)
                 /\ store'[Len(store)].state = "COMMITTED"
                 /\ AllGiven(disk, job.mem)
<1> USE DEF CommitLabels, UndoLabels, FlagLabels
<1>1. job.at = "finish" /\ recovery' = recovery
  BY DEF FinishCommit
<1> DEFINE m == [job.mem EXCEPT !.state = "COMMITTED"]
           next == With(m, "discard")
           otherwise == [job EXCEPT !.at = "undo"]
           old == store[Len(store)]
<1>2. /\ job \in Jobs /\ job.mem \in Transactions /\ job.mem.remains = "manifest"
      /\ job.item \in Listed(job.mem) /\ \A k \in Listed(job.mem) : k <= job.item
      /\ store \in Seq(Transactions) /\ Len(store) \in Nat /\ Len(store) > 0
  BY <1>1, JobAtWork DEF StartLabels, StoreInv, JobOK
<1>3. /\ ListsChanges(job.mem) /\ ~Finalized(job.mem) /\ AllGiven(disk, job.mem)
  BY <1>1 DEF FileInv, Progress
<1>4. /\ job.at \notin {"idle"} \cup StartLabels
      /\ recovery = NoRecord /\ Unfinished(old) /\ SameOperation(job.mem, old)
      /\ Durable(disk, store, recovery) /\ Open(old, recovery)
      /\ \A i \in Items \ Listed(job.mem) : disk[i] = job.mem.before[i]
  BY <1>1, WorkFacts
<1>5. /\ m \in Transactions /\ m.remains = "manifest" /\ SameOperation(m, job.mem)
      /\ m.state = "COMMITTED"
  BY <1>2, StateUpdate DEF OperationStates
<1>6. PICK o \in Outcomes(CommitFaults) : StoreThen(m, o, next, otherwise)
  BY DEF FinishCommit
<1>7. o \in {"ok", "early"}
  BY <1>6 DEF CleanCommit, Outcomes
<1> HIDE DEF m
<1>8. next.mem = m /\ next.at = "discard"
  BY <1>2, <1>5, WithFacts DEF Labels
<1>9. otherwise.at = "undo" /\ otherwise.mem = job.mem /\ otherwise.item = job.item
  BY <1>2 DEF Jobs
<1> HIDE DEF next, otherwise
<1>10. /\ Len(store') = Len(store)
       /\ store'[Len(store)] = IF Takes(o) THEN m ELSE old
       /\ \A op \in 1 .. Len(store) : op # Len(store) => store'[op] = store[op]
       /\ disk' = disk
       /\ job' = IF o = "ok" THEN next ELSE otherwise
  BY <1>1, <1>4, <1>5, <1>6, StoreStep
<1> HIDE DEF old
<1>11. CASE o = "ok"
  <2>1. store'[Len(store)] = m
    BY <1>10, <1>11 DEF Takes
  <2>2. old.state # "COMMITTED" /\ Truthful(old.before[StateItem], store)
    BY <1>2, <1>4 DEF Durable, old
  <2>3. \A s : LastOf(store', s) = IF s = m.source THEN m.incoming ELSE LastOf(store, s)
    <3> DEFINE ms == store'
    <3>1. /\ Len(ms) = Len(store) /\ ms[Len(store)] = m
          /\ \A op \in 1 .. Len(store) : op # Len(store) => ms[op] = store[op]
      BY <1>10, <2>1
    <3> HIDE DEF ms
    <3>2. \A s : LastOf(ms, s) = IF s = ms[Len(store)].source THEN ms[Len(store)].incoming
                                                              ELSE LastOf(store, s)
      BY <1>2, <1>5, <2>2, <3>1, LastCommitted DEF old
    <3>3. QED
      BY <3>1, <3>2 DEF ms
  <2>4. disk[StateItem] = [m.before[StateItem] EXCEPT ![m.source] = m.incoming]
    <3>1. disk[StateItem] = Written(job.mem, StateItem)
      BY <1>3, <1>4, ItemFacts DEF AllGiven, ListsChanges
    <3>2. QED
      BY <1>5, <3>1 DEF Written, SameOperation
  <2>5. m.before[StateItem] \in [Sources -> Archives] /\ m.source \in Sources
        /\ m.before = old.before
    BY <1>4, <1>5, TransactionFacts, DiskFacts DEF SameOperation
  <2>6. Truthful(disk[StateItem], store')
    <3>1. SUFFICES ASSUME NEW s \in Sources
                   PROVE  disk[StateItem][s] \in {Nothing, LastOf(store', s)}
      BY DEF Truthful
    <3>2. CASE s = m.source
      BY <2>3, <2>4, <2>5, <3>2
    <3>3. CASE s # m.source
      <4>1. disk[StateItem][s] = old.before[StateItem][s]
        BY <2>4, <2>5, <3>3
      <4>2. LastOf(store', s) = LastOf(store, s)
        BY <2>3, <3>3
      <4>3. QED
        BY <2>2, <4>1, <4>2 DEF Truthful
    <3>4. QED
      BY <3>2, <3>3
  <2>7. ~Open(m, recovery')
    BY <1>1, <1>4, <1>5 DEF Open, Unfinished, Finalized
  <2>8. Durable(disk, store', recovery')
    BY <1>1, <1>4, <1>10, <2>1, <2>6, <2>7 DEF Durable
  <2>9. Progress(next, disk, store', recovery')
    BY <1>5, <1>8, <1>10, <2>1 DEF Progress, StartLabels, RecoverLabels
  <2>10. QED
    BY <1>3, <1>5, <1>10, <1>11, <2>1, <2>8, <2>9 DEF FileInv
<1>12. CASE o = "early"
  <2>1. store' = store
    BY <1>6, <1>12 DEF StoreThen, Takes
  <2>2. KeptFrom(disk, job.mem, job.item + 1)
    <3>1. \A k \in Listed(job.mem) : k \in Nat /\ ~(k >= job.item + 1)
      BY <1>2, ListedFacts
    <3>2. QED
      BY <3>1 DEF KeptFrom
  <2>3. Progress(otherwise, disk, store, recovery)
    BY <1>3, <1>4, <1>9, <2>2
       DEF Progress, StartLabels, RecoverLabels, Unfinished, old
  <2>4. QED
    BY <1>1, <1>4, <1>10, <1>12, <2>1, <2>3 DEF FileInv
<1>13. QED
  BY <1>7, <1>11, <1>12

LEMMA DiscardFile ==
    ASSUME StoreInv, FileInv, Discard
    PROVE  FileInv'
<1>1. /\ disk' = disk /\ recovery' = recovery /\ job' = IdleJob
      /\ job.at = "discard" /\ Len(store) \in Nat
      /\ Len(store) > 0 /\ Len(store') = Len(store)
      /\ \A op \in 1 .. Len(store) : op # Len(store) => store'[op] = store[op]
      /\ store'[Len(store)].source = job.mem.source
      /\ store'[Len(store)].incoming = job.mem.incoming
      /\ store'[Len(store)].state = job.mem.state
  BY DiscardFacts
<1>2. /\ job.mem = store[Len(store)] /\ job.mem.state = "COMMITTED"
      /\ Durable(disk, store, recovery) /\ recovery = NoRecord
  BY <1>1 DEF FileInv, Progress, StoreInv, JobOK, RecoverLabels
<1>3. ~Open(store[Len(store)], recovery) /\ ~Open(store'[Len(store)], recovery)
  BY <1>1, <1>2 DEF Open, Unfinished, Finalized
<1>4. \A s : LastOf(store', s) = LastOf(store, s)
  <2>1. \A op \in 1 .. Len(store) :
          /\ store'[op].source = store[op].source
          /\ store'[op].incoming = store[op].incoming
          /\ store'[op].state = "COMMITTED" <=> store[op].state = "COMMITTED"
    BY <1>1, <1>2
  <2> DEFINE ms == store'
  <2>2. /\ Len(ms) = Len(store) /\ Len(store) \in Nat
        /\ \A op \in 1 .. Len(store) :
              /\ ms[op].source = store[op].source
              /\ ms[op].incoming = store[op].incoming
              /\ ms[op].state = "COMMITTED" <=> store[op].state = "COMMITTED"
    BY <1>1, <2>1
  <2> HIDE DEF ms
  <2>3. \A s : LastOf(ms, s) = LastOf(store, s)
    BY <2>2, LastKept
  <2>4. QED
    BY <2>3 DEF ms
<1>5. Durable(disk, store', recovery)
  BY <1>1, <1>2, <1>3, <1>4 DEF Durable, Truthful
<1>6. QED
  BY <1>1, <1>5, IdleProgress DEF FileInv

-----------------------------------------------------------------------------

LEMMA NotOpenFacts ==
    ASSUME StoreInv, recovery = NoRecord,
           \A op \in 1 .. Len(store) : ~Unfinished(store[op])
    PROVE  ~(Len(store) > 0 /\ Open(store[Len(store)], recovery))
<1>1. Len(store) \in Nat
  BY DEF StoreInv, StoreOK
<1>2. Len(store) > 0 => Len(store) \in 1 .. Len(store)
  BY <1>1
<1>3. QED
  BY <1>2 DEF Open

(* Nothing is replaced but what the last import left, what the archive     *)
(* brings or what the user gave permission for.                            *)
LEMMA StartFile ==
    ASSUME StoreInv, FileInv, NEW source \in Sources, NEW archive \in Archives,
           NEW approved, StartImport(source, archive, approved)
    PROVE  FileInv'
<1> DEFINE m == job'.mem
<1>1. /\ MayStart /\ disk' = disk /\ store' = store /\ recovery' = recovery
      /\ job'.at = "prune"
      /\ job'.approved = {Scope[p] : p \in Conflicts(source, archive)}
      /\ m.state = "PREPARED"
      /\ m \in Transactions
      /\ m.source = source /\ m.before = disk
      /\ \A p \in Paths :
            IF p \in Merged /\ archive[p] # Absent THEN m.incoming[p] # Absent
                                                   ELSE m.incoming[p] = archive[p]
      /\ \A i \in Listed(m) \ {StateItem} : m.incoming[i] # Absent
      /\ \A i \in Items \ Listed(m) :
            i = StateItem \/ m.incoming[i] # Absent => disk[i] = Written(m, i)
  BY StartFacts
<1> HIDE DEF m
<1>2. recovery = NoRecord /\ \A op \in 1 .. Len(store) : ~Unfinished(store[op])
  BY <1>1 DEF MayStart, Incomplete, Unfinished
<1>3. Truthful(disk[StateItem], store)
  BY <1>2, NotOpenFacts DEF FileInv, Durable
<1>4. ListsChanges(m)
  BY <1>1 DEF ListsChanges
<1>5. Permitted(job', store)
  <2>1. SUFFICES ASSUME NEW p \in Listed(m) \ {StateItem}, p \notin Merged,
                        Scope[p] \notin job'.approved
                 PROVE  m.before[p] \in {Absent, m.incoming[p], LastOf(store, m.source)[p]}
    BY DEF Permitted, m
  <2>2. p \in Paths
    BY <1>1, <2>1, ItemFacts DEF Listed
  <2>3. m.incoming[p] = archive[p] /\ archive[p] # Absent
    BY <1>1, <2>1, <2>2
  <2>4. p \notin Conflicts(source, archive)
    BY <1>1, <2>1
  <2>5. disk[p] \in {Absent, archive[p], disk[StateItem][source][p]}
    BY <2>1, <2>2, <2>3, <2>4 DEF Conflicts
  <2>6. disk[StateItem][source] \in {Nothing, LastOf(store, source)}
    BY <1>3 DEF Truthful
  <2>7. Nothing[p] = Absent
    BY <2>2 DEF Nothing
  <2>8. QED
    BY <1>1, <2>3, <2>5, <2>6, <2>7
<1>6. Progress(job', disk, store, recovery)
  BY <1>1, <1>4, <1>5
     DEF Progress, StartLabels, CommitLabels, UndoLabels, FlagLabels, RecoverLabels,
         Finalized, m
<1>7. QED
  BY <1>1, <1>6 DEF FileInv

LEMMA PruneFile ==
    ASSUME StoreInv, FileInv, Prune
    PROVE  FileInv'
<1>1. /\ disk' = disk /\ recovery' = recovery
      /\ job.at = "prune" /\ job' = [job EXCEPT !.at = "create"]
      /\ Len(store') = Len(store)
      /\ \A op \in 1 .. Len(store) :
            /\ store'[op].source = store[op].source
            /\ store'[op].incoming = store[op].incoming
            /\ store'[op].state = store[op].state
            /\ ~Unfinished(store[op]) /\ ~Unfinished(store'[op])
  BY PruneFacts
<1>2. recovery = NoRecord /\ job \in Jobs /\ Len(store) \in Nat
  BY <1>1 DEF StoreInv, StoreOK, JobOK, StartLabels
<1>3. \A s : LastOf(store', s) = LastOf(store, s)
  <2> DEFINE ms == store'
  <2>1. /\ Len(ms) = Len(store)
        /\ \A op \in 1 .. Len(store) :
              /\ ms[op].source = store[op].source
              /\ ms[op].incoming = store[op].incoming
              /\ ms[op].state = "COMMITTED" <=> store[op].state = "COMMITTED"
    BY <1>1
  <2> HIDE DEF ms
  <2>2. \A s : LastOf(ms, s) = LastOf(store, s)
    BY <1>2, <2>1, LastKept
  <2>3. QED
    BY <2>2 DEF ms
<1>4. Truthful(disk[StateItem], store)
  BY <1>1, <1>2, NotOpenFacts DEF FileInv, Durable
<1>5. Truthful(disk[StateItem], store')
  BY <1>3, <1>4 DEF Truthful
<1>6. ~(Len(store') > 0 /\ Open(store'[Len(store')], recovery'))
  <2>1. Len(store) > 0 => Len(store) \in 1 .. Len(store)
    BY <1>2
  <2>2. QED
    BY <1>1, <1>2, <2>1 DEF Open
<1>7. Durable(disk, store', recovery')
  BY <1>1, <1>2, <1>5, <1>6 DEF Durable
<1>8. job'.at = "create" /\ job'.mem = job.mem /\ job'.approved = job.approved
  BY <1>1, <1>2 DEF Jobs
<1>9. /\ job.mem.before = disk /\ ListsChanges(job.mem) /\ Permitted(job, store)
      /\ ~Finalized(job.mem)
  BY <1>1 DEF FileInv, Progress, StartLabels
<1>10. Permitted(job', store')
  BY <1>3, <1>8, <1>9 DEF Permitted
<1>11. Progress(job', disk, store', recovery')
  BY <1>8, <1>9, <1>10
     DEF Progress, StartLabels, CommitLabels, UndoLabels, FlagLabels, RecoverLabels
<1>12. QED
  BY <1>1, <1>7, <1>11 DEF FileInv

LEMMA CreateFile ==
    ASSUME StoreInv, FileInv, CreateManifest
    PROVE  FileInv'
<1> DEFINE m == job.mem
           n == store'[Len(store')]
<1>1. /\ disk' = disk /\ recovery' = recovery
      /\ job.at = "create" /\ recovery = NoRecord
      /\ job \in Jobs /\ m \in Transactions /\ m.remains = "manifest"
      /\ Len(store') = Len(store) + 1 /\ Len(store) \in Nat
      /\ \A op \in 1 .. Len(store) :
            ~Unfinished(store[op]) /\ store'[op] = store[op]
      /\ n = m \/ n = LeftOf(m, "backups")
      /\ \/ job' = [job EXCEPT !.at = "begin", !.op = Len(store')] /\ n = m
         \/ job' = IdleJob
  BY CreateFacts
<1>2. m.before = disk /\ ListsChanges(m) /\ Permitted(job, store) /\ ~Finalized(m)
  BY <1>1 DEF FileInv, Progress, StartLabels
<1>3. Truthful(disk[StateItem], store)
  BY <1>1, NotOpenFacts DEF FileInv, Durable
<1>4. n.state = m.state /\ (n # m => ~Unfinished(n))
  <2>1. LeftOf(m, "backups").state = m.state /\ LeftOf(m, "backups").remains = "backups"
    BY <1>1, LeftOfFacts
  <2> HIDE DEF m, n
  <2>2. QED
    BY <1>1, <2>1 DEF Unfinished
<1>5. n.state # "COMMITTED"
  BY <1>2, <1>4 DEF Finalized
<1> HIDE DEF m, n
<1>6. \A s : LastOf(store', s) = LastOf(store, s)
  <2> DEFINE ms == store'
  <2>1. /\ Len(ms) = Len(store) + 1 /\ \A op \in 1 .. Len(store) : ms[op] = store[op]
        /\ ms[Len(ms)].state # "COMMITTED"
    BY <1>1, <1>5 DEF n
  <2> HIDE DEF ms
  <2>2. \A s : LastOf(ms, s) = LastOf(store, s)
    BY <1>1, <2>1, LastAppended
  <2>3. QED
    BY <2>2 DEF ms
<1>7. Truthful(disk[StateItem], store')
  BY <1>3, <1>6 DEF Truthful
<1>8. Len(store') > 0
  BY <1>1
<1>9. Durable(disk, store', recovery')
  <2>1. CASE n = m
    <3>1. Truthful(n.before[StateItem], store') /\ n.state # "COMMITTED"
          /\ \A i \in Items \ Listed(n) : disk[i] = n.before[i]
      BY <1>2, <1>5, <1>7, <2>1
    <3>2. QED
      BY <1>1, <1>7, <3>1 DEF Durable, n
  <2>2. CASE n # m
    <3>1. ~Open(n, recovery')
      BY <1>1, <1>4, <2>2 DEF Open
    <3>2. QED
      BY <1>1, <1>7, <3>1 DEF Durable, n
  <2>3. QED
    BY <2>1, <2>2
<1>10. CASE job' = [job EXCEPT !.at = "begin", !.op = Len(store')] /\ n = m
  <2>1. job'.at = "begin" /\ job'.mem = m /\ job'.approved = job.approved
    BY <1>1, <1>10 DEF Jobs, m
  <2>2. AllKept(disk, n) /\ SameOperation(n, n)
    BY <1>2, <1>10 DEF AllKept, SameOperation
  <2>3. Permitted(job', store')
    BY <1>2, <1>6, <2>1 DEF Permitted, m
  <2>4. Progress(job', disk, store', recovery')
    BY <1>2, <1>10, <2>1, <2>2, <2>3
       DEF Progress, StartLabels, CommitLabels, UndoLabels, FlagLabels, RecoverLabels, n
  <2>5. QED
    BY <1>1, <1>9, <2>4 DEF FileInv
<1>11. CASE job' = IdleJob
  BY <1>1, <1>9, <1>11, IdleProgress DEF FileInv
<1>12. QED
  BY <1>1, <1>10, <1>11

(* With no command running and nothing owed any file may change, and       *)
(* baselines may be forgotten.                                             *)
LEMMA EnvironmentFile ==
    ASSUME StoreInv, FileInv, Environment
    PROVE  FileInv'
<1>1. /\ Untouched /\ UNCHANGED <<store, recovery, job>>
      /\ \/ disk' = disk
         \/ \E p \in Paths, content \in Contents : disk' = [disk EXCEPT ![p] = content]
         \/ \E forgotten \in SUBSET Sources :
               disk' = [disk EXCEPT ![StateItem] =
                  [s \in Sources |-> IF s \in forgotten THEN Nothing
                                                       ELSE disk[StateItem][s]]]
  BY EnvironmentFacts
<1>2. recovery = NoRecord /\ \A op \in 1 .. Len(store) : ~Unfinished(store[op])
  BY <1>1 DEF Untouched, Owed, Incomplete, Unfinished
<1>3. ~(Len(store) > 0 /\ Open(store[Len(store)], recovery))
  BY <1>2, NotOpenFacts
<1>4. Truthful(disk[StateItem], store) /\ disk \in Disks
  BY <1>3 DEF FileInv, Durable, StoreInv, StoreOK
<1>5. Truthful(disk'[StateItem], store)
  <2>1. CASE disk' = disk
    BY <1>4, <2>1
  <2>2. ASSUME NEW p \in Paths, NEW content \in Contents,
               disk' = [disk EXCEPT ![p] = content]
        PROVE  Truthful(disk'[StateItem], store)
    BY <1>4, <2>2, ItemFacts, DiskFacts
  <2>3. ASSUME NEW forgotten \in SUBSET Sources,
               disk' = [disk EXCEPT ![StateItem] =
                  [s \in Sources |-> IF s \in forgotten THEN Nothing
                                                       ELSE disk[StateItem][s]]]
        PROVE  Truthful(disk'[StateItem], store)
    <3> DEFINE kept == [s \in Sources |-> IF s \in forgotten THEN Nothing
                                                            ELSE disk[StateItem][s]]
    <3>1. \A s \in Sources : kept[s] \in {Nothing, LastOf(store, s)}
      BY <1>4 DEF Truthful
    <3> HIDE DEF kept
    <3>2. disk'[StateItem] = kept
      BY <1>4, <2>3, ItemFacts, DiskFacts DEF kept
    <3>3. QED
      BY <3>1, <3>2 DEF Truthful
  <2>4. QED
    BY <1>1, <2>1, <2>2, <2>3
<1>6. Durable(disk', store, recovery)
  BY <1>2, <1>3, <1>5 DEF Durable
<1>7. job.at = "idle"
  BY <1>1 DEF Untouched, Idle
<1>8. Progress(job, disk', store, recovery)
  BY <1>7 DEF Progress, StartLabels, CommitLabels, UndoLabels, FlagLabels, RecoverLabels
<1>9. QED
  BY <1>1, <1>6, <1>8 DEF FileInv

LEMMA CrashFile ==
    ASSUME StoreInv, FileInv, Crash
    PROVE  FileInv'
<1>1. UNCHANGED <<disk, journal, store, recovery>> /\ job' = IdleJob
  BY DEF Crash, Exit
<1>2. QED
  BY <1>1, IdleProgress DEF FileInv

LEMMA InitFile ==
    ASSUME Init
    PROVE  FileInv
<1>1. /\ store = <<>> /\ recovery = NoRecord /\ job = IdleJob /\ Len(store) = 0
  BY DEF Init
<1>2. disk[StateItem] = [s \in Sources |-> Nothing]
  BY ItemFacts DEF Init
<1>3. Truthful(disk[StateItem], store)
  BY <1>2 DEF Truthful
<1>4. Durable(disk, store, recovery)
  BY <1>1, <1>3 DEF Durable
<1>5. QED
  BY <1>1, <1>4, IdleProgress DEF FileInv

LEMMA FileStepOK ==
    ASSUME CleanCommit, StoreInv, FileInv, [Next]_vars
    PROVE  FileInv'
<1>1. CASE UNCHANGED vars
  BY <1>1 DEF vars, FileInv
<1>2. ASSUME NEW source \in Sources, NEW archive \in Archives, NEW approved \in Approvals,
             StartImport(source, archive, approved)
      PROVE  FileInv'
  BY <1>2, StartFile
<1>3. CASE Import
  BY <1>2, <1>3, PruneFile, CreateFile, BeginFile, IntendFile, WriteFile, FinishFile,
     DiscardFile, UndoFile, UnmarkFile, SettleFile DEF Import
<1>4. CASE Recover
  BY <1>4, GateFile, FlagFilesFile, FlagOperationFile, FlagRecordFile,
     StartRecoverFile, RestoreFile, SettleFilesFile, SettleOperationFile, ClearFile
     DEF Recover
<1>5. CASE Environment
  BY <1>5, EnvironmentFile
<1>6. CASE Crash
  BY <1>6, CrashFile
<1>7. QED
  BY <1>1, <1>3, <1>4, <1>5, <1>6 DEF Next

(* The files are as the newest transaction says, at every step and after   *)
(* every failure.                                                          *)
THEOREM FileInvariant ==
    ASSUME CleanCommit
    PROVE  Spec => [](StoreInv /\ FileInv)
<1>1. Init => FileInv
  BY InitFile
<1>2. StoreInv /\ FileInv /\ [Next]_vars => FileInv'
  BY FileStepOK
<1>3. QED
  BY <1>1, <1>2, StoreInvariant, PTL DEF Spec

(* BaselineTruthful: with nothing owed the baselines are those of the last *)
(* committed imports.                                                      *)
THEOREM BaselineTruthfulHolds ==
    ASSUME CleanCommit
    PROVE  Spec => []BaselineTruthful
<1>1. StoreInv /\ FileInv => BaselineTruthful
  <2>1. SUFFICES ASSUME StoreInv, FileInv, ~Owed, NEW s \in Sources
                 PROVE  disk[StateItem][s] \in {Nothing, LastImport(s)}
    BY DEF BaselineTruthful
  <2>2. recovery = NoRecord /\ \A op \in 1 .. Len(store) : ~Unfinished(store[op])
    BY <2>1 DEF Owed, Incomplete, Unfinished
  <2>3. Truthful(disk[StateItem], store)
    BY <2>1, <2>2, NotOpenFacts DEF FileInv, Durable
  <2>4. QED
    BY <2>3 DEF Truthful, LastOf, LastImport
<1>2. QED
  BY <1>1, FileInvariant, PTL

(* NoSilentOverwrite: an import never replaces a change the user made      *)
(* unless it has permission, whatever failed before.                       *)
THEOREM NoSilentOverwriteHolds ==
    ASSUME CleanCommit
    PROVE  Spec => []NoSilentOverwrite
<1>1. StoreInv /\ FileInv => NoSilentOverwrite
  <2>1. SUFFICES ASSUME StoreInv, FileInv, job.at = "write", job.item \in Paths
                 PROVE  MayReplace(job.item, disk[job.item])
    BY DEF NoSilentOverwrite
  <2>2. job.item \in Listed(job.mem) /\ job.item # StateItem /\ job.item \in Nat
    <3>1. job.item \in Listed(job.mem)
      BY <2>1 DEF StoreInv, JobOK
    <3>2. QED
      BY <2>1, <3>1, ItemFacts
  <2>3. Permitted(job, store) /\ KeptFrom(disk, job.mem, job.item)
    BY <2>1 DEF FileInv, Progress, CommitLabels
  <2>4. disk[job.item] = job.mem.before[job.item]
    BY <2>2, <2>3 DEF KeptFrom
  <2>5. \/ disk[job.item] \in {Absent, job.mem.incoming[job.item],
                               LastOf(store, job.mem.source)[job.item]}
        \/ Scope[job.item] \in job.approved
        \/ job.item \in Merged
    BY <2>2, <2>3, <2>4 DEF Permitted
  <2>6. LastOf(store, job.mem.source) = LastImport(job.mem.source)
    BY DEF LastOf, LastImport
  <2>7. QED
    BY <2>5, <2>6 DEF MayReplace
<1>2. QED
  BY <1>1, FileInvariant, PTL

-----------------------------------------------------------------------------
(* The abstract import: what the files look like through recovery.         *)

Busy(ms) == Len(ms) > 0 /\ Unfinished(ms[Len(ms)])

(* Visible, of an image of the disk and a sequence of transactions.        *)
SeenOf(image, ms) ==
    [i \in Items |-> IF Busy(ms) /\ i \in Listed(ms[Len(ms)]) THEN ms[Len(ms)].before[i]
                                                              ELSE image[i]]

(* FinalStateIsTrue, of one step.                                          *)
FinalStep ==
    \A op \in 1 .. Len(store) :
        LET m == store'[op] IN
        ~Finalized(store[op]) /\ Finalized(m) =>
           \A i \in Listed(m) :
               disk'[i] = IF m.state = "COMMITTED" THEN Written(m, i) ELSE m.before[i]

(* A step after which the files look as they did before.                   *)
Unseen == SeenOf(disk', store') = SeenOf(disk, store) /\ FinalStep

LEMMA SeenWhenKept ==
    ASSUME NEW image \in Disks, NEW ms, Busy(ms) => AllKept(image, ms[Len(ms)])
    PROVE  SeenOf(image, ms) = image
<1>1. image = [i \in Items |-> image[i]]
  BY DEF Disks
<1>2. \A i \in Items : SeenOf(image, ms)[i] = image[i]
  BY DEF SeenOf, AllKept
<1>3. SeenOf(image, ms) = [i \in Items |-> image[i]]
  BY <1>2 DEF SeenOf
<1>4. QED
  BY <1>1, <1>3

LEMMA SeenWhileOpen ==
    ASSUME NEW image, NEW ms, Busy(ms),
           NEW image2, NEW ms2, Busy(ms2), Len(ms2) = Len(ms),
           SameOperation(ms2[Len(ms)], ms[Len(ms)]),
           \A i \in Items \ Listed(ms[Len(ms)]) : image2[i] = image[i]
    PROVE  SeenOf(image2, ms2) = SeenOf(image, ms)
<1> DEFINE m == ms[Len(ms)]
           m2 == ms2[Len(ms)]
<1>1. m2.before = m.before /\ Listed(m2) = Listed(m)
  BY DEF SameOperation
<1>2. \A i \in Items : SeenOf(image2, ms2)[i] = SeenOf(image, ms)[i]
  BY <1>1 DEF SeenOf
<1>3. QED
  BY <1>2 DEF SeenOf

(* What an unfinished operation is, in the words of the store.             *)
LEMMA VisibleIs ==
    StoreInv => Visible = SeenOf(disk, store) /\ (Incomplete # {} <=> Busy(store))
<1>1. SUFFICES ASSUME StoreInv
               PROVE  Visible = SeenOf(disk, store) /\ (Incomplete # {} <=> Busy(store))
  OBVIOUS
<1>2. Len(store) \in Nat /\ \A op \in 1 .. Len(store) : Unfinished(store[op]) => op = Len(store)
  BY <1>1 DEF StoreInv, StoreOK
<1>3. \A op : op \in Incomplete <=> Busy(store) /\ op = Len(store)
  BY <1>2 DEF Incomplete, Busy, Unfinished
<1>4. CASE Busy(store)
  <2>1. \A i : \/ i \notin Listed(store[Len(store)])
               \/ (CHOOSE op \in Incomplete : i \in Listed(store[op])) = Len(store)
    BY <1>3, <1>4
  <2>2. QED
    BY <1>3, <1>4, <2>1 DEF Visible, SeenOf
<1>5. CASE ~Busy(store)
  BY <1>3, <1>5 DEF Visible, SeenOf
<1>6. QED
  BY <1>4, <1>5

LEMMA QuietUnseen ==
    ASSUME UNCHANGED <<disk, store>>
    PROVE  Unseen
BY DEF Unseen, FinalStep

LEMMA RewriteUnseen ==
    ASSUME StoreInv, FileInv, job.at \in CommitLabels \cup UndoLabels \cup FlagLabels,
           NEW m \in Transactions, m.remains = "manifest", SameOperation(m, job.mem),
           ~Finalized(m), NEW o, NEW next, NEW otherwise,
           StoreThen(m, o, next, otherwise), UNCHANGED recovery
    PROVE  Unseen
<1>1. /\ job.at \notin {"idle"} \cup StartLabels
      /\ Unfinished(store[Len(store)]) /\ SameOperation(job.mem, store[Len(store)])
  BY WorkFacts
<1>2. /\ Len(store') = Len(store) /\ Len(store) > 0
      /\ store'[Len(store)] = IF Takes(o) THEN m ELSE store[Len(store)]
      /\ store'[Len(store)].remains = "manifest"
      /\ \A op \in 1 .. Len(store) : op # Len(store) => store'[op] = store[op]
      /\ disk' = disk
  BY <1>1, StoreStep
<1>3. /\ SameOperation(store'[Len(store)], store[Len(store)])
      /\ ~Finalized(store'[Len(store)])
  BY <1>1, <1>2 DEF SameOperation, Unfinished
<1>4. SeenOf(disk, store') = SeenOf(disk, store)
  <2> DEFINE ms == store'
  <2>1. /\ Busy(store) /\ Busy(ms) /\ Len(ms) = Len(store)
        /\ SameOperation(ms[Len(store)], store[Len(store)])
    BY <1>1, <1>2, <1>3 DEF Busy, Unfinished
  <2> HIDE DEF ms
  <2>2. SeenOf(disk, ms) = SeenOf(disk, store)
    BY <2>1, SeenWhileOpen
  <2>3. QED
    BY <2>2 DEF ms
<1>5. FinalStep
  BY <1>2, <1>3 DEF FinalStep
<1>6. QED
  BY <1>2, <1>4, <1>5 DEF Unseen

LEMMA BeginUnseen ==
    ASSUME StoreInv, FileInv, BeginCommit
    PROVE  Unseen
<1> USE DEF CommitLabels, UndoLabels, FlagLabels
<1>1. job.at = "begin" /\ recovery' = recovery
  BY DEF BeginCommit
<1> DEFINE m == [job.mem EXCEPT !.state = "COMMITTING"]
<1>2. job.mem \in Transactions /\ job.mem.remains = "manifest"
  BY <1>1, JobAtWork DEF StartLabels
<1>3. /\ m \in Transactions /\ m.remains = "manifest" /\ SameOperation(m, job.mem)
      /\ ~Finalized(m)
  BY <1>2, StateUpdate DEF OperationStates, Finalized
<1>4. PICK o, next, otherwise : StoreThen(m, o, next, otherwise)
  BY DEF BeginCommit
<1> HIDE DEF m
<1>5. QED
  BY <1>1, <1>3, <1>4, RewriteUnseen

LEMMA IntendUnseen ==
    ASSUME StoreInv, FileInv, Intend
    PROVE  Unseen
<1> USE DEF CommitLabels, UndoLabels, FlagLabels
<1>1. job.at = "intend" /\ recovery' = recovery
  BY DEF Intend
<1> DEFINE m == UpdateFileState(job.mem, job.item, "MODIFIED")
<1>2. /\ job.mem \in Transactions /\ job.mem.remains = "manifest"
      /\ job.item \in Listed(job.mem) /\ ~Finalized(job.mem)
  BY <1>1, JobAtWork DEF StartLabels, StoreInv, JobOK, FileInv, Progress
<1>3. /\ m \in Transactions /\ m.remains = "manifest" /\ SameOperation(m, job.mem)
      /\ ~Finalized(m)
  BY <1>2, FileUpdate DEF Finalized
<1>4. PICK o, next, otherwise : StoreThen(m, o, next, otherwise)
  BY DEF Intend
<1> HIDE DEF m
<1>5. QED
  BY <1>1, <1>3, <1>4, RewriteUnseen

LEMMA MarkUnseen ==
    ASSUME StoreInv, FileInv, Unmark \/ FlagFiles
    PROVE  Unseen
<1> USE DEF CommitLabels, UndoLabels, FlagLabels
<1>1. job.at \in {"unmark", "flagFiles"} /\ recovery' = recovery
  BY DEF Unmark, FlagFiles
<1>2. PICK state, o, next, otherwise :
        /\ state \in {"ROLLED_BACK", "RECOVERY_REQUIRED"}
        /\ StoreThen(UpdateAllFileStates(job.mem, state), o, next, otherwise)
  BY DEF Unmark, FlagFiles
<1> DEFINE m == UpdateAllFileStates(job.mem, state)
<1>3. /\ job.mem \in Transactions /\ job.mem.remains = "manifest" /\ ~Finalized(job.mem)
  BY <1>1, JobAtWork DEF StartLabels, FileInv, Progress
<1>4. /\ m \in Transactions /\ m.remains = "manifest" /\ SameOperation(m, job.mem)
      /\ ~Finalized(m)
  BY <1>2, <1>3, AllFilesUpdate DEF Finalized, FileStates
<1> HIDE DEF m
<1>5. StoreThen(m, o, next, otherwise)
  BY <1>2 DEF m
<1>6. QED
  BY <1>1, <1>4, <1>5, RewriteUnseen

LEMMA FlagOperationUnseen ==
    ASSUME StoreInv, FileInv, FlagOperation
    PROVE  Unseen
<1> USE DEF CommitLabels, UndoLabels, FlagLabels
<1>1. job.at = "flagOperation" /\ recovery' = recovery
  BY DEF FlagOperation
<1> DEFINE m == [job.mem EXCEPT !.state = "RECOVERY_REQUIRED"]
<1>2. job.mem \in Transactions /\ job.mem.remains = "manifest"
  BY <1>1, JobAtWork DEF StartLabels
<1>3. /\ m \in Transactions /\ m.remains = "manifest" /\ SameOperation(m, job.mem)
      /\ ~Finalized(m)
  BY <1>2, StateUpdate DEF OperationStates, Finalized
<1>4. PICK o, next, otherwise : StoreThen(m, o, next, otherwise)
  BY DEF FlagOperation
<1> HIDE DEF m
<1>5. QED
  BY <1>1, <1>3, <1>4, RewriteUnseen

(* A file of the unfinished operation is written: nobody sees it.          *)
LEMMA FileUnseen ==
    ASSUME StoreInv, FileInv, job.at \in {"write", "undo"}, UNCHANGED store,
           NEW content, disk' \in {disk, [disk EXCEPT ![job.item] = content]}
    PROVE  Unseen
<1> USE DEF CommitLabels, UndoLabels, FlagLabels
<1> DEFINE m == store[Len(store)]
<1>1. /\ disk \in Disks /\ job.item \in Listed(job.mem) /\ Len(store) > 0
  BY JobAtWork DEF StoreInv, StoreOK, JobOK, StartLabels
<1>2. SameOperation(job.mem, m) /\ Unfinished(m)
  BY WorkFacts
<1>3. \A i \in Items \ Listed(m) : disk'[i] = disk[i]
  BY <1>1, <1>2 DEF SameOperation, Disks
<1>4. Busy(store) /\ SameOperation(m, m)
  BY <1>1, <1>2 DEF Busy, SameOperation
<1>5. SeenOf(disk', store) = SeenOf(disk, store)
  <2> DEFINE image == disk'
  <2>1. \A i \in Items \ Listed(m) : image[i] = disk[i]
    BY <1>3
  <2> HIDE DEF image
  <2>2. SeenOf(image, store) = SeenOf(disk, store)
    BY <1>4, <2>1, SeenWhileOpen
  <2>3. QED
    BY <2>2 DEF image
<1>6. QED
  BY <1>5 DEF Unseen, FinalStep

LEMMA WriteUnseen ==
    ASSUME StoreInv, FileInv, WriteTarget \/ Undo
    PROVE  Unseen
<1>1. job.at \in {"write", "undo"} /\ store' = store
  BY DEF WriteTarget, Undo
<1>2. PICK content : disk' \in {disk, [disk EXCEPT ![job.item] = content]}
  <2>1. PICK content, o : WriteItem(job.item, content, o)
    BY DEF WriteTarget, Undo
  <2>2. QED
    BY <2>1 DEF WriteItem
<1>3. QED
  BY <1>1, <1>2, FileUnseen

(* recover writes into an operation that is not final, or writes what is   *)
(* there already.                                                          *)
LEMMA RestoreUnseen ==
    ASSUME StoreInv, FileInv, Restore
    PROVE  Unseen
<1> DEFINE m == store[Len(store)]
<1>1. job.at = "restore" /\ store' = store
  BY RestoreFacts
<1>2. /\ recovery # NoRecord /\ Len(store) > 0 /\ job.mem = m /\ disk \in Disks
      /\ m.remains = "manifest" /\ Durable(disk, store, recovery)
  BY <1>1, JobAtWork DEF StoreInv, StoreOK, FileInv, Progress, StartLabels, RecoverLabels
<1>3. PICK i \in Listed(m) : disk' \in {disk, [disk EXCEPT ![i] = m.before[i]]}
  BY <1>2, RestoreFacts
<1>4. DOMAIN disk = Items /\ i \in Items
  BY <1>2, <1>3, DiskFacts DEF Listed
<1>5. CASE Unfinished(m)
  <2> DEFINE image == disk'
  <2>1. \A k \in Items \ Listed(m) : image[k] = disk[k]
    BY <1>3, <1>4
  <2>2. Busy(store) /\ SameOperation(m, m)
    BY <1>2, <1>5 DEF Busy, SameOperation
  <2> HIDE DEF image
  <2>3. SeenOf(image, store) = SeenOf(disk, store)
    BY <2>1, <2>2, SeenWhileOpen
  <2>4. QED
    BY <1>1, <2>3 DEF Unseen, FinalStep, image
<1>6. CASE ~Unfinished(m)
  <2>1. disk[i] = m.before[i]
    BY <1>2, <1>3, <1>6 DEF Durable, Unfinished
  <2> HIDE DEF m
  <2>2. disk' = disk
    BY <1>2, <1>3, <2>1 DEF Disks
  <2>3. QED
    BY <1>1, <2>2, QuietUnseen
<1>7. QED
  BY <1>5, <1>6

(* The operation is taken back: the files are what they were seen as.      *)
LEMMA SettlingUnseen ==
    ASSUME StoreInv, FileInv,
           job.at \in {"unmark", "settle", "settleFiles", "settleOperation"},
           NEW m \in Transactions, m.remains = "manifest", SameOperation(m, job.mem),
           m.state # "COMMITTED", NEW o, NEW next, NEW otherwise,
           StoreThen(m, o, next, otherwise), UNCHANGED recovery
    PROVE  Unseen
<1>1. AllKept(disk, m) /\ SameOperation(job.mem, store[Len(store)]) /\ disk' = disk
  BY Settling
<1>2. /\ Len(store') = Len(store) /\ Len(store) > 0
      /\ store'[Len(store)] = IF Takes(o) THEN m ELSE store[Len(store)]
      /\ \A op \in 1 .. Len(store) : op # Len(store) => store'[op] = store[op]
  BY StoreStep DEF StartLabels
<1>3. disk \in Disks
  BY DEF StoreInv, StoreOK
<1>4. SameOperation(store[Len(store)], m)
  BY <1>1 DEF SameOperation
<1>5. AllKept(disk, store[Len(store)]) /\ AllKept(disk, store'[Len(store)])
  BY <1>1, <1>2, <1>4, SameWrites
<1>6. SeenOf(disk, store) = disk /\ SeenOf(disk, store') = disk
  <2> DEFINE ms == store'
  <2>1. AllKept(disk, ms[Len(ms)])
    BY <1>2, <1>5
  <2> HIDE DEF ms
  <2>2. SeenOf(disk, ms) = disk /\ SeenOf(disk, store) = disk
    BY <1>3, <1>5, <2>1, SeenWhenKept
  <2>3. QED
    BY <2>2 DEF ms
<1>7. FinalStep
  <2>1. SUFFICES ASSUME NEW op \in 1 .. Len(store),
                        ~Finalized(store[op]), Finalized(store'[op]),
                        NEW i \in Listed(store'[op])
                 PROVE  disk'[i] = IF store'[op].state = "COMMITTED"
                                   THEN Written(store'[op], i) ELSE store'[op].before[i]
    BY DEF FinalStep
  <2>2. op = Len(store) /\ store'[op] = m
    BY <1>2, <2>1
  <2>3. QED
    BY <1>1, <2>1, <2>2 DEF AllKept
<1>8. QED
  BY <1>1, <1>6, <1>7 DEF Unseen

LEMMA SettleUnseen ==
    ASSUME StoreInv, FileInv, Settle \/ SettleOperation
    PROVE  Unseen
<1>1. job.at \in {"settle", "settleOperation"} /\ recovery' = recovery
  BY DEF Settle, SettleOperation
<1> DEFINE m == [job.mem EXCEPT !.state = "ROLLED_BACK"]
<1>2. job.mem \in Transactions /\ job.mem.remains = "manifest"
  BY <1>1, JobAtWork DEF StartLabels
<1>3. /\ m \in Transactions /\ m.remains = "manifest" /\ SameOperation(m, job.mem)
      /\ m.state = "ROLLED_BACK"
  BY <1>2, StateUpdate DEF OperationStates
<1>4. PICK o, next, otherwise : StoreThen(m, o, next, otherwise)
  BY DEF Settle, SettleOperation
<1> HIDE DEF m
<1>5. QED
  BY <1>1, <1>3, <1>4, SettlingUnseen

LEMMA SettleFilesUnseen ==
    ASSUME StoreInv, FileInv, SettleFiles
    PROVE  Unseen
<1> USE DEF RecoverLabels
<1>1. job.at = "settleFiles" /\ recovery' = recovery
  BY DEF SettleFiles
<1> DEFINE m == UpdateAllFileStates(job.mem, "ROLLED_BACK")
<1>2. job.mem \in Transactions /\ job.mem.remains = "manifest"
      /\ recovery # NoRecord /\ Len(store) > 0
  BY <1>1, JobAtWork DEF StartLabels
<1>3. job.mem.state # "COMMITTED"
  BY <1>1, <1>2 DEF FileInv, Progress, Durable, Open
<1>4. /\ m \in Transactions /\ m.remains = "manifest" /\ SameOperation(m, job.mem)
      /\ m.state # "COMMITTED"
  BY <1>2, <1>3, AllFilesUpdate DEF FileStates
<1>5. PICK o, next, otherwise : StoreThen(m, o, next, otherwise)
  BY DEF SettleFiles
<1> HIDE DEF m
<1>6. QED
  BY <1>1, <1>4, <1>5, SettlingUnseen

LEMMA IdleIsSeen ==
    ASSUME StoreInv, \A op \in 1 .. Len(store) : ~Unfinished(store[op])
    PROVE  SeenOf(disk, store) = disk
<1>1. disk \in Disks /\ Len(store) \in Nat
  BY DEF StoreInv, StoreOK
<1>2. ~Busy(store)
  BY <1>1 DEF Busy
<1>3. QED
  BY <1>1, <1>2, SeenWhenKept

LEMMA PruneUnseen ==
    ASSUME StoreInv, Prune
    PROVE  Unseen
<1>1. /\ disk' = disk /\ Len(store') = Len(store)
      /\ \A op \in 1 .. Len(store) :
            /\ store'[op].state = store[op].state
            /\ ~Unfinished(store[op]) /\ ~Unfinished(store'[op])
  BY PruneFacts
<1>2. disk \in Disks /\ Len(store) \in Nat
  BY DEF StoreInv, StoreOK
<1>3. SeenOf(disk, store') = disk
  <2> DEFINE ms == store'
  <2>1. ~Busy(ms)
    BY <1>1, <1>2 DEF Busy
  <2> HIDE DEF ms
  <2>2. SeenOf(disk, ms) = disk
    BY <1>2, <2>1, SeenWhenKept
  <2>3. QED
    BY <2>2 DEF ms
<1>4. FinalStep
  BY <1>1 DEF FinalStep, Finalized
<1>5. QED
  BY <1>1, <1>3, <1>4, IdleIsSeen DEF Unseen

(* The directory of an import that has written nothing.                    *)
LEMMA CreateUnseen ==
    ASSUME StoreInv, FileInv, CreateManifest
    PROVE  Unseen
<1>1. /\ disk' = disk /\ job.at = "create" /\ job.mem \in Transactions
      /\ Len(store') = Len(store) + 1 /\ Len(store) \in Nat
      /\ \A op \in 1 .. Len(store) : ~Unfinished(store[op]) /\ store'[op] = store[op]
      /\ \/ store'[Len(store')] = job.mem
         \/ store'[Len(store')] = LeftOf(job.mem, "backups")
  BY CreateFacts
<1>2. disk \in Disks /\ job.mem.before = disk
  BY <1>1 DEF StoreInv, StoreOK, FileInv, Progress, StartLabels
<1>3. Unfinished(store'[Len(store')]) => AllKept(disk, store'[Len(store')])
  <2>1. LeftOf(job.mem, "backups").remains = "backups"
    BY <1>1, LeftOfFacts
  <2>2. QED
    BY <1>1, <1>2, <2>1 DEF Unfinished, AllKept
<1>4. SeenOf(disk, store') = disk
  <2> DEFINE ms == store'
  <2>1. Busy(ms) => AllKept(disk, ms[Len(ms)])
    BY <1>3 DEF Busy
  <2> HIDE DEF ms
  <2>2. SeenOf(disk, ms) = disk
    BY <1>2, <2>1, SeenWhenKept
  <2>3. QED
    BY <2>2 DEF ms
<1>5. FinalStep
  BY <1>1 DEF FinalStep
<1>6. QED
  BY <1>1, <1>4, <1>5, IdleIsSeen DEF Unseen

LEMMA DiscardUnseen ==
    ASSUME StoreInv, FileInv, Discard
    PROVE  Unseen
<1>1. /\ disk' = disk /\ job.at = "discard"
      /\ Len(store) > 0 /\ Len(store') = Len(store)
      /\ \A op \in 1 .. Len(store) : op # Len(store) => store'[op] = store[op]
      /\ store'[Len(store)].state = job.mem.state
  BY DiscardFacts
<1>2. job.mem = store[Len(store)] /\ job.mem.state = "COMMITTED" /\ disk \in Disks
  BY <1>1 DEF FileInv, Progress, StoreInv, StoreOK
<1>3. ~Busy(store) /\ ~Busy(store')
  BY <1>1, <1>2 DEF Busy, Unfinished, Finalized
<1>4. SeenOf(disk, store) = disk /\ SeenOf(disk, store') = disk
  <2> DEFINE ms == store'
  <2> HIDE DEF ms
  <2>1. SeenOf(disk, ms) = disk /\ SeenOf(disk, store) = disk
    BY <1>2, <1>3, SeenWhenKept DEF ms
  <2>2. QED
    BY <2>1 DEF ms
<1>5. FinalStep
  BY <1>1, <1>2 DEF FinalStep, Finalized
<1>6. QED
  BY <1>1, <1>4, <1>5 DEF Unseen

(* The import takes effect: what is seen is what it brought, and the       *)
(* baseline of its source.                                                 *)
Effect ==
    \E s \in Sources, incoming \in Archives :
       LET before == SeenOf(disk, store)
           after == SeenOf(disk', store') IN
       /\ Busy(store) /\ ~Busy(store')
       /\ \A p \in Paths : after[p] = IF incoming[p] = Absent THEN before[p] ELSE incoming[p]
       /\ after[StateItem] = [before[StateItem] EXCEPT ![s] = incoming]

LEMMA FinishSeen ==
    ASSUME StoreInv, FileInv, CleanCommit, FinishCommit
    PROVE  Unseen \/ (Effect /\ FinalStep)
<1> USE DEF CommitLabels, UndoLabels, FlagLabels
<1> DEFINE m == store[Len(store)]
           n == store'[Len(store)]
<1>1. /\ job.at = "finish" /\ disk' = disk /\ Len(store') = Len(store)
      /\ \A op \in 1 .. Len(store) : op # Len(store) => store'[op] = store[op]
      /\ \/ store' = store
         \/ SameOperation(n, job.mem) /\ n.state = "COMMITTED" /\ AllGiven(disk, job.mem)
  BY FinishFile DEF FinishCommit
<1>2. CASE store' = store
  BY <1>1, <1>2, QuietUnseen
<1>3. CASE SameOperation(n, job.mem) /\ n.state = "COMMITTED" /\ AllGiven(disk, job.mem)
  <2>1. /\ disk \in Disks /\ Len(store) > 0 /\ m \in Transactions /\ ListsChanges(job.mem)
    BY <1>1, JobAtWork DEF StoreInv, StoreOK, FileInv, Progress, StartLabels
  <2>2. /\ SameOperation(job.mem, m) /\ Unfinished(m)
        /\ \A i \in Items \ Listed(job.mem) : disk[i] = job.mem.before[i]
    BY <1>1, WorkFacts
  <2>3. SameOperation(m, n) /\ SameOperation(m, job.mem)
    BY <1>3, <2>2 DEF SameOperation
  <2>4. /\ AllGiven(disk, m) /\ ListsChanges(m) /\ AllGiven(disk, n)
        /\ \A i \in Items \ Listed(m) : disk[i] = m.before[i]
    <3> HIDE DEF m, n
    <3>1. /\ ListsChanges(m)
          /\ \A i : Written(m, i) = Written(job.mem, i) /\ Written(n, i) = Written(job.mem, i)
      BY <1>3, <2>1, <2>3, SameWrites
    <3>2. /\ Listed(m) = Listed(job.mem) /\ Listed(n) = Listed(job.mem)
          /\ m.before = job.mem.before
      BY <1>3, <2>3 DEF SameOperation
    <3>3. QED
      BY <1>3, <2>2, <3>1, <3>2 DEF AllGiven
  <2>5. Busy(store) /\ ~Busy(store')
    BY <1>1, <1>3, <2>1, <2>2 DEF Busy, Unfinished, Finalized
  <2>6. SeenOf(disk', store') = disk
    <3> DEFINE ms == store'
    <3>1. ~Busy(ms)
      BY <2>5
    <3> HIDE DEF ms
    <3>2. SeenOf(disk, ms) = disk
      BY <2>1, <3>1, SeenWhenKept
    <3>3. QED
      BY <1>1, <3>2 DEF ms
  <2>7. \A i \in Items : SeenOf(disk, store)[i] = m.before[i]
    <3>1. \A i \in Items :
             SeenOf(disk, store)[i] = IF i \in Listed(m) THEN m.before[i] ELSE disk[i]
      BY <2>5 DEF SeenOf
    <3>2. QED
      BY <2>4, <3>1
  <2>8. FinalStep
    <3>1. SUFFICES ASSUME NEW op \in 1 .. Len(store),
                          ~Finalized(store[op]), Finalized(store'[op]),
                          NEW i \in Listed(store'[op])
                   PROVE  disk'[i] = IF store'[op].state = "COMMITTED"
                                     THEN Written(store'[op], i) ELSE store'[op].before[i]
      BY DEF FinalStep
    <3>2. store'[op] = n
      BY <1>1, <3>1
    <3>3. QED
      BY <1>1, <1>3, <2>4, <3>1, <3>2 DEF AllGiven
  <2> HIDE DEF m, n
  <2>9. \A p \in Paths : disk[p] = IF m.incoming[p] = Absent THEN m.before[p] ELSE m.incoming[p]
    <3>1. SUFFICES ASSUME NEW p \in Paths
                   PROVE  disk[p] = IF m.incoming[p] = Absent THEN m.before[p]
                                                              ELSE m.incoming[p]
      OBVIOUS
    <3>2. p \in Items /\ p # StateItem /\ Written(m, p) = m.incoming[p]
      BY <3>1, ItemFacts DEF Written
    <3>3. CASE p \in Listed(m)
      BY <2>4, <3>2, <3>3 DEF AllGiven, ListsChanges
    <3>4. CASE p \notin Listed(m)
      BY <2>4, <3>2, <3>4 DEF ListsChanges
    <3>5. QED
      BY <3>3, <3>4
  <2>10. disk[StateItem] = [m.before[StateItem] EXCEPT ![m.source] = m.incoming]
    BY <2>4, ItemFacts DEF AllGiven, ListsChanges, Written
  <2>11. m.source \in Sources /\ m.incoming \in Archives
    BY <2>1, TransactionFacts
  <2>12. \A p \in Paths : SeenOf(disk, store)[p] = m.before[p]
    BY <2>7, ItemFacts
  <2>13. SeenOf(disk, store)[StateItem] = m.before[StateItem]
    BY <2>7, ItemFacts
  <2>14. \A p \in Paths :
            disk[p] = IF m.incoming[p] = Absent THEN SeenOf(disk, store)[p] ELSE m.incoming[p]
    BY <2>9, <2>12
  <2>15. Effect
    <3> DEFINE before == SeenOf(disk, store)
               after == SeenOf(disk', store')
    <3> HIDE DEF before, after
    <3>1. /\ \A p \in Paths :
                after[p] = IF m.incoming[p] = Absent THEN before[p] ELSE m.incoming[p]
          /\ after[StateItem] = [before[StateItem] EXCEPT ![m.source] = m.incoming]
      BY <2>6, <2>10, <2>13, <2>14 DEF before, after
    <3>2. \E s \in Sources, incoming \in Archives :
             /\ \A p \in Paths :
                   after[p] = IF incoming[p] = Absent THEN before[p] ELSE incoming[p]
             /\ after[StateItem] = [before[StateItem] EXCEPT ![s] = incoming]
      BY <2>11, <3>1
    <3>3. QED
      BY <2>5, <3>2 DEF Effect, before, after
  <2>16. QED
    BY <2>8, <2>15
<1>4. QED
  BY <1>1, <1>2, <1>3

(* The environment acts when nothing is unfinished.                        *)
Outside ==
    /\ UNCHANGED store /\ ~Busy(store)
    /\ SeenOf(disk, store) = disk /\ SeenOf(disk', store') = disk'
    /\ \/ \E p \in Paths, content \in Contents : disk' = [disk EXCEPT ![p] = content]
       \/ \E forgotten \in SUBSET Sources :
             disk' = [disk EXCEPT ![StateItem] =
                [s \in Sources |-> IF s \in forgotten THEN Nothing ELSE disk[StateItem][s]]]

LEMMA EnvironmentSeen ==
    ASSUME StoreInv, Environment
    PROVE  Unseen \/ (Outside /\ FinalStep)
<1>1. /\ Untouched /\ store' = store /\ disk \in Disks /\ disk' \in Disks
  BY EnvironmentFacts DEF StoreInv, StoreOK
<1>2. ~Busy(store)
  BY <1>1, VisibleIs DEF Untouched, Owed
<1>3. SeenOf(disk, store) = disk /\ SeenOf(disk', store) = disk'
  <2> DEFINE image == disk'
  <2> HIDE DEF image
  <2>1. SeenOf(image, store) = image /\ SeenOf(disk, store) = disk
    BY <1>1, <1>2, SeenWhenKept DEF image
  <2>2. QED
    BY <2>1 DEF image
<1>4. FinalStep
  BY <1>1 DEF FinalStep
<1>5. CASE disk' = disk
  BY <1>1, <1>5, QuietUnseen
<1>6. QED
  BY <1>1, <1>2, <1>3, <1>4, <1>5, EnvironmentFacts DEF Outside

LEMMA StepSeen ==
    ASSUME CleanCommit, StoreInv, FileInv, [Next]_vars
    PROVE  FinalStep /\ (Unseen \/ Effect \/ Outside)
<1>1. CASE UNCHANGED vars
  BY <1>1, QuietUnseen DEF vars, Unseen
<1>2. CASE \E source \in Sources, archive \in Archives, approved \in Approvals :
              StartImport(source, archive, approved)
  BY <1>2, QuietUnseen DEF StartImport, Unseen
<1>3. CASE Import
  BY <1>2, <1>3, PruneUnseen, CreateUnseen, BeginUnseen, IntendUnseen, WriteUnseen,
     FinishSeen, DiscardUnseen, MarkUnseen, SettleUnseen DEF Import, Unseen
<1>4. CASE GateIncomplete \/ FlagRecord \/ StartRecover \/ ClearRecord
  BY <1>4, QuietUnseen DEF GateIncomplete, FlagRecord, StartRecover, ClearRecord, Unseen
<1>5. CASE Recover
  BY <1>4, <1>5, MarkUnseen, FlagOperationUnseen, RestoreUnseen, SettleFilesUnseen,
     SettleUnseen DEF Recover, Unseen
<1>6. CASE Environment
  BY <1>6, EnvironmentSeen DEF Unseen
<1>7. CASE Crash
  BY <1>7, QuietUnseen DEF Crash, Unseen
<1>8. QED
  BY <1>1, <1>3, <1>5, <1>6, <1>7 DEF Next

(* FinalStateIsTrue: what a manifest says of a finished import is what is  *)
(* on disk at that moment.                                                 *)
THEOREM FinalStateIsTrueHolds ==
    ASSUME CleanCommit
    PROVE  Spec => FinalStateIsTrue
<1>1. StoreInv /\ FileInv /\ [Next]_vars =>
         [\A op \in 1 .. Len(store) :
            LET m == store'[op] IN
            ~Finalized(store[op]) /\ Finalized(m) =>
               \A i \in Listed(m) :
                   disk'[i] = IF m.state = "COMMITTED" THEN Written(m, i) ELSE m.before[i]]_vars
  BY StepSeen DEF FinalStep
<1>2. QED
  BY <1>1, FileInvariant, PTL DEF Spec, FinalStateIsTrue

(* ImportIsAtomic: seen through recovery, the files of an import and the   *)
(* baseline of its source change at one moment or not at all.              *)
THEOREM ImportIsAtomicHolds ==
    ASSUME CleanCommit
    PROVE  Spec => ImportIsAtomic
<1>1. Init => Atomic!Init
  <2>1. SUFFICES ASSUME Init PROVE Atomic!Init
    OBVIOUS
  <2>2. StoreInv /\ ~Busy(store)
    BY <2>1, InitStore DEF Init, Busy
  <2>3. Visible = disk /\ Incomplete = {}
    BY <2>2, VisibleIs, SeenWhenKept DEF StoreInv, StoreOK
  <2>4. PICK files \in Archives :
          disk = [i \in Items |-> IF i = StateItem THEN [s \in Sources |-> Nothing]
                                                   ELSE files[i]]
    BY <2>1 DEF Init
  <2>5. \A p \in Paths : disk[p] \in Values \cup {Absent}
    BY <2>4, ItemFacts DEF Archives, Contents
  <2>6. disk[StateItem] = [s \in Sources |-> [p \in Paths |-> Absent]]
    BY <2>4, ItemFacts DEF Nothing
  <2>7. QED
    BY <2>3, <2>5, <2>6 DEF Atomic!Init, Atomic!Archives
<1>2. CleanCommit /\ StoreInv /\ FileInv /\ StoreInv' /\ [Next]_vars
         => [Atomic!Next]_(Atomic!abstractVars)
  <2>1. SUFFICES ASSUME CleanCommit, StoreInv, FileInv, StoreInv', [Next]_vars
                 PROVE  [Atomic!Next]_(Atomic!abstractVars)
    OBVIOUS
  <2>2. Visible = SeenOf(disk, store) /\ (Incomplete # {} <=> Busy(store))
    BY <2>1, VisibleIs
  <2>3. (Visible = SeenOf(disk, store) /\ (Incomplete # {} <=> Busy(store)))'
    <3>1. StoreInv' => (Visible = SeenOf(disk, store) /\ (Incomplete # {} <=> Busy(store)))'
      BY VisibleIs, PTL
    <3>2. QED
      BY <2>1, <3>1
  <2>4. Unseen \/ Effect \/ Outside
    BY <2>1, StepSeen
  <2>5. CASE Unseen
    <3>1. Visible' = Visible
      BY <2>2, <2>3, <2>5 DEF Unseen
    <3>2. QED
      BY <3>1 DEF Atomic!Next, Atomic!Begin, Atomic!Abort, Atomic!abstractVars
  <2>6. CASE Effect
    <3>1. PICK s \in Sources, incoming \in Archives :
            /\ Incomplete # {} /\ Incomplete' = {}
            /\ \A p \in Paths :
                  Visible'[p] = IF incoming[p] = Absent THEN Visible[p] ELSE incoming[p]
            /\ Visible'[StateItem] = [Visible[StateItem] EXCEPT ![s] = incoming]
      BY <2>2, <2>3, <2>6 DEF Effect
    <3>2. incoming \in Atomic!Archives
      BY DEF Atomic!Archives, Archives, Contents
    <3>3. Atomic!Commit
      BY <3>1, <3>2 DEF Atomic!Commit
    <3>4. QED
      BY <3>3 DEF Atomic!Next
  <2>7. CASE Outside
    <3>1. /\ Incomplete = {} /\ Incomplete' = {}
          /\ Visible = disk /\ Visible' = disk' /\ disk \in Disks
      BY <2>1, <2>2, <2>3, <2>7 DEF Outside, StoreInv, StoreOK
    <3>2. ASSUME NEW p \in Paths, NEW content \in Contents, disk' = [disk EXCEPT ![p] = content]
          PROVE  Atomic!Edit
      <4>1. [q \in Paths |-> disk'[q]] = [[q \in Paths |-> disk[q]] EXCEPT ![p] = content]
        BY <3>1, <3>2, ItemFacts, DiskFacts
      <4>2. disk'[StateItem] = disk[StateItem]
        BY <3>1, <3>2, ItemFacts, DiskFacts
      <4>3. QED
        BY <3>1, <4>1, <4>2 DEF Atomic!Edit, Contents
    <3>3. ASSUME NEW forgotten \in SUBSET Sources,
                 disk' = [disk EXCEPT ![StateItem] =
                   [s \in Sources |-> IF s \in forgotten THEN Nothing ELSE disk[StateItem][s]]]
          PROVE  Atomic!Forget
      <4>1. \A q \in Paths : disk'[q] = disk[q]
        BY <3>1, <3>3, ItemFacts, DiskFacts
      <4>2. disk'[StateItem] = [s \in Sources |-> IF s \in forgotten THEN Nothing
                                                                    ELSE disk[StateItem][s]]
        BY <3>1, <3>3, ItemFacts, DiskFacts
      <4>3. QED
        BY <3>1, <4>1, <4>2 DEF Atomic!Forget, Nothing
    <3>4. Atomic!Edit \/ Atomic!Forget
      BY <2>7, <3>2, <3>3 DEF Outside
    <3>5. QED
      BY <3>4 DEF Atomic!Next
  <2>8. QED
    BY <2>4, <2>5, <2>6, <2>7
<1>3. QED
  BY <1>1, <1>2, FileInvariant, PTL DEF Spec, ImportIsAtomic, Atomic!Spec

==============================================================================
