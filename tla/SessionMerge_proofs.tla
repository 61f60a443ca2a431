-------------------------- MODULE SessionMerge_proofs --------------------------
(***************************************************************************)
(* What a merge that fails or is killed leaves of the history, proved with *)
(* TLAPS for any number of threads, Providers, merges, uses and failures.  *)
(*                                                                         *)
(* The first invariant describes the transaction directories and needs no  *)
(* hypothesis.  The second one relates them to the history.  It needs two: *)
(* the write of the COMMITTED manifest does not fail after it took effect, *)
(* and no process is killed while the database is in mode "wal" (the       *)
(* README describes what happens otherwise).                               *)
(***************************************************************************)
EXTENDS SessionMerge, Extrema

CleanCommit == CommitFaults \subseteq {"early"}

CleanKills == KillModes \subseteq {"delete"}

-----------------------------------------------------------------------------
(* The transaction directories.                                            *)

StartLabels == {"prune", "create"}

CommitLabels == {"begin", "intend", "unlink", "write", "finish"}

UndoLabels == {"undo", "putBack", "unmark", "settle"}

FlagLabels == {"flagFiles", "flagOperation", "flagRecord"}

RecoverLabels == {"restore", "settleFiles", "settleOperation", "clear"}

Labels ==
    {"idle", "discard"} \cup StartLabels \cup CommitLabels \cup UndoLabels \cup FlagLabels
        \cup RecoverLabels

(* What the session files and the database may hold.                       *)
Histories ==
    {h \in [Items -> Ids \cup Tables] : /\ \A t \in Threads : h[t] \in Ids
                                        /\ h[Database] \in Tables}

Directories ==
    [before   : Histories \cup {Store!NoBackup},
     incoming : Histories,
     files    : [Items -> Store!FileStates],
     state    : Store!OperationStates,
     remains  : {"manifest", "backups", "none"}]

(* The backups are there as long as the manifest is.                       *)
Transactions == {m \in Directories : m.remains = "manifest" => m.before \in Histories}

Jobs ==
    [at : Labels, op : Nat, mem : Transactions \cup {Absent}, item : 0 .. Database,
     approved : {{}}, failed : BOOLEAN, todo : SUBSET Items]

(* latest_incomplete finds an operation.                                   *)
Unfinished(m) == m.remains = "manifest" /\ ~Store!Finalized(m)

(* A command at work on a transaction has the newest one in hand, whose    *)
(* manifest can be read; one that is about to create it found none that    *)
(* recovery is waiting for.                                                *)
JobOK(jb, ms, rec) ==
    /\ jb \in Jobs
    /\ jb.op \in 0 .. Len(ms)
    /\ jb.at # "idle" => jb.mem \in Transactions /\ jb.mem.remains = "manifest"
    /\ jb.at \in StartLabels => \A op \in 1 .. Len(ms) : ~Unfinished(ms[op])
    /\ jb.at \notin {"idle"} \cup StartLabels =>
          /\ jb.op = Len(ms) /\ Len(ms) > 0
          /\ ms[Len(ms)].remains = "manifest"
    /\ jb.at # "idle" => (jb.at \in RecoverLabels <=> rec # Store!NoRecord)
    /\ jb.at \in StartLabels \cup CommitLabels \cup UndoLabels => Store!Listed(jb.mem) # {}
    /\ jb.at \in {"write", "putBack"} => jb.item \in Store!Listed(jb.mem)
    /\ jb.at = "restore" => jb.todo # {} /\ jb.todo \subseteq Store!Listed(jb.mem)

(* Only the newest operation may be unfinished, and it alone is recorded.  *)
StoreOK(ms, rec) ==
    /\ ms \in Seq(Transactions)
    /\ rec \in 0 .. Len(ms)
    /\ \A op \in 1 .. Len(ms) : Unfinished(ms[op]) => op = Len(ms)
    /\ rec # Store!NoRecord => rec = Len(ms) /\ ms[Len(ms)].remains = "manifest"

(* A log beside the database is held by the merge that is about to unlink  *)
(* it.                                                                     *)
LogOK ==
    /\ mode \in Modes
    /\ log \in Tables \cup {Absent} /\ held \in Tables \cup {Absent}
    /\ mode = "delete" => log = Absent /\ held = Absent
    /\ held = Absent /\ job.at \in StartLabels \cup CommitLabels \cup UndoLabels => log = Absent

StoreInv ==
    disk \in Histories /\ LogOK /\ StoreOK(store, recovery) /\ JobOK(job, store, recovery)

-----------------------------------------------------------------------------
(* The transaction directories and the history.  The operators speak of an *)
(* image of the history, the manifest m of the newest operation and        *)
(* recovery.json.                                                          *)

(* The session files and what a reader sees of the database.               *)
History == [i \in Items |-> IF i = Database THEN Table ELSE disk[i]]

(* Recovery is still possible: the operation is not final, or recorded.    *)
Open(m, rec) == rec # Store!NoRecord \/ Unfinished(m)

SameOperation(m, n) ==
    m.before = n.before /\ m.incoming = n.incoming /\ Store!Listed(m) = Store!Listed(n)

AllKept(image, m) == \A i \in Store!Listed(m) : image[i] = m.before[i]

AllGiven(image, m) == \A i \in Store!Listed(m) : image[i] = m.incoming[i]

KeptFrom(image, m, i) == \A k \in Store!Listed(m) : k >= i => image[k] = m.before[k]

KeptUpTo(image, m, i) == \A k \in Store!Listed(m) : k < i => image[k] = m.before[k]

GivenUpTo(image, m, i) == \A k \in Store!Listed(m) : k < i => image[k] = m.incoming[k]

(* UpdatedCopy, of a given mode.                                           *)
CopyOf(md, table) == IF md = "wal" THEN table ELSE Updated(table)

(* The transaction rewrites the history it found, and lists the files that *)
(* it changes.                                                             *)
Rewrites(m, md) ==
    /\ m.before \in Histories
    /\ m.incoming = [i \in Items |-> IF i = Database THEN CopyOf(md, m.before[i])
                                                     ELSE Rewritten(m.before[i])]
    /\ Store!Listed(m) = {i \in Items : m.incoming[i] # m.before[i]}

(* The operation can be taken back: it changes no file that it does not    *)
(* list, and the database only when it has no log.                         *)
Revocable(image, m, md) ==
    /\ m.before \in Histories
    /\ \A i \in Items \ Store!Listed(m) : image[i] = m.before[i]
    /\ Database \in Store!Listed(m) => md = "delete"
    /\ m.state # "COMMITTED"

(* What holds whether or not a command is at work, so also after a crash.  *)
Durable(image, ms, rec, md) ==
    LET m == ms[Len(ms)] IN
    /\ Len(ms) > 0 /\ Open(m, rec) => Revocable(image, m, md)
    /\ rec # Store!NoRecord =>
          \A i \in Store!Listed(m) :
              \/ m.files[i] \in {"MODIFIED", "RECOVERY_REQUIRED"} /\ ~Store!Finalized(m)
              \/ image[i] = m.before[i]

(* How far the command with the job jb has come.  A rollback whose last    *)
(* manifest write failed after it took effect goes on as if it had not.    *)
Progress(jb, image, ms, md) ==
    LET m == ms[Len(ms)] IN
    /\ jb.at \in StartLabels => jb.mem.before = image
    /\ jb.at \in StartLabels \cup CommitLabels => Rewrites(jb.mem, md)
    /\ jb.at \in StartLabels \cup CommitLabels \cup UndoLabels \cup FlagLabels =>
          ~Store!Finalized(jb.mem)
    /\ jb.at \in CommitLabels \cup UndoLabels \cup FlagLabels =>
          SameOperation(jb.mem, m) /\ Revocable(image, m, md)
    /\ jb.at \in CommitLabels \cup UndoLabels => ~Store!Finalized(m)
    /\ jb.at \in FlagLabels => ~Store!Finalized(m) \/ AllKept(image, m)
    /\ jb.at \in RecoverLabels \cup {"discard", "flagOperation", "flagRecord"} => jb.mem = m
    /\ jb.at \in {"discard", "clear"} => Store!Finalized(m)
    /\ jb.at \in {"begin", "intend", "unlink"} => AllKept(image, jb.mem)
    /\ jb.at = "write" =>
          GivenUpTo(image, jb.mem, jb.item) /\ KeptFrom(image, jb.mem, jb.item)
    /\ jb.at = "finish" => AllGiven(image, jb.mem)
    /\ jb.at = "putBack" => KeptUpTo(image, jb.mem, jb.item)
    /\ jb.at \in {"unmark", "settle", "settleFiles", "settleOperation", "clear"} =>
          AllKept(image, jb.mem)
    /\ jb.at \in {"flagOperation", "flagRecord"} =>
          \A i \in Store!Listed(m) : m.files[i] = "RECOVERY_REQUIRED"
    /\ jb.at = "restore" => \A i \in Store!Listed(m) \ jb.todo : image[i] = m.before[i]

HistoryInv ==
    Durable(History, store, recovery, mode) /\ Progress(job, History, store, mode)

(* Seen through recovery, the two records of a thread agree.               *)
Agrees(image) == \A t \in Threads : image[Database][t] \in {Absent, image[t]}

-----------------------------------------------------------------------------
(* Items, histories, transactions and jobs.                                *)

(* The items of the store that SyncImport describes are those of a merge.  *)
LEMMA ItemFacts ==
    /\ Store!Items = Items /\ Store!StateItem = Database /\ Store!Paths = Threads
    /\ Database \in Items /\ Database \notin Threads
    /\ \A i \in Items : i # Database => i \in Threads
    /\ \A t \in Threads : t \in Items /\ t # Database
    /\ Items \subseteq 0 .. Database /\ Items \subseteq Nat
    /\ Database \in Nat
    /\ \A i \in Items : i \in Nat /\ i > 0
BY ThreadsAssumption DEF Store!Items, Store!StateItem, Store!Paths, Items, Database, Threads

LEMMA HistoryFacts ==
    ASSUME NEW h \in Histories
    PROVE  /\ \A t \in Threads : h[t] \in Ids
           /\ h[Database] \in Tables
           /\ DOMAIN h = Items
           /\ h = [i \in Items |-> h[i]]
BY DEF Histories

(* A content that item i may have.                                         *)
Fits(i, content) ==
    /\ i \in Threads => content \in Ids
    /\ i = Database => content \in Tables

LEMMA HistoryUpdate ==
    ASSUME NEW h \in Histories, NEW i \in Items, NEW content, Fits(i, content)
    PROVE  [h EXCEPT ![i] = content] \in Histories
<1>1. content \in Ids \cup Tables
  BY ItemFacts DEF Fits
<1>2. [h EXCEPT ![i] = content] \in [Items -> Ids \cup Tables]
  BY <1>1 DEF Histories
<1>3. \A t \in Threads : [h EXCEPT ![i] = content][t] \in Ids
  BY ItemFacts DEF Histories, Fits
<1>4. [h EXCEPT ![i] = content][Database] \in Tables
  BY ItemFacts DEF Histories, Fits
<1>5. QED
  BY <1>2, <1>3, <1>4 DEF Histories

LEMMA HistoryFits ==
    ASSUME NEW h \in Histories, NEW i \in Items
    PROVE  Fits(i, h[i])
BY HistoryFacts DEF Fits

LEMMA TransactionFacts ==
    ASSUME NEW m \in Transactions
    PROVE  /\ m.before \in Histories \cup {Store!NoBackup} /\ m.incoming \in Histories
           /\ m.files \in [Items -> Store!FileStates]
           /\ m.state \in Store!OperationStates
           /\ m.remains \in {"manifest", "backups", "none"}
           /\ m.remains = "manifest" => m.before \in Histories
           /\ Store!Listed(m) = {i \in Items : m.files[i] # "UNLISTED"}
           /\ Store!Listed(m) \subseteq Items
BY ItemFacts DEF Transactions, Directories, Store!Listed

LEMMA ListedFacts ==
    ASSUME NEW m \in Transactions
    PROVE  \A k \in Store!Listed(m) : k \in Items /\ k \in Nat /\ k > 0
<1>1. SUFFICES ASSUME NEW k \in Store!Listed(m) PROVE k \in Items /\ k \in Nat /\ k > 0
  OBVIOUS
<1>2. k \in Items
  BY TransactionFacts
<1>3. QED
  BY <1>2, ItemFacts

(* A manifest updated in its state or in the states of its files is that   *)
(* of the same operation.                                                  *)
LEMMA StateUpdate ==
    ASSUME NEW m \in Transactions, NEW state \in Store!OperationStates
    PROVE  LET n == [m EXCEPT !.state = state] IN
           /\ n \in Transactions /\ SameOperation(n, m)
           /\ n.state = state /\ n.remains = m.remains /\ n.files = m.files
BY DEF Transactions, Directories, SameOperation, Store!Listed

LEMMA AllFilesUpdate ==
    ASSUME NEW m \in Transactions, NEW state \in Store!FileStates \ {"UNLISTED"}
    PROVE  LET n == Store!UpdateAllFileStates(m, state) IN
           /\ n \in Transactions /\ SameOperation(n, m)
           /\ n.state = m.state /\ n.remains = m.remains
           /\ \A i \in Store!Listed(n) : n.files[i] = state
<1> DEFINE files == [i \in Items |-> IF i \in Store!Listed(m) THEN state ELSE m.files[i]]
<1>1. files \in [Items -> Store!FileStates]
  BY DEF Transactions, Directories
<1>2. \A k \in Items : (files[k] # "UNLISTED") = (m.files[k] # "UNLISTED")
  BY TransactionFacts
<1>3. \A k \in Items : files[k] # "UNLISTED" => files[k] = state
  BY TransactionFacts
<1>4. Store!UpdateAllFileStates(m, state) = [m EXCEPT !.files = files]
  BY ItemFacts DEF Store!UpdateAllFileStates
<1> HIDE DEF files
<1>5. QED
  BY <1>1, <1>2, <1>3, <1>4, ItemFacts DEF Transactions, Directories, SameOperation, Store!Listed

LEMMA LeftOfFacts ==
    ASSUME NEW m \in Transactions, NEW remains \in {"manifest", "backups", "none"}
    PROVE  LET n == Store!LeftOf(m, remains) IN
           /\ n \in Transactions
           /\ n.state = m.state
           /\ n.remains = IF remains = "manifest" THEN m.remains ELSE remains
           /\ remains = "manifest" => n = m
<1>1. CASE remains = "manifest"
  BY <1>1 DEF Store!LeftOf
<1>2. CASE remains # "manifest"
  <2> DEFINE files == [i \in Items |-> "UNLISTED"]
  <2>1. files \in [Items -> Store!FileStates]
    BY DEF Store!FileStates
  <2>2. Store!LeftOf(m, remains) =
           [m EXCEPT !.remains = remains, !.before = Store!NoBackup, !.files = files]
    BY <1>2, ItemFacts DEF Store!LeftOf
  <2> HIDE DEF files
  <2>3. QED
    BY <1>2, <2>1, <2>2 DEF Transactions, Directories
<1>3. QED
  BY <1>1, <1>2

LEMMA SameWrites ==
    ASSUME NEW m, NEW n, SameOperation(m, n)
    PROVE  /\ \A md : Rewrites(m, md) <=> Rewrites(n, md)
           /\ \A image : AllKept(image, m) <=> AllKept(image, n)
           /\ \A image : AllGiven(image, m) <=> AllGiven(image, n)
           /\ SameOperation(n, m)
BY DEF SameOperation, Rewrites, AllKept, AllGiven

(* An image put together item by item.                                     *)
LEMMA HistoryMade ==
    ASSUME NEW h, DOMAIN h = Items, h = [i \in Items |-> h[i]],
           \A i \in Items : Fits(i, h[i])
    PROVE  h \in Histories
<1>1. \A i \in Items : h[i] \in Ids \cup Tables
  BY ItemFacts DEF Fits
<1>2. h \in [Items -> Ids \cup Tables]
  BY <1>1
<1>3. (\A t \in Threads : h[t] \in Ids) /\ h[Database] \in Tables
  BY ItemFacts DEF Fits
<1>4. QED
  BY <1>2, <1>3 DEF Histories

LEMMA IdleOK ==
    ASSUME NEW ms \in Seq(Transactions), NEW rec
    PROVE  JobOK(Store!IdleJob, ms, rec) /\ Store!IdleJob.at = "idle"
<1> DEFINE idle == Store!IdleJob
<1>1. /\ idle.at = "idle" /\ idle.op = 0 /\ idle.item = 0
      /\ idle.mem = Absent /\ idle.approved = {} /\ idle.failed = FALSE
      /\ idle.todo = {}
  BY DEF Store!IdleJob
<1>2. idle \in Jobs
  BY ItemFacts DEF Store!IdleJob, Jobs, Labels
<1>3. 0 \in 0 .. Len(ms)
  OBVIOUS
<1> HIDE DEF idle
<1>4. JobOK(idle, ms, rec)
  BY <1>1, <1>2, <1>3
     DEF JobOK, StartLabels, CommitLabels, UndoLabels, FlagLabels, RecoverLabels
<1>5. QED
  BY <1>1, <1>4 DEF idle

LEMMA JobGoto ==
    ASSUME NEW jb \in Jobs, NEW label \in Labels
    PROVE  LET n == [jb EXCEPT !.at = label] IN
           /\ n \in Jobs
           /\ n.at = label /\ n.mem = jb.mem
           /\ n.op = jb.op /\ n.item = jb.item /\ n.approved = jb.approved
           /\ n.failed = jb.failed /\ n.todo = jb.todo
BY DEF Jobs

LEMMA WithFacts ==
    ASSUME job \in Jobs, NEW m \in Transactions, NEW label \in Labels
    PROVE  LET n == Store!With(m, label) IN
           /\ n \in Jobs
           /\ n.at = label /\ n.mem = m
           /\ n.op = job.op /\ n.item = job.item /\ n.todo = job.todo
BY DEF Store!With, Jobs

(* The first listed file after i is next.                                  *)
LEMMA FirstAfterFacts ==
    ASSUME job.mem \in Transactions, NEW i \in Nat,
           \E k \in Store!Listed(job.mem) : k > i
    PROVE  LET k == FirstAfter(i) IN
           /\ k \in Store!Listed(job.mem) /\ k > i
           /\ \A l \in Store!Listed(job.mem) : l > i => k <= l
<1> DEFINE rest == {k \in Store!Listed(job.mem) : k > i}
<1>1. rest \subseteq Nat /\ rest # {}
  BY ListedFacts
<1>2. PICK k \in rest : \A l \in rest : k <= l
  <2> HIDE DEF rest
  <2> QED BY <1>1, Least
<1>3. k \in Store!Listed(job.mem) /\ k > i /\ \A l \in Store!Listed(job.mem) : l > i => k <= l
  BY <1>2
<1>4. QED
  BY <1>3 DEF FirstAfter

LEMMA OutcomeFacts ==
    ASSUME NEW kinds, NEW o \in Store!Outcomes(kinds)
    PROVE  o = "ok" \/ o \in kinds
BY DEF Store!Outcomes

LEMMA RemainsFacts ==
    ASSUME NEW o \in Store!Outcomes(RemovalFaults)
    PROVE  Store!Remains(o) \in {"manifest", "backups", "none"}
<1>1. o \in {"ok", "early", "late"}
  BY OutcomeFacts, FaultsAssumption
<1>2. QED
  BY <1>1 DEF Store!Remains

(* A command at work goes on with its transaction.                         *)
LEMMA JobGoesOn ==
    ASSUME NEW jb \in Jobs, NEW ms \in Seq(Transactions), NEW rec,
           Len(ms) > 0, ms[Len(ms)].remains = "manifest", jb.op = Len(ms),
           jb.mem \in Transactions, jb.mem.remains = "manifest",
           jb.at \notin {"idle"} \cup StartLabels,
           jb.at \in RecoverLabels <=> rec # Store!NoRecord,
           jb.at \in CommitLabels \cup UndoLabels => Store!Listed(jb.mem) # {},
           jb.at \in {"write", "putBack"} => jb.item \in Store!Listed(jb.mem),
           jb.at = "restore" => jb.todo # {} /\ jb.todo \subseteq Store!Listed(jb.mem)
    PROVE  JobOK(jb, ms, rec)
BY DEF JobOK, StartLabels, CommitLabels, UndoLabels, FlagLabels, RecoverLabels

LEMMA JobAtWork ==
    ASSUME StoreInv, job.at \notin {"idle"} \cup StartLabels
    PROVE  /\ job \in Jobs /\ job.mem \in Transactions /\ job.mem.remains = "manifest"
           /\ store \in Seq(Transactions) /\ Len(store) \in Nat
           /\ job.op = Len(store) /\ Len(store) > 0
           /\ store[Len(store)] \in Transactions /\ store[Len(store)].remains = "manifest"
           /\ job.at \in RecoverLabels <=> recovery # Store!NoRecord
           /\ job.at \in CommitLabels \cup UndoLabels => Store!Listed(job.mem) # {}
           /\ job.at \in {"write", "putBack"} => job.item \in Store!Listed(job.mem)
<1>1. /\ job \in Jobs /\ job.mem \in Transactions /\ job.mem.remains = "manifest"
      /\ store \in Seq(Transactions) /\ Len(store) \in Nat
      /\ job.op = Len(store) /\ Len(store) > 0
      /\ store[Len(store)].remains = "manifest"
      /\ job.at \in RecoverLabels <=> recovery # Store!NoRecord
      /\ job.at \in CommitLabels \cup UndoLabels => Store!Listed(job.mem) # {}
      /\ job.at \in {"write", "putBack"} => job.item \in Store!Listed(job.mem)
  BY DEF StoreInv, StoreOK, JobOK
<1>2. store[Len(store)] \in Transactions
  BY <1>1
<1>3. QED
  BY <1>1, <1>2

-----------------------------------------------------------------------------
(* The transaction directories stay in order: one lemma per action.        *)

(* What the write of the newest manifest does, whether or not it fails.    *)
LEMMA StoreStep ==
    ASSUME StoreInv, job.at \notin {"idle"} \cup StartLabels,
           NEW m \in Transactions, m.remains = "manifest",
           NEW o, NEW next, NEW otherwise,
           Store!StoreThen(m, o, next, otherwise), UNCHANGED recovery
    PROVE  /\ StoreOK(store', recovery')
           /\ Len(store') = Len(store) /\ Len(store) > 0
           /\ store'[Len(store)] = IF Store!Takes(o) THEN m ELSE store[Len(store)]
           /\ store'[Len(store)].remains = "manifest"
           /\ \A op \in 1 .. Len(store) : op # Len(store) => store'[op] = store[op]
           /\ disk' = disk
           /\ job' = IF o = "ok" THEN next ELSE otherwise
<1>1. /\ store \in Seq(Transactions) /\ Len(store) \in Nat
      /\ job.op = Len(store) /\ Len(store) > 0 /\ store[Len(store)].remains = "manifest"
  BY DEF StoreInv, StoreOK, JobOK
<1>2. /\ store' = IF Store!Takes(o) THEN [store EXCEPT ![Len(store)] = m] ELSE store
      /\ disk' = disk
      /\ job' = IF o = "ok" THEN next ELSE otherwise
  BY <1>1 DEF Store!StoreThen
<1>3. store' \in Seq(Transactions) /\ Len(store') = Len(store)
  BY <1>1, <1>2
<1>4. store'[Len(store)] = IF Store!Takes(o) THEN m ELSE store[Len(store)]
  BY <1>1, <1>2
<1>5. \A op \in 1 .. Len(store) : op # Len(store) => store'[op] = store[op]
  BY <1>1, <1>2
<1>6. StoreOK(store', recovery')
  BY <1>1, <1>2, <1>3, <1>4, <1>5 DEF StoreInv, StoreOK
<1>7. QED
  BY <1>1, <1>2, <1>3, <1>4, <1>5, <1>6

(* A log stays in order when the command goes on with its transaction, or  *)
(* ends.                                                                   *)
LEMMA LogKept ==
    ASSUME StoreInv, UNCHANGED <<mode, log, held>>,
           \/ job.at \in StartLabels \cup CommitLabels \cup UndoLabels
           \/ job'.at \notin StartLabels \cup CommitLabels \cup UndoLabels
    PROVE  LogOK'
BY DEF StoreInv, LogOK

(* After a write of the manifest every command that was right before it is *)
(* right after it.                                                         *)
LEMMA StoreThenOK ==
    ASSUME StoreInv, job.at \notin {"idle"} \cup StartLabels,
           NEW m \in Transactions, m.remains = "manifest",
           NEW o, NEW next, NEW otherwise,
           Store!StoreThen(m, o, next, otherwise), UNCHANGED <<recovery, mode, log, held>>,
           JobOK(next, store, recovery), next.at \notin StartLabels,
           JobOK(otherwise, store, recovery), otherwise.at \notin StartLabels,
           \/ job.at \in CommitLabels \cup UndoLabels
           \/ next.at \notin StartLabels \cup CommitLabels \cup UndoLabels
              /\ otherwise.at \notin StartLabels \cup CommitLabels \cup UndoLabels
    PROVE  StoreInv'
<1>1. /\ StoreOK(store', recovery') /\ disk' = disk
      /\ Len(store') = Len(store) /\ store'[Len(store')].remains = "manifest"
      /\ job' = IF o = "ok" THEN next ELSE otherwise
  BY StoreStep
<1>2. JobOK(job', store', recovery')
  BY <1>1 DEF JobOK
<1>3. LogOK'
  BY <1>1, LogKept
<1>4. QED
  BY <1>1, <1>2, <1>3 DEF StoreInv

(* Where the write of a manifest leads to: on, with the manifest written,  *)
(* back or to the end.                                                     *)
Goes(from, to) ==
    /\ to \in Labels \ ({"idle", "write", "putBack", "restore"} \cup StartLabels)
    /\ to \in RecoverLabels <=> from \in RecoverLabels
    /\ to \in CommitLabels \cup UndoLabels => from \in CommitLabels \cup UndoLabels

LEMMA GoesOn ==
    ASSUME StoreInv, job.at \notin {"idle"} \cup StartLabels,
           NEW m \in Transactions, m.remains = "manifest", SameOperation(m, job.mem),
           NEW label, Goes(job.at, label)
    PROVE  LET n == Store!With(m, label) IN
           JobOK(n, store, recovery) /\ n.at = label /\ n.mem = m
<1>1. label \in Labels
  BY DEF Goes
<1>2. /\ job \in Jobs /\ store \in Seq(Transactions) /\ job.op = Len(store) /\ Len(store) > 0
      /\ store[Len(store)].remains = "manifest"
      /\ job.at \in RecoverLabels <=> recovery # Store!NoRecord
      /\ job.at \in CommitLabels \cup UndoLabels => Store!Listed(job.mem) # {}
  BY JobAtWork
<1> DEFINE n == Store!With(m, label)
<1>3. n \in Jobs /\ n.at = label /\ n.mem = m /\ n.op = job.op
  BY <1>1, <1>2, WithFacts
<1>4. Store!Listed(m) = Store!Listed(job.mem)
  BY DEF SameOperation
<1> HIDE DEF n
<1>5. JobOK(n, store, recovery)
  BY <1>2, <1>3, <1>4, JobGoesOn DEF Goes
<1>6. QED
  BY <1>3, <1>5 DEF n

LEMMA GoesTo ==
    ASSUME StoreInv, job.at \notin {"idle"} \cup StartLabels,
           NEW label, Goes(job.at, label)
    PROVE  LET n == [job EXCEPT !.at = label] IN
           JobOK(n, store, recovery) /\ n.at = label /\ n.mem = job.mem
<1>1. label \in Labels
  BY DEF Goes
<1>2. /\ job \in Jobs /\ store \in Seq(Transactions) /\ job.op = Len(store) /\ Len(store) > 0
      /\ store[Len(store)].remains = "manifest"
      /\ job.mem \in Transactions /\ job.mem.remains = "manifest"
      /\ job.at \in RecoverLabels <=> recovery # Store!NoRecord
      /\ job.at \in CommitLabels \cup UndoLabels => Store!Listed(job.mem) # {}
  BY JobAtWork
<1> DEFINE n == [job EXCEPT !.at = label]
<1>3. n \in Jobs /\ n.at = label /\ n.mem = job.mem /\ n.op = job.op
  BY <1>1, <1>2, JobGoto
<1> HIDE DEF n
<1>4. JobOK(n, store, recovery)
  BY <1>2, <1>3, JobGoesOn DEF Goes
<1>5. QED
  BY <1>3, <1>4 DEF n

LEMMA ManifestStore ==
    ASSUME StoreInv, job.at \notin {"idle"} \cup StartLabels,
           NEW m \in Transactions, m.remains = "manifest", SameOperation(m, job.mem),
           NEW label, Goes(job.at, label),
           NEW otherwise,
           \/ otherwise = Store!IdleJob
           \/ \E back : Goes(job.at, back) /\ otherwise = [job EXCEPT !.at = back],
           NEW o, Store!StoreThen(m, o, Store!With(m, label), otherwise),
           UNCHANGED <<recovery, mode, log, held>>
    PROVE  StoreInv'
<1>1. JobOK(otherwise, store, recovery) /\ otherwise.at \notin StartLabels
      /\ (otherwise.at \in CommitLabels \cup UndoLabels => job.at \in CommitLabels \cup UndoLabels)
  <2>1. CASE otherwise = Store!IdleJob
    <3>1. store \in Seq(Transactions)
      BY JobAtWork
    <3>2. QED
      BY <2>1, <3>1, IdleOK DEF StartLabels, CommitLabels, UndoLabels
  <2>2. ASSUME NEW back, Goes(job.at, back), otherwise = [job EXCEPT !.at = back]
        PROVE  JobOK(otherwise, store, recovery) /\ otherwise.at = back
    BY <2>2, GoesTo
  <2>3. QED
    BY <2>1, <2>2 DEF Goes
<1> DEFINE next == Store!With(m, label)
<1>2. JobOK(next, store, recovery) /\ next.at = label
  BY GoesOn
<1>3. next.at \notin StartLabels
      /\ (next.at \in CommitLabels \cup UndoLabels => job.at \in CommitLabels \cup UndoLabels)
  BY <1>2 DEF Goes
<1>4. \/ job.at \in CommitLabels \cup UndoLabels
      \/ next.at \notin StartLabels \cup CommitLabels \cup UndoLabels
         /\ otherwise.at \notin StartLabels \cup CommitLabels \cup UndoLabels
  BY <1>1, <1>3
<1> HIDE DEF next
<1>5. QED
  BY <1>1, <1>2, <1>3, <1>4, StoreThenOK DEF next

(* What each write of the manifest has in hand, and where it leads to.     *)
Writes(m, label, otherwise, o) ==
    /\ m \in Transactions /\ m.remains = "manifest" /\ SameOperation(m, job.mem)
    /\ Goes(job.at, label)
    /\ \/ otherwise = Store!IdleJob
       \/ \E back : Goes(job.at, back) /\ otherwise = [job EXCEPT !.at = back]
    /\ Store!StoreThen(m, o, Store!With(m, label), otherwise)
    /\ UNCHANGED <<recovery, mode, log, held>>

LEMMA WritesStore ==
    ASSUME StoreInv, job.at \notin {"idle"} \cup StartLabels,
           NEW m, NEW label, NEW otherwise, NEW o, Writes(m, label, otherwise, o)
    PROVE  StoreInv'
<1>1. m \in Transactions
  BY DEF Writes
<1>2. QED
  BY <1>1, ManifestStore DEF Writes

LEMMA BeginWrites ==
    ASSUME StoreInv, BeginMerge
    PROVE  /\ job.at = "begin"
           /\ \E m, o : /\ m = [job.mem EXCEPT !.state = "COMMITTING"] /\ m.state = "COMMITTING"
                        /\ Writes(m, "intend", [job EXCEPT !.at = "undo"], o)
<1> USE DEF StartLabels, CommitLabels, UndoLabels, FlagLabels, RecoverLabels, Labels
<1>1. job.at = "begin" /\ UNCHANGED <<recovery, mode, log, held>>
  BY DEF BeginMerge
<1> DEFINE m == [job.mem EXCEPT !.state = "COMMITTING"]
<1>2. PICK o : Store!StoreThen(m, o, Store!With(m, "intend"), [job EXCEPT !.at = "undo"])
  BY DEF BeginMerge
<1>3. job.mem \in Transactions /\ job.mem.remains = "manifest"
  BY <1>1, JobAtWork
<1>4. /\ m \in Transactions /\ m.remains = "manifest" /\ SameOperation(m, job.mem)
      /\ m.state = "COMMITTING"
  BY <1>3, StateUpdate DEF Store!OperationStates
<1>5. Goes(job.at, "intend") /\ Goes(job.at, "undo")
  BY <1>1 DEF Goes
<1> HIDE DEF m
<1>6. Writes(m, "intend", [job EXCEPT !.at = "undo"], o)
  BY <1>1, <1>2, <1>4, <1>5 DEF Writes
<1>7. QED
  BY <1>1, <1>4, <1>6 DEF m

LEMMA IntendWrites ==
    ASSUME StoreInv, Intend
    PROVE  /\ job.at = "intend"
           /\ \E m, o : /\ m = Store!UpdateAllFileStates(job.mem, "MODIFIED")
                        /\ m.state = job.mem.state
                        /\ Writes(m, "unlink", [job EXCEPT !.at = "undo"], o)
<1> USE DEF StartLabels, CommitLabels, UndoLabels, FlagLabels, RecoverLabels, Labels
<1>1. job.at = "intend" /\ UNCHANGED <<recovery, mode, log, held>>
  BY DEF Intend
<1> DEFINE m == Store!UpdateAllFileStates(job.mem, "MODIFIED")
<1>2. PICK o : Store!StoreThen(m, o, Store!With(m, "unlink"), [job EXCEPT !.at = "undo"])
  BY DEF Intend
<1>3. job.mem \in Transactions /\ job.mem.remains = "manifest"
  BY <1>1, JobAtWork
<1>4. /\ m \in Transactions /\ m.remains = "manifest" /\ SameOperation(m, job.mem)
      /\ m.state = job.mem.state
  BY <1>3, AllFilesUpdate DEF Store!FileStates
<1>5. Goes(job.at, "unlink") /\ Goes(job.at, "undo")
  BY <1>1 DEF Goes
<1> HIDE DEF m
<1>6. Writes(m, "unlink", [job EXCEPT !.at = "undo"], o)
  BY <1>1, <1>2, <1>4, <1>5 DEF Writes
<1>7. QED
  BY <1>1, <1>2, <1>4, <1>6 DEF m

LEMMA FinishWrites ==
    ASSUME StoreInv, Store!FinishCommit, UNCHANGED <<mode, log, held>>
    PROVE  /\ job.at = "finish"
           /\ \E m, o : /\ m = [job.mem EXCEPT !.state = "COMMITTED"]
                        /\ m.state = "COMMITTED"
                        /\ o \in Store!Outcomes(CommitFaults)
                        /\ Writes(m, "discard", [job EXCEPT !.at = "undo"], o)
<1> USE DEF StartLabels, CommitLabels, UndoLabels, FlagLabels, RecoverLabels, Labels
<1>1. job.at = "finish" /\ UNCHANGED <<recovery, mode, log, held>>
  BY DEF Store!FinishCommit
<1> DEFINE m == [job.mem EXCEPT !.state = "COMMITTED"]
<1>2. PICK o \in Store!Outcomes(CommitFaults) : Store!StoreThen(m, o, Store!With(m, "discard"), [job EXCEPT !.at = "undo"])
  BY DEF Store!FinishCommit
<1>3. job.mem \in Transactions /\ job.mem.remains = "manifest"
  BY <1>1, JobAtWork
<1>4. /\ m \in Transactions /\ m.remains = "manifest" /\ SameOperation(m, job.mem)
      /\ m.state = "COMMITTED"
  BY <1>3, StateUpdate DEF Store!OperationStates
<1>5. Goes(job.at, "discard") /\ Goes(job.at, "undo")
  BY <1>1 DEF Goes
<1> HIDE DEF m
<1>6. Writes(m, "discard", [job EXCEPT !.at = "undo"], o)
  BY <1>1, <1>2, <1>4, <1>5 DEF Writes
<1>7. QED
  BY <1>1, <1>2, <1>4, <1>6 DEF m

LEMMA UnmarkWrites ==
    ASSUME StoreInv, Unmark
    PROVE  /\ job.at = "unmark"
           /\ \E m, o : /\ m = Store!UpdateAllFileStates(job.mem, "ROLLED_BACK")
                        /\ m.state = job.mem.state
                        /\ Writes(m, "settle", [job EXCEPT !.at = "flagFiles"], o)
<1> USE DEF StartLabels, CommitLabels, UndoLabels, FlagLabels, RecoverLabels, Labels
<1>1. job.at = "unmark" /\ UNCHANGED <<recovery, mode, log, held>>
  BY DEF Unmark
<1> DEFINE m == Store!UpdateAllFileStates(job.mem, "ROLLED_BACK")
<1>2. PICK o : Store!StoreThen(m, o, Store!With(m, "settle"), [job EXCEPT !.at = "flagFiles"])
  BY DEF Unmark
<1>3. job.mem \in Transactions /\ job.mem.remains = "manifest"
  BY <1>1, JobAtWork
<1>4. /\ m \in Transactions /\ m.remains = "manifest" /\ SameOperation(m, job.mem)
      /\ m.state = job.mem.state
  BY <1>3, AllFilesUpdate DEF Store!FileStates
<1>5. Goes(job.at, "settle") /\ Goes(job.at, "flagFiles")
  BY <1>1 DEF Goes
<1> HIDE DEF m
<1>6. Writes(m, "settle", [job EXCEPT !.at = "flagFiles"], o)
  BY <1>1, <1>2, <1>4, <1>5 DEF Writes
<1>7. QED
  BY <1>1, <1>2, <1>4, <1>6 DEF m

LEMMA SettleWrites ==
    ASSUME StoreInv, Settle
    PROVE  /\ job.at = "settle"
           /\ \E m, o : /\ m = [job.mem EXCEPT !.state = "ROLLED_BACK"]
                        /\ m.state = "ROLLED_BACK"
                        /\ Writes(m, "discard", [job EXCEPT !.at = "flagFiles"], o)
<1> USE DEF StartLabels, CommitLabels, UndoLabels, FlagLabels, RecoverLabels, Labels
<1>1. job.at = "settle" /\ UNCHANGED <<recovery, mode, log, held>>
  BY DEF Settle
<1> DEFINE m == [job.mem EXCEPT !.state = "ROLLED_BACK"]
<1>2. PICK o : Store!StoreThen(m, o, Store!With(m, "discard"), [job EXCEPT !.at = "flagFiles"])
  BY DEF Settle
<1>3. job.mem \in Transactions /\ job.mem.remains = "manifest"
  BY <1>1, JobAtWork
<1>4. /\ m \in Transactions /\ m.remains = "manifest" /\ SameOperation(m, job.mem)
      /\ m.state = "ROLLED_BACK"
  BY <1>3, StateUpdate DEF Store!OperationStates
<1>5. Goes(job.at, "discard") /\ Goes(job.at, "flagFiles")
  BY <1>1 DEF Goes
<1> HIDE DEF m
<1>6. Writes(m, "discard", [job EXCEPT !.at = "flagFiles"], o)
  BY <1>1, <1>2, <1>4, <1>5 DEF Writes
<1>7. QED
  BY <1>1, <1>2, <1>4, <1>6 DEF m

LEMMA FlagFilesWrites ==
    ASSUME StoreInv, Store!FlagFiles, UNCHANGED <<mode, log, held>>
    PROVE  /\ job.at = "flagFiles"
           /\ \E m, o : /\ m = Store!UpdateAllFileStates(job.mem, "RECOVERY_REQUIRED")
                        /\ m.state = job.mem.state
                        /\ \A i \in Store!Listed(m) : m.files[i] = "RECOVERY_REQUIRED"
                        /\ Writes(m, "flagOperation", Store!IdleJob, o)
<1> USE DEF StartLabels, CommitLabels, UndoLabels, FlagLabels, RecoverLabels, Labels
<1>1. job.at = "flagFiles" /\ UNCHANGED <<recovery, mode, log, held>>
  BY DEF Store!FlagFiles
<1> DEFINE m == Store!UpdateAllFileStates(job.mem, "RECOVERY_REQUIRED")
<1>2. PICK o : Store!StoreThen(m, o, Store!With(m, "flagOperation"), Store!IdleJob)
  BY DEF Store!FlagFiles
<1>3. job.mem \in Transactions /\ job.mem.remains = "manifest"
  BY <1>1, JobAtWork
<1>4. /\ m \in Transactions /\ m.remains = "manifest" /\ SameOperation(m, job.mem)
      /\ m.state = job.mem.state
      /\ \A i \in Store!Listed(m) : m.files[i] = "RECOVERY_REQUIRED"
  BY <1>3, AllFilesUpdate DEF Store!FileStates
<1>5. Goes(job.at, "flagOperation")
  BY <1>1 DEF Goes
<1> HIDE DEF m
<1>6. Writes(m, "flagOperation", Store!IdleJob, o)
  BY <1>1, <1>2, <1>4, <1>5 DEF Writes
<1>7. QED
  BY <1>1, <1>2, <1>4, <1>6 DEF m

LEMMA FlagOperationWrites ==
    ASSUME StoreInv, Store!FlagOperation, UNCHANGED <<mode, log, held>>
    PROVE  /\ job.at = "flagOperation"
           /\ \E m, o : /\ m = [job.mem EXCEPT !.state = "RECOVERY_REQUIRED"]
                        /\ m.state = "RECOVERY_REQUIRED" /\ m.files = job.mem.files
                        /\ Writes(m, "flagRecord", Store!IdleJob, o)
<1> USE DEF StartLabels, CommitLabels, UndoLabels, FlagLabels, RecoverLabels, Labels
<1>1. job.at = "flagOperation" /\ UNCHANGED <<recovery, mode, log, held>>
  BY DEF Store!FlagOperation
<1> DEFINE m == [job.mem EXCEPT !.state = "RECOVERY_REQUIRED"]
<1>2. PICK o : Store!StoreThen(m, o, Store!With(m, "flagRecord"), Store!IdleJob)
  BY DEF Store!FlagOperation
<1>3. job.mem \in Transactions /\ job.mem.remains = "manifest"
  BY <1>1, JobAtWork
<1>4. /\ m \in Transactions /\ m.remains = "manifest" /\ SameOperation(m, job.mem)
      /\ m.state = "RECOVERY_REQUIRED" /\ m.files = job.mem.files
  BY <1>3, StateUpdate DEF Store!OperationStates
<1>5. Goes(job.at, "flagRecord")
  BY <1>1 DEF Goes
<1> HIDE DEF m
<1>6. Writes(m, "flagRecord", Store!IdleJob, o)
  BY <1>1, <1>2, <1>4, <1>5 DEF Writes
<1>7. QED
  BY <1>1, <1>2, <1>4, <1>6 DEF m

LEMMA SettleFilesWrites ==
    ASSUME StoreInv, Store!SettleFiles, UNCHANGED <<mode, log, held>>
    PROVE  /\ job.at = "settleFiles"
           /\ \E m, o : /\ m = Store!UpdateAllFileStates(job.mem, "ROLLED_BACK")
                        /\ m.state = job.mem.state
                        /\ Writes(m, "settleOperation", Store!IdleJob, o)
<1> USE DEF StartLabels, CommitLabels, UndoLabels, FlagLabels, RecoverLabels, Labels
<1>1. job.at = "settleFiles" /\ UNCHANGED <<recovery, mode, log, held>>
  BY DEF Store!SettleFiles
<1> DEFINE m == Store!UpdateAllFileStates(job.mem, "ROLLED_BACK")
<1>2. PICK o : Store!StoreThen(m, o, Store!With(m, "settleOperation"), Store!IdleJob)
  BY DEF Store!SettleFiles
<1>3. job.mem \in Transactions /\ job.mem.remains = "manifest"
  BY <1>1, JobAtWork
<1>4. /\ m \in Transactions /\ m.remains = "manifest" /\ SameOperation(m, job.mem)
      /\ m.state = job.mem.state
  BY <1>3, AllFilesUpdate DEF Store!FileStates
<1>5. Goes(job.at, "settleOperation")
  BY <1>1 DEF Goes
<1> HIDE DEF m
<1>6. Writes(m, "settleOperation", Store!IdleJob, o)
  BY <1>1, <1>2, <1>4, <1>5 DEF Writes
<1>7. QED
  BY <1>1, <1>2, <1>4, <1>6 DEF m

LEMMA SettleOperationWrites ==
    ASSUME StoreInv, Store!SettleOperation, UNCHANGED <<mode, log, held>>
    PROVE  /\ job.at = "settleOperation"
           /\ \E m, o : /\ m = [job.mem EXCEPT !.state = "ROLLED_BACK"]
                        /\ m.state = "ROLLED_BACK"
                        /\ Writes(m, "clear", Store!IdleJob, o)
<1> USE DEF StartLabels, CommitLabels, UndoLabels, FlagLabels, RecoverLabels, Labels
<1>1. job.at = "settleOperation" /\ UNCHANGED <<recovery, mode, log, held>>
  BY DEF Store!SettleOperation
<1> DEFINE m == [job.mem EXCEPT !.state = "ROLLED_BACK"]
<1>2. PICK o : Store!StoreThen(m, o, Store!With(m, "clear"), Store!IdleJob)
  BY DEF Store!SettleOperation
<1>3. job.mem \in Transactions /\ job.mem.remains = "manifest"
  BY <1>1, JobAtWork
<1>4. /\ m \in Transactions /\ m.remains = "manifest" /\ SameOperation(m, job.mem)
      /\ m.state = "ROLLED_BACK"
  BY <1>3, StateUpdate DEF Store!OperationStates
<1>5. Goes(job.at, "clear")
  BY <1>1 DEF Goes
<1> HIDE DEF m
<1>6. Writes(m, "clear", Store!IdleJob, o)
  BY <1>1, <1>2, <1>4, <1>5 DEF Writes
<1>7. QED
  BY <1>1, <1>2, <1>4, <1>6 DEF m

(* The database as a reader sees it.                                       *)
LEMMA TableFacts ==
    ASSUME StoreInv
    PROVE  /\ Table \in Tables /\ History \in Histories
           /\ disk \in Histories
           /\ \A t \in Threads : History[t] = disk[t]
           /\ History[Database] = Table
           /\ mode = "delete" => Table = disk[Database] /\ History = disk
           /\ History = [disk EXCEPT ![Database] = Table]
<1>1. disk \in Histories /\ (held = Absent \/ held \in Tables)
  BY DEF StoreInv, LogOK
<1>2. disk \in Histories /\ disk[Database] \in Tables
  BY HistoryFacts DEF StoreInv
<1>3. Table \in Tables
  BY <1>2 DEF Table, StoreInv, LogOK
<1>4. mode = "delete" => Table = disk[Database]
  BY DEF Table, StoreInv, LogOK
<1>5. (\A t \in Threads : History[t] = disk[t]) /\ History[Database] = Table
  BY ItemFacts DEF History
<1>6. History = [disk EXCEPT ![Database] = Table]
  BY <1>2 DEF History, Histories
<1>7. [disk EXCEPT ![Database] = Table] \in Histories
  BY <1>2, <1>3, ItemFacts, HistoryUpdate DEF Fits
<1>8. mode = "delete" => History = disk
  BY <1>2, <1>4, <1>6, HistoryFacts
<1>9. QED
  BY <1>2, <1>3, <1>4, <1>5, <1>6, <1>7, <1>8

LEMMA RewrittenFacts ==
    /\ \A id \in Ids : Rewritten(id) \in Ids
    /\ \A md : \A table \in Tables : CopyOf(md, table) \in Tables
<1>1. \A id \in Ids : Rewritten(id) \in Ids
  BY DEF Rewritten, Ids
<1>2. ASSUME NEW table \in Tables PROVE Updated(table) \in Tables
  <2>1. \A t \in Threads : table[t] # Absent => table[t] \in Ids
    BY <1>2 DEF Tables
  <2>2. \A t \in Threads :
           (IF table[t] = Absent THEN Absent ELSE Rewritten(table[t])) \in Ids \cup {Absent}
    BY <1>1, <2>1
  <2>3. QED
    BY <2>2 DEF Updated, Tables
<1>3. QED
  BY <1>1, <1>2 DEF CopyOf

(* What a merge has in hand when it has decided to rewrite something.      *)
LEMMA StartFacts ==
    ASSUME StoreInv, StartMerge
    PROVE  /\ Quiet /\ Store!MayStart
           /\ UNCHANGED <<mode, disk, log, store, recovery>> /\ held' = log
           /\ job' \in Jobs /\ job'.at = "prune" /\ job'.op = 0
           /\ LET m == job'.mem IN
              /\ m \in Transactions /\ m.remains = "manifest" /\ m.state = "PREPARED"
              /\ m.before = History /\ Rewrites(m, mode) /\ Store!Listed(m) # {}
<1>1. /\ Quiet /\ Store!MayStart
      /\ UNCHANGED <<mode, disk, log, store, recovery>> /\ held' = log
  BY DEF StartMerge
<1> DEFINE before == [disk EXCEPT ![Database] = Table]
           after == [i \in Items |-> IF i = Database THEN UpdatedCopy(Table)
                                                     ELSE Rewritten(disk[i])]
           changed == {i \in Items : after[i] # before[i]}
           files == [i \in Items |-> IF i \in changed THEN "STAGED" ELSE "UNLISTED"]
           m == [before |-> before, incoming |-> after, state |-> "PREPARED",
                 remains |-> "manifest", files |-> files]
<1>2. changed # {} /\ job' = [Store!IdleJob EXCEPT !.at = "prune", !.mem = m]
  BY DEF StartMerge
<1>3. before = History /\ before \in Histories /\ disk \in Histories
  BY TableFacts
<1>4. \A i \in Items : Fits(i, after[i])
  <2>1. UpdatedCopy(Table) = CopyOf(mode, Table) /\ Table \in Tables
    BY TableFacts DEF UpdatedCopy, CopyOf
  <2>2. \A t \in Threads : Rewritten(disk[t]) \in Ids
    BY <1>3, HistoryFacts, RewrittenFacts
  <2>3. QED
    BY <2>1, <2>2, RewrittenFacts, ItemFacts DEF Fits
<1>5. after \in Histories
  <2>1. DOMAIN after = Items /\ after = [i \in Items |-> after[i]]
    OBVIOUS
  <2> HIDE DEF after
  <2>2. QED
    BY <1>4, <2>1, HistoryMade
<1>6. files \in [Items -> Store!FileStates] /\ {i \in Items : files[i] # "UNLISTED"} = changed
  BY DEF Store!FileStates
<1>7. after = [i \in Items |-> IF i = Database THEN CopyOf(mode, before[i])
                                               ELSE Rewritten(before[i])]
  <2>1. before[Database] = Table /\ \A i \in Items : i # Database => before[i] = disk[i]
    BY <1>3, ItemFacts DEF Histories
  <2>2. UpdatedCopy(Table) = CopyOf(mode, Table)
    BY DEF UpdatedCopy, CopyOf
  <2> HIDE DEF before
  <2>3. QED
    BY <2>1, <2>2
<1>8. changed = {i \in Items : after[i] # before[i]}
  OBVIOUS
<1> HIDE DEF before, after, changed, files
<1>9. m \in Transactions
  BY <1>3, <1>5, <1>6 DEF Transactions, Directories, Store!OperationStates
<1>10. Store!Listed(m) = changed
  BY <1>6, ItemFacts DEF Store!Listed
<1>11. Rewrites(m, mode)
  BY <1>3, <1>7, <1>8, <1>10 DEF Rewrites
<1>12. m.before = before /\ m.state = "PREPARED" /\ m.remains = "manifest"
  OBVIOUS
<1> HIDE DEF m
<1>13. job' = [at |-> "prune", op |-> 0, mem |-> m, item |-> 0, approved |-> {},
               failed |-> FALSE, todo |-> {}]
  BY <1>2 DEF Store!IdleJob
<1>14. job' \in Jobs
  BY <1>9, <1>13, ItemFacts DEF Jobs, Labels, StartLabels
<1>15. job'.at = "prune" /\ job'.op = 0 /\ job'.mem = m
  BY <1>13
<1>16. QED
  BY <1>1, <1>2, <1>3, <1>12, <1>9, <1>10, <1>11, <1>14, <1>15

LEMMA StartStore ==
    ASSUME StoreInv, StartMerge
    PROVE  StoreInv'
<1>1. /\ Quiet /\ Store!MayStart
      /\ UNCHANGED <<mode, disk, log, store, recovery>> /\ held' = log
      /\ job' \in Jobs /\ job'.at = "prune" /\ job'.op = 0
      /\ job'.mem \in Transactions /\ job'.mem.remains = "manifest"
      /\ Store!Listed(job'.mem) # {}
  BY StartFacts
<1>2. recovery = Store!NoRecord /\ \A op \in 1 .. Len(store) : ~Unfinished(store[op])
  BY <1>1 DEF Store!MayStart, Store!Incomplete, Unfinished
<1>3. Len(store) \in Nat
  BY DEF StoreInv, StoreOK
<1>4. JobOK(job', store, recovery)
  BY <1>1, <1>2, <1>3
     DEF JobOK, StartLabels, CommitLabels, UndoLabels, FlagLabels, RecoverLabels
<1>5. LogOK'
  BY <1>1 DEF StoreInv, LogOK
<1>6. QED
  BY <1>1, <1>4, <1>5 DEF StoreInv

LEMMA PruneFacts ==
    ASSUME StoreInv, Store!Prune
    PROVE  /\ disk' = disk /\ recovery' = recovery
           /\ job.at = "prune" /\ job' = [job EXCEPT !.at = "create"]
           /\ store' \in Seq(Transactions) /\ Len(store') = Len(store)
           /\ \A op \in 1 .. Len(store) :
                 /\ store'[op].state = store[op].state
                 /\ ~Unfinished(store[op]) /\ ~Unfinished(store'[op])
<1>1. /\ disk' = disk /\ recovery' = recovery
      /\ job.at = "prune" /\ job' = [job EXCEPT !.at = "create"]
  BY DEF Store!Prune, Store!Goto
<1> DEFINE finished == {op \in 1 .. Len(store) :
                          store[op].remains = "manifest" /\ Store!Finalized(store[op])}
<1>2. PICK o \in Store!Outcomes(RemovalFaults), stuck \in finished \cup {0} :
        store' = [op \in 1 .. Len(store) |->
                    IF op \notin finished THEN store[op]
                    ELSE Store!LeftOf(store[op],
                                      IF op # stuck THEN "none" ELSE Store!Remains(o))]
  BY DEF Store!Prune
<1>3. Store!Remains(o) \in {"manifest", "backups", "none"}
  BY RemainsFacts
<1>4. store \in Seq(Transactions) /\ Len(store) \in Nat
  BY DEF StoreInv, StoreOK
<1>5. \A op \in 1 .. Len(store) : store[op] \in Transactions /\ ~Unfinished(store[op])
  BY <1>1, <1>4 DEF StoreInv, JobOK, StartLabels
<1>6. \A op \in 1 .. Len(store) :
        \/ store'[op] = store[op]
        \/ /\ op \in finished
           /\ \E remains \in {"manifest", "backups", "none"} :
                 store'[op] = Store!LeftOf(store[op], remains)
  <2> HIDE DEF finished
  <2> QED BY <1>2, <1>3
<1>7. \A op \in 1 .. Len(store) :
        /\ store'[op] \in Transactions
        /\ store'[op].state = store[op].state
        /\ ~Unfinished(store'[op])
  <2>1. SUFFICES ASSUME NEW op \in 1 .. Len(store)
                 PROVE  /\ store'[op] \in Transactions
                        /\ store'[op].state = store[op].state
                        /\ ~Unfinished(store'[op])
    OBVIOUS
  <2>2. CASE store'[op] = store[op]
    BY <1>5, <2>2
  <2>3. ASSUME op \in finished, NEW remains \in {"manifest", "backups", "none"},
               store'[op] = Store!LeftOf(store[op], remains)
        PROVE  /\ store'[op] \in Transactions
               /\ store'[op].state = store[op].state
               /\ ~Unfinished(store'[op])
    <3>1. Store!Finalized(store[op]) /\ store[op] \in Transactions
      BY <1>5, <2>3
    <3>2. store'[op] \in Transactions /\ store'[op].state = store[op].state
      BY <2>3, <3>1, LeftOfFacts
    <3>3. QED
      BY <3>1, <3>2 DEF Unfinished, Store!Finalized
  <2>4. QED
    BY <1>6, <2>2, <2>3
<1>8. store' \in Seq(Transactions) /\ Len(store') = Len(store)
  <2>1. store' = [op \in 1 .. Len(store) |-> store'[op]]
    <3> HIDE DEF finished
    <3> QED BY <1>2
  <2>2. store' \in [1 .. Len(store) -> Transactions]
    BY <1>7, <2>1
  <2>3. QED
    BY <1>4, <2>2
<1>9. QED
  BY <1>1, <1>5, <1>7, <1>8

LEMMA PruneStore ==
    ASSUME StoreInv, Store!Prune, UNCHANGED <<mode, log, held>>
    PROVE  StoreInv'
<1>1. /\ disk' = disk /\ recovery' = recovery
      /\ job.at = "prune" /\ job' = [job EXCEPT !.at = "create"]
      /\ store' \in Seq(Transactions) /\ Len(store') = Len(store)
      /\ \A op \in 1 .. Len(store) : ~Unfinished(store[op]) /\ ~Unfinished(store'[op])
  BY PruneFacts
<1>2. job \in Jobs /\ recovery = Store!NoRecord /\ Len(store) \in Nat
      /\ job.mem \in Transactions /\ job.mem.remains = "manifest"
      /\ Store!Listed(job.mem) # {} /\ job.op \in 0 .. Len(store)
  BY <1>1 DEF StoreInv, StoreOK, JobOK, StartLabels, RecoverLabels
<1>3. job' \in Jobs /\ job'.at = "create" /\ job'.mem = job.mem /\ job'.op = job.op
  BY <1>1, <1>2, JobGoto DEF Labels, StartLabels
<1>4. JobOK(job', store', recovery')
  BY <1>1, <1>2, <1>3
     DEF JobOK, StartLabels, CommitLabels, UndoLabels, FlagLabels, RecoverLabels
<1>5. StoreOK(store', recovery')
  BY <1>1, <1>2 DEF StoreInv, StoreOK
<1>6. LogOK'
  BY <1>1, LogKept DEF StartLabels
<1>7. QED
  BY <1>1, <1>4, <1>5, <1>6 DEF StoreInv

LEMMA CreateFacts ==
    ASSUME StoreInv, Store!CreateManifest
    PROVE  /\ disk' = disk /\ recovery' = recovery
           /\ job.at = "create" /\ recovery = Store!NoRecord
           /\ job \in Jobs /\ job.mem \in Transactions /\ job.mem.remains = "manifest"
           /\ store \in Seq(Transactions) /\ store' \in Seq(Transactions)
           /\ Len(store') = Len(store) + 1 /\ Len(store) \in Nat
           /\ \A op \in 1 .. Len(store) :
                 ~Unfinished(store[op]) /\ store'[op] = store[op]
           /\ \/ store'[Len(store')] = job.mem
              \/ store'[Len(store')] = Store!LeftOf(job.mem, "backups")
           /\ \/ /\ job' = [job EXCEPT !.at = "begin", !.op = Len(store')]
                 /\ store'[Len(store')] = job.mem
              \/ job' = Store!IdleJob
<1>1. job.at = "create" /\ disk' = disk /\ recovery' = recovery
  BY DEF Store!CreateManifest
<1>2. PICK o : /\ store' = Append(store, Store!LeftOf(job.mem,
                              IF Store!Takes(o) THEN "manifest" ELSE "backups"))
               /\ IF o = "ok" THEN job' = [job EXCEPT !.at = "begin", !.op = Len(store) + 1]
                              ELSE job' = Store!IdleJob
  BY DEF Store!CreateManifest, Store!Exit
<1>3. /\ job \in Jobs /\ job.mem \in Transactions /\ job.mem.remains = "manifest"
      /\ recovery = Store!NoRecord /\ store \in Seq(Transactions) /\ Len(store) \in Nat
      /\ \A op \in 1 .. Len(store) : ~Unfinished(store[op])
  BY <1>1 DEF StoreInv, StoreOK, JobOK, StartLabels, RecoverLabels
<1> DEFINE n == Store!LeftOf(job.mem, IF Store!Takes(o) THEN "manifest" ELSE "backups")
<1>4. /\ n \in Transactions /\ (Store!Takes(o) => n = job.mem)
      /\ (~Store!Takes(o) => n = Store!LeftOf(job.mem, "backups"))
  <2>1. CASE Store!Takes(o)
    BY <1>3, <2>1, LeftOfFacts
  <2>2. CASE ~Store!Takes(o)
    BY <1>3, <2>2, LeftOfFacts
  <2>3. QED
    BY <2>1, <2>2
<1> HIDE DEF n
<1>5. store' = Append(store, n)
  BY <1>2 DEF n
<1>6. /\ store' \in Seq(Transactions) /\ Len(store') = Len(store) + 1
      /\ store'[Len(store')] = n
      /\ \A op \in 1 .. Len(store) : store'[op] = store[op]
  BY <1>3, <1>4, <1>5
<1>7. QED
  BY <1>1, <1>2, <1>3, <1>4, <1>6 DEF Store!Takes

LEMMA CreateStore ==
    ASSUME StoreInv, Store!CreateManifest, UNCHANGED <<mode, log, held>>
    PROVE  StoreInv'
<1>1. /\ disk' = disk /\ recovery' = Store!NoRecord /\ recovery = Store!NoRecord
      /\ job.at = "create" /\ job \in Jobs
      /\ job.mem \in Transactions /\ job.mem.remains = "manifest"
      /\ store' \in Seq(Transactions) /\ Len(store') = Len(store) + 1 /\ Len(store) \in Nat
      /\ \A op \in 1 .. Len(store) : ~Unfinished(store'[op])
  BY CreateFacts
<1>2. \/ /\ job' = [job EXCEPT !.at = "begin", !.op = Len(store')]
         /\ store'[Len(store')] = job.mem
      \/ job' = Store!IdleJob
  BY CreateFacts
<1>3. StoreOK(store', recovery')
  BY <1>1 DEF StoreInv, StoreOK, Store!NoRecord
<1>4. LogOK'
  BY <1>1, LogKept DEF StartLabels
<1>5. CASE job' = Store!IdleJob
  BY <1>1, <1>3, <1>4, <1>5, IdleOK DEF StoreInv
<1>6. CASE /\ job' = [job EXCEPT !.at = "begin", !.op = Len(store')]
           /\ store'[Len(store')] = job.mem
  <2>0. Len(store') \in Nat /\ Len(store') > 0
    BY <1>1
  <2>1. job' \in Jobs /\ job'.at = "begin" /\ job'.op = Len(store') /\ job'.mem = job.mem
    <3> DEFINE n == Len(store')
    <3>1. n \in Nat /\ job' = [job EXCEPT !.at = "begin", !.op = n] /\ job \in Jobs
      BY <1>1, <1>6, <2>0
    <3> HIDE DEF n
    <3>2. job' \in Jobs /\ job'.at = "begin" /\ job'.op = n /\ job'.mem = job.mem
      BY <3>1 DEF Jobs, Labels, CommitLabels
    <3>3. QED
      BY <3>2 DEF n
  <2>2. Store!Listed(job.mem) # {}
    BY <1>1 DEF StoreInv, JobOK, StartLabels
  <2>3. JobOK(job', store', recovery')
    BY <1>1, <1>6, <2>0, <2>1, <2>2, JobGoesOn DEF StartLabels, RecoverLabels
  <2>4. QED
    BY <1>1, <1>3, <1>4, <2>3 DEF StoreInv
<1>7. QED
  BY <1>2, <1>5, <1>6

LEMMA DiscardFacts ==
    ASSUME StoreInv, Store!Discard
    PROVE  /\ disk' = disk /\ recovery' = recovery /\ job' = Store!IdleJob
           /\ job.at = "discard" /\ job.mem \in Transactions /\ Len(store) \in Nat
           /\ recovery = Store!NoRecord
           /\ Len(store) > 0 /\ Len(store') = Len(store) /\ store' \in Seq(Transactions)
           /\ \A op \in 1 .. Len(store) : op # Len(store) => store'[op] = store[op]
           /\ store'[Len(store)].state = job.mem.state
           /\ \/ store'[Len(store)] = job.mem
              \/ store'[Len(store)].remains # "manifest"
<1>1. /\ job.at = "discard" /\ disk' = disk /\ recovery' = recovery
      /\ job' = Store!IdleJob
  BY DEF Store!Discard, Store!Exit
<1>2. PICK o \in Store!Outcomes(RemovalFaults) :
        store' = [store EXCEPT ![job.op] = Store!LeftOf(job.mem, Store!Remains(o))]
  BY DEF Store!Discard
<1>3. Store!Remains(o) \in {"manifest", "backups", "none"}
  BY RemainsFacts
<1>4. /\ job.mem \in Transactions /\ store \in Seq(Transactions)
      /\ job.op = Len(store) /\ Len(store) > 0 /\ Len(store) \in Nat
      /\ recovery = Store!NoRecord
  BY <1>1, JobAtWork DEF StartLabels, RecoverLabels
<1> DEFINE n == Store!LeftOf(job.mem, Store!Remains(o))
<1>5. n \in Transactions /\ n.state = job.mem.state /\ (n = job.mem \/ n.remains # "manifest")
  BY <1>3, <1>4, LeftOfFacts
<1> HIDE DEF n
<1>6. store' = [store EXCEPT ![Len(store)] = n]
  BY <1>2, <1>4 DEF n
<1>7. QED
  BY <1>1, <1>4, <1>5, <1>6

LEMMA DiscardStore ==
    ASSUME StoreInv, Store!Discard, UNCHANGED <<mode, log, held>>
    PROVE  StoreInv'
<1>1. StoreOK(store', recovery')
  BY DiscardFacts DEF StoreInv, StoreOK
<1>2. JobOK(job', store', recovery')
  BY DiscardFacts, IdleOK
<1>3. job'.at = "idle"
  BY DiscardFacts DEF Store!IdleJob
<1>4. LogOK'
  BY <1>3, LogKept DEF StartLabels, CommitLabels, UndoLabels
<1>5. QED
  BY <1>1, <1>2, <1>4, DiscardFacts DEF StoreInv

LEMMA GateFacts ==
    ASSUME StoreInv, Store!GateIncomplete
    PROVE  /\ UNCHANGED <<disk, store, recovery>> /\ job.at = "idle"
           /\ recovery = Store!NoRecord /\ Len(store) > 0 /\ store[Len(store)] \in Transactions
           /\ Unfinished(store[Len(store)])
           /\ job' \in Jobs /\ job'.at = "flagFiles" /\ job'.op = Len(store)
           /\ job'.mem = store[Len(store)]
<1>1. UNCHANGED <<disk, store, recovery>> /\ recovery = Store!NoRecord /\ job.at = "idle"
  BY DEF Store!GateIncomplete, Store!Idle
<1>2. PICK op \in Store!Incomplete :
        job' = [Store!IdleJob EXCEPT !.at = "flagFiles", !.op = op, !.mem = store[op]]
  BY DEF Store!GateIncomplete
<1>3. store \in Seq(Transactions) /\ op \in 1 .. Len(store) /\ Unfinished(store[op])
  BY <1>2 DEF Store!Incomplete, Unfinished, StoreInv, StoreOK
<1>4. op = Len(store) /\ Len(store) > 0 /\ Len(store) \in Nat
  BY <1>3 DEF StoreInv, StoreOK
<1>5. store[op] \in Transactions
  BY <1>3
<1>6. job' = [at |-> "flagFiles", op |-> op, mem |-> store[op], item |-> 0, approved |-> {},
              failed |-> FALSE, todo |-> {}]
  BY <1>2 DEF Store!IdleJob
<1>7. job' \in Jobs
  BY <1>4, <1>5, <1>6, ItemFacts DEF Jobs, Labels, FlagLabels
<1>8. QED
  BY <1>1, <1>3, <1>4, <1>5, <1>6, <1>7

LEMMA GateStore ==
    ASSUME StoreInv, Store!GateIncomplete, UNCHANGED <<mode, log, held>>
    PROVE  StoreInv'
<1>1. JobOK(job', store, recovery)
  BY GateFacts, JobGoesOn
     DEF StoreInv, StoreOK, Unfinished, StartLabels, RecoverLabels, CommitLabels, UndoLabels
<1>2. LogOK'
  BY GateFacts, LogKept DEF StartLabels, CommitLabels, UndoLabels
<1>3. QED
  BY <1>1, <1>2, GateFacts DEF StoreInv

LEMMA FlagRecordStore ==
    ASSUME StoreInv, Store!FlagRecord, UNCHANGED <<mode, log, held>>
    PROVE  StoreInv'
<1>1. job.at = "flagRecord" /\ UNCHANGED <<disk, store>> /\ job' = Store!IdleJob
      /\ recovery' \in {job.op, recovery}
  BY DEF Store!FlagRecord, Store!Exit
<1>2. /\ job.op = Len(store) /\ Len(store) > 0 /\ Len(store) \in Nat
      /\ store[Len(store)].remains = "manifest"
  BY <1>1, JobAtWork DEF StartLabels
<1>3. JobOK(job', store', recovery') /\ job'.at = "idle"
  BY <1>1, IdleOK DEF StoreInv, StoreOK
<1>4. LogOK'
  BY <1>3, LogKept DEF StartLabels, CommitLabels, UndoLabels
<1>5. QED
  BY <1>1, <1>2, <1>3, <1>4 DEF StoreInv, StoreOK

(* What recover has in hand: the recorded operation and what is to be      *)
(* restored.                                                               *)
LEMMA StartRecoverFacts ==
    ASSUME StoreInv, Store!StartRecover
    PROVE  /\ UNCHANGED <<disk, store, recovery>> /\ job.at = "idle"
           /\ recovery # Store!NoRecord /\ recovery = Len(store) /\ Len(store) > 0
           /\ store[Len(store)] \in Transactions
           /\ store[Len(store)].remains = "manifest"
           /\ job' \in Jobs /\ job'.op = Len(store) /\ job'.mem = store[Len(store)]
           /\ job'.todo = {i \in Store!Listed(store[Len(store)]) :
                             store[Len(store)].files[i] \in {"MODIFIED", "RECOVERY_REQUIRED"}}
           /\ \/ job'.at = "restore" /\ job'.todo # {}
              \/ job'.at = "settleFiles" /\ job'.todo = {}
<1>1. UNCHANGED <<disk, store, recovery>> /\ recovery # Store!NoRecord /\ job.at = "idle"
  BY DEF Store!StartRecover, Store!Idle
<1>2. /\ recovery = Len(store) /\ Len(store) > 0 /\ store \in Seq(Transactions)
      /\ Len(store) \in Nat /\ store[Len(store)].remains = "manifest"
  BY <1>1 DEF StoreInv, StoreOK, Store!NoRecord
<1>3. store[Len(store)] \in Transactions
  BY <1>2
<1> DEFINE m == store[Len(store)]
           todo == {i \in Store!Listed(m) : m.files[i] \in {"MODIFIED", "RECOVERY_REQUIRED"}}
<1>4. job' = [Store!IdleJob EXCEPT !.at = IF todo = {} THEN "settleFiles" ELSE "restore",
                                   !.op = Len(store), !.mem = m, !.todo = todo]
  BY <1>2 DEF Store!StartRecover
<1>5. todo \subseteq Items
  BY <1>3, TransactionFacts
<1> HIDE DEF m, todo
<1>6. job' = [at |-> IF todo = {} THEN "settleFiles" ELSE "restore", op |-> Len(store),
              mem |-> m, item |-> 0, approved |-> {}, failed |-> FALSE, todo |-> todo]
  BY <1>4 DEF Store!IdleJob
<1>7. job' \in Jobs
  BY <1>2, <1>3, <1>5, <1>6, ItemFacts DEF Jobs, Labels, RecoverLabels, m
<1>8. /\ job'.op = Len(store) /\ job'.mem = m /\ job'.todo = todo
      /\ job'.at = IF todo = {} THEN "settleFiles" ELSE "restore"
  BY <1>6
<1>9. QED
  BY <1>1, <1>2, <1>3, <1>7, <1>8 DEF m, todo

LEMMA StartRecoverStore ==
    ASSUME StoreInv, Store!StartRecover, UNCHANGED <<mode, log, held>>
    PROVE  StoreInv'
<1>1. job'.todo \subseteq Store!Listed(job'.mem)
  BY StartRecoverFacts
<1>2. JobOK(job', store, recovery)
  BY <1>1, StartRecoverFacts, JobGoesOn
     DEF StoreInv, StoreOK, StartLabels, RecoverLabels, CommitLabels, UndoLabels
<1>3. LogOK'
  BY StartRecoverFacts, LogKept DEF StartLabels, CommitLabels, UndoLabels
<1>4. QED
  BY <1>2, <1>3, StartRecoverFacts DEF StoreInv

LEMMA RestoreFacts ==
    ASSUME StoreInv, Store!Restore
    PROVE  /\ job.at = "restore" /\ UNCHANGED <<store, recovery>>
           /\ \E i \in job.todo :
                 /\ i \in Store!Listed(job.mem)
                 /\ disk' \in {disk, [disk EXCEPT ![i] = job.mem.before[i]]}
                 /\ \/ job' = Store!IdleJob
                    \/ /\ disk' = [disk EXCEPT ![i] = job.mem.before[i]]
                       /\ job' \in Jobs /\ job'.mem = job.mem /\ job'.op = job.op
                       /\ job'.todo = job.todo \ {i}
                       /\ \/ job'.at = "restore" /\ job'.todo # {}
                          \/ job'.at = "settleFiles" /\ job'.todo = {}
<1>1. job.at = "restore" /\ UNCHANGED <<store, recovery>>
  BY DEF Store!Restore
<1>2. PICK i \in job.todo, o \in Store!Outcomes(TargetFaults) :
        /\ disk' = IF Store!Takes(o) THEN [disk EXCEPT ![i] = job.mem.before[i]] ELSE disk
        /\ IF o # "ok" THEN job' = Store!IdleJob
           ELSE job' = [job EXCEPT !.todo = @ \ {i},
                                   !.at = IF job.todo = {i} THEN "settleFiles" ELSE @]
  BY DEF Store!Restore, Store!Exit
<1>3. job \in Jobs /\ i \in Store!Listed(job.mem)
  BY <1>1, JobAtWork DEF StoreInv, JobOK, StartLabels
<1> DEFINE label == IF job.todo = {i} THEN "settleFiles" ELSE "restore"
<1>4. ASSUME o = "ok"
      PROVE  /\ disk' = [disk EXCEPT ![i] = job.mem.before[i]]
             /\ job' \in Jobs /\ job'.mem = job.mem /\ job'.op = job.op
             /\ job'.todo = job.todo \ {i} /\ job'.at = label
  <2>1. job' = [job EXCEPT !.todo = job.todo \ {i}, !.at = label]
    BY <1>1, <1>2, <1>4
  <2>2. label \in Labels /\ job.todo \ {i} \subseteq Items
    BY <1>3 DEF Labels, RecoverLabels, Jobs
  <2> HIDE DEF label
  <2>3. QED
    BY <1>2, <1>3, <1>4, <2>1, <2>2 DEF Jobs, Store!Takes
<1>5. disk' \in {disk, [disk EXCEPT ![i] = job.mem.before[i]]}
  BY <1>2
<1>6. CASE o = "ok"
  BY <1>1, <1>3, <1>4, <1>5, <1>6
<1>7. CASE o # "ok"
  BY <1>1, <1>2, <1>3, <1>5, <1>7
<1>8. QED
  BY <1>6, <1>7

LEMMA RestoreStore ==
    ASSUME StoreInv, Store!Restore, UNCHANGED <<mode, log, held>>
    PROVE  StoreInv'
<1>1. job.at = "restore" /\ UNCHANGED <<store, recovery>>
  BY RestoreFacts
<1>2. PICK i \in job.todo :
        /\ i \in Store!Listed(job.mem)
        /\ disk' \in {disk, [disk EXCEPT ![i] = job.mem.before[i]]}
        /\ \/ job' = Store!IdleJob
           \/ /\ job' \in Jobs /\ job'.mem = job.mem /\ job'.op = job.op
              /\ job'.todo = job.todo \ {i}
              /\ \/ job'.at = "restore" /\ job'.todo # {}
                 \/ job'.at = "settleFiles" /\ job'.todo = {}
  BY RestoreFacts
<1>3. /\ job.mem \in Transactions /\ job.mem.before \in Histories /\ i \in Items
      /\ job.todo \subseteq Store!Listed(job.mem) /\ disk \in Histories
  BY <1>1, <1>2, JobAtWork, TransactionFacts DEF StoreInv, StoreOK, JobOK, StartLabels
<1>4. disk' \in Histories
  <2>1. Fits(i, job.mem.before[i])
    BY <1>3, HistoryFits
  <2>2. [disk EXCEPT ![i] = job.mem.before[i]] \in Histories
    BY <1>3, <2>1, HistoryUpdate
  <2>3. QED
    BY <1>2, <1>3, <2>2
<1>5. JobOK(job', store, recovery)
  <2>1. CASE job' = Store!IdleJob
    BY <2>1, IdleOK DEF StoreInv, StoreOK
  <2>2. CASE /\ job' \in Jobs /\ job'.mem = job.mem /\ job'.op = job.op
             /\ job'.todo = job.todo \ {i}
             /\ \/ job'.at = "restore" /\ job'.todo # {}
                \/ job'.at = "settleFiles" /\ job'.todo = {}
    BY <1>1, <1>3, <2>2, JobAtWork, JobGoesOn
       DEF StartLabels, RecoverLabels, CommitLabels, UndoLabels
  <2>3. QED
    BY <1>2, <2>1, <2>2
<1>6. job'.at \in {"idle", "restore", "settleFiles"}
  BY <1>2 DEF Store!IdleJob
<1>7. LogOK'
  BY <1>6, LogKept DEF StartLabels, CommitLabels, UndoLabels
<1>8. QED
  BY <1>1, <1>4, <1>5, <1>7 DEF StoreInv, StoreOK

LEMMA ClearStore ==
    ASSUME StoreInv, Store!ClearRecord, UNCHANGED <<mode, log, held>>
    PROVE  StoreInv'
<1>1. UNCHANGED <<disk, store>> /\ recovery' = Store!NoRecord /\ job' = Store!IdleJob
  BY DEF Store!ClearRecord, Store!Exit
<1>2. JobOK(job', store', recovery') /\ job'.at = "idle"
  BY <1>1, IdleOK DEF StoreInv, StoreOK
<1>3. LogOK'
  BY <1>2, LogKept DEF StartLabels, CommitLabels, UndoLabels
<1>4. QED
  BY <1>1, <1>2, <1>3 DEF StoreInv, StoreOK, Store!NoRecord

LEMMA CloseFacts ==
    ASSUME StoreInv, CloseDatabase
    PROVE  /\ UNCHANGED <<mode, store, recovery, job>>
           /\ log' = Absent /\ held' = Absent /\ held \in Tables /\ held = Table
           /\ disk' = [disk EXCEPT ![Database] = held] /\ disk' \in Histories
<1>1. /\ UNCHANGED <<mode, store, recovery, job>> /\ held # Absent
      /\ log' = Absent /\ held' = Absent /\ disk' = [disk EXCEPT ![Database] = held]
  BY DEF CloseDatabase
<1>2. held \in Tables /\ disk \in Histories
  BY <1>1 DEF StoreInv, LogOK
<1>3. [disk EXCEPT ![Database] = held] \in Histories
  BY <1>2, ItemFacts, HistoryUpdate DEF Fits
<1>4. QED
  BY <1>1, <1>2, <1>3 DEF Table

LEMMA CloseStore ==
    ASSUME StoreInv, CloseDatabase
    PROVE  StoreInv'
BY CloseFacts DEF StoreInv, LogOK

LEMMA KillStore ==
    ASSUME StoreInv, Kill
    PROVE  StoreInv'
<1>1. /\ UNCHANGED <<disk, store, recovery, mode, log>> /\ held' = Absent
      /\ job' = Store!IdleJob
  BY DEF Kill, Store!Crash, Store!Exit
<1>2. JobOK(job', store, recovery) /\ job'.at = "idle"
  BY <1>1, IdleOK DEF StoreInv, StoreOK
<1>3. LogOK'
  BY <1>1, <1>2 DEF StoreInv, LogOK, StartLabels, CommitLabels, UndoLabels
<1>4. QED
  BY <1>1, <1>2, <1>3 DEF StoreInv

LEMMA UseFacts ==
    ASSUME StoreInv, NEW t \in Threads, NEW id \in Ids, NEW log_left \in BOOLEAN,
           UseCodex(t, id, log_left)
    PROVE  LET table == [Table EXCEPT ![t] = id] IN
           /\ Quiet /\ ~Store!Owed /\ UNCHANGED <<mode, store, recovery, job>>
           /\ table \in Tables /\ held = Absent /\ held' = Absent
           /\ disk' \in Histories /\ disk'[t] = id
           /\ \A s \in Threads : s # t => disk'[s] = disk[s]
           /\ \/ log_left /\ mode = "wal" /\ log' = table
              \/ log' = Absent /\ disk'[Database] = table
<1> DEFINE table == [Table EXCEPT ![t] = id]
           rest == IF log_left THEN disk[Database] ELSE table
           named == [disk EXCEPT ![t] = id]
<1>1. /\ Quiet /\ ~Store!Owed /\ UNCHANGED <<mode, store, recovery, job>>
      /\ held = Absent /\ held' = Absent /\ (log_left => mode = "wal")
      /\ log' = IF log_left THEN table ELSE Absent
  BY DEF UseCodex, Quiet
<1>2. table \in Tables /\ disk \in Histories /\ disk[Database] \in Tables
  <2>1. Table \in Tables /\ disk \in Histories
    BY TableFacts
  <2>2. table \in Tables
    BY <2>1 DEF Tables
  <2>3. QED
    BY <2>1, <2>2, HistoryFacts
<1>3. disk' = [named EXCEPT ![Database] = rest]
  BY <1>2, ItemFacts DEF UseCodex, Histories
<1> HIDE DEF table
<1>4. rest \in Tables
  BY <1>2
<1>5. named \in Histories
  BY <1>2, ItemFacts, HistoryUpdate DEF Fits
<1>6. named[t] = id /\ \A s \in Threads : s # t => named[s] = disk[s]
  BY <1>2, ItemFacts DEF Histories
<1> HIDE DEF named
<1>7. /\ disk' \in Histories /\ disk'[Database] = rest
      /\ \A s \in Threads : disk'[s] = named[s]
  <2> HIDE DEF rest
  <2>1. [named EXCEPT ![Database] = rest] \in Histories
    BY <1>4, <1>5, ItemFacts, HistoryUpdate DEF Fits
  <2>2. QED
    BY <1>3, <1>5, <2>1, ItemFacts DEF Histories
<1>8. \/ log_left /\ mode = "wal" /\ log' = table
      \/ log' = Absent /\ disk'[Database] = table
  BY <1>1, <1>7
<1>9. QED
  BY <1>1, <1>2, <1>6, <1>7, <1>8 DEF table

LEMMA UseStore ==
    ASSUME StoreInv, NEW t \in Threads, NEW id \in Ids, NEW log_left \in BOOLEAN,
           UseCodex(t, id, log_left)
    PROVE  StoreInv'
<1>1. /\ Quiet /\ UNCHANGED <<mode, store, recovery, job>> /\ held' = Absent
      /\ disk' \in Histories /\ log' \in Tables \cup {Absent}
      /\ mode # "wal" => log' = Absent
  BY UseFacts
<1>2. job.at = "idle"
  BY <1>1 DEF Quiet, Store!Idle
<1>3. LogOK'
  BY <1>1, <1>2 DEF StoreInv, LogOK, StartLabels, CommitLabels, UndoLabels
<1>4. QED
  BY <1>1, <1>3 DEF StoreInv

(* The logs are unlinked; a log the process does not hold is not there.    *)
LEMMA UnlinkFacts ==
    ASSUME StoreInv, Unlink
    PROVE  /\ job.at \in {"unlink", "undo"}
           /\ UNCHANGED <<mode, disk, held, store, recovery>> /\ Table' = Table
           /\ log' \in {log, Absent}
           /\ LET starts == IF job.at = "unlink" THEN "write" ELSE "putBack"
                  fails == IF job.at = "unlink" THEN "undo" ELSE "flagFiles" IN
              \/ job' = [job EXCEPT !.at = starts, !.item = FirstAfter(0)]
              \/ job' = [job EXCEPT !.at = fails]
           /\ FirstAfter(0) \in Store!Listed(job.mem)
           /\ \A k \in Store!Listed(job.mem) : FirstAfter(0) <= k
<1>1. /\ job.at \in {"unlink", "undo"}
      /\ UNCHANGED <<mode, disk, held, store, recovery>>
      /\ log' \in {log, Absent}
  BY DEF Unlink
<1>2. LET starts == IF job.at = "unlink" THEN "write" ELSE "putBack"
          fails == IF job.at = "unlink" THEN "undo" ELSE "flagFiles" IN
      \/ job' = [job EXCEPT !.at = starts, !.item = FirstAfter(0)]
      \/ job' = [job EXCEPT !.at = fails]
  BY DEF Unlink
<1>3. held = Absent => log = Absent
  BY <1>1 DEF StoreInv, LogOK, CommitLabels, UndoLabels
<1>4. Table' = Table
  BY <1>1, <1>3 DEF Table
<1>5. job.mem \in Transactions /\ Store!Listed(job.mem) # {}
  BY <1>1, JobAtWork DEF StartLabels, CommitLabels, UndoLabels
<1>6. PICK k \in Store!Listed(job.mem) : k > 0
  BY <1>5, ListedFacts
<1>7. /\ FirstAfter(0) \in Store!Listed(job.mem)
      /\ \A l \in Store!Listed(job.mem) : l > 0 => FirstAfter(0) <= l
  BY <1>5, <1>6, FirstAfterFacts
<1>8. QED
  BY <1>1, <1>2, <1>4, <1>5, <1>7, ListedFacts

(* A command goes on with another item in hand.                            *)
LEMMA WritesOn ==
    ASSUME StoreInv, job.at \in CommitLabels \cup UndoLabels,
           NEW label \in {"write", "putBack"}, NEW i \in Store!Listed(job.mem)
    PROVE  LET n == [job EXCEPT !.at = label, !.item = i] IN
           /\ JobOK(n, store, recovery)
           /\ n.at = label /\ n.mem = job.mem /\ n.item = i
<1> DEFINE n == [job EXCEPT !.at = label, !.item = i]
<1>1. job.at \notin {"idle"} \cup StartLabels \cup RecoverLabels
  BY DEF StartLabels, CommitLabels, UndoLabels, RecoverLabels
<1>2. /\ job \in Jobs /\ store \in Seq(Transactions) /\ job.op = Len(store) /\ Len(store) > 0
      /\ store[Len(store)].remains = "manifest"
      /\ job.mem \in Transactions /\ job.mem.remains = "manifest"
      /\ recovery = Store!NoRecord /\ Store!Listed(job.mem) # {}
  BY <1>1, JobAtWork
<1>3. label \in Labels
  BY DEF Labels, CommitLabels, UndoLabels
<1>4. i \in 0 .. Database
  BY <1>2, ListedFacts, ItemFacts
<1>5. n \in Jobs /\ n.at = label /\ n.mem = job.mem /\ n.op = job.op /\ n.item = i
  BY <1>2, <1>3, <1>4 DEF Jobs
<1> HIDE DEF n
<1>6. n.at \notin {"idle", "restore"} \cup StartLabels \cup RecoverLabels
  BY <1>5 DEF StartLabels, RecoverLabels
<1>7. JobOK(n, store, recovery)
  BY <1>2, <1>5, <1>6, JobGoesOn
<1>8. QED
  BY <1>5, <1>7 DEF n

LEMMA UnlinkStore ==
    ASSUME StoreInv, Unlink
    PROVE  StoreInv'
<1> DEFINE starts == IF job.at = "unlink" THEN "write" ELSE "putBack"
           fails == IF job.at = "unlink" THEN "undo" ELSE "flagFiles"
<1>1. /\ job.at \in {"unlink", "undo"}
      /\ UNCHANGED <<mode, disk, held, store, recovery>> /\ log' \in {log, Absent}
      /\ \/ job' = [job EXCEPT !.at = starts, !.item = FirstAfter(0)]
         \/ job' = [job EXCEPT !.at = fails]
      /\ FirstAfter(0) \in Store!Listed(job.mem)
  BY UnlinkFacts
<1>2. job.at \in CommitLabels \cup UndoLabels /\ job.at \notin {"idle"} \cup StartLabels
  BY <1>1 DEF StartLabels, CommitLabels, UndoLabels
<1>3. starts \in {"write", "putBack"} /\ Goes(job.at, fails)
  BY <1>1 DEF Goes, Labels, StartLabels, CommitLabels, UndoLabels, FlagLabels, RecoverLabels
<1> HIDE DEF starts, fails
<1>4. JobOK(job', store, recovery)
  <2>1. CASE job' = [job EXCEPT !.at = starts, !.item = FirstAfter(0)]
    <3>1. JobOK([job EXCEPT !.at = starts, !.item = FirstAfter(0)], store, recovery)
      BY <1>1, <1>2, <1>3, WritesOn
    <3>2. QED
      BY <2>1, <3>1
  <2>2. CASE job' = [job EXCEPT !.at = fails]
    BY <1>2, <1>3, <2>2, GoesTo
  <2>3. QED
    BY <1>1, <2>1, <2>2
<1>5. LogOK'
  BY <1>1, <1>2 DEF StoreInv, LogOK
<1>6. QED
  BY <1>1, <1>4, <1>5 DEF StoreInv

(* Where the write of a file leads to: back, to the end or to the next one. *)
LeadsTo(contents, next, otherwise) ==
    LET written == [disk EXCEPT ![job.item] = contents[job.item]]
        last == \A k \in Store!Listed(job.mem) : k <= job.item IN
    \/ job' = [job EXCEPT !.at = otherwise]
    \/ last /\ disk' = written /\ job' = [job EXCEPT !.at = next]
    \/ /\ ~last /\ disk' = written
       /\ job' = [job EXCEPT !.at = job.at, !.item = FirstAfter(job.item)]
       /\ FirstAfter(job.item) \in Store!Listed(job.mem)
       /\ FirstAfter(job.item) > job.item
       /\ \A l \in Store!Listed(job.mem) : l > job.item => FirstAfter(job.item) <= l

(* A file is written, or written back; the manifest is left alone.         *)
LEMMA WriteFileFacts ==
    ASSUME StoreInv, job.at \in {"write", "putBack"}, NEW contents \in Histories,
           NEW o, NEW next, NEW otherwise, WriteFile(contents, o, next, otherwise)
    PROVE  /\ job.item \in Store!Listed(job.mem) /\ job.item \in Items
           /\ UNCHANGED <<mode, log, held, store, recovery>>
           /\ [disk EXCEPT ![job.item] = contents[job.item]] \in Histories
           /\ disk' \in {disk, [disk EXCEPT ![job.item] = contents[job.item]]}
           /\ LeadsTo(contents, next, otherwise)
<1> DEFINE written == [disk EXCEPT ![job.item] = contents[job.item]]
           last == \A k \in Store!Listed(job.mem) : k <= job.item
<1>1. /\ job \in Jobs /\ job.mem \in Transactions /\ job.item \in Store!Listed(job.mem)
  BY JobAtWork DEF StartLabels
<1>2. job.item \in Items /\ job.item \in Nat /\ disk \in Histories
  BY <1>1, ListedFacts DEF StoreInv
<1>3. written \in Histories
  BY <1>2, HistoryFits, HistoryUpdate
<1>4. /\ disk' = IF Store!Takes(o) THEN written ELSE disk
      /\ job' = IF o # "ok" THEN [job EXCEPT !.at = otherwise]
                ELSE IF last THEN [job EXCEPT !.at = next]
                ELSE [job EXCEPT !.item = FirstAfter(job.item)]
      /\ UNCHANGED <<mode, log, held, store, recovery>>
  BY DEF WriteFile, IsLast
<1>5. o = "ok" => disk' = written
  BY <1>4 DEF Store!Takes
<1>6. [job EXCEPT !.item = FirstAfter(job.item)]
        = [job EXCEPT !.at = job.at, !.item = FirstAfter(job.item)]
  BY <1>1 DEF Jobs
<1>7. ASSUME ~last
      PROVE  /\ FirstAfter(job.item) \in Store!Listed(job.mem)
             /\ FirstAfter(job.item) > job.item
             /\ \A l \in Store!Listed(job.mem) :
                   l > job.item => FirstAfter(job.item) <= l
  <2>1. PICK k \in Store!Listed(job.mem) : k > job.item
    BY <1>1, <1>2, <1>7, ListedFacts
  <2>2. QED
    BY <1>1, <1>2, <2>1, FirstAfterFacts
<1> HIDE DEF written, last
<1>8. CASE o # "ok"
  BY <1>1, <1>2, <1>3, <1>4, <1>8 DEF written, last, LeadsTo
<1>9. CASE o = "ok" /\ last
  BY <1>1, <1>2, <1>3, <1>4, <1>5, <1>9 DEF written, last, LeadsTo
<1>10. CASE o = "ok" /\ ~last
  <2>1. job' = [job EXCEPT !.at = job.at, !.item = FirstAfter(job.item)]
    BY <1>4, <1>6, <1>10
  <2>2. QED
    BY <1>1, <1>2, <1>3, <1>4, <1>5, <1>7, <1>10, <2>1 DEF written, last, LeadsTo
<1>11. QED
  BY <1>8, <1>9, <1>10

LEMMA WriteFileStore ==
    ASSUME StoreInv, job.at \in {"write", "putBack"}, NEW contents \in Histories,
           NEW o, NEW next, NEW otherwise, WriteFile(contents, o, next, otherwise),
           Goes(job.at, next), Goes(job.at, otherwise)
    PROVE  StoreInv'
<1>1. job.at \in CommitLabels \cup UndoLabels /\ job.at \notin {"idle"} \cup StartLabels
  BY DEF StartLabels, CommitLabels, UndoLabels
<1>2. /\ UNCHANGED <<mode, log, held, store, recovery>> /\ disk' \in Histories
      /\ \/ job' = [job EXCEPT !.at = otherwise]
         \/ job' = [job EXCEPT !.at = next]
         \/ /\ job' = [job EXCEPT !.at = job.at, !.item = FirstAfter(job.item)]
            /\ FirstAfter(job.item) \in Store!Listed(job.mem)
  <2> DEFINE written == [disk EXCEPT ![job.item] = contents[job.item]]
  <2>1. /\ UNCHANGED <<mode, log, held, store, recovery>>
        /\ written \in Histories /\ disk' \in {disk, written}
        /\ LeadsTo(contents, next, otherwise)
    BY WriteFileFacts
  <2>2. disk \in Histories
    BY DEF StoreInv
  <2>3. \/ job' = [job EXCEPT !.at = otherwise]
        \/ job' = [job EXCEPT !.at = next]
        \/ /\ job' = [job EXCEPT !.at = job.at, !.item = FirstAfter(job.item)]
           /\ FirstAfter(job.item) \in Store!Listed(job.mem)
    BY <2>1 DEF LeadsTo
  <2> HIDE DEF written
  <2>4. QED
    BY <2>1, <2>2, <2>3
<1>3. JobOK(job', store, recovery)
  <2>1. CASE job' = [job EXCEPT !.at = otherwise]
    BY <1>1, <2>1, GoesTo
  <2>2. CASE job' = [job EXCEPT !.at = next]
    BY <1>1, <2>2, GoesTo
  <2>3. CASE /\ job' = [job EXCEPT !.at = job.at, !.item = FirstAfter(job.item)]
             /\ FirstAfter(job.item) \in Store!Listed(job.mem)
    <3>1. JobOK([job EXCEPT !.at = job.at, !.item = FirstAfter(job.item)], store, recovery)
      BY <1>1, <2>3, WritesOn
    <3>2. QED
      BY <2>3, <3>1
  <2>4. QED
    BY <1>2, <2>1, <2>2, <2>3
<1>4. LogOK'
  BY <1>1, <1>2, LogKept
<1>5. QED
  BY <1>2, <1>3, <1>4 DEF StoreInv

LEMMA WriteHistoryWrites ==
    ASSUME StoreInv, WriteHistory
    PROVE  /\ job.at = "write" /\ job.mem.incoming \in Histories
           /\ Goes(job.at, "finish") /\ Goes(job.at, "undo")
           /\ \E o : WriteFile(job.mem.incoming, o, "finish", "undo")
<1>1. job.at = "write" /\ \E o : WriteFile(job.mem.incoming, o, "finish", "undo")
  BY DEF WriteHistory
<1>2. job.mem.incoming \in Histories
  BY <1>1, JobAtWork, TransactionFacts DEF StartLabels
<1>3. QED
  BY <1>1, <1>2
     DEF Goes, Labels, StartLabels, CommitLabels, UndoLabels, FlagLabels, RecoverLabels

LEMMA PutBackWrites ==
    ASSUME StoreInv, PutBack
    PROVE  /\ job.at = "putBack" /\ job.mem.before \in Histories
           /\ Goes(job.at, "unmark") /\ Goes(job.at, "flagFiles")
           /\ \E o : WriteFile(job.mem.before, o, "unmark", "flagFiles")
<1>1. job.at = "putBack" /\ \E o : WriteFile(job.mem.before, o, "unmark", "flagFiles")
  BY DEF PutBack
<1>2. job.mem.before \in Histories
  BY <1>1, JobAtWork, TransactionFacts DEF StartLabels
<1>3. QED
  BY <1>1, <1>2
     DEF Goes, Labels, StartLabels, CommitLabels, UndoLabels, FlagLabels, RecoverLabels

LEMMA InitStore ==
    ASSUME Init
    PROVE  StoreInv
<1>1. /\ store = <<>> /\ recovery = 0 /\ job = Store!IdleJob /\ mode \in Modes
      /\ log = Absent /\ held = Absent /\ store \in Seq(Transactions)
  BY DEF Init, Store!NoRecord
<1>2. disk \in Histories
  <2>1. PICK names \in [Threads -> Ids], known \in SUBSET Threads :
          disk = [i \in Items |->
                    IF i = Database
                    THEN [t \in Threads |-> IF t \in known THEN names[t] ELSE Absent]
                    ELSE names[i]]
    BY DEF Init
  <2> DEFINE rows == [t \in Threads |-> IF t \in known THEN names[t] ELSE Absent]
  <2>2. rows \in Tables
    BY DEF Tables
  <2>3. disk = [i \in Items |-> IF i = Database THEN rows ELSE names[i]]
    BY <2>1
  <2> HIDE DEF rows
  <2>4. \A i \in Items : Fits(i, disk[i])
    BY <2>2, <2>3, ItemFacts DEF Fits
  <2>5. DOMAIN disk = Items /\ disk = [i \in Items |-> disk[i]]
    BY <2>3
  <2>6. QED
    BY <2>4, <2>5, HistoryMade
<1>3. JobOK(job, store, recovery) /\ job.at = "idle"
  BY <1>1, IdleOK
<1>4. Len(store) = 0 /\ 1 .. Len(store) = {}
  BY <1>1
<1>5. StoreOK(store, recovery)
  BY <1>1, <1>4 DEF StoreOK, Store!NoRecord
<1>6. LogOK
  BY <1>1, <1>3 DEF LogOK, StartLabels, CommitLabels, UndoLabels
<1>7. QED
  BY <1>2, <1>3, <1>5, <1>6 DEF StoreInv

(* Every write of a manifest but the first one.                            *)
LEMMA ManifestsStore ==
    ASSUME StoreInv,
           \/ BeginMerge \/ Intend \/ Unmark \/ Settle
           \/ /\ UNCHANGED <<mode, log, held>>
              /\ \/ Store!FinishCommit \/ Store!FlagFiles \/ Store!FlagOperation
                 \/ Store!SettleFiles \/ Store!SettleOperation
    PROVE  StoreInv'
<1> USE DEF StartLabels
<1>1. CASE BeginMerge
  BY <1>1, BeginWrites, WritesStore
<1>2. CASE Intend
  BY <1>2, IntendWrites, WritesStore
<1>3. CASE Unmark
  BY <1>3, UnmarkWrites, WritesStore
<1>4. CASE Settle
  BY <1>4, SettleWrites, WritesStore
<1>5. CASE Store!FinishCommit /\ UNCHANGED <<mode, log, held>>
  BY <1>5, FinishWrites, WritesStore
<1>6. CASE Store!FlagFiles /\ UNCHANGED <<mode, log, held>>
  BY <1>6, FlagFilesWrites, WritesStore
<1>7. CASE Store!FlagOperation /\ UNCHANGED <<mode, log, held>>
  BY <1>7, FlagOperationWrites, WritesStore
<1>8. CASE Store!SettleFiles /\ UNCHANGED <<mode, log, held>>
  BY <1>8, SettleFilesWrites, WritesStore
<1>9. CASE Store!SettleOperation /\ UNCHANGED <<mode, log, held>>
  BY <1>9, SettleOperationWrites, WritesStore
<1>10. QED
  BY <1>1, <1>2, <1>3, <1>4, <1>5, <1>6, <1>7, <1>8, <1>9

LEMMA Same ==
    ASSUME StoreInv, UNCHANGED <<mode, disk, log, held, store, recovery, job>>
    PROVE  StoreInv'
BY DEF StoreInv, LogOK

(* The transaction directories are in order, whatever fails.               *)
LEMMA StoreStepOK ==
    ASSUME StoreInv, [Next]_vars
    PROVE  StoreInv'
<1>1. CASE UNCHANGED vars
  BY <1>1, Same DEF vars
<1>2. CASE StartMerge
  BY <1>2, StartStore
<1>3. CASE PruneAndCreate
  BY <1>3, PruneStore, CreateStore DEF PruneAndCreate
<1>4. CASE BeginMerge \/ Intend \/ Unmark \/ Settle
  BY <1>4, ManifestsStore
<1>5. CASE Unlink
  BY <1>5, UnlinkStore
<1>6. CASE WriteHistory
  BY <1>6, WriteHistoryWrites, WriteFileStore
<1>7. CASE PutBack
  BY <1>7, PutBackWrites, WriteFileStore
<1>8. CASE Finish
  BY <1>8, ManifestsStore, DiscardStore DEF Finish
<1>9. CASE Recover
  BY <1>9, GateStore, FlagRecordStore, StartRecoverStore, RestoreStore, ClearStore,
     ManifestsStore DEF Recover, Store!Recover
<1>10. CASE CloseDatabase
  BY <1>10, CloseStore
<1>11. CASE Kill
  BY <1>11, KillStore
<1>12. CASE \E t \in Threads, id \in Ids, log_left \in BOOLEAN : UseCodex(t, id, log_left)
  BY <1>12, UseStore
<1>13. QED
  BY <1>1, <1>2, <1>3, <1>4, <1>5, <1>6, <1>7, <1>8, <1>9, <1>10, <1>11, <1>12
     DEF Next, Merge

(* Every command that runs has the newest transaction in hand, which alone *)
(* may be unfinished or recorded; a log beside the database is held by the *)
(* merge that will unlink it.                                              *)
THEOREM StoreInvariant == Spec => []StoreInv
<1>1. Init => StoreInv
  BY InitStore
<1>2. StoreInv /\ [Next]_vars => StoreInv'
  BY StoreStepOK
<1>3. QED
  BY <1>1, <1>2, PTL DEF Spec

(* TypeOK: every variable keeps its type.                                  *)
THEOREM TypeCorrect == Spec => []TypeOK
<1>1. StoreInv => TypeOK
  <2>1. SUFFICES ASSUME StoreInv PROVE TypeOK
    OBVIOUS
  <2>2. \A op \in 1 .. Len(store) : store[op] \in Transactions
    BY <2>1 DEF StoreInv, StoreOK
  <2>3. \A op \in 1 .. Len(store) :
          /\ store[op].files \in [Items -> Store!FileStates]
          /\ store[op].state \in Store!OperationStates
          /\ store[op].remains \in {"manifest", "backups", "none"}
    BY <2>2, TransactionFacts
  <2>4. job.at \in Labels /\ job.item \in 0 .. Database
    BY <2>1 DEF StoreInv, JobOK, Jobs
  <2>5. job.at \in Store!Labels \cup {"unlink", "putBack"}
    BY <2>4 DEF Labels, Store!Labels, StartLabels, CommitLabels, UndoLabels, FlagLabels,
                RecoverLabels
  <2>6. job.item \in Items \cup {0}
    BY <2>4, ThreadsAssumption DEF Items, Threads, Database
  <2>7. /\ \A t \in Threads : disk[t] \in Ids
        /\ disk[Database] \in Tables
    BY <2>1, HistoryFacts DEF StoreInv
  <2>8. QED
    BY <2>1, <2>3, <2>5, <2>6, <2>7 DEF TypeOK, StoreInv, StoreOK, LogOK
<1>2. QED
  BY <1>1, StoreInvariant, PTL

-----------------------------------------------------------------------------
(* The history is as the transaction says: one lemma per action.           *)

LEMMA IdleProgress ==
    ASSUME NEW image, NEW ms, NEW md
    PROVE  Progress(Store!IdleJob, image, ms, md)
<1>1. Store!IdleJob.at = "idle"
  BY DEF Store!IdleJob
<1>2. QED
  BY <1>1 DEF Progress, StartLabels, CommitLabels, UndoLabels, FlagLabels, RecoverLabels

(* The operation is what it was, and only files it lists were written.     *)
LEMMA RevocableKept ==
    ASSUME NEW image, NEW m, NEW md, Revocable(image, m, md),
           NEW image2, \A i \in Items \ Store!Listed(m) : image2[i] = image[i],
           NEW m2, SameOperation(m2, m), m2.state # "COMMITTED"
    PROVE  Revocable(image2, m2, md)
BY DEF Revocable, SameOperation

LEMMA DurableWhenRevocable ==
    ASSUME NEW image, NEW ms, NEW md, Revocable(image, ms[Len(ms)], md)
    PROVE  Durable(image, ms, Store!NoRecord, md)
BY DEF Durable

LEMMA DurableWhenFinal ==
    ASSUME NEW image, NEW ms, NEW md, ~Unfinished(ms[Len(ms)])
    PROVE  Durable(image, ms, Store!NoRecord, md)
BY DEF Durable, Open

(* Nothing a reader of the history could tell has changed.                 *)
LEMMA HistoryStays ==
    ASSUME UNCHANGED disk, Table' = Table
    PROVE  History' = History
BY DEF History

LEMMA WorkFacts ==
    ASSUME StoreInv, HistoryInv, job.at \in CommitLabels \cup UndoLabels \cup FlagLabels
    PROVE  /\ job.at \notin {"idle"} \cup StartLabels
           /\ recovery = Store!NoRecord /\ Len(store) > 0
           /\ job.mem \in Transactions /\ job.mem.before \in Histories
           /\ SameOperation(job.mem, store[Len(store)]) /\ ~Store!Finalized(job.mem)
           /\ Revocable(History, store[Len(store)], mode)
           /\ Revocable(History, job.mem, mode)
           /\ job.at \in CommitLabels \cup UndoLabels => ~Store!Finalized(store[Len(store)])
           /\ job.at \in CommitLabels => Rewrites(job.mem, mode)
<1>1. job.at \notin {"idle"} \cup StartLabels \cup RecoverLabels
  BY DEF StartLabels, CommitLabels, UndoLabels, FlagLabels, RecoverLabels
<1>2. /\ job.mem \in Transactions /\ job.mem.before \in Histories
      /\ recovery = Store!NoRecord /\ Len(store) > 0
  BY <1>1, JobAtWork, TransactionFacts
<1>3. /\ SameOperation(job.mem, store[Len(store)]) /\ ~Store!Finalized(job.mem)
      /\ Revocable(History, store[Len(store)], mode)
      /\ job.at \in CommitLabels \cup UndoLabels => ~Store!Finalized(store[Len(store)])
      /\ job.at \in CommitLabels => Rewrites(job.mem, mode)
  BY DEF HistoryInv, Progress
<1>4. job.mem.state # "COMMITTED"
  BY <1>3 DEF Store!Finalized
<1>5. Revocable(History, job.mem, mode)
  BY <1>3, <1>4, RevocableKept
<1>6. QED
  BY <1>1, <1>2, <1>3, <1>5

(* A write of the manifest by a command that changes the history.          *)
LEMMA Rewrite ==
    ASSUME StoreInv, HistoryInv, job.at \in CommitLabels \cup UndoLabels \cup FlagLabels,
           NEW m, NEW label, NEW otherwise, NEW o, Writes(m, label, otherwise, o),
           m.state # "COMMITTED" \/ ~Store!Takes(o)
    PROVE  /\ History' = History /\ mode' = mode
           /\ Durable(History, store', recovery', mode)
           /\ LET new == store'[Len(store')] IN
              /\ new = IF Store!Takes(o) THEN m ELSE store[Len(store)]
              /\ SameOperation(m, job.mem)
              /\ SameOperation(job.mem, new) /\ SameOperation(m, new)
              /\ Revocable(History, new, mode)
           /\ job' = IF o = "ok" THEN Store!With(m, label) ELSE otherwise
           /\ Store!With(m, label).at = label /\ Store!With(m, label).mem = m
<1>1. /\ job.at \notin {"idle"} \cup StartLabels
      /\ recovery = Store!NoRecord
      /\ SameOperation(job.mem, store[Len(store)])
      /\ Revocable(History, store[Len(store)], mode)
  BY WorkFacts
<1>2. /\ m \in Transactions /\ m.remains = "manifest" /\ SameOperation(m, job.mem)
      /\ Goes(job.at, label)
      /\ Store!StoreThen(m, o, Store!With(m, label), otherwise)
      /\ UNCHANGED <<recovery, mode, log, held>>
  BY DEF Writes
<1>3. /\ Len(store') = Len(store) /\ disk' = disk
      /\ store'[Len(store)] = IF Store!Takes(o) THEN m ELSE store[Len(store)]
      /\ job' = IF o = "ok" THEN Store!With(m, label) ELSE otherwise
  BY <1>1, <1>2, StoreStep
<1>4. History' = History
  BY <1>2, <1>3, HistoryStays DEF Table
<1> DEFINE new == store'[Len(store')]
<1>5. new = IF Store!Takes(o) THEN m ELSE store[Len(store)]
  BY <1>3
<1> HIDE DEF new
<1>6. SameOperation(job.mem, new) /\ SameOperation(m, new)
      /\ SameOperation(new, store[Len(store)])
  BY <1>1, <1>2, <1>5 DEF SameOperation
<1>7. new.state # "COMMITTED"
  BY <1>1, <1>5 DEF Revocable
<1>8. Revocable(History, new, mode)
  BY <1>1, <1>6, <1>7, RevocableKept
<1>9. Durable(History, store', recovery', mode)
  BY <1>1, <1>2, <1>8, DurableWhenRevocable DEF new
<1>10. Store!With(m, label).at = label /\ Store!With(m, label).mem = m
  BY <1>1, <1>2, GoesOn
<1>11. QED
  BY <1>2, <1>3, <1>4, <1>5, <1>6, <1>8, <1>9, <1>10 DEF new

LEMMA GotoFacts ==
    ASSUME StoreInv, NEW label
    PROVE  LET n == [job EXCEPT !.at = label] IN
           n.at = label /\ n.mem = job.mem /\ n.item = job.item /\ n.todo = job.todo
BY DEF StoreInv, JobOK, Jobs

LEMMA GotoItemFacts ==
    ASSUME StoreInv, NEW label, NEW i
    PROVE  LET n == [job EXCEPT !.at = label, !.item = i] IN
           n.at = label /\ n.mem = job.mem /\ n.item = i
BY DEF StoreInv, JobOK, Jobs

LEMMA BeginHistory ==
    ASSUME StoreInv, HistoryInv, BeginMerge
    PROVE  HistoryInv'
<1> USE DEF StartLabels, CommitLabels, UndoLabels, FlagLabels, RecoverLabels
<1>1. PICK m, o : /\ m.state = "COMMITTING"
                  /\ Writes(m, "intend", [job EXCEPT !.at = "undo"], o)
  BY BeginWrites
<1>2. job.at = "begin"
  BY BeginWrites
<1>3. /\ ~Store!Finalized(job.mem) /\ ~Store!Finalized(store[Len(store)])
      /\ Rewrites(job.mem, mode)
  BY <1>2, WorkFacts
<1>4. AllKept(History, job.mem)
  BY <1>2 DEF HistoryInv, Progress
<1> DEFINE new == store'[Len(store')]
<1>5. /\ History' = History /\ mode' = mode /\ Durable(History, store', recovery', mode)
      /\ new = IF Store!Takes(o) THEN m ELSE store[Len(store)]
      /\ SameOperation(m, job.mem) /\ SameOperation(job.mem, new) /\ SameOperation(m, new)
      /\ Revocable(History, new, mode)
      /\ job' = IF o = "ok" THEN Store!With(m, "intend") ELSE [job EXCEPT !.at = "undo"]
      /\ Store!With(m, "intend").at = "intend" /\ Store!With(m, "intend").mem = m
  BY <1>1, <1>2, Rewrite
<1>6. ~Store!Finalized(m) /\ ~Store!Finalized(new)
  BY <1>1, <1>3, <1>5 DEF Store!Finalized
<1>7. Rewrites(m, mode) /\ AllKept(History, m)
  BY <1>3, <1>4, <1>5, SameWrites
<1>8. Progress(job', History, store', mode)
  <2>1. CASE o = "ok"
    <3>1. job'.at = "intend" /\ job'.mem = m
      BY <1>5, <2>1
    <3>2. QED
      BY <1>5, <1>6, <1>7, <3>1 DEF Progress
  <2>2. CASE o # "ok"
    <3>1. job'.at = "undo" /\ job'.mem = job.mem
      BY <1>5, <2>2, GotoFacts
    <3>2. QED
      BY <1>3, <1>5, <1>6, <3>1 DEF Progress
  <2>3. QED
    BY <2>1, <2>2
<1>9. QED
  BY <1>5, <1>8 DEF HistoryInv

LEMMA IntendHistory ==
    ASSUME StoreInv, HistoryInv, Intend
    PROVE  HistoryInv'
<1> USE DEF StartLabels, CommitLabels, UndoLabels, FlagLabels, RecoverLabels
<1>1. PICK m, o : /\ m.state = job.mem.state
                  /\ Writes(m, "unlink", [job EXCEPT !.at = "undo"], o)
  BY IntendWrites
<1>2. job.at = "intend"
  BY IntendWrites
<1>3. /\ ~Store!Finalized(job.mem) /\ ~Store!Finalized(store[Len(store)])
      /\ Rewrites(job.mem, mode)
  BY <1>2, WorkFacts
<1>4. AllKept(History, job.mem)
  BY <1>2 DEF HistoryInv, Progress
<1> DEFINE new == store'[Len(store')]
<1>5. /\ History' = History /\ mode' = mode /\ Durable(History, store', recovery', mode)
      /\ new = IF Store!Takes(o) THEN m ELSE store[Len(store)]
      /\ SameOperation(m, job.mem) /\ SameOperation(job.mem, new) /\ SameOperation(m, new)
      /\ Revocable(History, new, mode)
      /\ job' = IF o = "ok" THEN Store!With(m, "unlink") ELSE [job EXCEPT !.at = "undo"]
      /\ Store!With(m, "unlink").at = "unlink" /\ Store!With(m, "unlink").mem = m
  BY <1>1, <1>2, <1>3, Rewrite DEF Store!Finalized
<1>6. ~Store!Finalized(m) /\ ~Store!Finalized(new)
  BY <1>1, <1>3, <1>5 DEF Store!Finalized
<1>7. Rewrites(m, mode) /\ AllKept(History, m)
  BY <1>3, <1>4, <1>5, SameWrites
<1>8. Progress(job', History, store', mode)
  <2>1. CASE o = "ok"
    <3>1. job'.at = "unlink" /\ job'.mem = m
      BY <1>5, <2>1
    <3>2. QED
      BY <1>5, <1>6, <1>7, <3>1 DEF Progress
  <2>2. CASE o # "ok"
    <3>1. job'.at = "undo" /\ job'.mem = job.mem
      BY <1>5, <2>2, GotoFacts
    <3>2. QED
      BY <1>3, <1>5, <1>6, <3>1 DEF Progress
  <2>3. QED
    BY <2>1, <2>2
<1>9. QED
  BY <1>5, <1>8 DEF HistoryInv

LEMMA UnmarkHistory ==
    ASSUME StoreInv, HistoryInv, Unmark
    PROVE  HistoryInv'
<1> USE DEF StartLabels, CommitLabels, UndoLabels, FlagLabels, RecoverLabels
<1>1. PICK m, o : /\ m.state = job.mem.state
                  /\ Writes(m, "settle", [job EXCEPT !.at = "flagFiles"], o)
  BY UnmarkWrites
<1>2. job.at = "unmark"
  BY UnmarkWrites
<1>3. ~Store!Finalized(job.mem) /\ ~Store!Finalized(store[Len(store)])
  BY <1>2, WorkFacts
<1>4. AllKept(History, job.mem)
  BY <1>2 DEF HistoryInv, Progress
<1> DEFINE new == store'[Len(store')]
<1>5. /\ History' = History /\ mode' = mode /\ Durable(History, store', recovery', mode)
      /\ new = IF Store!Takes(o) THEN m ELSE store[Len(store)]
      /\ SameOperation(m, job.mem) /\ SameOperation(job.mem, new) /\ SameOperation(m, new)
      /\ Revocable(History, new, mode)
      /\ job' = IF o = "ok" THEN Store!With(m, "settle") ELSE [job EXCEPT !.at = "flagFiles"]
      /\ Store!With(m, "settle").at = "settle" /\ Store!With(m, "settle").mem = m
  BY <1>1, <1>2, <1>3, Rewrite DEF Store!Finalized
<1>6. ~Store!Finalized(m) /\ ~Store!Finalized(new)
  BY <1>1, <1>3, <1>5 DEF Store!Finalized
<1>7. AllKept(History, m)
  BY <1>4, <1>5, SameWrites
<1>8. Progress(job', History, store', mode)
  <2>1. CASE o = "ok"
    <3>1. job'.at = "settle" /\ job'.mem = m
      BY <1>5, <2>1
    <3>2. QED
      BY <1>5, <1>6, <1>7, <3>1 DEF Progress
  <2>2. CASE o # "ok"
    <3>1. job'.at = "flagFiles" /\ job'.mem = job.mem
      BY <1>5, <2>2, GotoFacts
    <3>2. QED
      BY <1>3, <1>5, <1>6, <3>1 DEF Progress
  <2>3. QED
    BY <2>1, <2>2
<1>9. QED
  BY <1>5, <1>8 DEF HistoryInv

(* The last write of a rollback: whether it failed or not, nothing is left *)
(* to be taken back.                                                       *)
LEMMA SettleHistory ==
    ASSUME StoreInv, HistoryInv, Settle
    PROVE  HistoryInv'
<1> USE DEF StartLabels, CommitLabels, UndoLabels, FlagLabels, RecoverLabels
<1>1. PICK m, o : /\ m.state = "ROLLED_BACK"
                  /\ Writes(m, "discard", [job EXCEPT !.at = "flagFiles"], o)
  BY SettleWrites
<1>2. job.at = "settle"
  BY SettleWrites
<1>3. ~Store!Finalized(job.mem)
  BY <1>2, WorkFacts
<1>4. AllKept(History, job.mem)
  BY <1>2 DEF HistoryInv, Progress
<1> DEFINE new == store'[Len(store')]
<1>5. /\ History' = History /\ mode' = mode /\ Durable(History, store', recovery', mode)
      /\ new = IF Store!Takes(o) THEN m ELSE store[Len(store)]
      /\ SameOperation(m, job.mem) /\ SameOperation(job.mem, new) /\ SameOperation(m, new)
      /\ Revocable(History, new, mode)
      /\ job' = IF o = "ok" THEN Store!With(m, "discard") ELSE [job EXCEPT !.at = "flagFiles"]
      /\ Store!With(m, "discard").at = "discard" /\ Store!With(m, "discard").mem = m
  BY <1>1, <1>2, Rewrite
<1>6. Store!Finalized(m) /\ AllKept(History, new)
  BY <1>1, <1>4, <1>5, SameWrites DEF Store!Finalized
<1>7. o = "ok" => new = m
  BY <1>5 DEF Store!Takes
<1>8. Progress(job', History, store', mode)
  <2>1. CASE o = "ok"
    <3>1. job'.at = "discard" /\ job'.mem = m
      BY <1>5, <2>1
    <3>2. QED
      BY <1>6, <1>7, <2>1, <3>1 DEF Progress
  <2>2. CASE o # "ok"
    <3>1. job'.at = "flagFiles" /\ job'.mem = job.mem
      BY <1>5, <2>2, GotoFacts
    <3>2. QED
      BY <1>3, <1>5, <1>6, <3>1 DEF Progress
  <2>3. QED
    BY <2>1, <2>2
<1>9. QED
  BY <1>5, <1>8 DEF HistoryInv

(* A failure of the COMMITTED manifest is compensated, if it is true.      *)
LEMMA FinishHistory ==
    ASSUME CleanCommit, StoreInv, HistoryInv, Store!FinishCommit,
           UNCHANGED <<mode, log, held>>
    PROVE  HistoryInv'
<1> USE DEF StartLabels, CommitLabels, UndoLabels, FlagLabels, RecoverLabels
<1>1. PICK m, o : /\ m.state = "COMMITTED" /\ o \in Store!Outcomes(CommitFaults)
                  /\ Writes(m, "discard", [job EXCEPT !.at = "undo"], o)
  BY FinishWrites
<1>2. job.at = "finish"
  BY FinishWrites
<1>3. o = "ok" \/ ~Store!Takes(o)
  BY <1>1, OutcomeFacts DEF CleanCommit, Store!Takes
<1>4. CASE o = "ok"
  <2>1. /\ m \in Transactions /\ m.remains = "manifest" /\ SameOperation(m, job.mem)
        /\ Goes(job.at, "discard")
        /\ Store!StoreThen(m, o, Store!With(m, "discard"), [job EXCEPT !.at = "undo"])
        /\ UNCHANGED <<recovery, mode, log, held>>
    BY <1>1 DEF Writes
  <2>2. /\ Len(store') = Len(store) /\ store'[Len(store)] = m /\ disk' = disk
        /\ job' = Store!With(m, "discard")
    BY <1>2, <1>4, <2>1, StoreStep DEF Store!Takes
  <2>3. job'.at = "discard" /\ job'.mem = m
    BY <1>2, <2>1, <2>2, GoesOn
  <2>4. recovery' = Store!NoRecord
    BY <1>2, <2>1, WorkFacts
  <2>5. Store!Finalized(m) /\ ~Unfinished(store'[Len(store')])
    BY <1>1, <2>2 DEF Store!Finalized, Unfinished
  <2>6. Durable(History', store', recovery', mode')
    BY <2>4, <2>5, DurableWhenFinal
  <2>7. Progress(job', History', store', mode')
    BY <2>2, <2>3, <2>5 DEF Progress
  <2>8. QED
    BY <2>6, <2>7 DEF HistoryInv
<1>5. CASE ~Store!Takes(o)
  <2> DEFINE new == store'[Len(store')]
  <2>1. /\ History' = History /\ mode' = mode /\ Durable(History, store', recovery', mode)
        /\ new = IF Store!Takes(o) THEN m ELSE store[Len(store)]
        /\ SameOperation(job.mem, new) /\ Revocable(History, new, mode)
        /\ job' = IF o = "ok" THEN Store!With(m, "discard") ELSE [job EXCEPT !.at = "undo"]
    BY <1>1, <1>2, <1>5, Rewrite
  <2>2. job'.at = "undo" /\ job'.mem = job.mem
    BY <1>5, <2>1, GotoFacts DEF Store!Takes
  <2>3. ~Store!Finalized(job.mem) /\ ~Store!Finalized(new)
    BY <1>2, <1>5, <2>1, WorkFacts
  <2>4. Progress(job', History, store', mode)
    BY <2>1, <2>2, <2>3 DEF Progress
  <2>5. QED
    BY <2>1, <2>4 DEF HistoryInv
<1>6. QED
  BY <1>3, <1>4, <1>5

LEMMA FlagFilesHistory ==
    ASSUME StoreInv, HistoryInv, Store!FlagFiles, UNCHANGED <<mode, log, held>>
    PROVE  HistoryInv'
<1> USE DEF StartLabels, CommitLabels, UndoLabels, FlagLabels, RecoverLabels
<1>1. PICK m, o : /\ m.state = job.mem.state
                  /\ \A i \in Store!Listed(m) : m.files[i] = "RECOVERY_REQUIRED"
                  /\ Writes(m, "flagOperation", Store!IdleJob, o)
  BY FlagFilesWrites
<1>2. job.at = "flagFiles"
  BY FlagFilesWrites
<1>3. ~Store!Finalized(job.mem)
  BY <1>2, WorkFacts
<1> DEFINE new == store'[Len(store')]
<1>4. /\ History' = History /\ mode' = mode /\ Durable(History, store', recovery', mode)
      /\ new = IF Store!Takes(o) THEN m ELSE store[Len(store)]
      /\ SameOperation(m, new) /\ Revocable(History, new, mode)
      /\ job' = IF o = "ok" THEN Store!With(m, "flagOperation") ELSE Store!IdleJob
      /\ Store!With(m, "flagOperation").at = "flagOperation"
      /\ Store!With(m, "flagOperation").mem = m
  BY <1>1, <1>2, <1>3, Rewrite DEF Store!Finalized
<1>5. ~Store!Finalized(m)
  BY <1>1, <1>3 DEF Store!Finalized
<1>6. Progress(job', History, store', mode)
  <2>1. CASE o = "ok"
    <3>1. job'.at = "flagOperation" /\ job'.mem = m /\ new = m
      BY <1>4, <2>1 DEF Store!Takes
    <3>2. QED
      BY <1>1, <1>4, <1>5, <3>1 DEF Progress
  <2>2. CASE o # "ok"
    BY <1>4, <2>2, IdleProgress
  <2>3. QED
    BY <2>1, <2>2
<1>7. QED
  BY <1>4, <1>6 DEF HistoryInv

LEMMA FlagOperationHistory ==
    ASSUME StoreInv, HistoryInv, Store!FlagOperation, UNCHANGED <<mode, log, held>>
    PROVE  HistoryInv'
<1> USE DEF StartLabels, CommitLabels, UndoLabels, FlagLabels, RecoverLabels
<1>1. PICK m, o : /\ m.state = "RECOVERY_REQUIRED" /\ m.files = job.mem.files
                  /\ Writes(m, "flagRecord", Store!IdleJob, o)
  BY FlagOperationWrites
<1>2. job.at = "flagOperation"
  BY FlagOperationWrites
<1>3. \A i \in Store!Listed(job.mem) : job.mem.files[i] = "RECOVERY_REQUIRED"
  BY <1>2 DEF HistoryInv, Progress
<1> DEFINE new == store'[Len(store')]
<1>4. /\ History' = History /\ mode' = mode /\ Durable(History, store', recovery', mode)
      /\ new = IF Store!Takes(o) THEN m ELSE store[Len(store)]
      /\ SameOperation(m, job.mem) /\ SameOperation(m, new) /\ Revocable(History, new, mode)
      /\ job' = IF o = "ok" THEN Store!With(m, "flagRecord") ELSE Store!IdleJob
      /\ Store!With(m, "flagRecord").at = "flagRecord"
      /\ Store!With(m, "flagRecord").mem = m
  BY <1>1, <1>2, Rewrite
<1>5. ~Store!Finalized(m) /\ \A i \in Store!Listed(m) : m.files[i] = "RECOVERY_REQUIRED"
  BY <1>1, <1>3, <1>4 DEF Store!Finalized, SameOperation
<1>6. Progress(job', History, store', mode)
  <2>1. CASE o = "ok"
    <3>1. job'.at = "flagRecord" /\ job'.mem = m /\ new = m
      BY <1>4, <2>1 DEF Store!Takes
    <3>2. QED
      BY <1>4, <1>5, <3>1 DEF Progress
  <2>2. CASE o # "ok"
    BY <1>4, <2>2, IdleProgress
  <2>3. QED
    BY <2>1, <2>2
<1>7. QED
  BY <1>4, <1>6 DEF HistoryInv

(* A command that wrote no manifest and no file ends.                      *)
LEMMA FlagRecordHistory ==
    ASSUME StoreInv, HistoryInv, Store!FlagRecord, UNCHANGED <<mode, log, held>>
    PROVE  HistoryInv'
<1>1. /\ job.at = "flagRecord" /\ UNCHANGED <<disk, store>> /\ job' = Store!IdleJob
  BY DEF Store!FlagRecord, Store!Exit
<1>2. History' = History /\ mode' = mode
  BY <1>1, HistoryStays DEF Table
<1>3. /\ Revocable(History, store[Len(store)], mode) /\ ~Store!Finalized(job.mem)
      /\ job.mem = store[Len(store)]
      /\ \A i \in Store!Listed(job.mem) : job.mem.files[i] = "RECOVERY_REQUIRED"
  BY <1>1, WorkFacts DEF HistoryInv, Progress, FlagLabels, RecoverLabels
<1>4. Durable(History, store, recovery', mode)
  BY <1>3 DEF Durable
<1>5. Progress(job', History, store, mode)
  BY <1>1, IdleProgress
<1>6. QED
  BY <1>1, <1>2, <1>4, <1>5 DEF HistoryInv

LEMMA GateHistory ==
    ASSUME StoreInv, HistoryInv, Store!GateIncomplete, UNCHANGED <<mode, log, held>>
    PROVE  HistoryInv'
<1> USE DEF StartLabels, CommitLabels, UndoLabels, FlagLabels, RecoverLabels
<1>1. /\ UNCHANGED <<disk, store, recovery>> /\ Len(store) > 0
      /\ Unfinished(store[Len(store)])
      /\ job'.at = "flagFiles" /\ job'.mem = store[Len(store)]
  BY GateFacts
<1>2. History' = History /\ mode' = mode
  BY <1>1, HistoryStays DEF Table
<1>3. Durable(History, store, recovery, mode)
  BY DEF HistoryInv
<1> DEFINE m == store[Len(store)]
<1>4. ~Store!Finalized(m) /\ Revocable(History, m, mode)
  BY <1>1, <1>3 DEF Unfinished, Durable, Open
<1>5. Progress(job', History, store, mode)
  BY <1>1, <1>4 DEF Progress, SameOperation
<1>6. QED
  BY <1>1, <1>2, <1>3, <1>5 DEF HistoryInv

(* What recover finds out of the manifest is still as the operation found  *)
(* it.                                                                     *)
LEMMA StartRecoverHistory ==
    ASSUME StoreInv, HistoryInv, Store!StartRecover, UNCHANGED <<mode, log, held>>
    PROVE  HistoryInv'
<1> USE DEF StartLabels, CommitLabels, UndoLabels, FlagLabels, RecoverLabels
<1> DEFINE m == store[Len(store)]
<1>1. /\ UNCHANGED <<disk, store, recovery>> /\ recovery # Store!NoRecord
      /\ job'.mem = m
      /\ job'.todo = {i \in Store!Listed(m) :
                         m.files[i] \in {"MODIFIED", "RECOVERY_REQUIRED"}}
      /\ \/ job'.at = "restore"
         \/ job'.at = "settleFiles" /\ job'.todo = {}
  BY StartRecoverFacts
<1>2. History' = History /\ mode' = mode
  BY <1>1, HistoryStays DEF Table
<1>3. Durable(History, store, recovery, mode)
  BY DEF HistoryInv
<1>4. \A i \in Store!Listed(m) \ job'.todo : History[i] = m.before[i]
  BY <1>1, <1>3 DEF Durable
<1> HIDE DEF m
<1>5. Progress(job', History, store, mode)
  <2>1. CASE job'.at = "restore"
    BY <1>1, <1>4, <2>1 DEF Progress, m
  <2>2. CASE job'.at = "settleFiles" /\ job'.todo = {}
    <3>1. AllKept(History, job'.mem)
      BY <1>1, <1>4, <2>2 DEF AllKept
    <3>2. QED
      BY <1>1, <2>2, <3>1 DEF Progress, m
  <2>3. QED
    BY <1>1, <2>1, <2>2
<1>6. QED
  BY <1>1, <1>2, <1>3, <1>5 DEF HistoryInv

LEMMA RecoverFacts ==
    ASSUME StoreInv, HistoryInv, job.at \in RecoverLabels
    PROVE  /\ job.at \notin {"idle"} \cup StartLabels \cup CommitLabels \cup UndoLabels
           /\ recovery # Store!NoRecord /\ Len(store) > 0
           /\ job.mem \in Transactions /\ job.mem.before \in Histories
           /\ job.mem = store[Len(store)]
           /\ Revocable(History, job.mem, mode)
           /\ Durable(History, store, recovery, mode)
<1>1. job.at \notin {"idle"} \cup StartLabels \cup CommitLabels \cup UndoLabels
  BY DEF StartLabels, CommitLabels, UndoLabels, RecoverLabels
<1>2. /\ job.mem \in Transactions /\ job.mem.before \in Histories
      /\ recovery # Store!NoRecord /\ Len(store) > 0
  BY <1>1, JobAtWork, TransactionFacts
<1>3. job.mem = store[Len(store)] /\ Durable(History, store, recovery, mode)
  BY DEF HistoryInv, Progress
<1>4. Revocable(History, job.mem, mode)
  BY <1>2, <1>3 DEF Durable, Open
<1>5. QED
  BY <1>1, <1>2, <1>3, <1>4

(* A database is written only in mode "delete".                            *)
LEMMA HistoryWritten ==
    ASSUME StoreInv, NEW i \in Items, i = Database => mode = "delete",
           UNCHANGED <<mode, log, held>>, NEW content,
           disk' = [disk EXCEPT ![i] = content]
    PROVE  /\ History'[i] = content
           /\ \A k \in Items : k # i => History'[k] = History[k]
<1>1. DOMAIN disk = Items /\ disk \in Histories
  BY HistoryFacts DEF StoreInv
<1>2. CASE i # Database
  <2>1. disk'[Database] = disk[Database]
    BY <1>1, <1>2, ItemFacts
  <2>2. Table' = Table
    BY <2>1 DEF Table
  <2>3. \A k \in Items : disk'[k] = IF k = i THEN content ELSE disk[k]
    BY <1>1
  <2>4. \A k \in Items : History[k] = IF k = Database THEN Table ELSE disk[k]
    BY DEF History
  <2>5. \A k \in Items : History'[k] = IF k = Database THEN Table' ELSE disk'[k]
    BY DEF History
  <2>6. QED
    BY <1>2, <2>2, <2>3, <2>4, <2>5
<1>3. CASE i = Database
  <2>1. log = Absent /\ held = Absent /\ log' = Absent /\ held' = Absent
    BY <1>3 DEF StoreInv, LogOK
  <2>2. Table' = content
    BY <1>1, <1>3, <2>1, ItemFacts DEF Table
  <2>3. \A k \in Items : k # Database => disk'[k] = disk[k]
    BY <1>1, <1>3
  <2>4. QED
    BY <1>3, <2>2, <2>3 DEF History
<1>4. QED
  BY <1>2, <1>3

LEMMA RestoreHistory ==
    ASSUME StoreInv, HistoryInv, Store!Restore, UNCHANGED <<mode, log, held>>
    PROVE  HistoryInv'
<1> USE DEF StartLabels, CommitLabels, UndoLabels, FlagLabels, RecoverLabels
<1> DEFINE m == store[Len(store)]
<1>1. job.at = "restore" /\ UNCHANGED <<store, recovery>>
  BY RestoreFacts
<1>2. PICK i \in job.todo :
        /\ i \in Store!Listed(job.mem)
        /\ disk' \in {disk, [disk EXCEPT ![i] = job.mem.before[i]]}
        /\ \/ job' = Store!IdleJob
           \/ /\ disk' = [disk EXCEPT ![i] = job.mem.before[i]]
              /\ job'.mem = job.mem /\ job'.todo = job.todo \ {i}
              /\ \/ job'.at = "restore"
                 \/ job'.at = "settleFiles" /\ job'.todo = {}
  BY RestoreFacts
<1>3. /\ recovery # Store!NoRecord /\ job.mem = m /\ job.mem \in Transactions
      /\ Len(store) > 0
      /\ Revocable(History, m, mode) /\ Durable(History, store, recovery, mode)
  BY <1>1, RecoverFacts
<1> HIDE DEF m
<1>4. i \in Store!Listed(m) /\ i \in Items /\ (i = Database => mode = "delete")
  BY <1>2, <1>3, ListedFacts DEF Revocable
<1>5. ASSUME disk' = [disk EXCEPT ![i] = m.before[i]]
      PROVE  History'[i] = m.before[i] /\ \A k \in Items : k # i => History'[k] = History[k]
  BY <1>4, <1>5, HistoryWritten
<1>6. \/ History' = History
      \/ History'[i] = m.before[i] /\ \A k \in Items : k # i => History'[k] = History[k]
  <2>1. CASE disk' = disk
    BY <2>1, HistoryStays DEF Table
  <2>2. CASE disk' = [disk EXCEPT ![i] = m.before[i]]
    BY <1>5, <2>2
  <2>3. QED
    BY <1>2, <1>3, <2>1, <2>2
<1>7. \A k \in Items : History'[k] = History[k] \/ History'[k] = m.before[k]
  BY <1>6
<1>8. Durable(History', store', recovery', mode')
  <2>1. SameOperation(m, m)
    BY DEF SameOperation
  <2>2. \A k \in Items \ Store!Listed(m) : History'[k] = History[k]
    BY <1>4, <1>6
  <2>3. Revocable(History', m, mode)
    BY <1>3, <2>1, <2>2, RevocableKept DEF Revocable
  <2>4. \A k \in Store!Listed(m) : k \in Items
    BY <1>3, ListedFacts
  <2>5. QED
    BY <1>1, <1>3, <1>7, <2>3, <2>4 DEF Durable, m
<1>9. Progress(job', History', store', mode')
  <2>1. CASE job' = Store!IdleJob
    BY <2>1, IdleProgress
  <2>2. CASE /\ disk' = [disk EXCEPT ![i] = job.mem.before[i]]
             /\ job'.mem = job.mem /\ job'.todo = job.todo \ {i}
             /\ \/ job'.at = "restore"
                \/ job'.at = "settleFiles" /\ job'.todo = {}
    <3>1. \A k \in Store!Listed(m) \ job.todo : History[k] = m.before[k]
      BY <1>1 DEF HistoryInv, Progress, m
    <3>2. \A k \in Store!Listed(m) \ job'.todo : History'[k] = m.before[k]
      BY <1>3, <1>5, <1>7, <2>2, <3>1, ListedFacts
    <3>3. CASE job'.at = "restore"
      BY <1>1, <1>3, <2>2, <3>2, <3>3 DEF Progress, m
    <3>4. CASE job'.at = "settleFiles" /\ job'.todo = {}
      <4>1. AllKept(History', job'.mem)
        BY <1>3, <2>2, <3>2, <3>4 DEF AllKept
      <4>2. QED
        BY <1>1, <1>3, <2>2, <3>4, <4>1 DEF Progress, m
    <3>5. QED
      BY <2>2, <3>3, <3>4
  <2>3. QED
    BY <1>2, <2>1, <2>2
<1>10. QED
  BY <1>8, <1>9 DEF HistoryInv

(* Everything is restored, and the manifest comes to say so.               *)
LEMMA Settling ==
    ASSUME StoreInv, HistoryInv, job.at \in {"settleFiles", "settleOperation"},
           NEW m, NEW label, NEW o, Writes(m, label, Store!IdleJob, o),
           m.state # "COMMITTED"
    PROVE  /\ History' = History /\ mode' = mode
           /\ Durable(History, store', recovery', mode)
           /\ AllKept(History, m)
           /\ \/ /\ job'.at = label /\ job'.mem = m
                 /\ m = store'[Len(store')]
              \/ job' = Store!IdleJob
<1>1. /\ job.at \notin {"idle"} \cup StartLabels /\ recovery # Store!NoRecord
      /\ job.mem = store[Len(store)] /\ Len(store) > 0
      /\ Revocable(History, job.mem, mode)
  BY RecoverFacts DEF RecoverLabels
<1>2. AllKept(History, job.mem)
  BY DEF HistoryInv, Progress
<1>3. /\ m \in Transactions /\ m.remains = "manifest" /\ SameOperation(m, job.mem)
      /\ Goes(job.at, label)
      /\ Store!StoreThen(m, o, Store!With(m, label), Store!IdleJob)
      /\ UNCHANGED <<recovery, mode, log, held>>
  BY DEF Writes
<1>4. /\ Len(store') = Len(store) /\ disk' = disk
      /\ store'[Len(store)] = IF Store!Takes(o) THEN m ELSE store[Len(store)]
      /\ job' = IF o = "ok" THEN Store!With(m, label) ELSE Store!IdleJob
  BY <1>1, <1>3, StoreStep
<1>5. History' = History
  BY <1>3, <1>4, HistoryStays DEF Table
<1> DEFINE new == store'[Len(store')]
<1>6. new = IF Store!Takes(o) THEN m ELSE job.mem
  BY <1>1, <1>4
<1> HIDE DEF new
<1>7. SameOperation(new, job.mem) /\ new.state # "COMMITTED"
  BY <1>1, <1>3, <1>6 DEF SameOperation, Revocable
<1>8. Revocable(History, new, mode) /\ AllKept(History, new)
  BY <1>1, <1>2, <1>7, RevocableKept, SameWrites
<1>9. Durable(History, store', recovery', mode)
  BY <1>8 DEF Durable, AllKept, new
<1>10. AllKept(History, m)
  BY <1>2, <1>3, SameWrites
<1>11. Store!With(m, label).at = label /\ Store!With(m, label).mem = m
  BY <1>1, <1>3, GoesOn
<1>12. o = "ok" => new = m
  BY <1>6 DEF Store!Takes
<1>13. QED
  BY <1>3, <1>4, <1>5, <1>9, <1>10, <1>11, <1>12 DEF new

LEMMA SettleFilesHistory ==
    ASSUME StoreInv, HistoryInv, Store!SettleFiles, UNCHANGED <<mode, log, held>>
    PROVE  HistoryInv'
<1> USE DEF StartLabels, CommitLabels, UndoLabels, FlagLabels, RecoverLabels
<1>1. PICK m, o : /\ m.state = job.mem.state
                  /\ Writes(m, "settleOperation", Store!IdleJob, o)
  BY SettleFilesWrites
<1>2. job.at = "settleFiles"
  BY SettleFilesWrites
<1>3. m.state # "COMMITTED"
  BY <1>1, <1>2, RecoverFacts DEF Revocable
<1>4. /\ History' = History /\ mode' = mode /\ Durable(History, store', recovery', mode)
      /\ AllKept(History, m)
      /\ \/ job'.at = "settleOperation" /\ job'.mem = m /\ m = store'[Len(store')]
         \/ job' = Store!IdleJob
  BY <1>1, <1>2, <1>3, Settling
<1>5. Progress(job', History, store', mode)
  <2>1. CASE job'.at = "settleOperation" /\ job'.mem = m /\ m = store'[Len(store')]
    BY <1>4, <2>1 DEF Progress
  <2>2. CASE job' = Store!IdleJob
    BY <2>2, IdleProgress
  <2>3. QED
    BY <1>4, <2>1, <2>2
<1>6. QED
  BY <1>4, <1>5 DEF HistoryInv

LEMMA SettleOperationHistory ==
    ASSUME StoreInv, HistoryInv, Store!SettleOperation, UNCHANGED <<mode, log, held>>
    PROVE  HistoryInv'
<1> USE DEF StartLabels, CommitLabels, UndoLabels, FlagLabels, RecoverLabels
<1>1. PICK m, o : m.state = "ROLLED_BACK" /\ Writes(m, "clear", Store!IdleJob, o)
  BY SettleOperationWrites
<1>2. job.at = "settleOperation"
  BY SettleOperationWrites
<1>3. m.state # "COMMITTED" /\ Store!Finalized(m)
  BY <1>1 DEF Store!Finalized
<1>4. /\ History' = History /\ mode' = mode /\ Durable(History, store', recovery', mode)
      /\ AllKept(History, m)
      /\ \/ job'.at = "clear" /\ job'.mem = m /\ m = store'[Len(store')]
         \/ job' = Store!IdleJob
  BY <1>1, <1>2, <1>3, Settling
<1>5. Progress(job', History, store', mode)
  <2>1. CASE job'.at = "clear" /\ job'.mem = m /\ m = store'[Len(store')]
    BY <1>3, <1>4, <2>1 DEF Progress
  <2>2. CASE job' = Store!IdleJob
    BY <2>2, IdleProgress
  <2>3. QED
    BY <1>4, <2>1, <2>2
<1>6. QED
  BY <1>4, <1>5 DEF HistoryInv

LEMMA ClearHistory ==
    ASSUME StoreInv, HistoryInv, Store!ClearRecord, UNCHANGED <<mode, log, held>>
    PROVE  HistoryInv'
<1>1. /\ job.at = "clear" /\ UNCHANGED <<disk, store>> /\ recovery' = Store!NoRecord
      /\ job' = Store!IdleJob
  BY DEF Store!ClearRecord, Store!Exit
<1>2. Store!Finalized(store[Len(store)])
  BY <1>1 DEF HistoryInv, Progress
<1>3. ~Unfinished(store[Len(store)])
  BY <1>2 DEF Unfinished
<1>4. Durable(History', store', recovery', mode')
  BY <1>1, <1>3, DurableWhenFinal
<1>5. Progress(job', History', store', mode')
  BY <1>1, IdleProgress
<1>6. QED
  BY <1>4, <1>5 DEF HistoryInv

LEMMA UnlinkHistory ==
    ASSUME StoreInv, HistoryInv, Unlink
    PROVE  HistoryInv'
<1> USE DEF StartLabels, CommitLabels, UndoLabels, FlagLabels, RecoverLabels
<1> DEFINE starts == IF job.at = "unlink" THEN "write" ELSE "putBack"
           fails == IF job.at = "unlink" THEN "undo" ELSE "flagFiles"
           m == store[Len(store)]
<1>1. /\ job.at \in {"unlink", "undo"}
      /\ UNCHANGED <<mode, disk, held, store, recovery>> /\ Table' = Table
      /\ \/ job' = [job EXCEPT !.at = starts, !.item = FirstAfter(0)]
         \/ job' = [job EXCEPT !.at = fails]
      /\ FirstAfter(0) \in Store!Listed(job.mem)
      /\ \A k \in Store!Listed(job.mem) : FirstAfter(0) <= k
  BY UnlinkFacts
<1>2. History' = History
  BY <1>1, HistoryStays
<1>3. /\ SameOperation(job.mem, m) /\ ~Store!Finalized(job.mem) /\ ~Store!Finalized(m)
      /\ Revocable(History, m, mode) /\ job.mem \in Transactions
      /\ job.at = "unlink" => Rewrites(job.mem, mode)
  BY <1>1, WorkFacts
<1>4. Durable(History, store, recovery, mode)
  BY DEF HistoryInv
<1>5. job.at = "unlink" => AllKept(History, job.mem)
  BY DEF HistoryInv, Progress
<1>6. starts \in {"write", "putBack"} /\ (starts = "write" <=> job.at = "unlink")
  BY <1>1
<1> DEFINE first == FirstAfter(0)
<1>7. /\ first \in Nat
      /\ \A k \in Store!Listed(job.mem) : k \in Nat /\ first <= k
  BY <1>1, <1>3, ListedFacts
<1> HIDE DEF first, starts, m
<1>8. /\ KeptUpTo(History, job.mem, first)
      /\ GivenUpTo(History, job.mem, first)
      /\ job.at = "unlink" => KeptFrom(History, job.mem, first)
  BY <1>5, <1>7 DEF KeptUpTo, GivenUpTo, KeptFrom, AllKept
<1>9. Progress(job', History, store, mode)
  <2>1. CASE job' = [job EXCEPT !.at = starts, !.item = first]
    <3>1. /\ job'.at = starts /\ job'.item = first /\ job'.mem = job.mem
      BY <2>1, GotoItemFacts
    <3>2. CASE job.at = "unlink"
      BY <1>3, <1>6, <1>8, <3>1, <3>2 DEF Progress, m
    <3>3. CASE job.at = "undo"
      <4>1. starts = "putBack"
        BY <1>6, <3>3
      <4>2. QED
        BY <1>3, <1>8, <3>1, <4>1 DEF Progress, m
    <3>4. QED
      BY <1>1, <3>2, <3>3
  <2>2. CASE job' = [job EXCEPT !.at = fails]
    <3>1. job'.at \in {"undo", "flagFiles"} /\ job'.mem = job.mem
      BY <2>2, GotoFacts
    <3>2. QED
      BY <1>3, <3>1 DEF Progress, m
  <2>3. QED
    BY <1>1, <2>1, <2>2 DEF first
<1>10. QED
  BY <1>1, <1>2, <1>4, <1>9 DEF HistoryInv

(* A file of the operation is written: the operation can still be taken    *)
(* back.                                                                   *)
LEMMA FileWritten ==
    ASSUME StoreInv, HistoryInv, job.at \in {"write", "putBack"},
           NEW contents \in Histories,
           NEW o, NEW next, NEW otherwise, WriteFile(contents, o, next, otherwise)
    PROVE  /\ Revocable(History', store[Len(store)], mode)
           /\ Durable(History', store, recovery, mode)
           /\ \/ History' = History
              \/ /\ History'[job.item] = contents[job.item]
                 /\ \A k \in Items : k # job.item => History'[k] = History[k]
           /\ disk' = [disk EXCEPT ![job.item] = contents[job.item]] =>
                 /\ History'[job.item] = contents[job.item]
                 /\ \A k \in Items : k # job.item => History'[k] = History[k]
<1> DEFINE m == store[Len(store)]
           written == [disk EXCEPT ![job.item] = contents[job.item]]
<1>1. job.at \in CommitLabels \cup UndoLabels \cup FlagLabels
  BY DEF CommitLabels, UndoLabels
<1>2. /\ job.item \in Store!Listed(job.mem) /\ job.item \in Items
      /\ UNCHANGED <<mode, log, held, store, recovery>> /\ disk' \in {disk, written}
  BY WriteFileFacts
<1>3. /\ SameOperation(job.mem, m) /\ Revocable(History, m, mode)
      /\ recovery = Store!NoRecord
  BY <1>1, WorkFacts
<1> HIDE DEF m
<1>4. job.item \in Store!Listed(m) /\ (job.item = Database => mode = "delete")
  BY <1>2, <1>3 DEF SameOperation, Revocable
<1>5. ASSUME disk' = written
      PROVE  /\ History'[job.item] = contents[job.item]
             /\ \A k \in Items : k # job.item => History'[k] = History[k]
  BY <1>2, <1>4, <1>5, HistoryWritten
<1>6. disk' = disk => History' = History
  BY <1>2, HistoryStays DEF Table
<1>7. \A k \in Items \ Store!Listed(m) : History'[k] = History[k]
  BY <1>2, <1>4, <1>5, <1>6
<1>8. Revocable(History', m, mode)
  BY <1>3, <1>7, RevocableKept DEF Revocable, SameOperation
<1>9. Durable(History', store, recovery, mode)
  BY <1>3, <1>8, DurableWhenRevocable DEF m
<1> HIDE DEF written
<1>10. QED
  BY <1>2, <1>5, <1>6, <1>8, <1>9 DEF m, written

LEMMA WriteHistoryHistory ==
    ASSUME StoreInv, HistoryInv, WriteHistory
    PROVE  HistoryInv'
<1> USE DEF StartLabels, CommitLabels, UndoLabels, FlagLabels, RecoverLabels
<1> DEFINE m == store[Len(store)]
           written == [disk EXCEPT ![job.item] = job.mem.incoming[job.item]]
           last == \A k \in Store!Listed(job.mem) : k <= job.item
<1>1. job.at = "write" /\ job.mem.incoming \in Histories
  BY WriteHistoryWrites
<1>2. PICK o : WriteFile(job.mem.incoming, o, "finish", "undo")
  BY WriteHistoryWrites
<1>3. /\ job.item \in Store!Listed(job.mem)
      /\ UNCHANGED <<mode, log, held, store, recovery>>
      /\ \/ job' = [job EXCEPT !.at = "undo"]
         \/ last /\ disk' = written /\ job' = [job EXCEPT !.at = "finish"]
         \/ /\ disk' = written
            /\ job' = [job EXCEPT !.at = job.at, !.item = FirstAfter(job.item)]
            /\ FirstAfter(job.item) \in Store!Listed(job.mem)
            /\ FirstAfter(job.item) > job.item
            /\ \A l \in Store!Listed(job.mem) : l > job.item => FirstAfter(job.item) <= l
  <2>1. /\ job.item \in Store!Listed(job.mem)
        /\ UNCHANGED <<mode, log, held, store, recovery>>
        /\ LeadsTo(job.mem.incoming, "finish", "undo")
    BY <1>1, <1>2, WriteFileFacts
  <2>2. QED
    BY <2>1 DEF LeadsTo
<1>4. /\ Revocable(History', m, mode) /\ Durable(History', store, recovery, mode)
      /\ disk' = written =>
            /\ History'[job.item] = job.mem.incoming[job.item]
            /\ \A k \in Items : k # job.item => History'[k] = History[k]
  BY <1>1, <1>2, FileWritten
<1>5. /\ SameOperation(job.mem, m) /\ ~Store!Finalized(job.mem) /\ ~Store!Finalized(m)
      /\ Rewrites(job.mem, mode) /\ job.mem \in Transactions
  BY <1>1, WorkFacts
<1>6. GivenUpTo(History, job.mem, job.item) /\ KeptFrom(History, job.mem, job.item)
  BY <1>1 DEF HistoryInv, Progress
<1>7. \A k \in Store!Listed(job.mem) : k \in Items /\ k \in Nat
  BY <1>5, ListedFacts
<1> HIDE DEF written, m, last
<1>8. Progress(job', History', store, mode)
  <2>1. CASE job' = [job EXCEPT !.at = "undo"]
    <3>1. job'.at = "undo" /\ job'.mem = job.mem
      BY <2>1, GotoFacts
    <3>2. QED
      BY <1>4, <1>5, <3>1 DEF Progress, m
  <2>2. CASE last /\ disk' = written /\ job' = [job EXCEPT !.at = "finish"]
    <3>1. job'.at = "finish" /\ job'.mem = job.mem
      BY <2>2, GotoFacts
    <3>2. AllGiven(History', job.mem)
      BY <1>3, <1>4, <1>6, <1>7, <2>2 DEF AllGiven, GivenUpTo, last
    <3>3. QED
      BY <1>4, <1>5, <3>1, <3>2 DEF Progress, m
  <2>3. CASE /\ disk' = written
             /\ job' = [job EXCEPT !.at = job.at, !.item = FirstAfter(job.item)]
             /\ FirstAfter(job.item) \in Store!Listed(job.mem)
             /\ FirstAfter(job.item) > job.item
             /\ \A l \in Store!Listed(job.mem) : l > job.item => FirstAfter(job.item) <= l
    <3> DEFINE i == FirstAfter(job.item)
    <3>1. job'.at = "write" /\ job'.mem = job.mem /\ job'.item = i
      <4>1. job' = [job EXCEPT !.at = "write", !.item = i]
        BY <1>1, <2>3
      <4> HIDE DEF i
      <4>2. QED
        BY <4>1, GotoItemFacts
    <3>2. /\ i \in Store!Listed(job.mem) /\ i > job.item
          /\ \A l \in Store!Listed(job.mem) : l > job.item => i <= l
      BY <2>3
    <3> HIDE DEF i
    <3>3. \A k \in Store!Listed(job.mem) : k < i => k <= job.item
      BY <1>3, <1>7, <3>2
    <3>4. GivenUpTo(History', job.mem, i)
      BY <1>3, <1>4, <1>6, <1>7, <2>3, <3>3 DEF GivenUpTo
    <3>5. KeptFrom(History', job.mem, i)
      BY <1>3, <1>4, <1>6, <1>7, <2>3, <3>2 DEF KeptFrom
    <3>6. QED
      BY <1>4, <1>5, <3>1, <3>4, <3>5 DEF Progress, m
  <2>4. QED
    BY <1>3, <2>1, <2>2, <2>3
<1>9. QED
  BY <1>3, <1>4, <1>8 DEF HistoryInv

LEMMA PutBackHistory ==
    ASSUME StoreInv, HistoryInv, PutBack
    PROVE  HistoryInv'
<1> USE DEF StartLabels, CommitLabels, UndoLabels, FlagLabels, RecoverLabels
<1> DEFINE m == store[Len(store)]
           written == [disk EXCEPT ![job.item] = job.mem.before[job.item]]
           last == \A k \in Store!Listed(job.mem) : k <= job.item
<1>1. job.at = "putBack" /\ job.mem.before \in Histories
  BY PutBackWrites
<1>2. PICK o : WriteFile(job.mem.before, o, "unmark", "flagFiles")
  BY PutBackWrites
<1>3. /\ job.item \in Store!Listed(job.mem)
      /\ UNCHANGED <<mode, log, held, store, recovery>>
      /\ \/ job' = [job EXCEPT !.at = "flagFiles"]
         \/ last /\ disk' = written /\ job' = [job EXCEPT !.at = "unmark"]
         \/ /\ disk' = written
            /\ job' = [job EXCEPT !.at = job.at, !.item = FirstAfter(job.item)]
            /\ FirstAfter(job.item) \in Store!Listed(job.mem)
            /\ FirstAfter(job.item) > job.item
            /\ \A l \in Store!Listed(job.mem) : l > job.item => FirstAfter(job.item) <= l
  <2>1. /\ job.item \in Store!Listed(job.mem)
        /\ UNCHANGED <<mode, log, held, store, recovery>>
        /\ LeadsTo(job.mem.before, "unmark", "flagFiles")
    BY <1>1, <1>2, WriteFileFacts
  <2>2. QED
    BY <2>1 DEF LeadsTo
<1>4. /\ Revocable(History', m, mode) /\ Durable(History', store, recovery, mode)
      /\ disk' = written =>
            /\ History'[job.item] = job.mem.before[job.item]
            /\ \A k \in Items : k # job.item => History'[k] = History[k]
  BY <1>1, <1>2, FileWritten
<1>5. /\ SameOperation(job.mem, m) /\ ~Store!Finalized(job.mem) /\ ~Store!Finalized(m)
      /\ job.mem \in Transactions
  BY <1>1, WorkFacts
<1>6. KeptUpTo(History, job.mem, job.item)
  BY <1>1 DEF HistoryInv, Progress
<1>7. \A k \in Store!Listed(job.mem) : k \in Items /\ k \in Nat
  BY <1>5, ListedFacts
<1> HIDE DEF written, m, last
<1>8. Progress(job', History', store, mode)
  <2>1. CASE job' = [job EXCEPT !.at = "flagFiles"]
    <3>1. job'.at = "flagFiles" /\ job'.mem = job.mem
      BY <2>1, GotoFacts
    <3>2. QED
      BY <1>4, <1>5, <3>1 DEF Progress, m
  <2>2. CASE last /\ disk' = written /\ job' = [job EXCEPT !.at = "unmark"]
    <3>1. job'.at = "unmark" /\ job'.mem = job.mem
      BY <2>2, GotoFacts
    <3>2. AllKept(History', job.mem)
      BY <1>3, <1>4, <1>6, <1>7, <2>2 DEF AllKept, KeptUpTo, last
    <3>3. QED
      BY <1>4, <1>5, <3>1, <3>2 DEF Progress, m
  <2>3. CASE /\ disk' = written
             /\ job' = [job EXCEPT !.at = job.at, !.item = FirstAfter(job.item)]
             /\ FirstAfter(job.item) \in Store!Listed(job.mem)
             /\ FirstAfter(job.item) > job.item
             /\ \A l \in Store!Listed(job.mem) : l > job.item => FirstAfter(job.item) <= l
    <3> DEFINE i == FirstAfter(job.item)
    <3>1. job'.at = "putBack" /\ job'.mem = job.mem /\ job'.item = i
      <4>1. job' = [job EXCEPT !.at = "putBack", !.item = i]
        BY <1>1, <2>3
      <4> HIDE DEF i
      <4>2. QED
        BY <4>1, GotoItemFacts
    <3>2. /\ i \in Store!Listed(job.mem) /\ i > job.item
          /\ \A l \in Store!Listed(job.mem) : l > job.item => i <= l
      BY <2>3
    <3> HIDE DEF i
    <3>3. \A k \in Store!Listed(job.mem) : k < i => k <= job.item
      BY <1>3, <1>7, <3>2
    <3>4. KeptUpTo(History', job.mem, i)
      BY <1>3, <1>4, <1>6, <1>7, <2>3, <3>3 DEF KeptUpTo
    <3>5. QED
      BY <1>4, <1>5, <3>1, <3>4 DEF Progress, m
  <2>4. QED
    BY <1>3, <2>1, <2>2, <2>3
<1>9. QED
  BY <1>3, <1>4, <1>8 DEF HistoryInv

LEMMA StartHistory ==
    ASSUME StoreInv, HistoryInv, StartMerge
    PROVE  HistoryInv'
<1> USE DEF StartLabels, CommitLabels, UndoLabels, FlagLabels, RecoverLabels
<1>1. /\ Quiet /\ UNCHANGED <<mode, disk, log, store, recovery>> /\ held' = log
      /\ job'.at = "prune" /\ job'.mem.state = "PREPARED"
      /\ job'.mem.before = History /\ Rewrites(job'.mem, mode)
  BY StartFacts
<1>2. Table' = Table
  BY <1>1 DEF Table, Quiet
<1>3. History' = History
  BY <1>1, <1>2, HistoryStays
<1>4. Progress(job', History, store, mode)
  BY <1>1 DEF Progress, Store!Finalized
<1>5. QED
  BY <1>1, <1>3, <1>4 DEF HistoryInv

LEMMA PruneHistory ==
    ASSUME StoreInv, HistoryInv, Store!Prune, UNCHANGED <<mode, log, held>>
    PROVE  HistoryInv'
<1> USE DEF StartLabels, CommitLabels, UndoLabels, FlagLabels, RecoverLabels
<1>1. /\ disk' = disk /\ recovery' = recovery /\ job.at = "prune"
      /\ job' = [job EXCEPT !.at = "create"]
      /\ Len(store') = Len(store)
      /\ \A op \in 1 .. Len(store) : ~Unfinished(store'[op])
  BY PruneFacts
<1>2. recovery = Store!NoRecord /\ Len(store) \in Nat
  BY <1>1 DEF StoreInv, StoreOK, JobOK
<1>3. History' = History
  BY <1>1, HistoryStays DEF Table
<1>4. job'.at = "create" /\ job'.mem = job.mem
  BY <1>1, GotoFacts
<1>5. Durable(History, store', Store!NoRecord, mode)
  BY <1>1, <1>2 DEF Durable, Open
<1>6. /\ job.mem.before = History /\ Rewrites(job.mem, mode) /\ ~Store!Finalized(job.mem)
  BY <1>1 DEF HistoryInv, Progress
<1>7. Progress(job', History, store', mode)
  BY <1>4, <1>6 DEF Progress
<1>8. QED
  BY <1>1, <1>2, <1>3, <1>5, <1>7 DEF HistoryInv

(* In mode "wal" the copy of the database is the database.                 *)
LEMMA RewritesFacts ==
    ASSUME mode \in Modes, NEW m \in Transactions, Rewrites(m, mode),
           ~Store!Finalized(m)
    PROVE  /\ Revocable(m.before, m, mode) /\ AllKept(m.before, m)
           /\ Database \in Store!Listed(m) => mode = "delete"
<1>1. Database \in Store!Listed(m) => mode = "delete"
  <2>1. SUFFICES ASSUME mode # "delete" PROVE Database \notin Store!Listed(m)
    OBVIOUS
  <2>2. mode = "wal"
    BY <2>1, ModesAssumption
  <2>3. m.incoming[Database] = m.before[Database]
    BY <2>2, ItemFacts DEF Rewrites, CopyOf
  <2>4. QED
    BY <2>3 DEF Rewrites
<1>2. QED
  BY <1>1 DEF Revocable, AllKept, Rewrites, Store!Finalized

LEMMA CreateHistory ==
    ASSUME StoreInv, HistoryInv, Store!CreateManifest, UNCHANGED <<mode, log, held>>
    PROVE  HistoryInv'
<1> USE DEF StartLabels, CommitLabels, UndoLabels, FlagLabels, RecoverLabels
<1> DEFINE n == Len(store')
           m == job.mem
<1>1. /\ disk' = disk /\ recovery' = Store!NoRecord /\ job.at = "create"
      /\ m \in Transactions
      /\ store'[n] = m \/ store'[n] = Store!LeftOf(m, "backups")
      /\ \/ job' = [job EXCEPT !.at = "begin", !.op = n] /\ store'[n] = m
         \/ job' = Store!IdleJob
  BY CreateFacts
<1>2. History' = History
  BY <1>1, HistoryStays DEF Table
<1>3. m.before = History /\ Rewrites(m, mode) /\ ~Store!Finalized(m)
  BY <1>1 DEF HistoryInv, Progress
<1>4. Revocable(History, m, mode) /\ AllKept(History, m)
  BY <1>1, <1>3, RewritesFacts DEF StoreInv, LogOK
<1>5. Durable(History, store', Store!NoRecord, mode)
  <2>1. CASE store'[n] = m
    BY <1>4, <2>1, DurableWhenRevocable
  <2>2. CASE store'[n] = Store!LeftOf(m, "backups")
    <3>1. store'[n].remains = "backups"
      BY <1>1, <2>2, LeftOfFacts
    <3>2. QED
      BY <3>1, DurableWhenFinal DEF Unfinished
  <2>3. QED
    BY <1>1, <2>1, <2>2
<1> HIDE DEF m
<1>6. Progress(job', History, store', mode)
  <2>1. CASE job' = [job EXCEPT !.at = "begin", !.op = n] /\ store'[n] = m
    <3>1. job'.at = "begin" /\ job'.mem = m
      <4>1. job \in Jobs
        BY DEF StoreInv, JobOK
      <4> HIDE DEF n
      <4>2. QED
        BY <2>1, <4>1 DEF Jobs, m
    <3>2. SameOperation(m, m)
      BY DEF SameOperation
    <3>3. QED
      BY <1>3, <1>4, <2>1, <3>1, <3>2 DEF Progress
  <2>2. CASE job' = Store!IdleJob
    BY <2>2, IdleProgress
  <2>3. QED
    BY <1>1, <2>1, <2>2
<1>7. QED
  BY <1>1, <1>2, <1>5, <1>6 DEF HistoryInv

LEMMA DiscardHistory ==
    ASSUME StoreInv, HistoryInv, Store!Discard, UNCHANGED <<mode, log, held>>
    PROVE  HistoryInv'
<1>1. /\ job.at = "discard" /\ recovery' = Store!NoRecord /\ job' = Store!IdleJob
      /\ Len(store') = Len(store) /\ store'[Len(store)].state = job.mem.state
  BY DiscardFacts
<1>2. Store!Finalized(job.mem)
  BY <1>1 DEF HistoryInv, Progress, RecoverLabels
<1>3. ~Unfinished(store'[Len(store')])
  BY <1>1, <1>2 DEF Unfinished, Store!Finalized
<1>4. Durable(History', store', recovery', mode')
  BY <1>1, <1>3, DurableWhenFinal
<1>5. Progress(job', History', store', mode')
  BY <1>1, IdleProgress
<1>6. QED
  BY <1>4, <1>5 DEF HistoryInv

LEMMA CloseHistory ==
    ASSUME StoreInv, HistoryInv, CloseDatabase
    PROVE  HistoryInv'
<1>1. /\ UNCHANGED <<mode, store, recovery, job>>
      /\ log' = Absent /\ held' = Absent /\ held = Table
      /\ disk' = [disk EXCEPT ![Database] = held]
  BY CloseFacts
<1>2. History' = History
  <2>1. DOMAIN disk = Items
    BY HistoryFacts DEF StoreInv
  <2>2. disk'[Database] = held /\ \A t \in Threads : disk'[t] = disk[t]
    BY <1>1, <2>1, ItemFacts
  <2>3. Table' = Table
    BY <1>1, <2>2 DEF Table
  <2>4. \A i \in Items : (IF i = Database THEN Table ELSE disk[i])'
                           = IF i = Database THEN Table ELSE disk[i]
    BY <2>2, <2>3, ItemFacts
  <2>5. QED
    BY <2>4 DEF History
<1>3. QED
  BY <1>1, <1>2 DEF HistoryInv

(* A process is killed only where it holds no log.                         *)
LEMMA KillHistory ==
    ASSUME CleanKills, StoreInv, HistoryInv, Kill
    PROVE  HistoryInv'
<1>1. /\ UNCHANGED <<disk, store, recovery, mode, log>> /\ held' = Absent
      /\ job' = Store!IdleJob /\ mode = "delete"
  BY DEF Kill, Store!Crash, Store!Exit, CleanKills
<1>2. Table' = Table
  BY <1>1 DEF Table, StoreInv, LogOK
<1>3. History' = History
  BY <1>1, <1>2, HistoryStays
<1>4. Progress(job', History, store, mode)
  BY <1>1, IdleProgress
<1>5. QED
  BY <1>1, <1>3, <1>4 DEF HistoryInv

LEMMA NotOpenFacts ==
    ASSUME StoreInv, ~Store!Owed
    PROVE  /\ recovery = Store!NoRecord
           /\ Len(store) > 0 => ~Open(store[Len(store)], recovery)
           /\ \A op \in 1 .. Len(store) : ~Unfinished(store[op])
<1>1. recovery = Store!NoRecord /\ \A op \in 1 .. Len(store) : ~Unfinished(store[op])
  BY DEF Store!Owed, Store!Incomplete, Unfinished
<1>2. Len(store) \in Nat
  BY DEF StoreInv, StoreOK
<1>3. QED
  BY <1>1, <1>2 DEF Open

LEMMA UseHistory ==
    ASSUME StoreInv, HistoryInv, NEW t \in Threads, NEW id \in Ids, NEW log_left \in BOOLEAN,
           UseCodex(t, id, log_left)
    PROVE  HistoryInv'
<1>1. Quiet /\ ~Store!Owed /\ UNCHANGED <<mode, store, recovery, job>>
  BY UseFacts
<1>2. Durable(History', store, recovery, mode)
  BY <1>1, NotOpenFacts DEF Durable
<1>3. Progress(job, History', store, mode)
  BY <1>1 DEF Progress, Quiet, Store!Idle, StartLabels, CommitLabels, UndoLabels, FlagLabels,
              RecoverLabels
<1>4. QED
  BY <1>1, <1>2, <1>3 DEF HistoryInv

LEMMA InitHistory ==
    ASSUME Init
    PROVE  HistoryInv
<1>1. store = <<>> /\ recovery = Store!NoRecord /\ job = Store!IdleJob
  BY DEF Init
<1>2. Len(store) = 0
  BY <1>1
<1>3. Durable(History, store, recovery, mode)
  BY <1>1, <1>2 DEF Durable
<1>4. QED
  BY <1>1, <1>3, IdleProgress DEF HistoryInv

LEMMA HistorySame ==
    ASSUME HistoryInv, UNCHANGED <<mode, disk, log, held, store, recovery, job>>
    PROVE  HistoryInv'
<1>1. History' = History
  BY HistoryStays DEF Table
<1>2. QED
  BY <1>1 DEF HistoryInv

(* The transaction and the history stay in step.                           *)
LEMMA HistoryStepOK ==
    ASSUME CleanCommit, CleanKills, StoreInv, HistoryInv, [Next]_vars
    PROVE  HistoryInv'
<1>1. CASE UNCHANGED vars
  BY <1>1, HistorySame DEF vars
<1>2. CASE StartMerge
  BY <1>2, StartHistory
<1>3. CASE PruneAndCreate
  BY <1>3, PruneHistory, CreateHistory DEF PruneAndCreate
<1>4. CASE BeginMerge \/ Intend \/ Unlink \/ WriteHistory \/ PutBack \/ Unmark \/ Settle
  BY <1>4, BeginHistory, IntendHistory, UnlinkHistory, WriteHistoryHistory, PutBackHistory,
     UnmarkHistory, SettleHistory
<1>5. CASE Finish
  BY <1>5, FinishHistory, DiscardHistory DEF Finish
<1>6. CASE Recover
  BY <1>6, GateHistory, FlagFilesHistory, FlagOperationHistory, FlagRecordHistory,
     StartRecoverHistory, RestoreHistory, SettleFilesHistory, SettleOperationHistory,
     ClearHistory DEF Recover, Store!Recover
<1>7. CASE CloseDatabase
  BY <1>7, CloseHistory
<1>8. CASE Kill
  BY <1>8, KillHistory
<1>9. CASE \E t \in Threads, id \in Ids, log_left \in BOOLEAN : UseCodex(t, id, log_left)
  BY <1>9, UseHistory
<1>10. QED
  BY <1>1, <1>2, <1>3, <1>4, <1>5, <1>6, <1>7, <1>8, <1>9 DEF Next, Merge

(* What recovery would put back is what the operation found, and nothing   *)
(* else was changed, at every moment.                                      *)
THEOREM HistoryInvariant ==
    ASSUME CleanCommit, CleanKills
    PROVE  Spec => [](StoreInv /\ HistoryInv)
<1>1. Init => StoreInv /\ HistoryInv
  BY InitStore, InitHistory
<1>2. StoreInv /\ HistoryInv /\ [Next]_vars => StoreInv' /\ HistoryInv'
  BY StoreStepOK, HistoryStepOK
<1>3. QED
  BY <1>1, <1>2, PTL DEF Spec

-----------------------------------------------------------------------------
(* The abstract merge: what the history looks like through recovery.       *)

Busy(ms) == Len(ms) > 0 /\ Unfinished(ms[Len(ms)])

(* Visible, of an image of the history and a sequence of transactions.     *)
SeenOf(image, ms) ==
    [i \in Items |-> IF Busy(ms) /\ i \in Store!Listed(ms[Len(ms)])
                     THEN ms[Len(ms)].before[i] ELSE image[i]]

(* FinalStateIsTrue, of one step.                                          *)
FinalStep ==
    \A op \in 1 .. Len(store) :
        LET m == store'[op] IN
        ~Store!Finalized(store[op]) /\ Store!Finalized(m) =>
           \A i \in Store!Listed(m) :
               disk'[i] = IF m.state = "COMMITTED" THEN m.incoming[i] ELSE m.before[i]

(* No merge becomes COMMITTED.                                             *)
NoCommit ==
    \A op \in 1 .. Len(store) : store'[op].state = "COMMITTED" => store[op].state = "COMMITTED"

(* A step after which the history looks as it did before.                  *)
Unseen == SeenOf(History', store') = SeenOf(History, store) /\ FinalStep /\ NoCommit

LEMMA SeenWhenKept ==
    ASSUME NEW image \in Histories, NEW ms, Busy(ms) => AllKept(image, ms[Len(ms)])
    PROVE  SeenOf(image, ms) = image
<1>1. image = [i \in Items |-> image[i]]
  BY HistoryFacts
<1>2. \A i \in Items : SeenOf(image, ms)[i] = image[i]
  BY DEF SeenOf, AllKept
<1>3. SeenOf(image, ms) = [i \in Items |-> image[i]]
  BY <1>2 DEF SeenOf
<1>4. QED
  BY <1>1, <1>3

(* Files that are hidden behind their backups are written.                 *)
LEMMA SeenWhenHidden ==
    ASSUME NEW image, NEW image2, NEW ms,
           \A i \in Items : \/ image2[i] = image[i]
                            \/ Busy(ms) /\ i \in Store!Listed(ms[Len(ms)])
    PROVE  SeenOf(image2, ms) = SeenOf(image, ms)
<1>1. \A i \in Items :
        (IF Busy(ms) /\ i \in Store!Listed(ms[Len(ms)]) THEN ms[Len(ms)].before[i]
                                                         ELSE image2[i])
        = IF Busy(ms) /\ i \in Store!Listed(ms[Len(ms)]) THEN ms[Len(ms)].before[i]
                                                         ELSE image[i]
  OBVIOUS
<1>2. QED
  BY <1>1 DEF SeenOf

(* The manifest changes, of the same operation, which stays as unfinished  *)
(* as it was or has nothing to take back.                                  *)
LEMMA SeenWhenSame ==
    ASSUME NEW image, NEW ms, NEW ms2, Len(ms2) = Len(ms),
           SameOperation(ms2[Len(ms)], ms[Len(ms)]),
           (Busy(ms) <=> Busy(ms2)) \/ AllKept(image, ms[Len(ms)])
    PROVE  SeenOf(image, ms2) = SeenOf(image, ms)
<1> DEFINE m == ms[Len(ms)]
           m2 == ms2[Len(ms)]
<1>1. m2.before = m.before /\ Store!Listed(m2) = Store!Listed(m)
  BY DEF SameOperation
<1>2. \A i \in Items :
        (IF Busy(ms2) /\ i \in Store!Listed(m2) THEN m2.before[i] ELSE image[i])
        = IF Busy(ms) /\ i \in Store!Listed(m) THEN m.before[i] ELSE image[i]
  <2>1. CASE Busy(ms) <=> Busy(ms2)
    BY <1>1, <2>1
  <2>2. CASE AllKept(image, m)
    BY <1>1, <2>2 DEF AllKept
  <2>3. QED
    BY <2>1, <2>2
<1>3. QED
  BY <1>2 DEF SeenOf

(* What an unfinished operation is, in the words of the store.             *)
LEMMA VisibleIs ==
    StoreInv => Visible = SeenOf(History, store) /\ (Store!Incomplete # {} <=> Busy(store))
<1>1. SUFFICES ASSUME StoreInv
               PROVE  /\ Visible = SeenOf(History, store)
                      /\ Store!Incomplete # {} <=> Busy(store)
  OBVIOUS
<1>2. Len(store) \in Nat /\ \A op \in 1 .. Len(store) : Unfinished(store[op]) => op = Len(store)
  BY <1>1 DEF StoreInv, StoreOK
<1>3. \A op : op \in Store!Incomplete <=> Busy(store) /\ op = Len(store)
  BY <1>2 DEF Store!Incomplete, Busy, Unfinished
<1>4. \A i \in Items : History[i] = IF i = Database THEN Table ELSE disk[i]
  BY DEF History
<1>5. CASE Busy(store)
  <2>1. \A i : (\E op \in Store!Incomplete : i \in Store!Listed(store[op]))
                  <=> i \in Store!Listed(store[Len(store)])
    BY <1>3, <1>5
  <2>2. \A i : \/ i \notin Store!Listed(store[Len(store)])
               \/ (CHOOSE op \in Store!Incomplete : i \in Store!Listed(store[op])) = Len(store)
    BY <1>3, <1>5
  <2>3. QED
    BY <1>3, <1>4, <1>5, <2>1, <2>2 DEF Visible, SeenOf
<1>6. CASE ~Busy(store)
  BY <1>3, <1>4, <1>6 DEF Visible, SeenOf
<1>7. QED
  BY <1>3, <1>5, <1>6

LEMMA QuietUnseen ==
    ASSUME StoreInv, History' = History, store' = store
    PROVE  Unseen
BY DEF Unseen, FinalStep, NoCommit

(* A file that the transaction lists is written.                           *)
LEMMA HiddenUnseen ==
    ASSUME store' = store,
           \A i \in Items : \/ History'[i] = History[i]
                            \/ Busy(store) /\ i \in Store!Listed(store[Len(store)])
    PROVE  Unseen
<1> DEFINE image == History
           image2 == History'
<1>1. \A i \in Items : \/ image2[i] = image[i]
                       \/ Busy(store) /\ i \in Store!Listed(store[Len(store)])
  OBVIOUS
<1> HIDE DEF image, image2
<1>2. SeenOf(image2, store) = SeenOf(image, store)
  BY <1>1, SeenWhenHidden
<1>3. QED
  BY <1>2 DEF Unseen, FinalStep, NoCommit, image, image2

(* A manifest is written that says nothing new, or that nothing is left of *)
(* the operation.                                                          *)
LEMMA ManifestUnseen ==
    ASSUME StoreInv, HistoryInv, job.at \notin {"idle"} \cup StartLabels,
           NEW m, NEW label, NEW otherwise, NEW o, Writes(m, label, otherwise, o),
           SameOperation(job.mem, store[Len(store)]), m.state # "COMMITTED" \/ ~Store!Takes(o),
           \/ ~Store!Takes(o)
           \/ Store!Finalized(m) <=> Store!Finalized(store[Len(store)])
           \/ AllKept(History, store[Len(store)])
    PROVE  Unseen
<1> DEFINE old == store[Len(store)]
           new == store'[Len(store)]
<1>1. /\ m \in Transactions /\ m.remains = "manifest" /\ SameOperation(m, job.mem)
      /\ Store!StoreThen(m, o, Store!With(m, label), otherwise)
      /\ UNCHANGED <<recovery, mode, log, held>>
  BY DEF Writes
<1>2. /\ Len(store') = Len(store) /\ Len(store) > 0 /\ disk' = disk
      /\ new = IF Store!Takes(o) THEN m ELSE old
      /\ new.remains = "manifest"
      /\ \A op \in 1 .. Len(store) : op # Len(store) => store'[op] = store[op]
  BY <1>1, StoreStep
<1>3. History' = History
  BY <1>1, <1>2, HistoryStays DEF Table
<1>4. old.remains = "manifest" /\ Len(store) \in Nat
  BY JobAtWork
<1>5. SameOperation(new, old)
  BY <1>1, <1>2 DEF SameOperation
<1>6. (Busy(store) <=> Busy(store')) \/ AllKept(History, old)
  BY <1>2, <1>4 DEF Busy, Unfinished
<1>7. SeenOf(History, store') = SeenOf(History, store)
  <2> DEFINE ms == store'
  <2>1. /\ Len(ms) = Len(store) /\ SameOperation(ms[Len(store)], old)
        /\ (Busy(store) <=> Busy(ms)) \/ AllKept(History, old)
    BY <1>2, <1>5, <1>6
  <2> HIDE DEF ms
  <2>2. SeenOf(History, ms) = SeenOf(History, store)
    BY <2>1, SeenWhenSame
  <2>3. QED
    BY <2>2 DEF ms
<1>8. new.state = "COMMITTED" => old.state = "COMMITTED"
  BY <1>2
<1>9. FinalStep
  <2>1. SUFFICES ASSUME NEW op \in 1 .. Len(store),
                        ~Store!Finalized(store[op]), Store!Finalized(store'[op]),
                        NEW i \in Store!Listed(store'[op])
                 PROVE  disk'[i] = IF store'[op].state = "COMMITTED"
                                   THEN store'[op].incoming[i] ELSE store'[op].before[i]
    BY DEF FinalStep
  <2>2. op = Len(store) /\ ~Store!Finalized(old) /\ Store!Finalized(new)
    BY <1>2, <2>1
  <2>3. new.state # "COMMITTED" /\ AllKept(History, old)
    BY <1>2, <1>8, <2>2 DEF Store!Finalized
  <2>4. i \in Store!Listed(old) /\ new.before = old.before
    BY <1>5, <2>1, <2>2 DEF SameOperation
  <2>5. i \in Items /\ (i = Database => mode = "delete")
    <3>1. old \in Transactions
      BY JobAtWork
    <3>2. Revocable(History, old, mode)
      BY <1>2, <1>4, <2>2 DEF HistoryInv, Durable, Open, Unfinished
    <3>3. QED
      BY <2>4, <3>1, <3>2, ListedFacts DEF Revocable
  <2>6. disk[i] = History[i]
    BY <2>5, TableFacts, ItemFacts
  <2>7. disk'[i] = new.before[i]
    BY <1>2, <2>3, <2>4, <2>6 DEF AllKept
  <2>8. QED
    BY <2>2, <2>3, <2>7
<1>10. NoCommit
  BY <1>2, <1>8 DEF NoCommit
<1>11. QED
  BY <1>3, <1>7, <1>9, <1>10 DEF Unseen

(* A command rewrites its manifest before the operation is final, or when  *)
(* it has put everything back.                                             *)
LEMMA WorkUnseen ==
    ASSUME StoreInv, HistoryInv, job.at \in CommitLabels \cup UndoLabels \cup FlagLabels,
           NEW m, NEW label, NEW otherwise, NEW o, Writes(m, label, otherwise, o),
           m.state # "COMMITTED" \/ ~Store!Takes(o),
           ~Store!Takes(o) \/ ~Store!Finalized(m) \/ job.at = "settle"
    PROVE  Unseen
<1> DEFINE old == store[Len(store)]
<1>1. job.at \notin {"idle"} \cup StartLabels /\ SameOperation(job.mem, old)
  BY WorkFacts
<1>2. ~Store!Finalized(m) =>
         (Store!Finalized(m) <=> Store!Finalized(old)) \/ AllKept(History, old)
  BY WorkFacts DEF HistoryInv, Progress
<1>3. job.at = "settle" => AllKept(History, old)
  <2>1. job.at = "settle" => AllKept(History, job.mem)
    BY DEF HistoryInv, Progress
  <2>2. QED
    BY <1>1, <2>1, SameWrites
<1>4. QED
  BY <1>1, <1>2, <1>3, ManifestUnseen

LEMMA BeginUnseen ==
    ASSUME StoreInv, HistoryInv, BeginMerge
    PROVE  Unseen
<1>1. PICK m, o : /\ m.state = "COMMITTING"
                  /\ Writes(m, "intend", [job EXCEPT !.at = "undo"], o)
  BY BeginWrites
<1>2. job.at = "begin"
  BY BeginWrites
<1>3. ~Store!Finalized(m)
  BY <1>1 DEF Store!Finalized
<1>4. QED
  BY <1>1, <1>2, <1>3, WorkUnseen DEF CommitLabels

LEMMA IntendUnseen ==
    ASSUME StoreInv, HistoryInv, Intend
    PROVE  Unseen
<1>1. PICK m, o : /\ m.state = job.mem.state
                  /\ Writes(m, "unlink", [job EXCEPT !.at = "undo"], o)
  BY IntendWrites
<1>2. job.at = "intend"
  BY IntendWrites
<1>3. m.state # "COMMITTED" /\ ~Store!Finalized(m)
  BY <1>1, <1>2, WorkFacts DEF CommitLabels, Store!Finalized
<1>4. QED
  BY <1>1, <1>2, <1>3, WorkUnseen DEF CommitLabels

LEMMA UnmarkUnseen ==
    ASSUME StoreInv, HistoryInv, Unmark
    PROVE  Unseen
<1>1. PICK m, o : /\ m.state = job.mem.state
                  /\ Writes(m, "settle", [job EXCEPT !.at = "flagFiles"], o)
  BY UnmarkWrites
<1>2. job.at = "unmark"
  BY UnmarkWrites
<1>3. m.state # "COMMITTED" /\ ~Store!Finalized(m)
  BY <1>1, <1>2, WorkFacts DEF UndoLabels, Store!Finalized
<1>4. QED
  BY <1>1, <1>2, <1>3, WorkUnseen DEF UndoLabels

LEMMA SettleUnseen ==
    ASSUME StoreInv, HistoryInv, Settle
    PROVE  Unseen
<1>1. PICK m, o : /\ m.state = "ROLLED_BACK"
                  /\ Writes(m, "discard", [job EXCEPT !.at = "flagFiles"], o)
  BY SettleWrites
<1>2. job.at = "settle"
  BY SettleWrites
<1>3. QED
  BY <1>1, <1>2, WorkUnseen DEF UndoLabels

LEMMA FlagFilesUnseen ==
    ASSUME StoreInv, HistoryInv, Store!FlagFiles, UNCHANGED <<mode, log, held>>
    PROVE  Unseen
<1>1. PICK m, o : /\ m.state = job.mem.state
                  /\ Writes(m, "flagOperation", Store!IdleJob, o)
  BY FlagFilesWrites
<1>2. job.at = "flagFiles"
  BY FlagFilesWrites
<1>3. m.state # "COMMITTED" /\ ~Store!Finalized(m)
  BY <1>1, <1>2, WorkFacts DEF FlagLabels, Store!Finalized
<1>4. QED
  BY <1>1, <1>2, <1>3, WorkUnseen DEF FlagLabels

LEMMA FlagOperationUnseen ==
    ASSUME StoreInv, HistoryInv, Store!FlagOperation, UNCHANGED <<mode, log, held>>
    PROVE  Unseen
<1>1. PICK m, o : /\ m.state = "RECOVERY_REQUIRED"
                  /\ Writes(m, "flagRecord", Store!IdleJob, o)
  BY FlagOperationWrites
<1>2. job.at = "flagOperation"
  BY FlagOperationWrites
<1>3. ~Store!Finalized(m)
  BY <1>1 DEF Store!Finalized
<1>4. QED
  BY <1>1, <1>2, <1>3, WorkUnseen DEF FlagLabels

(* recover rewrites the manifest when every file is back.                  *)
LEMMA RecoverUnseen ==
    ASSUME StoreInv, HistoryInv,
           Store!SettleFiles \/ Store!SettleOperation, UNCHANGED <<mode, log, held>>
    PROVE  Unseen
<1> USE DEF RecoverLabels
<1>1. PICK m, label, o : /\ m.state \in {job.mem.state, "ROLLED_BACK"}
                         /\ Writes(m, label, Store!IdleJob, o)
  BY SettleFilesWrites, SettleOperationWrites
<1>2. job.at \in {"settleFiles", "settleOperation"}
  BY SettleFilesWrites, SettleOperationWrites
<1>3. /\ job.at \notin {"idle"} \cup StartLabels
      /\ job.mem = store[Len(store)] /\ Revocable(History, job.mem, mode)
  BY <1>2, RecoverFacts
<1>4. m.state # "COMMITTED"
  BY <1>1, <1>3 DEF Revocable
<1>5. AllKept(History, store[Len(store)])
  BY <1>2, <1>3 DEF HistoryInv, Progress
<1>6. SameOperation(job.mem, store[Len(store)])
  BY <1>3 DEF SameOperation
<1>7. QED
  BY <1>1, <1>3, <1>4, <1>5, <1>6, ManifestUnseen

(* A file of the operation is written or put back.                         *)
LEMMA WriteUnseen ==
    ASSUME StoreInv, HistoryInv, WriteHistory \/ PutBack
    PROVE  Unseen
<1>1. /\ job.at \in {"write", "putBack"}
      /\ job.mem.incoming \in Histories /\ job.mem.before \in Histories
  <2>1. job.at \in {"write", "putBack"}
    BY WriteHistoryWrites, PutBackWrites
  <2>2. QED
    BY <2>1, JobAtWork, TransactionFacts DEF StartLabels
<1>2. PICK contents, o, next, otherwise :
        contents \in Histories /\ WriteFile(contents, o, next, otherwise)
  BY <1>1, WriteHistoryWrites, PutBackWrites
<1>3. store' = store
  BY <1>2 DEF WriteFile
<1>4. \/ History' = History
      \/ \A k \in Items : k # job.item => History'[k] = History[k]
  BY <1>1, <1>2, FileWritten
<1>5. /\ ~Store!Finalized(store[Len(store)]) /\ SameOperation(job.mem, store[Len(store)])
      /\ job.item \in Store!Listed(job.mem) /\ Len(store) > 0
      /\ store[Len(store)].remains = "manifest"
  BY <1>1, WorkFacts, JobAtWork DEF CommitLabels, UndoLabels, StartLabels
<1>6. Busy(store) /\ job.item \in Store!Listed(store[Len(store)])
  BY <1>5 DEF Busy, Unfinished, SameOperation
<1>7. QED
  BY <1>3, <1>4, <1>6, HiddenUnseen

(* recover writes into an operation that is not final, or writes what is   *)
(* there already.                                                          *)
LEMMA RestoreUnseen ==
    ASSUME StoreInv, HistoryInv, Store!Restore, UNCHANGED <<mode, log, held>>
    PROVE  Unseen
<1> DEFINE m == store[Len(store)]
<1>1. job.at = "restore" /\ store' = store
  BY RestoreFacts
<1>2. PICK i \in Store!Listed(job.mem) :
         disk' \in {disk, [disk EXCEPT ![i] = job.mem.before[i]]}
  BY RestoreFacts
<1>3. /\ recovery # Store!NoRecord /\ job.mem = m /\ job.mem \in Transactions
      /\ Len(store) > 0 /\ m.remains = "manifest"
      /\ Revocable(History, m, mode) /\ Durable(History, store, recovery, mode)
  BY <1>1, RecoverFacts, JobAtWork DEF RecoverLabels, StartLabels
<1>4. i \in Store!Listed(m) /\ i \in Items /\ (i = Database => mode = "delete")
  BY <1>2, <1>3, ListedFacts DEF Revocable
<1>5. Store!Finalized(m) => History[i] = m.before[i]
  BY <1>3, <1>4 DEF Durable
<1>6. CASE disk' = disk
  BY <1>1, <1>6, HistoryStays, QuietUnseen DEF Table
<1>7. CASE disk' = [disk EXCEPT ![i] = job.mem.before[i]]
  <2>1. /\ History'[i] = m.before[i]
        /\ \A k \in Items : k # i => History'[k] = History[k]
    BY <1>3, <1>4, <1>7, HistoryWritten
  <2>2. Store!Finalized(m) \/ Busy(store)
    BY <1>3 DEF Busy, Unfinished
  <2> HIDE DEF m
  <2>3. \A k \in Items : \/ History'[k] = History[k]
                         \/ Busy(store) /\ k \in Store!Listed(m)
    BY <1>4, <1>5, <2>1, <2>2
  <2>4. QED
    BY <1>1, <2>3, HiddenUnseen DEF m
<1>8. QED
  BY <1>2, <1>6, <1>7

(* Steps that write neither a manifest nor a file.                         *)
LEMMA StillUnseen ==
    ASSUME StoreInv, UNCHANGED <<disk, store, mode, log, held>>
    PROVE  Unseen
<1>1. History' = History
  BY HistoryStays DEF Table
<1>2. QED
  BY <1>1, QuietUnseen

LEMMA StartUnseen ==
    ASSUME StoreInv, StartMerge
    PROVE  Unseen
<1>1. Quiet /\ UNCHANGED <<disk, log, store>> /\ held' = log
  BY DEF StartMerge
<1>2. Table' = Table
  BY <1>1 DEF Table, Quiet
<1>3. QED
  BY <1>1, <1>2, HistoryStays, QuietUnseen

LEMMA UnlinkUnseen ==
    ASSUME StoreInv, Unlink
    PROVE  Unseen
BY UnlinkFacts, HistoryStays, QuietUnseen

(* The log reaches the database file: a reader sees what it saw.           *)
LEMMA CloseUnseen ==
    ASSUME StoreInv, CloseDatabase
    PROVE  Unseen
<1>1. /\ UNCHANGED <<mode, store, recovery, job>>
      /\ log' = Absent /\ held' = Absent /\ held = Table
      /\ disk' = [disk EXCEPT ![Database] = held]
  BY CloseFacts
<1>2. DOMAIN disk = Items
  BY HistoryFacts DEF StoreInv
<1>3. disk'[Database] = held /\ \A t \in Threads : disk'[t] = disk[t]
  BY <1>1, <1>2, ItemFacts
<1>4. Table' = Table
  BY <1>1, <1>3 DEF Table
<1>5. \A i \in Items : History'[i] = History[i]
  BY <1>3, <1>4, ItemFacts DEF History
<1>6. QED
  BY <1>1, <1>5, HiddenUnseen

LEMMA KillUnseen ==
    ASSUME CleanKills, StoreInv, Kill
    PROVE  Unseen
<1>1. UNCHANGED <<disk, store, mode, log>> /\ held' = Absent /\ mode = "delete"
  BY DEF Kill, Store!Crash, Store!Exit, CleanKills
<1>2. Table' = Table
  BY <1>1 DEF Table, StoreInv, LogOK
<1>3. QED
  BY <1>1, <1>2, HistoryStays, QuietUnseen

LEMMA IdleIsSeen ==
    ASSUME StoreInv, \A op \in 1 .. Len(store) : ~Unfinished(store[op])
    PROVE  SeenOf(History, store) = History /\ ~Busy(store)
<1>1. History \in Histories /\ Len(store) \in Nat
  BY TableFacts DEF StoreInv, StoreOK
<1>2. ~Busy(store)
  BY <1>1 DEF Busy
<1>3. QED
  BY <1>1, <1>2, SeenWhenKept

(* A transaction is created or removed where the history shows as it is.   *)
LEMMA PlainUnseen ==
    ASSUME StoreInv, History' = History, FinalStep, NoCommit,
           Busy(store) => AllKept(History, store[Len(store)]),
           Busy(store') => AllKept(History, store'[Len(store')])
    PROVE  Unseen
<1>1. History \in Histories
  BY TableFacts
<1>2. SeenOf(History, store) = History
  BY <1>1, SeenWhenKept
<1>3. SeenOf(History, store') = History
  <2> DEFINE ms == store'
  <2>1. Busy(ms) => AllKept(History, ms[Len(ms)])
    OBVIOUS
  <2> HIDE DEF ms
  <2>2. SeenOf(History, ms) = History
    BY <1>1, <2>1, SeenWhenKept
  <2>3. QED
    BY <2>2 DEF ms
<1>4. QED
  BY <1>2, <1>3 DEF Unseen

LEMMA PruneUnseen ==
    ASSUME StoreInv, Store!Prune, UNCHANGED <<mode, log, held>>
    PROVE  Unseen
<1>1. /\ disk' = disk /\ Len(store') = Len(store) /\ Len(store) \in Nat
      /\ \A op \in 1 .. Len(store) :
            /\ store'[op].state = store[op].state
            /\ ~Unfinished(store[op]) /\ ~Unfinished(store'[op])
  BY PruneFacts DEF StoreInv, StoreOK
<1>2. ~Busy(store) /\ ~Busy(store')
  BY <1>1 DEF Busy
<1>3. FinalStep /\ NoCommit
  BY <1>1 DEF FinalStep, NoCommit, Store!Finalized
<1>4. History' = History
  BY <1>1, HistoryStays DEF Table
<1>5. QED
  BY <1>2, <1>3, <1>4, PlainUnseen

LEMMA CreateUnseen ==
    ASSUME StoreInv, HistoryInv, Store!CreateManifest, UNCHANGED <<mode, log, held>>
    PROVE  Unseen
<1> DEFINE new == store'[Len(store')]
<1>1. /\ disk' = disk /\ job.at = "create" /\ job.mem \in Transactions
      /\ Len(store') = Len(store) + 1 /\ Len(store) \in Nat
      /\ \A op \in 1 .. Len(store) : ~Unfinished(store[op]) /\ store'[op] = store[op]
      /\ new = job.mem \/ new = Store!LeftOf(job.mem, "backups")
  BY CreateFacts
<1>2. History' = History
  BY <1>1, HistoryStays DEF Table
<1>3. job.mem.before = History
  BY <1>1 DEF HistoryInv, Progress, StartLabels
<1>4. Store!LeftOf(job.mem, "backups").remains = "backups"
  BY <1>1, LeftOfFacts
<1>5. Busy(store') => AllKept(History, new)
  BY <1>1, <1>3, <1>4 DEF Busy, Unfinished, AllKept
<1>6. ~Busy(store)
  BY <1>1 DEF Busy
<1>7. FinalStep /\ NoCommit
  BY <1>1 DEF FinalStep, NoCommit
<1>8. QED
  BY <1>2, <1>5, <1>6, <1>7, PlainUnseen

LEMMA DiscardUnseen ==
    ASSUME StoreInv, HistoryInv, Store!Discard, UNCHANGED <<mode, log, held>>
    PROVE  Unseen
<1>1. /\ disk' = disk /\ job.at = "discard"
      /\ Len(store) > 0 /\ Len(store') = Len(store)
      /\ \A op \in 1 .. Len(store) : op # Len(store) => store'[op] = store[op]
      /\ store'[Len(store)].state = job.mem.state
  BY DiscardFacts
<1>2. job.mem = store[Len(store)] /\ Store!Finalized(job.mem)
  BY <1>1 DEF HistoryInv, Progress, RecoverLabels
<1>3. ~Busy(store) /\ ~Busy(store')
  BY <1>1, <1>2 DEF Busy, Unfinished, Store!Finalized
<1>4. FinalStep /\ NoCommit
  BY <1>1, <1>2 DEF FinalStep, NoCommit, Store!Finalized
<1>5. History' = History
  BY <1>1, HistoryStays DEF Table
<1>6. QED
  BY <1>3, <1>4, <1>5, PlainUnseen

(* The merge takes effect, in every file that it lists at once.            *)
CommitStep ==
    LET before == SeenOf(History, store)
        after == SeenOf(History', store') IN
    /\ Busy(store) /\ ~Busy(store')
    /\ after = History'
    /\ \A t \in Threads : after[t] = Rewritten(before[t])
    /\ after[Database] = CopyOf(mode, before[Database])

LEMMA FinishSeen ==
    ASSUME CleanCommit, StoreInv, HistoryInv, Store!FinishCommit,
           UNCHANGED <<mode, log, held>>
    PROVE  Unseen \/ (CommitStep /\ FinalStep)
<1> DEFINE old == store[Len(store)]
           new == store'[Len(store)]
           own == job.mem
<1>1. PICK m, o : /\ m.state = "COMMITTED" /\ o \in Store!Outcomes(CommitFaults)
                  /\ Writes(m, "discard", [job EXCEPT !.at = "undo"], o)
  BY FinishWrites
<1>2. job.at = "finish"
  BY FinishWrites
<1>3. o = "ok" \/ ~Store!Takes(o)
  BY <1>1, OutcomeFacts DEF CleanCommit, Store!Takes
<1>4. CASE ~Store!Takes(o)
  BY <1>1, <1>2, <1>4, WorkUnseen DEF CommitLabels
<1>5. CASE o = "ok"
  <2>1. /\ job.at \notin {"idle"} \cup StartLabels /\ Len(store) > 0
        /\ own \in Transactions /\ own.before \in Histories
        /\ SameOperation(own, old) /\ ~Store!Finalized(old)
        /\ Revocable(History, own, mode) /\ Rewrites(own, mode)
    BY <1>2, WorkFacts DEF CommitLabels
  <2>2. old.remains = "manifest"
    BY <2>1, JobAtWork
  <2>3. /\ m \in Transactions /\ m.remains = "manifest" /\ SameOperation(m, own)
        /\ Store!StoreThen(m, o, Store!With(m, "discard"), [job EXCEPT !.at = "undo"])
        /\ UNCHANGED <<recovery, mode, log, held>>
    BY <1>1 DEF Writes
  <2>4. /\ Len(store') = Len(store) /\ new = m /\ disk' = disk
        /\ \A op \in 1 .. Len(store) : op # Len(store) => store'[op] = store[op]
    BY <1>5, <2>1, <2>3, StoreStep DEF Store!Takes
  <2>5. History' = History
    BY <2>3, <2>4, HistoryStays DEF Table
  <2>6. AllGiven(History, own)
    BY <1>2 DEF HistoryInv, Progress
  <2> HIDE DEF old, new, own
  <2>7. Busy(store) /\ ~Busy(store')
    BY <1>1, <2>1, <2>2, <2>4 DEF Busy, Unfinished, Store!Finalized, old, new
  <2>8. SeenOf(History', store') = History
    <3> DEFINE ms == store'
    <3>1. ~Busy(ms)
      BY <2>7
    <3> HIDE DEF ms
    <3>2. SeenOf(History, ms) = History
      BY <3>1, TableFacts, SeenWhenKept
    <3>3. QED
      BY <2>5, <3>2 DEF ms
  <2>9. \A i \in Items : SeenOf(History, store)[i] = own.before[i]
    <3>1. \A i \in Items :
             SeenOf(History, store)[i] = IF i \in Store!Listed(old) THEN old.before[i]
                                                                    ELSE History[i]
      BY <2>7 DEF SeenOf, old
    <3>2. old.before = own.before /\ Store!Listed(old) = Store!Listed(own)
      BY <2>1 DEF SameOperation
    <3>3. QED
      BY <2>1, <3>1, <3>2 DEF Revocable
  <2>10. \A i \in Items : History[i] = own.incoming[i]
    <3>1. \A i \in Items \ Store!Listed(own) : own.incoming[i] = own.before[i]
      BY <2>1 DEF Rewrites
    <3>2. QED
      BY <2>1, <2>6, <3>1 DEF AllGiven, Revocable
  <2>11. /\ \A t \in Threads : own.incoming[t] = Rewritten(own.before[t])
         /\ own.incoming[Database] = CopyOf(mode, own.before[Database])
    BY <2>1, ItemFacts DEF Rewrites
  <2>12. CommitStep
    <3> DEFINE before == SeenOf(History, store)
               after == SeenOf(History', store')
    <3> HIDE DEF before, after
    <3>1. \A i \in Items : before[i] = own.before[i] /\ after[i] = own.incoming[i]
      BY <2>8, <2>9, <2>10 DEF before, after
    <3>2. after = History'
      BY <2>5, <2>8 DEF after
    <3>3. /\ \A t \in Threads : after[t] = Rewritten(before[t])
          /\ after[Database] = CopyOf(mode, before[Database])
      BY <2>11, <3>1, ItemFacts
    <3>4. QED
      BY <2>7, <3>2, <3>3 DEF CommitStep, before, after
  <2>13. FinalStep
    <3>1. SUFFICES ASSUME NEW op \in 1 .. Len(store),
                          ~Store!Finalized(store[op]), Store!Finalized(store'[op]),
                          NEW i \in Store!Listed(store'[op])
                   PROVE  disk'[i] = IF store'[op].state = "COMMITTED"
                                     THEN store'[op].incoming[i] ELSE store'[op].before[i]
      BY DEF FinalStep
    <3>2. store'[op] = m
      BY <2>4, <3>1 DEF new
    <3>3. m.incoming = own.incoming /\ i \in Store!Listed(own)
      BY <2>3, <3>1, <3>2 DEF SameOperation
    <3>4. i \in Items /\ (i = Database => mode = "delete")
      BY <2>1, <3>3, ListedFacts DEF Revocable
    <3>5. disk[i] = History[i]
      BY <3>4, TableFacts, ItemFacts
    <3>6. QED
      BY <1>1, <2>4, <2>10, <3>2, <3>3, <3>4, <3>5
  <2>14. QED
    BY <2>12, <2>13
<1>6. QED
  BY <1>3, <1>4, <1>5

(* Codex writes a thread when nothing is unfinished.                       *)
UseStep ==
    LET before == SeenOf(History, store)
        after == SeenOf(History', store') IN
    /\ ~Busy(store) /\ ~Busy(store')
    /\ before = History /\ after = History' /\ History' \in Histories
    /\ \E t \in Threads, id \in Ids :
          /\ \A s \in Threads : after[s] = IF s = t THEN id ELSE before[s]
          /\ after[Database] = [before[Database] EXCEPT ![t] = id]

LEMMA HistoryTyped == StoreInv' => History' \in Histories
<1>1. StoreInv => History \in Histories
  BY TableFacts
<1>2. StoreInv' => (History \in Histories)'
  BY <1>1, PTL
<1>3. QED
  BY <1>2

LEMMA UseSeen ==
    ASSUME StoreInv, NEW t \in Threads, NEW id \in Ids, NEW log_left \in BOOLEAN,
           UseCodex(t, id, log_left)
    PROVE  UseStep /\ FinalStep /\ NoCommit
<1> DEFINE table == [Table EXCEPT ![t] = id]
<1>1. /\ ~Store!Owed /\ store' = store
      /\ table \in Tables /\ held' = Absent /\ disk'[t] = id
      /\ \A s \in Threads : s # t => disk'[s] = disk[s]
      /\ \/ log' = table
         \/ log' = Absent /\ disk'[Database] = table
  BY UseFacts
<1>2. \A op \in 1 .. Len(store) : ~Unfinished(store[op])
  BY <1>1, NotOpenFacts
<1>3. SeenOf(History, store) = History /\ ~Busy(store)
  BY <1>2, IdleIsSeen
<1>4. Table' = table
  <2> HIDE DEF table
  <2>1. table # Absent
    BY <1>1, IdsAssumption
  <2>2. QED
    BY <1>1, <2>1 DEF Table
<1>5. History' \in Histories
  BY HistoryTyped, UseStore
<1>6. SeenOf(History', store') = History'
  <2> DEFINE image == History'
  <2> HIDE DEF image
  <2>1. SeenOf(image, store) = image
    BY <1>3, <1>5, SeenWhenKept DEF image
  <2>2. QED
    BY <1>1, <2>1 DEF image
<1>7. /\ \A s \in Threads : History'[s] = IF s = t THEN id ELSE History[s]
      /\ History'[Database] = [History[Database] EXCEPT ![t] = id]
  <2>1. \A s \in Threads : History'[s] = disk'[s]
    BY ItemFacts DEF History
  <2>2. History'[Database] = Table'
    BY ItemFacts DEF History
  <2>3. (\A s \in Threads : History[s] = disk[s]) /\ History[Database] = Table
    BY TableFacts
  <2>4. QED
    BY <1>1, <1>4, <2>1, <2>2, <2>3
<1>8. UseStep
  BY <1>1, <1>3, <1>5, <1>6, <1>7 DEF UseStep
<1>9. FinalStep /\ NoCommit
  BY <1>1 DEF FinalStep, NoCommit
<1>10. QED
  BY <1>8, <1>9

LEMMA StepSeen ==
    ASSUME CleanCommit, CleanKills, StoreInv, HistoryInv, [Next]_vars
    PROVE  FinalStep /\ (Unseen \/ CommitStep \/ (UseStep /\ NoCommit))
<1>1. CASE UNCHANGED vars
  BY <1>1, StillUnseen DEF vars, Unseen
<1>2. CASE StartMerge \/ Unlink \/ CloseDatabase \/ Kill
  BY <1>2, StartUnseen, UnlinkUnseen, CloseUnseen, KillUnseen DEF Unseen
<1>3. CASE PruneAndCreate
  BY <1>3, PruneUnseen, CreateUnseen DEF PruneAndCreate, Unseen
<1>4. CASE BeginMerge \/ Intend \/ WriteHistory \/ PutBack \/ Unmark \/ Settle
  BY <1>4, BeginUnseen, IntendUnseen, WriteUnseen, UnmarkUnseen, SettleUnseen DEF Unseen
<1>5. CASE Finish
  BY <1>5, FinishSeen, DiscardUnseen DEF Finish, Unseen
<1>6. CASE Recover
  <2>1. CASE Store!GateIncomplete \/ Store!FlagRecord \/ Store!StartRecover \/ Store!ClearRecord
    BY <1>6, <2>1, StillUnseen DEF Recover, Store!GateIncomplete, Store!FlagRecord,
       Store!StartRecover, Store!ClearRecord, Unseen
  <2>2. CASE Store!FlagFiles \/ Store!FlagOperation \/ Store!Restore
             \/ Store!SettleFiles \/ Store!SettleOperation
    BY <1>6, <2>2, FlagFilesUnseen, FlagOperationUnseen, RestoreUnseen, RecoverUnseen
       DEF Recover, Unseen
  <2>3. QED
    BY <1>6, <2>1, <2>2 DEF Recover, Store!Recover
<1>7. CASE \E t \in Threads, id \in Ids, log_left \in BOOLEAN : UseCodex(t, id, log_left)
  BY <1>7, UseSeen
<1>8. QED
  BY <1>1, <1>2, <1>3, <1>4, <1>5, <1>6, <1>7 DEF Next, Merge

(* FinalStateIsTrue: what a manifest says of a finished merge is what the  *)
(* files hold at that moment.                                              *)
THEOREM FinalStateIsTrueHolds ==
    ASSUME CleanCommit, CleanKills
    PROVE  Spec => FinalStateIsTrue
<1>1. StoreInv /\ HistoryInv /\ [Next]_vars =>
         [\A op \in 1 .. Len(store) :
            LET m == store'[op] IN
            ~Store!Finalized(store[op]) /\ Store!Finalized(m) =>
               \A i \in Store!Listed(m) :
                   disk'[i] = IF m.state = "COMMITTED" THEN m.incoming[i]
                                                       ELSE m.before[i]]_vars
  BY StepSeen DEF FinalStep
<1>2. QED
  BY <1>1, HistoryInvariant, PTL DEF Spec, FinalStateIsTrue

(* MergeIsAtomic: seen through recovery, all files of a merge change at    *)
(* one moment or not at all.                                               *)
THEOREM MergeIsAtomicHolds ==
    ASSUME CleanCommit, CleanKills
    PROVE  Spec => MergeIsAtomic
<1>1. Init => Atomic!Init
  <2>1. SUFFICES ASSUME Init PROVE Atomic!Init
    OBVIOUS
  <2>2. StoreInv /\ store = <<>>
    BY <2>1, InitStore DEF Init
  <2>3. \A op \in 1 .. Len(store) : ~Unfinished(store[op])
    BY <2>2
  <2>4. Visible = History /\ Store!Incomplete = {}
    BY <2>2, <2>3, VisibleIs, IdleIsSeen
  <2>5. History \in Histories
    BY <2>2, TableFacts
  <2>6. (\A t \in Threads : Visible[t] \in Ids) /\ Visible[Database] \in Tables
    BY <2>4, <2>5, HistoryFacts
  <2>7. QED
    BY <2>4, <2>6 DEF Atomic!Init, Atomic!Ids, Ids, Tables
<1>2. CleanCommit /\ CleanKills /\ StoreInv /\ HistoryInv /\ StoreInv' /\ [Next]_vars
         => [Atomic!Next]_(Atomic!mergeVars)
  <2>1. SUFFICES ASSUME CleanCommit, CleanKills, StoreInv, HistoryInv, StoreInv', [Next]_vars
                 PROVE  [Atomic!Next]_(Atomic!mergeVars)
    OBVIOUS
  <2>2. Visible = SeenOf(History, store) /\ (Store!Incomplete # {} <=> Busy(store))
    BY <2>1, VisibleIs
  <2>3. (Visible = SeenOf(History, store) /\ (Store!Incomplete # {} <=> Busy(store)))'
    <3>1. StoreInv' =>
             (Visible = SeenOf(History, store) /\ (Store!Incomplete # {} <=> Busy(store)))'
      BY VisibleIs, PTL
    <3>2. QED
      BY <2>1, <3>1
  <2>4. Unseen \/ CommitStep \/ UseStep
    BY <2>1, StepSeen
  <2>5. CASE Unseen
    <3>1. Visible' = Visible
      BY <2>2, <2>3, <2>5 DEF Unseen
    <3>2. QED
      BY <3>1 DEF Atomic!Next, Atomic!Begin, Atomic!Abort, Atomic!mergeVars
  <2>6. CASE CommitStep
    <3>1. /\ Store!Incomplete # {} /\ Store!Incomplete' = {}
          /\ \A t \in Threads : Visible'[t] = Rewritten(Visible[t])
          /\ Visible'[Database] = CopyOf(mode, Visible[Database])
      BY <2>2, <2>3, <2>6 DEF CommitStep
    <3>2. \A id : Atomic!SharedFor(id) = Rewritten(id)
      BY DEF Atomic!SharedFor, Rewritten
    <3>3. Rewritten(Absent) = Absent
      BY IdsAssumption DEF Rewritten, Ids
    <3>4. \A table : Updated(table) = [t \in Threads |-> Atomic!SharedFor(table[t])]
      <4>1. \A table : \A t \in Threads :
               (IF table[t] = Absent THEN Absent ELSE Rewritten(table[t]))
               = Atomic!SharedFor(table[t])
        BY <3>2, <3>3
      <4>2. QED
        BY <4>1 DEF Updated
    <3>5. Visible'[Database] \in
             {Visible[Database], [t \in Threads |-> Atomic!SharedFor(Visible[Database][t])]}
      BY <3>1, <3>4 DEF CopyOf
    <3>6. Atomic!Commit
      BY <3>1, <3>2, <3>5 DEF Atomic!Commit
    <3>7. QED
      BY <3>6 DEF Atomic!Next
  <2>7. CASE UseStep
    <3>1. PICK t \in Threads, id \in Ids :
            /\ Store!Incomplete = {} /\ Store!Incomplete' = {}
            /\ \A s \in Threads : Visible'[s] = IF s = t THEN id ELSE Visible[s]
            /\ Visible'[Database] = [Visible[Database] EXCEPT ![t] = id]
      BY <2>2, <2>3, <2>7 DEF UseStep
    <3>2. [s \in Threads |-> Visible'[s]] = [[s \in Threads |-> Visible[s]] EXCEPT ![t] = id]
      BY <3>1
    <3>3. Atomic!Use
      BY <3>1, <3>2 DEF Atomic!Use, Atomic!Ids, Ids
    <3>4. QED
      BY <3>3 DEF Atomic!Next
  <2>8. QED
    BY <2>4, <2>5, <2>6, <2>7
<1>3. QED
  BY <1>1, <1>2, HistoryInvariant, PTL DEF Spec, MergeIsAtomic, Atomic!Spec

(* The journal mode is the database's own.                                 *)
LEMMA ModeStays ==
    ASSUME [Next]_vars
    PROVE  mode' = mode
BY DEF vars, Next, Merge, StartMerge, PruneAndCreate, BeginMerge, Intend, Unlink, WriteHistory,
       WriteFile, Finish, PutBack, Unmark, Settle, Recover, CloseDatabase, Kill, UseCodex

(* A rewriting of both records, or of one thread, keeps them in agreement. *)
LEMMA AgreesAfter ==
    ASSUME NEW before, NEW after, Agrees(before),
           \/ /\ \A t \in Threads : after[t] = Rewritten(before[t])
              /\ after[Database] = Updated(before[Database])
           \/ /\ before[Database] \in Tables
              /\ \E t \in Threads, id \in Ids :
                    /\ \A s \in Threads : after[s] = IF s = t THEN id ELSE before[s]
                    /\ after[Database] = [before[Database] EXCEPT ![t] = id]
    PROVE  Agrees(after)
<1>1. CASE /\ \A t \in Threads : after[t] = Rewritten(before[t])
           /\ after[Database] = Updated(before[Database])
  BY <1>1 DEF Agrees, Updated
<1>2. ASSUME before[Database] \in Tables, NEW t \in Threads, NEW id \in Ids,
             \A s \in Threads : after[s] = IF s = t THEN id ELSE before[s],
             after[Database] = [before[Database] EXCEPT ![t] = id]
      PROVE  Agrees(after)
  BY <1>2 DEF Agrees, Tables
<1>3. QED
  BY <1>1, <1>2

LEMMA AgreeStep ==
    ASSUME CleanCommit, CleanKills, StoreInv, HistoryInv, [Next]_vars,
           mode = "delete", Agrees(SeenOf(History, store))
    PROVE  Agrees(SeenOf(History', store'))
<1> DEFINE before == SeenOf(History, store)
           after == SeenOf(History', store')
<1> HIDE DEF before, after
<1>1. Agrees(before)
  BY DEF before
<1>2. Unseen \/ CommitStep \/ UseStep
  BY StepSeen
<1>3. CASE Unseen
  BY <1>1, <1>3 DEF Unseen, before, after
<1>4. CASE CommitStep
  <2>1. /\ \A t \in Threads : after[t] = Rewritten(before[t])
        /\ after[Database] = Updated(before[Database])
    BY <1>4 DEF CommitStep, CopyOf, before, after
  <2>2. QED
    BY <1>1, <2>1, AgreesAfter DEF after
<1>5. CASE UseStep
  <2>1. before[Database] \in Tables
    BY <1>5, TableFacts, HistoryFacts DEF UseStep, before
  <2>2. \E t \in Threads, id \in Ids :
           /\ \A s \in Threads : after[s] = IF s = t THEN id ELSE before[s]
           /\ after[Database] = [before[Database] EXCEPT ![t] = id]
    BY <1>5 DEF UseStep, before, after
  <2>3. QED
    BY <1>1, <2>1, <2>2, AgreesAfter DEF after
<1>6. QED
  BY <1>2, <1>3, <1>4, <1>5

(* HistoryAgrees: with no command running and nothing owed, the two        *)
(* records of a thread agree, as they do at every moment of a merge for    *)
(* whoever looks through recovery.                                         *)
THEOREM HistoryAgreesHolds ==
    ASSUME CleanCommit, CleanKills
    PROVE  Spec => []HistoryAgrees
<1> DEFINE Agreed == mode = "delete" => Agrees(SeenOf(History, store))
<1>1. Init => Agreed
  <2>1. SUFFICES ASSUME Init PROVE Agrees(SeenOf(History, store))
    OBVIOUS
  <2>2. /\ StoreInv /\ SeenOf(History, store) = History
        /\ log = Absent /\ held = Absent
    <3>1. StoreInv /\ store = <<>> /\ log = Absent /\ held = Absent
      BY <2>1, InitStore DEF Init
    <3>2. \A op \in 1 .. Len(store) : ~Unfinished(store[op])
      BY <3>1
    <3>3. QED
      BY <3>1, <3>2, IdleIsSeen
  <2>3. PICK names \in [Threads -> Ids], known \in SUBSET Threads :
           disk = [i \in Items |->
                     IF i = Database
                     THEN [t \in Threads |-> IF t \in known THEN names[t] ELSE Absent]
                     ELSE names[i]]
    BY <2>1 DEF Init
  <2>4. /\ disk[Database] = [t \in Threads |-> IF t \in known THEN names[t] ELSE Absent]
        /\ \A t \in Threads : disk[t] = names[t]
    BY <2>3, ItemFacts
  <2>5. History[Database] = disk[Database] /\ \A t \in Threads : History[t] = disk[t]
    BY <2>2, TableFacts DEF Table
  <2>6. QED
    BY <2>2, <2>4, <2>5 DEF Agrees
<1>2. CleanCommit /\ CleanKills /\ StoreInv /\ HistoryInv /\ Agreed /\ [Next]_vars => Agreed'
  <2>1. SUFFICES ASSUME CleanCommit, CleanKills, StoreInv, HistoryInv, Agreed, [Next]_vars,
                        mode' = "delete"
                 PROVE  Agrees(SeenOf(History', store'))
    BY DEF Agreed
  <2>2. mode = "delete"
    BY <2>1, ModeStays
  <2>3. QED
    BY <2>1, <2>2, AgreeStep
<1>3. StoreInv /\ Agreed => HistoryAgrees
  <2>1. SUFFICES ASSUME StoreInv, Agreed, Quiet, ~Store!Owed, mode = "delete",
                        NEW t \in Threads
                 PROVE  Table[t] \in {Absent, disk[t]}
    BY DEF HistoryAgrees
  <2>2. SeenOf(History, store) = History
    BY <2>1, NotOpenFacts, IdleIsSeen
  <2>3. Agrees(History)
    BY <2>1, <2>2
  <2>4. QED
    BY <2>1, <2>3, TableFacts DEF Agrees
<1> HIDE DEF Agreed
<1>4. QED
  BY <1>1, <1>2, <1>3, HistoryInvariant, PTL DEF Spec

(* MergedIsShared, where no database keeps a log: a committed merge leaves *)
(* no thread with a Provider of its own in either record.  (The run        *)
(* session_log shows the opposite for a database in mode "wal".)           *)
THEOREM MergedIsSharedInDelete ==
    ASSUME CleanCommit, Modes \subseteq {"delete"}
    PROVE  Spec => MergedIsShared
<1>1. CleanKills
  BY ModesAssumption DEF CleanKills
<1>2. StoreInv /\ HistoryInv /\ [Next]_vars =>
         [\A op \in 1 .. Len(store) :
            store[op].state # "COMMITTED" /\ store'[op].state = "COMMITTED" =>
               \A t \in Threads : disk'[t] \notin Named /\ Table'[t] \notin Named]_vars
  <2>1. SUFFICES ASSUME StoreInv, HistoryInv, [Next]_vars,
                        NEW op \in 1 .. Len(store),
                        store[op].state # "COMMITTED", store'[op].state = "COMMITTED",
                        NEW t \in Threads
                 PROVE  disk'[t] \notin Named /\ Table'[t] \notin Named
    OBVIOUS
  <2>2. CommitStep
    BY <1>1, <2>1, StepSeen DEF Unseen, NoCommit
  <2>3. mode = "delete"
    BY <2>1 DEF StoreInv, LogOK
  <2>4. \A id : Rewritten(id) \notin Named
    BY IdsAssumption DEF Rewritten
  <2>5. Absent \notin Named
    BY IdsAssumption DEF Ids
  <2>6. History'[t] \notin Named
    BY <2>2, <2>4 DEF CommitStep
  <2>7. History'[Database][t] \notin Named
    <3> DEFINE before == SeenOf(History, store)
    <3> HIDE DEF before
    <3>1. History'[Database] = Updated(before[Database])
      BY <2>2, <2>3 DEF CommitStep, CopyOf, before
    <3>2. QED
      BY <2>4, <2>5, <3>1 DEF Updated
  <2>8. History'[t] = disk'[t] /\ History'[Database] = Table'
    BY ItemFacts DEF History
  <2>9. QED
    BY <2>6, <2>7, <2>8
<1>3. QED
  BY <1>1, <1>2, HistoryInvariant, PTL DEF Spec, MergedIsShared

===============================================================================
