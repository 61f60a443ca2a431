------------------------------ MODULE AtomicMerge ------------------------------
(***************************************************************************)
(* What `sessions merge` promises, whatever fails: the files of all        *)
(* threads are rewritten at one moment or none is, and the database with   *)
(* them when it is rewritten at all; no other content ever changes.        *)
(***************************************************************************)
CONSTANTS Threads, Named, Shared, Unset, Absent

VARIABLES
    names,      \* names[t]: the Provider id in the file of thread t
    table,      \* table[t]: the id in its row of the database
    merging     \* a merge is neither done nor undone

mergeVars == <<names, table, merging>>

Ids == Named \cup {Shared, Unset}

SharedFor(id) == IF id \in Named THEN Shared ELSE id

Init ==
    /\ names \in [Threads -> Ids]
    /\ table \in [Threads -> Ids \cup {Absent}]
    /\ merging = FALSE

(* Codex writes a thread.                                                  *)
Use ==
    /\ ~merging
    /\ \E t \in Threads, id \in Ids :
          /\ names' = [names EXCEPT ![t] = id]
          /\ table' = [table EXCEPT ![t] = id]
    /\ UNCHANGED merging

Begin == ~merging /\ merging' = TRUE /\ UNCHANGED <<names, table>>

Commit ==
    /\ merging
    /\ merging' = FALSE
    /\ names' = [t \in Threads |-> SharedFor(names[t])]
    /\ table' \in {table, [t \in Threads |-> SharedFor(table[t])]}

Abort == merging /\ merging' = FALSE /\ UNCHANGED <<names, table>>

Next == Use \/ Begin \/ Commit \/ Abort

Spec == Init /\ [][Next]_mergeVars
===============================================================================
