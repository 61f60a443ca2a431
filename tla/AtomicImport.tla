----------------------------- MODULE AtomicImport -----------------------------
(***************************************************************************)
(* What an import promises, whatever fails: its files and the baseline of  *)
(* its source change together, at one moment, or not at all.  Until the    *)
(* import is decided the next one waits, and so do the owners of files.    *)
(***************************************************************************)
CONSTANTS Paths, Sources, Values, Absent

VARIABLES
    target,     \* target[p]: the content of file p
    baseline,   \* baseline[s][p]: what source s last brought for p
    busy        \* an import is neither done nor undone

abstractVars == <<target, baseline, busy>>

Archives == [Paths -> Values \cup {Absent}]

Init ==
    /\ target \in Archives
    /\ baseline = [s \in Sources |-> [p \in Paths |-> Absent]]
    /\ busy = FALSE

Edit ==
    /\ ~busy
    /\ \E p \in Paths, content \in Values \cup {Absent} :
          target' = [target EXCEPT ![p] = content]
    /\ UNCHANGED <<baseline, busy>>

Forget ==
    /\ ~busy
    /\ \E forgotten \in SUBSET Sources :
          baseline' = [s \in Sources |-> IF s \in forgotten THEN [p \in Paths |-> Absent]
                                                            ELSE baseline[s]]
    /\ UNCHANGED <<target, busy>>

Begin == ~busy /\ busy' = TRUE /\ UNCHANGED <<target, baseline>>

Commit ==
    /\ busy
    /\ busy' = FALSE
    /\ \E s \in Sources, incoming \in Archives :
          /\ target' = [p \in Paths |-> IF incoming[p] = Absent THEN target[p]
                                                                ELSE incoming[p]]
          /\ baseline' = [baseline EXCEPT ![s] = incoming]

Abort == busy /\ busy' = FALSE /\ UNCHANGED <<target, baseline>>

Next == Edit \/ Forget \/ Begin \/ Commit \/ Abort

Spec == Init /\ [][Next]_abstractVars
===============================================================================
