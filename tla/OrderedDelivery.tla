---------------------------- MODULE OrderedDelivery ----------------------------
(***************************************************************************)
(* What pushing promises, whatever happens to the connection: a transfer   *)
(* reaches the target whole and at most once, never after a newer one, and *)
(* it is reported as committed only when it did.  That a failure is        *)
(* reported promises nothing: the transfer may have been applied, and it   *)
(* may even be applied later.                                              *)
(***************************************************************************)
EXTENDS Integers

CONSTANTS Files, Values, Absent, MaxPushes

VARIABLES
    offered,    \* how many transfers there are so far
    contents,   \* contents[t]: the files of transfer t
    target,     \* the files at the target
    newest,     \* the last transfer applied there
    confirmed   \* the last transfer reported as committed

abstractVars == <<offered, contents, target, newest, confirmed>>

Archives == [Files -> Values \cup {Absent}]

Init ==
    /\ offered = 0
    /\ contents = [t \in 1 .. MaxPushes |-> [f \in Files |-> Absent]]
    /\ target = [f \in Files |-> Absent]
    /\ newest = 0
    /\ confirmed = 0

Offer ==
    /\ offered' = offered + 1
    /\ \E files \in Archives : contents' = [contents EXCEPT ![offered'] = files]
    /\ UNCHANGED <<target, newest, confirmed>>

Deliver ==
    /\ newest' \in newest + 1 .. offered
    /\ target' = [f \in Files |-> IF contents[newest'][f] = Absent THEN target[f]
                                                                   ELSE contents[newest'][f]]
    /\ UNCHANGED <<offered, contents, confirmed>>

Confirm ==
    /\ newest = offered
    /\ confirmed' = offered
    /\ UNCHANGED <<offered, contents, target, newest>>

Edit ==
    /\ target' \in Archives
    /\ UNCHANGED <<offered, contents, newest, confirmed>>

Next == Offer \/ Deliver \/ Confirm \/ Edit

Spec == Init /\ [][Next]_abstractVars
===============================================================================
