----------------------------- MODULE AtomicSwitch -----------------------------
(***************************************************************************)
(* What a switch promises, whatever fails: the clients it names change to  *)
(* the new Provider all together, at one moment, or not at all.  An        *)
(* operation that has begun and has not ended blocks the next one.         *)
(***************************************************************************)
CONSTANTS Clients, Contents

VARIABLES
    config,     \* config[c]: the Provider client c is configured for
    open,       \* the clients of the operation in progress, {} if none
    target      \* the Provider of the latest operation

abstractVars == <<config, open, target>>

Init ==
    /\ \E x \in Contents : config = [c \in Clients |-> x]
    /\ open = {}
    /\ target \in Contents

Begin(clients, x) ==
    /\ open = {}
    /\ clients # {}
    /\ open' = clients
    /\ target' = x
    /\ UNCHANGED config

Commit ==
    /\ open # {}
    /\ config' = [c \in Clients |-> IF c \in open THEN target ELSE config[c]]
    /\ open' = {}
    /\ UNCHANGED target

Abort ==
    /\ open # {}
    /\ open' = {}
    /\ UNCHANGED <<config, target>>

Next ==
    \/ \E clients \in SUBSET Clients, x \in Contents : Begin(clients, x)
    \/ Commit
    \/ Abort

Spec == Init /\ [][Next]_abstractVars
===============================================================================
