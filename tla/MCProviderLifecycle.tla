-------------------------- MODULE MCProviderLifecycle --------------------------
(***************************************************************************)
(* ProviderLifecycle on small instances.  Files start as clients make      *)
(* them; what is made of them later is any content of the right form that  *)
(* a user, a client or an older Codelux could leave.                       *)
(***************************************************************************)
EXTENDS ProviderLifecycle, TLC

CONSTANTS
    u1, u2, k1, k2, \* the members of Urls and Keys
    InnerSelectors, \* selectors that stand in a profile of the first config.toml
    Unparsable      \* what can become of settings.json: {Garbage} or nothing

MCOffered == [c \in Clients |-> {[url |-> u1, key |-> k1], [url |-> u2, key |-> k2]}]

MCStartFiles ==
    [c \in Clients |->
        IF c = "claude"
        THEN {Missing}
        ELSE {[config |-> Missing, auth |-> Missing]}
             \cup {[config |-> [NoConfig EXCEPT !.inner = s], auth |-> a] :
                       s \in InnerSelectors, a \in Keys \cup Logins}]

MCEdited(c, file) ==
    IF c = "claude" THEN Settings \cup Unparsable \cup {Odd}
    ELSE {[file EXCEPT !.auth = a] : a \in Keys \cup Logins \cup {Garbage}}
         \cup {[file EXCEPT !.config = Garbage]}
         \cup IF file.config \in {Missing, Garbage} THEN {}
              ELSE {[file EXCEPT !.config.root = s] : s \in Aliases \cup {None}}
                   \cup {[file EXCEPT !.config.tables[Custom] = t] : t \in {None, Partial}}

(* URLs and keys trade places together: the bindings pair them.            *)
Swap == [x \in {u1, u2, k1, k2} |->
            CASE x = u1 -> u2 [] x = u2 -> u1 [] x = k1 -> k2 [] x = k2 -> k1]

Symmetric == Permutations(Names) \cup Permutations(Logins) \cup {Swap}
===============================================================================
