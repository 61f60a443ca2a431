------------------------ MODULE MCProviderTransaction ------------------------
(***************************************************************************)
(* ProviderTransaction on small instances: Claude with its one file, Codex *)
(* with its two.                                                           *)
(***************************************************************************)
EXTENDS ProviderTransaction, TLC

CONSTANTS claude, codex, p1, p2

MCClients == {claude, codex}
MCNFiles == (claude :> 1) @@ (codex :> 2)
MCProcs == {p1, p2}

(* The commands change one client at a time...                             *)
SingleClient == {<<claude>>, <<codex>>}

(* ...but the coordinator commits and compensates any list of changes.     *)
AnyList == SingleClient \cup {<<codex, claude>>, <<claude, codex>>}

Symmetry == Permutations(Procs)
==============================================================================
