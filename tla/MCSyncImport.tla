----------------------------- MODULE MCSyncImport -----------------------------
(***************************************************************************)
(* SyncImport on small instances: archives of providers.json (1), which is *)
(* merged, and the Codex database (2), which is replaced, from two sources.*)
(***************************************************************************)
EXTENDS SyncImport, TLC

CONSTANTS x, y, z, laptop, server

MCValues == {x, y, z}
MCSources == {laptop, server}
MCScope == <<"providers", "codex">>
MCMerged == {1}
MCDatabase == {2}

(* Interactive imports ask for each scope.                                 *)
MCApprovals == {{}, {"providers"}, {"codex"}}

Symmetry == Permutations(Values) \cup Permutations(Sources)
===============================================================================
