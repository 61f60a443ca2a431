--------------------------- MODULE MCSyncTransport ---------------------------
(***************************************************************************)
(* SyncTransport on a small instance: two files, two contents, and two     *)
(* archives of which one lacks a file.                                     *)
(***************************************************************************)
EXTENDS SyncTransport, TLC

CONSTANTS f, g, x, y

MCFiles == {f, g}
MCValues == {x, y}
MCOffered == <<{f :> x @@ g :> x}, {f :> x @@ g :> x, f :> y @@ g :> Absent}>>
MCEdited == {<<f, x>>}
MCInstalls == {{1}, {1, 2}}
===============================================================================
