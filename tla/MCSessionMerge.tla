---------------------------- MODULE MCSessionMerge ----------------------------
(***************************************************************************)
(* SessionMerge on small instances: two threads, one Provider beside the   *)
(* shared one.                                                             *)
(***************************************************************************)
EXTENDS SessionMerge
===============================================================================
