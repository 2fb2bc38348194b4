---------------------------- MODULE MCWorldViews ----------------------------
(***************************************************************************)
(* Instances of WorldViews for TLC: those of World, seen by its clients.   *)
(***************************************************************************)
EXTENDS MCWorld, WorldViews
=============================================================================
