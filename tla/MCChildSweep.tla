---------------------------- MODULE MCChildSweep ----------------------------
(***************************************************************************)
(* A small instance of ChildSweep: three parents, so that one batch holds  *)
(* them all and splits unevenly.                                           *)
(***************************************************************************)
EXTENDS ChildSweep

MCBuild == 1..3
=============================================================================
