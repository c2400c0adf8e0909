-------------------------- MODULE MCDbranchRebuild --------------------------
(***************************************************************************)
(* A small instance of DbranchRebuild.                                     *)
(***************************************************************************)
EXTENDS DbranchRebuild

CONSTANTS a, b
MCDestination == [c \in {a, b} |-> IF c = a THEN {"archive", "elsewhere"} ELSE {"archive"}]
=============================================================================
