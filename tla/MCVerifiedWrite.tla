--------------------------- MODULE MCVerifiedWrite ---------------------------
(***************************************************************************)
(* A small instance of VerifiedWrite.                                       *)
(***************************************************************************)
EXTENDS VerifiedWrite

CONSTANTS a, b
MCBug == {a, b}
=============================================================================
