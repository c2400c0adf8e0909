----------------------------- MODULE MCCveTriage -----------------------------
(***************************************************************************)
(* A small instance of CveTriage: a tracker of two releases.               *)
(***************************************************************************)
EXTENDS CveTriage, TLC

CONSTANTS f44, f45
MCSymmetry == Permutations({f44, f45})
=============================================================================
