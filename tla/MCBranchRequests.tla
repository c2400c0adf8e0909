-------------------------- MODULE MCBranchRequests --------------------------
(***************************************************************************)
(* A small instance of BranchRequests.                                     *)
(***************************************************************************)
EXTENDS BranchRequests

CONSTANTS rust, epel10, me, maint, other
=============================================================================
