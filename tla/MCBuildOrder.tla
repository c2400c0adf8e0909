---------------------------- MODULE MCBuildOrder ----------------------------
(***************************************************************************)
(* Three packages with a binary package each, and one binary package of a  *)
(* package that is not rebuilt, which may bring any of the others along.   *)
(***************************************************************************)
EXTENDS BuildOrder, TLC

CONSTANTS x, y, z, mid

MCPackage == {x, y, z}
MCBinary  == MCPackage \cup {mid}
MCSourceOf == [b \in MCBinary |-> b]

\* Only mid brings anything along; at most one of the four does not link the
\* library.
MCBranch ==
  [brs : {f \in [MCPackage -> SUBSET MCBinary] : \A p \in MCPackage : p \notin f[p]},
   requires : {[b \in MCBinary |-> IF b = mid THEN s ELSE {}] : s \in SUBSET MCPackage},
   links : {s \in SUBSET MCBinary : Cardinality(s) >= 3},
   cannot : SUBSET MCPackage]

MCSymmetry == Permutations(MCPackage)
=============================================================================
