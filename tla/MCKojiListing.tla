--------------------------- MODULE MCKojiListing ---------------------------
(***************************************************************************)
(* Small instances of KojiListing.                                         *)
(***************************************************************************)
EXTENDS KojiListing

MCBuild == 1..4
MCMidnights == {1, 4, 7}
MCStarts == {4, 7}
=============================================================================
