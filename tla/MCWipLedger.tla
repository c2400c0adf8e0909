---------------------------- MODULE MCWipLedger ----------------------------
(***************************************************************************)
(* Small instances of WipLedger.  A run edits the ledger offline, one      *)
(* decision at a time or a refusal and its reversal at once, or refreshes  *)
(* it, adding a COPR or pruning.                                           *)
(***************************************************************************)
EXTENDS WipLedger

Edits ==
  {[NoOptions EXCEPT !.forget = {p}] : p \in Package}
    \cup {[NoOptions EXCEPT !.add = {p}] : p \in Package}
    \cup {[NoOptions EXCEPT !.forget = {p}, !.add = {p}] : p \in Package}
    \cup {[NoOptions EXCEPT !.set = {<<p, route>>}] : p \in Package, route \in Routes}
    \cup {[NoOptions EXCEPT !.side_tags = {tag}] : tag \in Tag}

Refresh == [NoOptions EXCEPT !.offline = FALSE]

Refreshes ==
  {Refresh, [Refresh EXCEPT !.prune = Prunable]}
    \cup {[Refresh EXCEPT !.coprs = {copr}] : copr \in Copr}

MCCommandLines == Edits \cup Refreshes
=============================================================================
