------------------------------- MODULE Spans -------------------------------
(***************************************************************************)
(* The span arithmetic of koji-lag's coverage record.                      *)
(*                                                                         *)
(* The store keeps, per hub instance, the half-open spans of creation time *)
(* that have been listed in full (table `listed`, tools/koji-lag/src/      *)
(* store.rs).  Time is an integer number of ticks: the code's f64 seconds  *)
(* are only ever compared, moved by a constant and minimised.              *)
(***************************************************************************)
EXTENDS Integers, FiniteSetsExt

\* struct Span: the creation times t with from <= t < to.
Span == [from : Nat, to : Nat]

Instants(span) == span.from .. (span.to - 1)

\* What a table of spans vouches for.
Covered(listed) == UNION {Instants(s) : s \in listed}

\* Mutant: spans that only meet end to end are not merged.
TouchesOverlapOnly(s, t) == s.from < t.to /\ t.from < s.to

\* Span::touches: overlapping, or end to end.
Touches(s, t) == s.from <= t.to /\ t.from <= s.to

\* Store::add_listed: the spans the new one touches are deleted, and their
\* hull with it is inserted, in one transaction.
Touching(listed, span) == {s \in listed : Touches(s, span)}

Hull(spans) == [from |-> Min({s.from : s \in spans}),
                to   |-> Max({s.to : s \in spans})]

\* Mutant: the rows deleted for the new one are not part of it.
AddListedForgets(listed, span) == (listed \ Touching(listed, span)) \cup {span}

AddListed(listed, span) ==
  LET overlapping == Touching(listed, span)
  IN  (listed \ overlapping) \cup {Hull(overlapping \cup {span})}

\* Store::gaps, by what its answer is: the maximal stretches of `want` that
\* meet no listed span.  SpanTable checks it against the loop in the code.
GapEnds(listed, want) ==
  [from : {want.from} \cup {s.to : s \in listed},
   to   : {want.to} \cup {s.from : s \in listed}]

Gaps(listed, want) ==
  {g \in GapEnds(listed, want) :
     /\ g.from < g.to
     /\ Instants(g) \subseteq Instants(want)
     /\ Instants(g) \cap Covered(listed) = {}}
=============================================================================
