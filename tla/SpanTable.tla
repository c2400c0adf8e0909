----------------------------- MODULE SpanTable -----------------------------
(***************************************************************************)
(* The `listed` table on its own: any sequence of add_listed calls, against*)
(* the set of instants those calls named, and gaps() as the loop the code  *)
(* runs, against what its answer should be.  Its names are not those of    *)
(* KojiListing, so that one module can speak of both.                      *)
(***************************************************************************)
EXTENDS Spans, FiniteSets, SequencesExt

CONSTANT LastInstant  \* bound: spans lie within 0 .. LastInstant

ASSUME LastInstantAssumption == LastInstant \in Nat \ {0}

VARIABLES
  table,              \* the rows of the table
  named               \* ghost: every instant any call has named

tableVars == <<table, named>>

\* Every span a caller can pass is non-empty: sync claims only what lies
\* strictly below its cursor.
SpansWithin == {s \in [from : 0..LastInstant, to : 0..LastInstant] : s.from < s.to}

TableInit == /\ table = {}
             /\ named = {}

Record(span) == /\ table' = AddListed(table, span)
                /\ named' = named \cup Instants(span)

TableNext == \E span \in SpansWithin : Record(span)

TableSpec == TableInit /\ [][TableNext]_tableVars

-----------------------------------------------------------------------------
\* The rows in some order.
Listings == Bijection(1..Cardinality(table), table)

\* Mutant: the rows newest first.
ListedNewestFirst ==
  CHOOSE rows \in Listings :
    \A i, j \in DOMAIN rows : i < j => rows[i].from >= rows[j].from

\* Store::listed: the rows, ORDER BY from_ts.
ListedRows ==
  CHOOSE rows \in Listings :
    \A i, j \in DOMAIN rows : i < j => rows[i].from <= rows[j].from

\* One turn of the loop in Store::gaps.  `over` is its early return or
\* break; `cursor` the first instant not yet accounted for.
GapsTurn(want, acc, span) ==
  IF acc.over \/ span.to <= acc.cursor THEN acc
  ELSE IF span.from >= want.to THEN [acc EXCEPT !.over = TRUE]
  ELSE [gaps   |-> IF span.from > acc.cursor
                   THEN Append(acc.gaps, [from |-> acc.cursor,
                                          to |-> Min({span.from, want.to})])
                   ELSE acc.gaps,
        cursor |-> Max({acc.cursor, span.to}),
        over   |-> span.to >= want.to]

GapsLoop(want) ==
  LET rows == ListedRows
      after[n \in 0..Cardinality(table)] ==
        IF n = 0 THEN [gaps |-> <<>>, cursor |-> want.from, over |-> FALSE]
        ELSE GapsTurn(want, after[n - 1], rows[n])
      end == after[Cardinality(table)]
  IN  IF end.cursor < want.to
      THEN Append(end.gaps, [from |-> end.cursor, to |-> want.to])
      ELSE end.gaps

-----------------------------------------------------------------------------
TableTypeOK == /\ table \subseteq SpansWithin
               /\ named \subseteq 0..LastInstant

\* No two rows touch, whatever order the claims arrived in: the count of rows
\* stays the count of separate stretches, and a gap is never empty.
RowsStaySeparate == \A s, t \in table : s # t => s.to < t.from \/ t.to < s.from

\* gaps() answers the maximal unlisted stretches of the wanted span, oldest
\* first, for every wanted span: nothing already listed is asked for again and
\* nothing unlisted is left out.
GapsAreWhatIsLeft ==
  \A want \in SpansWithin :
    LET gaps == GapsLoop(want)
    IN  /\ ToSet(gaps) = Gaps(table, want)
        /\ UNION {Instants(g) : g \in ToSet(gaps)} = Instants(want) \ named
        /\ \A i \in 1..Len(gaps) - 1 : gaps[i].to < gaps[i + 1].from

=============================================================================
