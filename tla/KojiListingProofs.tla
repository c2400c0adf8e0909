------------------------- MODULE KojiListingProofs -------------------------
(***************************************************************************)
(* Proofs about the listing half of koji-lag: the span arithmetic (Spans), *)
(* the table it keeps (SpanTable) and the walk over a window's gaps        *)
(* (KojiListing), for every hub history, page size and window.             *)
(*                                                                         *)
(* The claim a page makes is sound because of what is known about the rows *)
(* the page did not return: they come after it in id order.  The inductive *)
(* invariant IInv therefore says which rows below the cursor are already   *)
(* held (DrainInv), that the page in hand is a page of the same list       *)
(* (PageInv), and that the far edge of every gap is one at which no task   *)
(* can hide (EdgeInv).  That a finished walk leaves nothing out is a       *)
(* second invariant on top of it, WalkInv.                                 *)
(***************************************************************************)
EXTENDS KojiListing, SpanTable, WellFoundedInduction, FiniteSetTheorems, TLAPS

-----------------------------------------------------------------------------
(***************************************************************************)
(* Spans.                                                                  *)
(***************************************************************************)

\* < on the naturals as a relation, which is what WFMin speaks of.
Less == {p \in Nat \X Nat : p[1] < p[2]}

\* A non-empty set of naturals has a least element, and Min picks it.
LEMMA LeastExists ==
  ASSUME NEW S \in SUBSET Nat, S # {}
  PROVE  Min(S) \in S /\ \A x \in S : Min(S) <= x
<1>1. IsWellFoundedOn(Less, Nat)
  <2>1. OpToRel(<, Nat) = Less
    BY Zenon DEF OpToRel, Less
  <2> QED BY <2>1, NatLessThanWellFounded, Zenon
<1>2. PICK x \in S : \A y \in S : ~ (<<y, x>> \in Less)
  BY <1>1, WFMin, Zenon
<1>3. \A y \in S : x <= y
  <2> SUFFICES ASSUME NEW y \in S, y < x PROVE FALSE
    BY SMT
  <2>1. <<y, x>> \in Less
    BY SMT DEF Less
  <2> QED BY <1>2, <2>1, Zenon
<1> QED BY <1>3 DEF Min

\* A non-empty bounded set of naturals has a greatest element, and Max picks
\* it.
LEMMA GreatestExists ==
  ASSUME NEW n \in Nat, NEW S \in SUBSET (0..n), S # {}
  PROVE  Max(S) \in S /\ \A x \in S : x <= Max(S)
<1> DEFINE T == {n - x : x \in S}
<1>1. T \in SUBSET Nat /\ T # {}
  OBVIOUS
<1>2. Min(T) \in T /\ \A y \in T : Min(T) <= y
  BY <1>1, LeastExists
<1>3. PICK m \in S : Min(T) = n - m
  BY <1>2
<1>4. \A x \in S : m >= x
  <2> SUFFICES ASSUME NEW x \in S PROVE m >= x
    OBVIOUS
  <2>1. n - m <= n - x
    BY <1>2, <1>3
  <2> QED BY <2>1
<1> QED BY <1>4 DEF Max

\* The rows of a table whose spans are non-empty and end by `n`.
Rows(n) == {s \in Span : s.from < s.to /\ s.to <= n}

\* The hull of the rows a claim touches, and of the claim, is again a row, and
\* covers nothing but what they covered: no two of them leave a hole between.
LEMMA HullCovers ==
  ASSUME NEW n \in Nat, NEW rows \in SUBSET Rows(n), NEW span \in Rows(n)
  PROVE  LET all == Touching(rows, span) \cup {span}
         IN  /\ Hull(all) \in Rows(n)
             /\ Instants(Hull(all)) = Covered(all)
<1> DEFINE all == Touching(rows, span) \cup {span}
           froms == {s.from : s \in all}
           tos == {s.to : s \in all}
           h == Hull(all)
<1>1. all \subseteq Rows(n) /\ span \in all
  BY DEF Touching
<1>2. froms \in SUBSET Nat /\ froms # {}
  BY <1>1 DEF Rows, Span
<1>3. tos \in SUBSET (0..n) /\ tos # {}
  BY <1>1 DEF Rows, Span
<1>4. h.from \in froms /\ \A x \in froms : h.from <= x
  BY <1>2, LeastExists DEF Hull
<1>5. h.to \in tos /\ \A x \in tos : x <= h.to
  BY <1>3, GreatestExists DEF Hull
<1>6. \A s \in all : h.from <= s.from /\ s.to <= h.to
  BY <1>4, <1>5
<1>7. h \in Rows(n)
  <2>1. h \in Span
    BY <1>2, <1>3, <1>4, <1>5 DEF Hull, Span
  <2>2. h.from <= span.from /\ span.to <= h.to /\ span.from < span.to
    BY <1>1, <1>6 DEF Rows
  <2>3. h.to <= n
    <3> HIDE DEF all, froms, tos, h
    <3>1. h.to \in 0..n
      BY <1>3, <1>5, Zenon
    <3> QED BY <3>1
  <2> QED BY <2>1, <2>2, <2>3 DEF Rows, Span
<1>8. Covered(all) \subseteq Instants(h)
  <2> SUFFICES ASSUME NEW s \in all, NEW t \in Instants(s) PROVE t \in Instants(h)
    BY DEF Covered
  <2> HIDE DEF all, h
  <2>1. s \in Rows(n) /\ h.from <= s.from /\ s.to <= h.to
    BY <1>1, <1>6
  <2> QED BY <1>7, <2>1 DEF Instants, Rows, Span
<1>9. Instants(h) \subseteq Covered(all)
  <2> SUFFICES ASSUME NEW t \in Instants(h)
               PROVE  \E s \in all : t \in Instants(s)
    BY DEF Covered
  <2>1. t \in Int /\ h.from <= t /\ t < h.to
    BY <1>7 DEF Instants, Rows, Span
  <2>2. PICK lo \in all : lo.from = h.from
    BY <1>4
  <2>3. PICK hi \in all : hi.to = h.to
    BY <1>5
  <2>4. lo.to >= span.from /\ hi.from <= span.to
    BY <1>1, <2>2, <2>3 DEF Touching, Touches, Rows, Span
  <2> QED BY <1>1, <2>1, <2>2, <2>3, <2>4 DEF Instants, Rows, Span
<1> QED BY <1>7, <1>8, <1>9

\* add_listed adds the instants of its span to what the table vouches for and
\* nothing else, and leaves a table of rows.
LEMMA AddListedCovers ==
  ASSUME NEW n \in Nat, NEW rows \in SUBSET Rows(n), NEW span \in Rows(n)
  PROVE  /\ AddListed(rows, span) \in SUBSET Rows(n)
         /\ Covered(AddListed(rows, span)) = Covered(rows) \cup Instants(span)
<1> DEFINE over == Touching(rows, span)
           h == Hull(over \cup {span})
<1>1. h \in Rows(n) /\ Instants(h) = Covered(over \cup {span})
  BY HullCovers
<1>2. over \subseteq rows
  BY DEF Touching
<1>3. AddListed(rows, span) = (rows \ over) \cup {h}
  BY DEF AddListed
<1>4. Covered(AddListed(rows, span)) = Covered(rows \ over) \cup Instants(h)
  BY <1>3 DEF Covered
<1>5. Covered(over \cup {span}) = Covered(over) \cup Instants(span)
  BY DEF Covered
<1>6. Covered(rows) = Covered(rows \ over) \cup Covered(over)
  BY <1>2 DEF Covered
<1> QED BY <1>1, <1>2, <1>3, <1>4, <1>5, <1>6

\* A gap is a non-empty stretch of the wanted span that meets no row, and each
\* of its ends is an end of the wanted span or of a row.
LEMMA GapsBounds ==
  ASSUME NEW n \in Nat, NEW rows \in SUBSET Rows(n), NEW w \in Span,
         NEW g \in Gaps(rows, w)
  PROVE  /\ g \in Span
         /\ w.from <= g.from /\ g.from < g.to /\ g.to <= w.to
         /\ Instants(g) \cap Covered(rows) = {}
         /\ g.from = w.from \/ g.from - 1 \in Covered(rows)
         /\ g.to = w.to \/ g.to \in Covered(rows)
<1>1. /\ g \in GapEnds(rows, w) /\ g.from < g.to
      /\ Instants(g) \subseteq Instants(w)
      /\ Instants(g) \cap Covered(rows) = {}
  BY DEF Gaps
<1>2. /\ g.from = w.from \/ \E s \in rows : g.from = s.to
      /\ g.to = w.to \/ \E s \in rows : g.to = s.from
  BY <1>1 DEF GapEnds
<1>3. g \in Span
  BY <1>1, <1>2 DEF GapEnds, Rows, Span
<1>4. g.from \in Instants(w) /\ g.to - 1 \in Instants(w)
  BY <1>1, <1>3 DEF Instants, Span
<1>5. \A s \in rows : s.to - 1 \in Covered(rows) /\ s.from \in Covered(rows)
  BY DEF Covered, Instants, Rows, Span
<1> QED BY <1>1, <1>2, <1>3, <1>4, <1>5 DEF Instants, Span

\* Every instant of a wanted span that no row covers lies in one of its gaps:
\* the one from the last end of a row before it to the next beginning after it.
LEMMA GapsCover ==
  ASSUME NEW n \in Nat, NEW rows \in SUBSET Rows(n), NEW w \in Span,
         NEW t \in Instants(w), t \notin Covered(rows)
  PROVE  \E g \in Gaps(rows, w) : t \in Instants(g)
<1> DEFINE ends == {w.from} \cup {s.to : s \in rows}
           begins == {w.to} \cup {s.from : s \in rows}
           before == {f \in ends : w.from <= f /\ f <= t}
           after == {u \in begins : t < u}
<1>1. /\ w.from \in Nat /\ w.to \in Nat /\ t \in Nat /\ w.from <= t /\ t < w.to
      /\ \A s \in rows : s.from \in Nat /\ s.to \in Nat /\ s.from < s.to
  BY DEF Span, Instants, Rows
<1>2. /\ before \in SUBSET (0..t) /\ w.from \in before
      /\ after \in SUBSET Nat /\ w.to \in after
  BY <1>1
<1> DEFINE f == Max(before)
           u == Min(after)
<1> HIDE DEF before, after
<1>3. f \in before /\ \A x \in before : x <= f
  BY <1>1, <1>2, GreatestExists
<1>4. u \in after /\ \A x \in after : u <= x
  BY <1>2, LeastExists
<1> HIDE DEF f, u
<1>5. /\ f \in ends /\ w.from <= f /\ f <= t /\ f \in Nat
      /\ u \in begins /\ t < u /\ u <= w.to /\ u \in Nat
  BY <1>1, <1>2, <1>3, <1>4 DEF before, after
<1> DEFINE g == [from |-> f, to |-> u]
<1>6. g \in GapEnds(rows, w) /\ g.from < g.to
  BY <1>1, <1>5 DEF GapEnds
<1>7. Instants(g) \subseteq Instants(w)
  BY <1>1, <1>5 DEF Instants
<1>8. ASSUME NEW x \in Instants(g), NEW s \in rows, x \in Instants(s) PROVE FALSE
  <2>1. x \in Nat /\ f <= x /\ x < u /\ s.from <= x /\ x < s.to
        /\ s.from \in Nat /\ s.to \in Nat
    BY <1>1, <1>5, <1>8 DEF Instants
  <2>2. t < s.from \/ s.to <= t
    <3>1. t \notin Instants(s)
      BY DEF Covered
    <3> QED BY <3>1, <1>1, <2>1 DEF Instants
  <2>3. CASE t < s.from
    <3>1. s.from \in after
      BY <2>3 DEF after
    <3> QED BY <3>1, <1>4, <1>5, <2>1
  <2>4. CASE s.to <= t
    <3>1. s.to \in before
      BY <2>1, <2>4, <1>1, <1>5 DEF before
    <3> QED BY <3>1, <1>3, <1>5, <2>1
  <2> QED BY <2>2, <2>3, <2>4
<1>9. Instants(g) \cap Covered(rows) = {}
  BY <1>8 DEF Covered
<1>10. g \in Gaps(rows, w) /\ t \in Instants(g)
  BY <1>1, <1>5, <1>6, <1>7, <1>9 DEF Gaps, Instants
<1> QED BY <1>10

Separate(rows) == \A s, t \in rows : s # t => s.to < t.from \/ t.to < s.from

\* Recording a span keeps the rows separate: what touches neither it nor any
\* row it touches does not touch their hull.
LEMMA AddListedSeparate ==
  ASSUME NEW n \in Nat, NEW rows \in SUBSET Rows(n), NEW span \in Rows(n),
         Separate(rows)
  PROVE  Separate(AddListed(rows, span))
<1> DEFINE near == Touching(rows, span)
           all == near \cup {span}
           froms == {s.from : s \in all}
           tos == {s.to : s \in all}
           h == Hull(all)
<1>1. /\ \A s \in all : s \in Rows(n) /\ Touches(s, span)
      /\ all # {}
  BY DEF Touching, Touches, Rows, Span
<1>2. froms \in SUBSET Nat /\ froms # {} /\ tos \in SUBSET (0..n) /\ tos # {}
  BY <1>1 DEF Rows, Span
<1>3. h.from = Min(froms) /\ h.to = Max(tos)
  BY DEF Hull
<1> HIDE DEF h, froms, tos
<1>4. h.from \in froms /\ h.to \in tos
  BY <1>2, <1>3, LeastExists, GreatestExists
<1> HIDE DEF all
<1>5. PICK a \in all : h.from = a.from
  BY <1>4 DEF froms
<1>6. PICK b \in all : h.to = b.to
  BY <1>4 DEF tos
<1>7. ASSUME NEW r \in rows \ near PROVE r.to < h.from \/ h.to < r.from
  <2>1. r \in Rows(n) /\ ~Touches(r, span)
    BY DEF Touching
  <2>2. ASSUME NEW s \in all PROVE s.to < r.from \/ r.to < s.from
    <3>1. CASE s = span
      BY <3>1, <2>1 DEF Touches, Rows, Span
    <3>2. CASE s \in near
      BY <3>2, <2>1 DEF Separate, Touching
    <3> QED BY <3>1, <3>2 DEF all
  <2>3. /\ span \in Rows(n) /\ a \in Rows(n) /\ b \in Rows(n)
        /\ Touches(a, span) /\ Touches(b, span)
    BY <1>1
  <2>4. /\ a.to < r.from \/ r.to < a.from
        /\ b.to < r.from \/ r.to < b.from
    BY <2>2
  <2>5. CASE r.to < span.from
    BY <2>1, <2>3, <2>4, <2>5, <1>5 DEF Touches, Rows, Span
  <2>6. CASE span.to < r.from
    BY <2>1, <2>3, <2>4, <2>6, <1>6 DEF Touches, Rows, Span
  <2> QED BY <2>1, <2>3, <2>5, <2>6 DEF Touches, Rows, Span
<1>8. AddListed(rows, span) = (rows \ near) \cup {h}
  BY DEF AddListed, h, all
<1> QED BY <1>7, <1>8 DEF Separate

-----------------------------------------------------------------------------
(***************************************************************************)
(* SpanTable.                                                              *)
(***************************************************************************)

\* The rows of the table are rows, apart from each other, and vouch for what
\* was named and nothing else.
TableInv == /\ table \in SUBSET Rows(LastInstant)
            /\ RowsStaySeparate
            /\ named = Covered(table)

LEMMA SpansWithinAreRows == SpansWithin = Rows(LastInstant)
BY LastInstantAssumption DEF SpansWithin, Rows, Span

LEMMA TableInvariance == TableSpec => []TableInv
<1>1. TableInit => TableInv
  BY DEF TableInit, TableInv, RowsStaySeparate, Covered
<1>2. TableInv /\ [TableNext]_tableVars => TableInv'
  <2> SUFFICES ASSUME TableInv, [TableNext]_tableVars PROVE TableInv'
    OBVIOUS
  <2>1. ASSUME NEW span \in SpansWithin, Record(span) PROVE TableInv'
    <3>1. /\ span \in Rows(LastInstant) /\ table \in SUBSET Rows(LastInstant)
          /\ LastInstant \in Nat /\ Separate(table)
      BY SpansWithinAreRows, LastInstantAssumption DEF TableInv, RowsStaySeparate, Separate
    <3>2. /\ AddListed(table, span) \in SUBSET Rows(LastInstant)
          /\ Covered(AddListed(table, span)) = Covered(table) \cup Instants(span)
      BY <3>1, AddListedCovers
    <3>3. Separate(AddListed(table, span))
      BY <3>1, AddListedSeparate
    <3>4. /\ table' = AddListed(table, span) /\ named' = named \cup Instants(span)
          /\ named = Covered(table)
      BY <2>1 DEF Record, TableInv
    <3>5. Covered(table)' = Covered(table')
      BY DEF Covered
    <3>6. RowsStaySeparate'
      BY <3>3, <3>4 DEF RowsStaySeparate, Separate
    <3> QED BY <3>2, <3>4, <3>5, <3>6 DEF TableInv
  <2>2. CASE UNCHANGED tableVars
    BY <2>2 DEF tableVars, TableInv, RowsStaySeparate, Covered
  <2> QED BY <2>1, <2>2 DEF TableNext
<1> QED BY <1>1, <1>2, PTL DEF TableSpec

\* Whatever spans are added in whatever order (add_listed), no two rows of the
\* table overlap or meet.
THEOREM RowsSeparate == TableSpec => []RowsStaySeparate
<1>1. TableInv => RowsStaySeparate
  BY DEF TableInv
<1> QED BY <1>1, TableInvariance, PTL

-----------------------------------------------------------------------------
(* The loop in Store::gaps *)

\* Two gaps of one wanted span that meet are one.
LEMMA GapsAreApart ==
  ASSUME NEW n \in Nat, NEW rows \in SUBSET Rows(n), NEW w \in Span,
         NEW g \in Gaps(rows, w), NEW h \in Gaps(rows, w),
         NEW t \in Instants(g), t \in Instants(h)
  PROVE  g = h
<1>1. /\ g \in Span /\ h \in Span
      /\ w.from <= g.from /\ g.from < g.to /\ g.to <= w.to
      /\ w.from <= h.from /\ h.from < h.to /\ h.to <= w.to
      /\ Instants(g) \cap Covered(rows) = {} /\ Instants(h) \cap Covered(rows) = {}
      /\ g.from = w.from \/ g.from - 1 \in Covered(rows)
      /\ h.from = w.from \/ h.from - 1 \in Covered(rows)
      /\ g.to = w.to \/ g.to \in Covered(rows)
      /\ h.to = w.to \/ h.to \in Covered(rows)
  BY GapsBounds
<1>2. /\ g.from \in Nat /\ g.to \in Nat /\ h.from \in Nat /\ h.to \in Nat
      /\ w.from \in Nat /\ w.to \in Nat
      /\ g = [from |-> g.from, to |-> g.to] /\ h = [from |-> h.from, to |-> h.to]
  BY <1>1 DEF Span
<1>3. t \in Int /\ g.from <= t /\ t < g.to /\ h.from <= t /\ t < h.to
  BY <1>2 DEF Instants
<1>4. \A x \in Int : /\ g.from <= x /\ x < g.to => x \notin Covered(rows)
                     /\ h.from <= x /\ x < h.to => x \notin Covered(rows)
  BY <1>1, <1>2 DEF Instants
<1>5. g.from = h.from
  <2>1. CASE g.from < h.from BY <2>1, <1>1, <1>2, <1>3, <1>4
  <2>2. CASE h.from < g.from BY <2>2, <1>1, <1>2, <1>3, <1>4
  <2> QED BY <2>1, <2>2, <1>2
<1>6. g.to = h.to
  <2>1. CASE g.to < h.to BY <2>1, <1>1, <1>2, <1>3, <1>4
  <2>2. CASE h.to < g.to BY <2>2, <1>1, <1>2, <1>3, <1>4
  <2> QED BY <2>1, <2>2, <1>2
<1> QED BY <1>2, <1>5, <1>6

\* Rows that are apart are finitely many, since each begins at an instant of its own.
LEMMA SeparateIsFinite ==
  ASSUME NEW n \in Nat, NEW rows \in SUBSET Rows(n), Separate(rows)
  PROVE  /\ IsFiniteSet(rows) /\ Cardinality(rows) \in Nat
         /\ \A s, t \in rows : s.from = t.from => s = t
<1>1. \A s, t \in rows : s.from = t.from => s = t
  <2> SUFFICES ASSUME NEW s \in rows, NEW t \in rows, s.from = t.from, s # t PROVE FALSE
    OBVIOUS
  <2>1. s \in Rows(n) /\ t \in Rows(n) /\ (s.to < t.from \/ t.to < s.from)
    BY DEF Separate
  <2> QED BY <2>1 DEF Rows, Span
<1> DEFINE f == [s \in rows |-> s.from]
<1>2. f \in Injection(rows, 0..n)
  <2>1. \A s \in rows : s.from \in 0..n
    BY DEF Rows, Span
  <2> QED BY <1>1, <2>1 DEF Injection, IsInjective
<1>3. IsFiniteSet(0..n)
  BY FS_Interval
<1>4. IsFiniteSet(rows)
  BY <1>2, <1>3, FS_Injection
<1> QED BY <1>1, <1>4, FS_CardinalityType

InOrder(r) == \A i, j \in DOMAIN r : i < j => r[i].from <= r[j].from

\* They can be listed in order: a least set that cannot, less its last row, can.
LEMMA RowsHaveAnOrder ==
  ASSUME NEW n \in Nat, NEW rows \in SUBSET Rows(n), Separate(rows)
  PROVE  \E r \in Bijection(1..Cardinality(rows), rows) : InOrder(r)
<1> DEFINE Orders(T) == {r \in Bijection(1..Cardinality(T), T) : InOrder(r)}
           Bad == {m \in Nat : \E T \in SUBSET rows : Cardinality(T) = m /\ Orders(T) = {}}
<1>1. SUFFICES ASSUME Orders(rows) = {} PROVE FALSE
  OBVIOUS
<1>2. \A T \in SUBSET rows :
        /\ T \in SUBSET Rows(n) /\ IsFiniteSet(T) /\ Cardinality(T) \in Nat
        /\ \A s, t \in T : s.from = t.from => s = t
  <2>1. \A T \in SUBSET rows : Separate(T) /\ T \in SUBSET Rows(n) BY DEF Separate
  <2> QED BY <2>1, SeparateIsFinite
<1>3. Bad \in SUBSET Nat /\ Cardinality(rows) \in Bad
  BY <1>1, <1>2
<1>4. Min(Bad) \in Bad /\ \A m \in Bad : Min(Bad) <= m
  <2> HIDE DEF Bad
  <2> QED BY <1>3, LeastExists
<1>5. PICK m \in Nat : m \in Bad /\ \A k \in Bad : m <= k
  BY <1>4
<1>6. PICK T \in SUBSET rows : Cardinality(T) = m /\ Orders(T) = {}
  BY <1>5
<1>7. T # {}
  <2> SUFFICES ASSUME T = {} PROVE FALSE OBVIOUS
  <2>1. Cardinality(T) = 0 BY FS_EmptySet
  <2>2. 1..0 = {} OBVIOUS
  <2> DEFINE e == [i \in 1..0 |-> i]
  <2>3. e \in Bijection(1..0, T) /\ InOrder(e)
    BY <2>2 DEF Bijection, Injection, Surjection, IsInjective, InOrder
  <2> QED BY <1>6, <2>1, <2>3
<1> DEFINE froms == {s.from : s \in T}
<1>8. PICK last \in T : \A s \in T : s.from <= last.from
  <2>1. froms \in SUBSET (0..n) /\ froms # {}
    BY <1>7 DEF Rows, Span
  <2>2. Max(froms) \in froms /\ \A x \in froms : x <= Max(froms)
    <3> HIDE DEF froms
    <3> QED BY <2>1, GreatestExists
  <2> QED BY <2>2
<1> DEFINE U == T \ {last}
<1>9. Cardinality(U) = m - 1 /\ m - 1 \in Nat /\ U \in SUBSET rows
  <2>1. Cardinality(U) = m - 1 BY <1>2, <1>6, <1>8, FS_RemoveElement
  <2> QED BY <1>2, <2>1
<1>10. PICK r \in Orders(U) : TRUE
  <2>1. m - 1 \notin Bad BY <1>5, <1>9
  <2> QED BY <1>9, <2>1
<1>11. /\ r \in [1..(m - 1) -> U] /\ InOrder(r)
       /\ \A i, j \in 1..(m - 1) : r[i] = r[j] => i = j
       /\ \A s \in U : \E i \in 1..(m - 1) : r[i] = s
  BY <1>9, <1>10 DEF Bijection, Injection, Surjection, IsInjective
<1> DEFINE q == [i \in 1..m |-> IF i = m THEN last ELSE r[i]]
<1>12. \A i \in 1..m : i # m => i \in 1..(m - 1)
  OBVIOUS
<1>13. m \in 1..m /\ \A i \in 1..(m - 1) : i \in 1..m /\ i # m
  BY <1>9
<1>14. q \in [1..m -> T]
  BY <1>11, <1>12
<1>15. \A i, j \in 1..m : q[i] = q[j] => i = j
  BY <1>11, <1>12
<1>16. \A s \in T : \E i \in 1..m : q[i] = s
  BY <1>11, <1>13
<1>17. \A i, j \in 1..m : i < j => q[i].from <= q[j].from
  <2> SUFFICES ASSUME NEW i \in 1..m, NEW j \in 1..m, i < j PROVE q[i].from <= q[j].from
    OBVIOUS
  <2>1. i # m /\ i \in 1..(m - 1) BY <1>9
  <2>2. CASE j = m BY <1>8, <1>11, <2>1, <2>2
  <2>3. CASE j # m BY <1>11, <1>12, <2>1, <2>3 DEF InOrder
  <2> QED BY <2>2, <2>3
<1>18. q \in Orders(T)
  BY <1>6, <1>14, <1>15, <1>16, <1>17 DEF Bijection, Injection, Surjection, IsInjective, InOrder
<1> QED BY <1>6, <1>18

\* The rows as Store::listed gives them.
LEMMA ListedRowsAre ==
  ASSUME TableInv
  PROVE  LET N == Cardinality(table)
         IN  /\ N \in Nat /\ ListedRows \in [1..N -> table]
             /\ \A s \in table : \E k \in 1..N : ListedRows[k] = s
             /\ \A i, j \in 1..N : i < j => ListedRows[i].from <= ListedRows[j].from
<1>1. table \in SUBSET Rows(LastInstant) /\ Separate(table) /\ LastInstant \in Nat
  BY LastInstantAssumption DEF TableInv, RowsStaySeparate, Separate
<1>2. \E r \in Bijection(1..Cardinality(table), table) : InOrder(r)
  BY <1>1, RowsHaveAnOrder
<1>3. ListedRows \in Bijection(1..Cardinality(table), table) /\ InOrder(ListedRows)
  BY <1>2 DEF ListedRows, Listings, InOrder
<1> QED BY <1>1, <1>3, SeparateIsFinite DEF Bijection, Injection, Surjection, InOrder

\* What the loop has in hand to begin with, and after its first k rows.
LoopStart(w) == [gaps |-> <<>>, cursor |-> w.from, over |-> FALSE]
LoopTurn(w, rows, f, k) ==
  IF k = 0 THEN LoopStart(w) ELSE GapsTurn(w, f[k - 1], rows[k])

LEMMA LoopExists ==
  ASSUME NEW w, NEW rows, NEW N \in Nat
  PROVE  \E f : f = [k \in 0..N |-> LoopTurn(w, rows, f, k)]
<1> DEFINE Solves(f, n) == f = [k \in 0..n |-> LoopTurn(w, rows, f, k)]
           Bad == {n \in Nat : ~ \E f : Solves(f, n)}
<1> SUFFICES ASSUME ~ \E f : Solves(f, N) PROVE FALSE
  OBVIOUS
<1>1. PICK n \in Bad : \A m \in Bad : n <= m
  <2>1. N \in Bad /\ Bad \in SUBSET Nat OBVIOUS
  <2> HIDE DEF Bad
  <2> QED BY <2>1, LeastExists
<1>2. n \in Nat /\ ~ \E f : Solves(f, n)
  BY <1>1
<1>3. n # 0
  <2> SUFFICES ASSUME n = 0 PROVE FALSE OBVIOUS
  <2> DEFINE z == [k \in 0..0 |-> LoopStart(w)]
  <2>1. \A k \in 0..0 : LoopTurn(w, rows, z, k) = LoopStart(w) BY DEF LoopTurn
  <2>2. Solves(z, 0) BY <2>1
  <2> QED BY <2>2, <1>2
<1>4. n - 1 \in Nat /\ n - 1 \notin Bad
  BY <1>1, <1>2, <1>3
<1>5. PICK f : Solves(f, n - 1)
  BY <1>4
<1> DEFINE g == [k \in 0..n |-> IF k = n THEN LoopTurn(w, rows, f, n) ELSE f[k]]
<1>6. ASSUME NEW k \in 0..n PROVE LoopTurn(w, rows, g, k) = LoopTurn(w, rows, f, k)
  <2>1. CASE k = 0 BY <2>1 DEF LoopTurn
  <2>2. CASE k # 0
    <3>1. k - 1 \in 0..n /\ k - 1 # n BY <2>2, <1>2
    <3>2. g[k - 1] = f[k - 1] BY <3>1
    <3> QED BY <3>2, <2>2 DEF LoopTurn
  <2> QED BY <2>1, <2>2
<1>7. ASSUME NEW k \in 0..n PROVE g[k] = LoopTurn(w, rows, f, k)
  <2>1. CASE k = n BY <2>1
  <2>2. CASE k # n
    <3>1. k \in 0..(n - 1) BY <2>2, <1>2
    <3>2. f[k] = LoopTurn(w, rows, f, k)
      <4> HIDE DEF LoopTurn
      <4> QED BY <1>5, <3>1
    <3> QED BY <3>2, <2>2
  <2> QED BY <2>1, <2>2
<1>8. Solves(g, n)
  BY <1>6, <1>7
<1> QED BY <1>8, <1>2

\* The loop has nothing more to learn from a row that ends before the cursor or
\* begins after the wanted span, nor from any once the cursor is past its end.
Past(w, acc, s) == s.to <= acc.cursor \/ w.to <= s.from \/ w.to <= acc.cursor

\* After its first n rows: the gaps found are gaps, in order, and hold what no row
\* covers of the wanted span up to the cursor; those rows are past, and all of
\* them when it is over.
LoopInv(w, rows, n, acc) ==
  /\ acc = [gaps |-> acc.gaps, cursor |-> acc.cursor, over |-> acc.over]
  /\ acc.gaps \in Seq(Gaps(table, w)) /\ acc.over \in BOOLEAN
  /\ acc.cursor \in Nat /\ w.from <= acc.cursor
  /\ acc.cursor = w.from \/ \E s \in table : acc.cursor = s.to
  /\ \A i \in DOMAIN acc.gaps : acc.gaps[i].to < acc.cursor
  /\ \A i \in 1..Len(acc.gaps) - 1 : acc.gaps[i].to < acc.gaps[i + 1].from
  /\ \A t \in Instants(w) :
       t < acc.cursor => \/ t \in Covered(table)
                         \/ \E i \in DOMAIN acc.gaps : t \in Instants(acc.gaps[i])
  /\ \A k \in 1..n : Past(w, acc, rows[k])
  /\ acc.over => \A s \in table : Past(w, acc, s)

\* One more gap at the end, after the cursor.
LEMMA OneMoreGap ==
  ASSUME NEW w, NEW gaps \in Seq(Gaps(table, w)), NEW g \in Gaps(table, w),
         \A i \in DOMAIN gaps : gaps[i].to < g.from,
         \A i \in 1..Len(gaps) - 1 : gaps[i].to < gaps[i + 1].from
  PROVE  LET more == Append(gaps, g)
         IN  /\ more \in Seq(Gaps(table, w))
             /\ \A i \in DOMAIN more : (i \in DOMAIN gaps /\ more[i] = gaps[i]) \/ more[i] = g
             /\ \A i \in DOMAIN gaps : i \in DOMAIN more /\ more[i] = gaps[i]
             /\ \E i \in DOMAIN more : more[i] = g
             /\ \A i \in 1..Len(more) - 1 : more[i].to < more[i + 1].from
<1> DEFINE more == Append(gaps, g)
<1>1. /\ more \in Seq(Gaps(table, w)) /\ Len(more) = Len(gaps) + 1 /\ Len(gaps) \in Nat
      /\ DOMAIN more = 1..(Len(gaps) + 1) /\ DOMAIN gaps = 1..Len(gaps)
      /\ more[Len(gaps) + 1] = g /\ \A i \in 1..Len(gaps) : more[i] = gaps[i]
  OBVIOUS
<1> HIDE DEF more
<1>2. \A i \in 1..Len(more) - 1 : more[i].to < more[i + 1].from
  <2> SUFFICES ASSUME NEW i \in 1..Len(gaps) PROVE more[i].to < more[i + 1].from
    BY <1>1
  <2>1. CASE i = Len(gaps) BY <1>1, <2>1
  <2>2. CASE i # Len(gaps)
    <3>1. Len(gaps) \in Nat BY <1>1
    <3>2. i \in 1..Len(gaps) - 1 /\ i + 1 \in 1..Len(gaps) BY <2>2, <3>1
    <3> QED BY <1>1, <3>2
  <2> QED BY <2>1, <2>2
<1> QED BY <1>1, <1>2 DEF more

LEMMA MinOfTwo ==
  ASSUME NEW a \in Nat, NEW b \in Nat
  PROVE  /\ a <= b => Min({a, b}) = a /\ Max({a, b}) = b
         /\ b <= a => Min({a, b}) = b /\ Max({a, b}) = a
<1>1. Min({a, b}) \in {a, b} /\ \A x \in {a, b} : Min({a, b}) <= x
  BY LeastExists
<1>2. a + b \in Nat /\ {a, b} \in SUBSET (0..(a + b)) /\ {a, b} # {}
  OBVIOUS
<1>3. Max({a, b}) \in {a, b} /\ \A x \in {a, b} : x <= Max({a, b})
  BY <1>2, GreatestExists
<1> QED BY <1>1, <1>3

\* The rows from the wanted span's cursor to a row that begins after it hold
\* nothing in between.
LEMMA StretchIsAGap ==
  ASSUME TableInv, NEW w \in SpansWithin, NEW c \in Nat, NEW u \in Nat,
         w.from <= c, c < u, u <= w.to,
         c = w.from \/ \E s \in table : c = s.to,
         u = w.to \/ \E s \in table : u = s.from,
         \A s \in table : s.to <= c \/ u <= s.from
  PROVE  [from |-> c, to |-> u] \in Gaps(table, w)
<1> DEFINE g == [from |-> c, to |-> u]
<1>1. w.from \in Nat /\ w.to \in Nat /\ table \in SUBSET Span
  BY LastInstantAssumption DEF SpansWithin, TableInv, Rows
<1>2. g \in GapEnds(table, w)
  BY DEF GapEnds
<1>3. Instants(g) \subseteq Instants(w)
  BY <1>1 DEF Instants
<1>4. \A s \in table : Instants(g) \cap Instants(s) = {}
  BY <1>1 DEF Instants, Span
<1> QED BY <1>2, <1>3, <1>4 DEF Gaps, Covered

\* One turn of the loop keeps it so.
LEMMA TurnKeeps ==
  ASSUME TableInv, NEW w \in SpansWithin, NEW N \in Nat, NEW rows \in [1..N -> table],
         \A s \in table : \E k \in 1..N : rows[k] = s,
         \A i, j \in 1..N : i < j => rows[i].from <= rows[j].from,
         NEW k \in 1..N, NEW acc, LoopInv(w, rows, k - 1, acc)
  PROVE  LoopInv(w, rows, k, GapsTurn(w, acc, rows[k]))
<1> DEFINE span == rows[k]
           turn == GapsTurn(w, acc, span)
<1> SUFFICES LoopInv(w, rows, k, turn)
  OBVIOUS
<1>1. /\ w.from \in Nat /\ w.to \in Nat /\ w.from < w.to
      /\ \A s \in table : s.from \in Nat /\ s.to \in Nat /\ s.from < s.to
      /\ span \in table /\ span.from \in Nat /\ span.to \in Nat /\ span.from < span.to
  BY LastInstantAssumption DEF SpansWithin, TableInv, Rows, Span
<1>2. /\ acc = [gaps |-> acc.gaps, cursor |-> acc.cursor, over |-> acc.over]
      /\ acc.gaps \in Seq(Gaps(table, w)) /\ acc.over \in BOOLEAN
      /\ acc.cursor \in Nat /\ w.from <= acc.cursor
      /\ acc.cursor = w.from \/ \E s \in table : acc.cursor = s.to
      /\ \A i \in DOMAIN acc.gaps : acc.gaps[i].to < acc.cursor
      /\ \A i \in 1..Len(acc.gaps) - 1 : acc.gaps[i].to < acc.gaps[i + 1].from
      /\ \A i \in 1..(k - 1) : Past(w, acc, rows[i])
      /\ acc.over => \A s \in table : Past(w, acc, s)
  BY DEF LoopInv
<1>3. \A t \in Instants(w) :
        t < acc.cursor => \/ t \in Covered(table)
                          \/ \E i \in DOMAIN acc.gaps : t \in Instants(acc.gaps[i])
  BY DEF LoopInv
<1>4. \A i \in 1..k : i \in 1..(k - 1) \/ i = k
  OBVIOUS
\* Of the others, those before it are past and those after it begin no earlier.
<1>5. \A s \in table : \/ Past(w, acc, s)
                       \/ span.from <= s.from
  <2> SUFFICES ASSUME NEW s \in table PROVE Past(w, acc, s) \/ span.from <= s.from
    OBVIOUS
  <2>1. PICK j \in 1..N : rows[j] = s OBVIOUS
  <2>2. CASE j < k
    <3>1. j \in 1..(k - 1) BY <2>2
    <3> QED BY <1>2, <2>1, <3>1
  <2>3. CASE j = k BY <1>1, <2>1, <2>3
  <2>4. CASE k < j BY <2>1, <2>4
  <2> QED BY <2>2, <2>3, <2>4
<1>6. CASE acc.over \/ span.to <= acc.cursor
  <2>1. turn = acc BY <1>6 DEF GapsTurn
  <2>2. Past(w, acc, span) BY <1>1, <1>2, <1>6 DEF Past
  <2> QED BY <1>2, <1>3, <1>4, <2>1, <2>2 DEF LoopInv
<1>7. CASE ~(acc.over \/ span.to <= acc.cursor) /\ span.from >= w.to
  <2>1. turn = [acc EXCEPT !.over = TRUE] BY <1>7 DEF GapsTurn
  <2>2. turn = [gaps |-> acc.gaps, cursor |-> acc.cursor, over |-> TRUE]
    BY <1>2, <2>1
  <2>3. turn.gaps = acc.gaps /\ turn.cursor = acc.cursor /\ turn.over = TRUE
    BY <2>2
  <2>4. \A s \in table : Past(w, acc, s)
    BY <1>1, <1>5, <1>7 DEF Past
  <2>5. \A s \in table : Past(w, turn, s)
    BY <2>3, <2>4 DEF Past
  <2>6. \A i \in 1..k : rows[i] \in table
    OBVIOUS
  <2> HIDE DEF turn
  <2> QED BY <1>2, <1>3, <2>2, <2>3, <2>5, <2>6 DEF LoopInv
<1>8. CASE ~(acc.over \/ span.to <= acc.cursor) /\ ~(span.from >= w.to)
  <2> DEFINE g == [from |-> acc.cursor, to |-> span.from]
             more == IF span.from > acc.cursor THEN Append(acc.gaps, g) ELSE acc.gaps
             over == span.to >= w.to
  <2>1. acc.cursor < span.to /\ span.from < w.to /\ ~acc.over
    BY <1>1, <1>2, <1>8
  <2>2. turn = [gaps |-> more, cursor |-> span.to, over |-> over]
    <3>1. Min({span.from, w.to}) = span.from /\ Max({acc.cursor, span.to}) = span.to
      <4>1. span.from <= w.to /\ acc.cursor <= span.to BY <1>1, <1>2, <2>1
      <4>2. /\ span.from \in Nat /\ w.to \in Nat
            /\ acc.cursor \in Nat /\ span.to \in Nat
        BY <1>1, <1>2
      <4>3. Min({span.from, w.to}) = span.from BY <4>1, <4>2, MinOfTwo, Zenon
      <4>4. \A a, b \in Nat : a <= b => Max({a, b}) = b BY MinOfTwo
      <4>5. Max({acc.cursor, span.to}) = span.to
        <5>1. acc.cursor <= span.to BY <4>1
        <5>2. acc.cursor \in Nat /\ span.to \in Nat BY <4>2
        <5> HIDE DEF span
        <5> QED BY <4>4, <5>1, <5>2
      <4> QED BY <4>3, <4>5
    <3> QED BY <1>8, <3>1 DEF GapsTurn
  <2>3. turn.gaps = more /\ turn.cursor = span.to /\ turn.over = over
    BY <2>2
  <2>4. \A s \in table : Past(w, acc, s) => Past(w, turn, s)
    BY <1>1, <1>2, <2>3, <2>1 DEF Past
  <2>5. \A i \in 1..k : Past(w, turn, rows[i])
    <3>1. Past(w, turn, span) BY <1>1, <2>3 DEF Past
    <3> QED BY <1>2, <1>4, <2>4, <3>1
  <2>6. turn.over => \A s \in table : Past(w, turn, s)
    BY <2>3 DEF Past
  <2>7. span.from > acc.cursor => g \in Gaps(table, w)
    <3> SUFFICES ASSUME span.from > acc.cursor PROVE g \in Gaps(table, w)
      OBVIOUS
    <3>1. ASSUME NEW s \in table PROVE s.to <= acc.cursor \/ span.from <= s.from
      <4>1. CASE span.from <= s.from BY <4>1
      <4>2. CASE Past(w, acc, s)
        <5>1. s.from \in Nat /\ s.to \in Nat BY <1>1
        <5> QED BY <1>1, <1>2, <2>1, <4>2, <5>1 DEF Past
      <4> QED BY <1>5, <4>1, <4>2
    <3>2. \E s \in table : span.from = s.from BY <1>1
    <3>3. /\ span.from \in Nat /\ acc.cursor \in Nat /\ w.from <= acc.cursor
          /\ acc.cursor < span.from /\ span.from <= w.to
      BY <1>1, <1>2, <2>1
    <3>4. acc.cursor = w.from \/ \E s \in table : acc.cursor = s.to BY <1>2
    <3> HIDE DEF span
    <3> QED BY <3>1, <3>2, <3>3, <3>4, StretchIsAGap
  <2>8. /\ more \in Seq(Gaps(table, w))
        /\ \A i \in DOMAIN more : more[i].to < span.to
        /\ \A i \in DOMAIN acc.gaps : i \in DOMAIN more /\ more[i] = acc.gaps[i]
        /\ span.from > acc.cursor => \E i \in DOMAIN more : more[i] = g
        /\ \A i \in 1..Len(more) - 1 : more[i].to < more[i + 1].from
    <3>1. \A i \in DOMAIN acc.gaps : acc.gaps[i].to < span.to
      <4> SUFFICES ASSUME NEW i \in DOMAIN acc.gaps PROVE acc.gaps[i].to < span.to
        OBVIOUS
      <4>1. acc.gaps[i] \in Gaps(table, w) /\ acc.gaps[i].to < acc.cursor
        BY <1>2
      <4>2. w \in Span /\ table \in SUBSET Rows(LastInstant) /\ LastInstant \in Nat
        BY SpansWithinAreRows, LastInstantAssumption DEF Rows, TableInv
      <4>3. acc.gaps[i].to \in Nat
        <5>1. acc.gaps[i] \in Span BY <4>1, <4>2, GapsBounds
        <5> QED BY <5>1 DEF Span
      <4> QED BY <1>1, <1>2, <2>1, <4>1, <4>3
    <3>2. CASE span.from > acc.cursor
      <4> DEFINE longer == Append(acc.gaps, g)
      <4>1. more = longer BY <3>2
      <4>2. g.from = acc.cursor /\ g.to = span.from /\ g \in Gaps(table, w)
        BY <2>7, <3>2
      <4> HIDE DEF g
      <4>3. /\ longer \in Seq(Gaps(table, w))
            /\ \A i \in DOMAIN longer :
                 (i \in DOMAIN acc.gaps /\ longer[i] = acc.gaps[i]) \/ longer[i] = g
            /\ \A i \in DOMAIN acc.gaps : i \in DOMAIN longer /\ longer[i] = acc.gaps[i]
            /\ \E i \in DOMAIN longer : longer[i] = g
            /\ \A i \in 1..Len(longer) - 1 : longer[i].to < longer[i + 1].from
        BY <1>2, <4>2, OneMoreGap
      <4> HIDE DEF longer, more
      <4> QED BY <1>1, <3>1, <4>1, <4>2, <4>3
    <3>3. CASE ~(span.from > acc.cursor)
      <4>1. more = acc.gaps BY <3>3
      <4> HIDE DEF more, g
      <4> QED BY <1>2, <3>1, <3>3, <4>1
    <3> QED BY <3>2, <3>3
  <2>9. \A t \in Instants(w) :
          t < span.to => \/ t \in Covered(table)
                         \/ \E i \in DOMAIN more : t \in Instants(more[i])
    <3> SUFFICES ASSUME NEW t \in Instants(w), t < span.to
                 PROVE  t \in Covered(table) \/ \E i \in DOMAIN more : t \in Instants(more[i])
      OBVIOUS
    <3>1. t \in Int BY <1>1 DEF Instants
    <3>2. CASE t < acc.cursor
      <4> HIDE DEF more
      <4> QED BY <1>3, <2>8, <3>2
    <3>3. CASE acc.cursor <= t /\ t < span.from
      <4>1. t \in Instants(g) BY <1>1, <1>2, <3>1, <3>3 DEF Instants
      <4>2. span.from > acc.cursor BY <1>1, <1>2, <3>1, <3>3
      <4> HIDE DEF more, g
      <4> QED BY <2>8, <4>1, <4>2
    <3>4. CASE span.from <= t
      <4>1. t \in Instants(span) BY <1>1, <3>1, <3>4 DEF Instants
      <4> QED BY <1>1, <4>1 DEF Covered
    <3> QED BY <1>1, <1>2, <3>1, <3>2, <3>3, <3>4
  <2> HIDE DEF more, turn
  <2> QED BY <1>1, <1>2, <2>2, <2>3, <2>1, <2>5, <2>6, <2>8, <2>9 DEF LoopInv
<1> QED BY <1>6, <1>7, <1>8

\* What the loop returns: gaps, in order, which hold all that no row covers.
LEMMA LoopReturns ==
  ASSUME TableInv, NEW w \in SpansWithin
  PROVE  /\ GapsLoop(w) \in Seq(Gaps(table, w))
         /\ \A i \in 1..Len(GapsLoop(w)) - 1 : GapsLoop(w)[i].to < GapsLoop(w)[i + 1].from
         /\ \A t \in Instants(w) \ Covered(table) :
              \E i \in DOMAIN GapsLoop(w) : t \in Instants(GapsLoop(w)[i])
<1> DEFINE N == Cardinality(table)
           rows == ListedRows
<1>1. /\ N \in Nat /\ rows \in [1..N -> table]
      /\ \A s \in table : \E k \in 1..N : rows[k] = s
      /\ \A i, j \in 1..N : i < j => rows[i].from <= rows[j].from
  BY ListedRowsAre
<1> DEFINE Solves(f) == f = [k \in 0..N |-> LoopTurn(w, rows, f, k)]
           after == CHOOSE f : Solves(f)
           end == after[N]
<1>2. GapsLoop(w) = IF end.cursor < w.to
                    THEN Append(end.gaps, [from |-> end.cursor, to |-> w.to])
                    ELSE end.gaps
  BY Zenon DEF GapsLoop, LoopTurn, LoopStart
<1>3. Solves(after)
  <2>1. \E f : Solves(f)
    <3>1. \A r, n : n \in Nat => \E f : f = [k \in 0..n |-> LoopTurn(w, r, f, k)]
      BY LoopExists, Zenon
    <3>2. N \in Nat BY <1>1
    <3> HIDE DEF N, rows
    <3>3. \E f : f = [k \in 0..N |-> LoopTurn(w, rows, f, k)] BY <3>1, <3>2, Zenon
    <3> QED BY <3>3, Zenon
  <2> HIDE DEF Solves
  <2> QED BY <2>1
<1> HIDE DEF after, N, rows
<1>4. /\ after[0] = LoopStart(w)
      /\ \A k \in 1..N : after[k] = GapsTurn(w, after[k - 1], rows[k])
  <2>1. 0 \in 0..N /\ \A k \in 1..N : k \in 0..N /\ k # 0 BY <1>1
  <2>2. \A k \in 0..N : after[k] = LoopTurn(w, rows, after, k)
    <3> HIDE DEF LoopTurn
    <3> QED BY <1>3
  <2> QED BY <2>1, <2>2 DEF LoopTurn
<1>5. w.from \in Nat /\ w.to \in Nat /\ w.from < w.to
  BY LastInstantAssumption DEF SpansWithin
<1>6. LoopInv(w, rows, 0, after[0])
  <2>1. /\ after[0].gaps = <<>> /\ after[0].cursor = w.from /\ after[0].over = FALSE
        /\ after[0] = [gaps |-> after[0].gaps, cursor |-> after[0].cursor,
                       over |-> after[0].over]
    BY <1>4 DEF LoopStart
  <2>2. \A t \in Instants(w) : ~(t < w.from)
    BY <1>5 DEF Instants
  <2>3. Len(<<>>) = 0 /\ DOMAIN <<>> = {} /\ <<>> \in Seq(Gaps(table, w))
    OBVIOUS
  <2>4. 1..(0 - 1) = {} /\ 1..0 = {} OBVIOUS
  <2>5. /\ DOMAIN after[0].gaps = {} /\ Len(after[0].gaps) = 0
        /\ after[0].gaps \in Seq(Gaps(table, w))
    BY <2>1, <2>3
  <2>6. 1..Len(after[0].gaps) - 1 = {} BY <2>4, <2>5
  <2>7. \A t \in Instants(w) : ~(t < after[0].cursor) BY <2>1, <2>2
  <2>8. after[0].cursor \in Nat /\ w.from <= after[0].cursor
    BY <1>5, <2>1
  <2>9. after[0].over \in BOOLEAN BY <2>1, Zenon
  <2>10. ~after[0].over BY <2>1, Zenon
  <2> DEFINE acc == after[0]
  <2>11. acc.cursor = w.from BY <2>1
  <2>12. acc = [gaps |-> acc.gaps, cursor |-> acc.cursor, over |-> acc.over] BY <2>1
  <2> HIDE DEF acc
  <2> QED BY <2>4, <2>5, <2>6, <2>7, <2>8, <2>11, <2>12, <2>10, <2>9 DEF LoopInv, acc
<1>7. \A k \in 0..N : LoopInv(w, rows, k, after[k])
  <2> DEFINE Bad == {k \in 0..N : ~LoopInv(w, rows, k, after[k])}
  <2> SUFFICES ASSUME Bad # {} PROVE FALSE
    OBVIOUS
  <2>1. Bad \in SUBSET Nat OBVIOUS
  <2>2. PICK k \in Bad : \A i \in Bad : k <= i
    <3> HIDE DEF Bad
    <3> QED BY <2>1, LeastExists
  <2>3. k # 0 /\ k \in 1..N /\ k - 1 \in 0..N
    BY <1>1, <1>6, <2>2
  <2>4. LoopInv(w, rows, k - 1, after[k - 1])
    BY <2>2, <2>3
  <2>5. LoopInv(w, rows, k, GapsTurn(w, after[k - 1], rows[k]))
    BY <1>1, <2>3, <2>4, TurnKeeps
  <2> QED BY <1>4, <2>2, <2>3, <2>5
<1>8. LoopInv(w, rows, N, end)
  BY <1>1, <1>7
<1> HIDE DEF end
<1>9. /\ end.gaps \in Seq(Gaps(table, w)) /\ end.cursor \in Nat /\ w.from <= end.cursor
      /\ end.cursor = w.from \/ \E s \in table : end.cursor = s.to
      /\ \A i \in DOMAIN end.gaps : end.gaps[i].to < end.cursor
      /\ \A i \in 1..Len(end.gaps) - 1 : end.gaps[i].to < end.gaps[i + 1].from
      /\ \A t \in Instants(w) :
           t < end.cursor => \/ t \in Covered(table)
                             \/ \E i \in DOMAIN end.gaps : t \in Instants(end.gaps[i])
      /\ \A k \in 1..N : Past(w, end, rows[k])
  BY <1>8 DEF LoopInv
<1>10. \A s \in table : Past(w, end, s)
  BY <1>1, <1>9
<1>11. \A t \in Instants(w) : t \in Int /\ w.from <= t /\ t < w.to
  BY <1>5 DEF Instants
<1>12. CASE end.cursor < w.to
  <2> DEFINE g == [from |-> end.cursor, to |-> w.to]
             longer == Append(end.gaps, g)
  <2>1. \A s \in table : s.to <= end.cursor \/ w.to <= s.from
    BY <1>5, <1>9, <1>10, <1>12 DEF Past
  <2>2. g \in Gaps(table, w)
    BY <1>5, <1>9, <1>12, <2>1, StretchIsAGap
  <2>3. \A t \in Instants(w) : t < end.cursor \/ t \in Instants(g)
    BY <1>5, <1>9, <1>11 DEF Instants
  <2>4. g.from = end.cursor OBVIOUS
  <2> HIDE DEF g
  <2>5. /\ longer \in Seq(Gaps(table, w))
        /\ \A i \in DOMAIN end.gaps : i \in DOMAIN longer /\ longer[i] = end.gaps[i]
        /\ \E i \in DOMAIN longer : longer[i] = g
        /\ \A i \in 1..Len(longer) - 1 : longer[i].to < longer[i + 1].from
    BY <1>9, <2>2, <2>4, OneMoreGap
  <2>6. GapsLoop(w) = longer BY <1>2, <1>12 DEF g
  <2> HIDE DEF longer
  <2>7. ASSUME NEW t \in Instants(w), t \notin Covered(table)
        PROVE  \E i \in DOMAIN longer : t \in Instants(longer[i])
    BY <1>9, <2>3, <2>5, <2>7
  <2> QED BY <2>5, <2>6, <2>7
<1>13. CASE ~(end.cursor < w.to)
  <2>1. GapsLoop(w) = end.gaps BY <1>2, <1>13
  <2>2. \A t \in Instants(w) : t < end.cursor BY <1>5, <1>9, <1>11, <1>13
  <2> QED BY <1>9, <2>1, <2>2
<1> QED BY <1>12, <1>13

\* The loop in Store::gaps answers the maximal stretches of the wanted span that
\* no row covers, oldest first, for every table that calls of add_listed make:
\* asking for them asks for all that is missing and for nothing twice.
THEOREM GapsAreTheRest == TableSpec => []GapsAreWhatIsLeft
<1>1. ASSUME TableInv, NEW w \in SpansWithin
      PROVE  LET gaps == GapsLoop(w)
             IN  /\ ToSet(gaps) = Gaps(table, w)
                 /\ UNION {Instants(g) : g \in ToSet(gaps)} = Instants(w) \ named
                 /\ \A i \in 1..Len(gaps) - 1 : gaps[i].to < gaps[i + 1].from
  <2> DEFINE gaps == GapsLoop(w)
  <2>1. /\ w \in Span /\ LastInstant \in Nat /\ table \in SUBSET Rows(LastInstant)
        /\ named = Covered(table)
    BY <1>1, SpansWithinAreRows, LastInstantAssumption DEF TableInv, Rows
  <2>2. /\ gaps \in Seq(Gaps(table, w))
        /\ \A i \in 1..Len(gaps) - 1 : gaps[i].to < gaps[i + 1].from
        /\ \A t \in Instants(w) \ Covered(table) :
             \E i \in DOMAIN gaps : t \in Instants(gaps[i])
    BY <1>1, LoopReturns
  <2> HIDE DEF gaps
  <2>3. ToSet(gaps) \subseteq Gaps(table, w)
    BY <2>2 DEF ToSet
  <2>4. ASSUME NEW g \in Gaps(table, w) PROVE g \in ToSet(gaps)
    <3>1. /\ g \in Span /\ w.from <= g.from /\ g.from < g.to /\ g.to <= w.to
          /\ Instants(g) \cap Covered(table) = {}
      BY <2>1, <2>4, GapsBounds
    <3>2. g.from \in Instants(g) /\ g.from \in Instants(w)
      BY <2>1, <3>1 DEF Instants, Span
    <3>3. PICK i \in DOMAIN gaps : g.from \in Instants(gaps[i])
      BY <2>2, <3>1, <3>2
    <3>4. gaps[i] \in Gaps(table, w)
      BY <2>2
    <3>5. g = gaps[i]
      BY <2>1, <2>4, <3>2, <3>3, <3>4, GapsAreApart
    <3> QED BY <3>5 DEF ToSet
  <2>5. \A g \in Gaps(table, w) : Instants(g) \subseteq Instants(w) \ Covered(table)
    BY DEF Gaps
  <2>6. \A t \in Instants(w) \ Covered(table) : \E g \in Gaps(table, w) : t \in Instants(g)
    BY <2>1, GapsCover
  <2>7. ToSet(gaps) = Gaps(table, w)
    BY <2>3, <2>4
  <2>8. UNION {Instants(g) : g \in ToSet(gaps)} = Instants(w) \ named
    BY <2>1, <2>5, <2>6, <2>7
  <2> QED BY <2>2, <2>7, <2>8 DEF gaps
<1>2. TableInv => GapsAreWhatIsLeft
  BY <1>1 DEF GapsAreWhatIsLeft
<1> QED BY <1>2, TableInvariance, PTL

-----------------------------------------------------------------------------
(***************************************************************************)
(* KojiListing: claims are kept.                                           *)
(***************************************************************************)

Walking == {"ask", "put", "claim"}

\* The hub's order never changes, and rows end in the past.
HubInv == /\ created \in [Build -> 0..Horizon]
          /\ Ordered(created)
          /\ now \in Nat
          /\ listed \subseteq Rows(now)

StateInv == /\ held \subseteq Build
            /\ phase \in Phases
            /\ want \in Span
            /\ todo \subseteq Span
            /\ gap \in Span
            /\ cursor \in [before : Nat, offset : Nat]
            /\ page \subseteq Build

\* An instant where coverage ends is one no task follows closely, if the
\* windows are chosen so.
ClearAt(t) == ClearEdges => Clear(t)

Anchored(t) == t \in Covered(listed) \/ ClearAt(t)

EdgeInv == /\ \A t \in Covered(listed) : Anchored(t + 1)
           /\ \A g \in todo : /\ g.from < g.to /\ g.to <= now
                              /\ ClearAt(g.from) /\ Anchored(g.to)
           /\ phase \in Walking =>
                /\ gap.from < cursor.before /\ cursor.before <= now
                /\ cursor.before <= gap.to
                /\ ClearAt(gap.from) /\ Anchored(cursor.before)

\* The rows the cursor's offset skips are held.
Skipped(k) == Take(k, Below(cursor.before), cursor.offset)

DrainInv == phase \in Walking =>
              \E k \in SUBSET Below(cursor.before) : Skipped(k) /\ k \subseteq held

PageInv == /\ phase \in {"put", "claim"} =>
                /\ page \subseteq Below(cursor.before)
                /\ IsPage(page, cursor.before, cursor.offset)
           /\ phase = "claim" => page \subseteq held

ClaimInv == ClearEdges => ClaimsAreKept

IInv == HubInv /\ StateInv /\ EdgeInv /\ DrainInv /\ PageInv /\ ClaimInv

-----------------------------------------------------------------------------
\* The newest `limit` tasks of a list are one set: two answers to the same
\* offset agree.
LEMMA TakeUnique ==
  ASSUME NEW all \in SUBSET Build, NEW limit \in Nat,
         NEW k, NEW l, Take(k, all, limit), Take(l, all, limit)
  PROVE  k = l
<1>1. IsFiniteSet(all) /\ k \subseteq all /\ l \subseteq all
  BY FS_Subset, BuildAssumption DEF Take, Newest
<1>2. IsFiniteSet(k) /\ IsFiniteSet(l)
  BY <1>1, FS_Subset
<1>3. Cardinality(k) \in Nat /\ Cardinality(l) \in Nat
  BY <1>2, FS_CardinalityType
<1>4. k \subseteq l \/ l \subseteq k
  <2> SUFFICES ASSUME NEW a \in k \ l, NEW b \in l \ k PROVE FALSE
    OBVIOUS
  <2>1. a \in Build /\ b \in Build /\ a > b /\ b > a
    BY <1>1 DEF Take, Newest
  <2> QED BY <2>1, BuildAssumption
<1>5. Cardinality(k) <= limit /\ Cardinality(l) <= limit
      /\ (Cardinality(k) < limit => k = all) /\ (Cardinality(l) < limit => l = all)
  BY DEF Take
<1>6. CASE Cardinality(k) < limit \/ Cardinality(l) < limit
  <2>1. CASE k \subseteq l
    <3>1. Cardinality(k) <= Cardinality(l)
      BY <2>1, <1>2, FS_Subset
    <3> QED BY <3>1, <1>1, <1>3, <1>5, <1>6, <2>1
  <2>2. CASE l \subseteq k
    <3>1. Cardinality(l) <= Cardinality(k)
      BY <2>2, <1>2, FS_Subset
    <3> QED BY <3>1, <1>1, <1>3, <1>5, <1>6, <2>2
  <2> QED BY <1>4, <2>1, <2>2
<1>7. CASE Cardinality(k) = limit /\ Cardinality(l) = limit
  BY <1>2, <1>4, <1>7, FS_Subset
<1> QED BY <1>3, <1>5, <1>6, <1>7

\* Skipping a full prefix and taking a page is skipping the longer prefix.
LEMMA TakeMore ==
  ASSUME NEW all \in SUBSET Build, NEW n \in Nat,
         NEW k, NEW p, Take(k, all, n), Take(p, all \ k, PageSize), p # {}
  PROVE  Take(k \cup p, all, n + Cardinality(p))
<1>1. IsFiniteSet(all) /\ k \subseteq all /\ p \subseteq all \ k
  BY FS_Subset, BuildAssumption DEF Take, Newest
<1>2. IsFiniteSet(k) /\ IsFiniteSet(p)
  <2>1. p \subseteq all
    BY <1>1
  <2> QED BY <1>1, <2>1, FS_Subset
<1>3. Cardinality(k) \in Nat /\ Cardinality(p) \in Nat
  BY <1>2, FS_CardinalityType
<1>4. Cardinality(k \cup p) = Cardinality(k) + Cardinality(p)
  <2>1. k \cap p = {}
    BY <1>1
  <2>2. Cardinality(k \cap p) = 0
    BY <2>1, FS_EmptySet
  <2>3. Cardinality(k \cup p) = Cardinality(k) + Cardinality(p) - Cardinality(k \cap p)
    BY <1>2, FS_Union
  <2> QED BY <2>2, <2>3, <1>3
<1>5. Cardinality(k) = n
  BY <1>1, <1>3 DEF Take
<1>6. Newest(k \cup p, all)
  <2> SUFFICES ASSUME NEW a \in k \cup p, NEW b \in all \ (k \cup p) PROVE a > b
    BY <1>1 DEF Newest
  <2>1. CASE a \in k
    BY <2>1, <1>1 DEF Take, Newest
  <2>2. CASE a \in p
    BY <2>2, <1>1 DEF Take, Newest
  <2> QED BY <2>1, <2>2
<1> QED BY <1>3, <1>4, <1>5, <1>6 DEF Take

\* The extreme creations of a page are creations of tasks on it.
LEMMA PageExtremes ==
  ASSUME HubInv, NEW p \in SUBSET Build, p # {}
  PROVE  /\ Oldest(p) \in Nat /\ NewestCreation(p) \in Nat
         /\ \E a \in p : created[a] = Oldest(p)
         /\ \E a \in p : created[a] = NewestCreation(p)
<1> DEFINE times == {created[b] : b \in p}
<1>1. times \in SUBSET (0..Horizon) /\ times \in SUBSET Nat /\ times # {}
  BY TimeAssumption DEF HubInv
<1>2. Min(times) \in times /\ Max(times) \in times
  BY <1>1, LeastExists, GreatestExists, TimeAssumption
<1> QED BY <1>1, <1>2 DEF Oldest, NewestCreation

\* What the store still lacks below the cursor comes after a full page, so it
\* was created no later than Skew after anything on the page.
LEMMA WhatIsMissingIsOlder ==
  ASSUME IInv, phase = "claim", NEW b \in Below(cursor.before), b \notin held
  PROVE  /\ Cardinality(page) = PageSize
         /\ \A a \in page : created[b] <= created[a] + Skew
<1> DEFINE all == Below(cursor.before)
<1>1. all \in SUBSET Build /\ cursor.offset \in Nat /\ page \subseteq held
  BY DEF IInv, StateInv, PageInv, Below
<1>2. PICK k \in SUBSET all : Take(k, all, cursor.offset) /\ k \subseteq held
  BY DEF IInv, DrainInv, Skipped, Walking
<1>3. PICK l \in SUBSET all : /\ Take(l, all, cursor.offset)
                              /\ Take(page, all \ l, PageSize)
  BY DEF IInv, PageInv, IsPage
<1>4. k = l
  BY <1>1, <1>2, <1>3, TakeUnique
<1>5. b \in (all \ l) \ page
  BY <1>1, <1>2, <1>4
<1>6. Cardinality(page) = PageSize
  <2>1. IsFiniteSet(page)
    BY FS_Subset, BuildAssumption DEF IInv, StateInv
  <2>2. Cardinality(page) \in Nat
    BY <2>1, FS_CardinalityType
  <2> QED BY <2>2, <1>3, <1>5, PageAssumption DEF Take
<1>7. \A a \in page : a > b
  BY <1>3, <1>5 DEF Take, Newest
<1>8. page \subseteq Build /\ b \in Build
  BY <1>1 DEF IInv, StateInv
<1> QED BY <1>6, <1>7, <1>8 DEF IInv, HubInv, Ordered

\* A claim is kept when it is made: it lies in the gap, below the cursor, and
\* every task created in it is held.
LEMMA ClaimIsSound ==
  ASSUME IInv, phase = "claim", NEW s \in Claims(page, cursor, gap)
  PROVE  /\ s \in Rows(now) /\ s.to = cursor.before /\ gap.from <= s.from
         /\ ClearEdges => \A b \in Build : created[b] \in Instants(s) => b \in held
<1>1. /\ gap \in Span /\ cursor \in [before : Nat, offset : Nat]
      /\ page \in SUBSET Build /\ page # {} /\ now \in Nat
      /\ gap.from < cursor.before /\ cursor.before <= now /\ ClearAt(gap.from)
  BY DEF IInv, StateInv, HubInv, EdgeInv, Walking, Claims
<1>2. /\ Oldest(page) \in Nat
      /\ \E a \in page : created[a] = Oldest(page)
  BY <1>1, PageExtremes DEF IInv
<1>3. ASSUME NEW b \in Build, b \notin held, created[b] < cursor.before
      PROVE  Cardinality(page) = PageSize /\ created[b] <= Oldest(page) + Skew
  <2>1. b \in Below(cursor.before)
    BY <1>1, <1>3 DEF Below, IInv, HubInv
  <2> QED BY <1>2, <1>3, <2>1, WhatIsMissingIsOlder
<1>4. CASE FarSide(page, gap)
  <2>1. s = [from |-> gap.from, to |-> cursor.before]
    BY <1>1, <1>4 DEF Claims
  <2>2. s \in Rows(now) /\ s.to = cursor.before /\ gap.from <= s.from
    BY <1>1, <2>1 DEF Rows, Span
  <2>3. ASSUME ClearEdges, NEW b \in Build, created[b] \in Instants(s), b \notin held
        PROVE  FALSE
    <3>1. created[b] \in Nat /\ gap.from <= created[b] /\ created[b] < cursor.before
      BY <1>1, <2>1, <2>3 DEF Instants, Span, IInv, HubInv
    <3>2. Cardinality(page) = PageSize /\ created[b] <= Oldest(page) + Skew
      BY <1>3, <2>3, <3>1
    <3>3. Oldest(page) <= gap.from
      BY <1>4, <3>2, PageAssumption DEF FarSide
    <3>4. created[b] \in gap.from .. (gap.from + Skew)
      BY <1>1, <1>2, <3>1, <3>2, <3>3, SkewAssumption DEF Span
    <3> QED BY <1>1, <2>3, <3>4 DEF ClearAt, Clear
  <2> QED BY <2>2, <2>3
<1>5. CASE ~FarSide(page, gap)
  <2> DEFINE from == Max({Edge(page), gap.from})
  <2>1. cursor.before > Edge(page) /\ s = [from |-> from, to |-> cursor.before]
    BY <1>1, <1>5 DEF Claims
  <2>2. Edge(page) \in Nat /\ gap.from \in Nat
    BY <1>1, <1>2, SkewAssumption DEF Edge, Span
  <2>3. from \in {Edge(page), gap.from} /\ from >= Edge(page) /\ from >= gap.from
    BY <2>2 DEF Max
  <2>4. s \in Rows(now) /\ s.to = cursor.before /\ gap.from <= s.from
    BY <1>1, <2>1, <2>2, <2>3 DEF Rows, Span
  <2>5. ASSUME NEW b \in Build, created[b] \in Instants(s), b \notin held
        PROVE  FALSE
    <3>1. created[b] \in Nat /\ Edge(page) <= created[b] /\ created[b] < cursor.before
      BY <1>1, <2>1, <2>2, <2>3, <2>5 DEF Instants, IInv, HubInv
    <3>2. created[b] <= Oldest(page) + Skew
      BY <1>3, <2>5, <3>1
    <3> QED BY <1>2, <3>1, <3>2, SkewAssumption DEF Edge
  <2> QED BY <2>4, <2>5
<1> QED BY <1>4, <1>5

\* Where the walk goes from a page: not above the cursor, still inside the gap,
\* at an instant that is claimed or was the cursor already, and with whatever
\* the new offset skips held.
LEMMA NextCursorIsSound ==
  ASSUME IInv, phase = "claim", NEW c \in NextCursors(page, cursor, gap)
  PROVE  /\ c \in [before : Nat, offset : Nat]
         /\ gap.from < c.before /\ c.before <= cursor.before
         /\ \/ c.before = cursor.before
            \/ \E s \in Claims(page, cursor, gap) : c.before \in Instants(s)
         /\ \E k \in SUBSET Below(c.before) :
              Take(k, Below(c.before), c.offset) /\ k \subseteq held
<1>1. /\ gap \in Span /\ cursor \in [before : Nat, offset : Nat]
      /\ page \in SUBSET Build /\ page # {} /\ ~FarSide(page, gap)
      /\ gap.from < cursor.before /\ page \subseteq held
  BY DEF IInv, StateInv, HubInv, EdgeInv, PageInv, Walking, NextCursors
<1>2. /\ Oldest(page) \in Nat /\ NewestCreation(page) \in Nat
      /\ \E a \in page : created[a] = NewestCreation(page)
  BY <1>1, PageExtremes DEF IInv
<1>3. CASE Crowded(page)
  <2>1. c = [before |-> cursor.before, offset |-> cursor.offset + Cardinality(page)]
    BY <1>1, <1>3 DEF NextCursors
  <2>2. IsFiniteSet(page)
    BY <1>1, FS_Subset, BuildAssumption
  <2>3. Cardinality(page) \in Nat
    BY <2>2, FS_CardinalityType
  <2>4. PICK k \in SUBSET Below(cursor.before) :
          Take(k, Below(cursor.before), cursor.offset) /\ k \subseteq held
    BY DEF IInv, DrainInv, Skipped, Walking
  <2>5. PICK l \in SUBSET Below(cursor.before) :
          /\ Take(l, Below(cursor.before), cursor.offset)
          /\ Take(page, Below(cursor.before) \ l, PageSize)
    BY DEF IInv, PageInv, IsPage
  <2>6. Below(cursor.before) \in SUBSET Build /\ cursor.offset \in Nat
    BY <1>1 DEF Below
  <2>7. k = l
    BY <2>4, <2>5, <2>6, TakeUnique
  <2>8. Take(l \cup page, Below(cursor.before), cursor.offset + Cardinality(page))
    BY <1>1, <2>5, <2>6, TakeMore
  <2>9. l \cup page \in SUBSET Below(cursor.before) /\ l \cup page \subseteq held
    BY <1>1, <2>4, <2>7 DEF IInv, PageInv
  <2>10. c \in [before : Nat, offset : Nat] /\ c.before = cursor.before
    BY <1>1, <2>1, <2>3
  <2> QED BY <1>1, <2>1, <2>8, <2>9, <2>10
<1>4. CASE ~Crowded(page)
  <2>1. c = [before |-> Edge(page), offset |-> 0]
    BY <1>1, <1>4 DEF NextCursors
  <2>2. Edge(page) \in Nat /\ Edge(page) <= NewestCreation(page)
    BY <1>2, <1>4, SkewAssumption DEF Edge, Crowded
  <2>3. NewestCreation(page) < cursor.before
    BY <1>2 DEF IInv, PageInv, Below
  <2>4. gap.from < Oldest(page) /\ gap.from < Edge(page)
    BY <1>1, <1>2, SkewAssumption DEF FarSide, Edge, Span
  <2>5. Max({Edge(page), gap.from}) = Edge(page)
    <3>1. \A m \in {Edge(page), gap.from} :
            (\A y \in {Edge(page), gap.from} : m >= y) => m = Edge(page)
      BY <1>1, <2>2, <2>4 DEF Span
    <3>2. \A y \in {Edge(page), gap.from} : Edge(page) >= y
      BY <1>1, <2>2, <2>4 DEF Span
    <3> QED BY <3>1, <3>2 DEF Max
  <2>6. Edge(page) < cursor.before
    BY <1>1, <1>2, <2>2, <2>3
  <2>7. [from |-> Edge(page), to |-> cursor.before] \in Claims(page, cursor, gap)
    BY <1>1, <2>5, <2>6 DEF Claims
  <2>8. Edge(page) \in Instants([from |-> Edge(page), to |-> cursor.before])
    BY <1>1, <2>2, <2>6 DEF Instants
  <2>9. Take({}, Below(Edge(page)), 0)
    BY FS_EmptySet DEF Take, Newest
  <2> QED BY <1>1, <2>1, <2>2, <2>4, <2>6, <2>7, <2>8, <2>9
<1> QED BY <1>3, <1>4

-----------------------------------------------------------------------------
LEMMA InitInv ==
  Init => IInv
<1> SUFFICES ASSUME Init PROVE IInv
  OBVIOUS
<1>1. now \in Nat
  BY TimeAssumption DEF Init
<1>2. HubInv
  BY <1>1 DEF Init, HubInv
<1>3. StateInv
  BY DEF Init, StateInv, Phases, NoSpan, NoCursor, Span
<1>4. EdgeInv /\ DrainInv /\ PageInv /\ ClaimInv
  BY DEF Init, EdgeInv, DrainInv, PageInv, ClaimInv, ClaimsAreKept, Covered, Walking
<1> QED BY <1>2, <1>3, <1>4 DEF IInv

LEMMA TickInv ==
  ASSUME IInv, Tick
  PROVE  IInv'
<1>1. /\ now \in Nat /\ now' = now + 1 /\ created' = created /\ held' = held
      /\ listed' = listed /\ phase' = phase /\ want' = want /\ todo' = todo
      /\ gap' = gap /\ cursor' = cursor /\ page' = page
  BY DEF Tick, store, run, IInv, HubInv
<1>2. HubInv'
  <2>1. Rows(now) \subseteq Rows(now')
    BY <1>1 DEF Rows, Span
  <2> QED BY <1>1, <2>1 DEF IInv, HubInv, Ordered
<1>3. StateInv'
  BY <1>1 DEF IInv, StateInv
<1>4. EdgeInv'
  <2>1. \A t : Anchored(t)' <=> Anchored(t)
    BY <1>1 DEF Anchored, ClearAt, Clear, Covered
  <2>2. \A t : ClearAt(t)' <=> ClearAt(t)
    BY <1>1 DEF ClearAt, Clear
  <2>3. \A t \in Covered(listed) : Anchored(t + 1)
    BY DEF IInv, EdgeInv
  <2>4. (\A t \in Covered(listed) : Anchored(t + 1))'
    BY <1>1, <2>1, <2>3
  <2>5. (\A g \in todo : g.from < g.to /\ g.to <= now /\ ClearAt(g.from) /\ Anchored(g.to))'
    BY <1>1, <2>1, <2>2 DEF IInv, EdgeInv, StateInv, Span
  <2>6. (phase \in Walking =>
           /\ gap.from < cursor.before /\ cursor.before <= now
           /\ cursor.before <= gap.to
           /\ ClearAt(gap.from) /\ Anchored(cursor.before))'
    BY <1>1, <2>1, <2>2 DEF IInv, EdgeInv, StateInv, Walking
  <2> QED BY <2>4, <2>5, <2>6 DEF EdgeInv
<1>5. phase \in Walking => Below(cursor.before)' = Below(cursor.before)
  <2> SUFFICES ASSUME phase \in Walking
               PROVE  Below(cursor.before)' = Below(cursor.before)
    OBVIOUS
  <2>1. cursor.before \in Nat /\ cursor.before <= now
    BY DEF IInv, StateInv, EdgeInv
  <2> QED BY <1>1, <2>1 DEF Below, IInv, HubInv
<1>6. DrainInv'
  BY <1>1, <1>5 DEF IInv, DrainInv, Skipped, Take, Newest
<1>7. PageInv'
  <2>1. phase \in {"put", "claim"} => phase \in Walking
    BY DEF Walking
  <2> QED BY <1>1, <1>5, <2>1 DEF IInv, PageInv, IsPage, Take, Newest
<1>8. ClaimInv'
  BY <1>1 DEF IInv, ClaimInv, ClaimsAreKept, Covered
<1> QED BY <1>2, <1>3, <1>4, <1>6, <1>7, <1>8 DEF IInv

\* The gaps of a new run have far edges no task follows closely: one is the
\* window's own, or the end of coverage.
LEMMA BeginInv ==
  ASSUME IInv, NEW w \in Windows, Begin(w)
  PROVE  IInv'
<1>1. /\ created' = created /\ now' = now /\ held' = held /\ listed' = listed
      /\ want' = w /\ todo' = Gaps(listed, w) /\ phase' = "next"
      /\ gap' = gap /\ cursor' = cursor /\ page' = page
  BY DEF Begin, hub, store
<1>2. w \in Span /\ w.to <= now /\ ClearAt(w.from) /\ ClearAt(w.to) /\ now \in Nat
  BY TimeAssumption DEF ClearAt, Begin, Wanted, Windows, Span, IInv, HubInv
<1>3. ASSUME NEW g \in Gaps(listed, w)
      PROVE  /\ g \in Span /\ g.from < g.to /\ g.to <= now
             /\ ClearAt(g.from) /\ Anchored(g.to)
  <2>1. /\ g \in Span
        /\ w.from <= g.from /\ g.from < g.to /\ g.to <= w.to
        /\ Instants(g) \cap Covered(listed) = {}
        /\ g.from = w.from \/ g.from - 1 \in Covered(listed)
        /\ g.to = w.to \/ g.to \in Covered(listed)
    <3>1. listed \in SUBSET Rows(now)
      BY DEF IInv, HubInv
    <3> QED BY <1>2, <3>1, GapsBounds
  <2>2. g.to <= now
    BY <1>2, <2>1 DEF Span
  <2>3. ClearAt(g.from)
    <3>1. CASE g.from = w.from
      BY <1>2, <3>1
    <3>2. CASE g.from - 1 \in Covered(listed)
      <4>1. (g.from - 1) + 1 = g.from /\ g.from \in Instants(g)
        BY <2>1 DEF Span, Instants
      <4>2. Anchored((g.from - 1) + 1)
        BY <3>2 DEF IInv, EdgeInv
      <4> QED BY <2>1, <4>1, <4>2 DEF Anchored
    <3> QED BY <2>1, <3>1, <3>2
  <2>4. Anchored(g.to)
    BY <1>2, <2>1 DEF Anchored
  <2> QED BY <2>1, <2>2, <2>3, <2>4
<1>4. HubInv'
  BY <1>1 DEF IInv, HubInv, Ordered
<1>5. StateInv'
  BY <1>1, <1>2, <1>3 DEF IInv, StateInv, Phases
<1>6. EdgeInv'
  <2>1. \A t : Anchored(t)' <=> Anchored(t)
    BY <1>1 DEF Anchored, ClearAt, Clear, Covered
  <2>2. \A t : ClearAt(t)' <=> ClearAt(t)
    BY <1>1 DEF ClearAt, Clear
  <2> QED BY <1>1, <1>3, <2>1, <2>2 DEF IInv, EdgeInv, Walking
<1>7. DrainInv' /\ PageInv'
  BY <1>1 DEF DrainInv, PageInv, Walking
<1>8. ClaimInv'
  BY <1>1 DEF IInv, ClaimInv, ClaimsAreKept
<1> QED BY <1>4, <1>5, <1>6, <1>7, <1>8 DEF IInv

LEMMA NextGapInv ==
  ASSUME IInv, NextGap
  PROVE  IInv'
<1>1. PICK g \in todo : /\ gap' = g /\ todo' = todo \ {g}
                        /\ cursor' = [before |-> g.to, offset |-> 0]
  BY DEF NextGap
<1>2. /\ created' = created /\ now' = now /\ held' = held /\ listed' = listed
      /\ want' = want /\ page' = page /\ phase' = "ask"
  BY DEF NextGap, hub, store
<1>3. HubInv'
  BY <1>2 DEF IInv, HubInv, Ordered
<1>4. StateInv'
  BY <1>1, <1>2 DEF IInv, StateInv, Phases, Span
<1>5. EdgeInv'
  <2>1. \A t : Anchored(t)' <=> Anchored(t)
    BY <1>2 DEF Anchored, ClearAt, Clear, Covered
  <2>2. \A t : ClearAt(t)' <=> ClearAt(t)
    BY <1>2 DEF ClearAt, Clear
  <2>3. /\ g.from \in Nat /\ g.to \in Nat /\ g.from < g.to /\ g.to <= now
        /\ ClearAt(g.from) /\ Anchored(g.to)
    BY DEF IInv, StateInv, EdgeInv, Span
  <2>4. cursor'.before = g.to
    BY <1>1
  <2>5. (\A t \in Covered(listed) : Anchored(t + 1))'
    BY <1>2, <2>1 DEF IInv, EdgeInv
  <2>6. (\A h \in todo : h.from < h.to /\ h.to <= now /\ ClearAt(h.from) /\ Anchored(h.to))'
    BY <1>1, <1>2, <2>1, <2>2 DEF IInv, EdgeInv
  <2>7. ClearAt(gap.from)' /\ Anchored(cursor.before)'
    BY <1>1, <1>2, <2>3, <2>4 DEF Anchored, ClearAt, Clear, Covered
  <2> QED BY <1>1, <1>2, <2>3, <2>4, <2>5, <2>6, <2>7 DEF EdgeInv
<1>6. DrainInv'
  <2>1. Take({}, Below(g.to), 0)
    BY FS_EmptySet DEF Take, Newest
  <2>2. Take({}, Below(g.to), 0)'
    BY <1>2, <2>1 DEF Take, Newest, Below
  <2> QED BY <1>1, <1>2, <2>2 DEF DrainInv, Skipped
<1>7. PageInv'
  BY <1>2 DEF PageInv
<1>8. ClaimInv'
  BY <1>2 DEF IInv, ClaimInv, ClaimsAreKept
<1> QED BY <1>3, <1>4, <1>5, <1>6, <1>7, <1>8 DEF IInv

\* The steps that change neither what a cursor skips nor coverage.
LEMMA QuietInv ==
  ASSUME IInv, NoGapLeft \/ AskPage \/ PutBuilds \/ Stop
  PROVE  IInv'
<1>1. /\ created' = created /\ now' = now /\ listed' = listed
  BY DEF NoGapLeft, AskPage, PutBuilds, Stop, hub, store
<1>2. HubInv'
  BY <1>1 DEF IInv, HubInv, Ordered
<1>3. \A t : Anchored(t)' <=> Anchored(t)
  BY <1>1 DEF Anchored, ClearAt, Clear, Covered
<1>4. \A t : ClearAt(t)' <=> ClearAt(t)
  BY <1>1 DEF ClearAt, Clear
<1>5. \A t : Below(t)' = Below(t)
  BY <1>1 DEF Below
<1>6. CASE NoGapLeft
  <2>1. /\ held' = held /\ phase' = "listed" /\ want' = want /\ todo' = todo
        /\ gap' = gap /\ cursor' = cursor /\ page' = page
    BY <1>6 DEF NoGapLeft, store
  <2> QED BY <1>1, <1>2, <1>3, <1>4, <2>1
          DEF IInv, StateInv, EdgeInv, DrainInv, PageInv, ClaimInv, ClaimsAreKept,
              Phases, Walking
<1>7. CASE AskPage
  <2>1. /\ held' = held /\ phase = "ask" /\ phase' = "put" /\ want' = want
        /\ todo' = todo /\ gap' = gap /\ cursor' = cursor
        /\ page' \in SUBSET Below(cursor.before)
        /\ IsPage(page', cursor.before, cursor.offset)
    BY <1>7 DEF AskPage, store
  <2>2. StateInv'
    BY <2>1 DEF IInv, StateInv, Phases, Below
  <2>3. EdgeInv'
    BY <1>1, <1>3, <1>4, <2>1 DEF IInv, EdgeInv, Walking
  <2>4. DrainInv'
    BY <1>5, <2>1 DEF IInv, DrainInv, Skipped, Take, Newest, Walking
  <2>5. PageInv'
    BY <1>5, <2>1 DEF PageInv, IsPage, Take, Newest
  <2> QED BY <1>1, <1>2, <2>1, <2>2, <2>3, <2>4, <2>5
          DEF IInv, ClaimInv, ClaimsAreKept
<1>8. CASE PutBuilds
  <2>1. /\ held' = held \cup page /\ phase = "put" /\ phase' = "claim"
        /\ want' = want /\ todo' = todo /\ gap' = gap /\ cursor' = cursor
        /\ page' = page
    BY <1>8 DEF PutBuilds
  <2>2. StateInv'
    BY <2>1 DEF IInv, StateInv, Phases
  <2>3. EdgeInv'
    BY <1>1, <1>3, <1>4, <2>1 DEF IInv, EdgeInv, Walking
  <2>4. DrainInv'
    <3>1. PICK k \in SUBSET Below(cursor.before) : Skipped(k) /\ k \subseteq held
      BY <2>1 DEF IInv, DrainInv, Walking
    <3>2. k \in SUBSET Below(cursor.before)' /\ Skipped(k)' /\ k \subseteq held'
      BY <1>5, <2>1, <3>1 DEF Skipped, Take, Newest
    <3> QED BY <3>2, <1>5, <2>1 DEF DrainInv
  <2>5. PageInv'
    BY <1>5, <2>1 DEF IInv, PageInv, IsPage, Take, Newest
  <2> QED BY <1>1, <1>2, <2>1, <2>2, <2>3, <2>4, <2>5
          DEF IInv, ClaimInv, ClaimsAreKept
<1>9. CASE Stop
  <2>1. /\ held' = held /\ phase' = "idle" /\ want' = NoSpan /\ todo' = {}
        /\ gap' = NoSpan /\ cursor' = NoCursor /\ page' = {}
    BY <1>9 DEF Stop, store
  <2> QED BY <1>1, <1>2, <1>3, <1>4, <2>1
          DEF IInv, StateInv, EdgeInv, DrainInv, PageInv, ClaimInv, ClaimsAreKept,
              Phases, Walking, NoSpan, NoCursor, Span
<1> QED BY <1>6, <1>7, <1>8, <1>9

\* What recording a page's claim does to coverage.
LEMMA ClaimCovers ==
  ASSUME IInv, Claim
  PROVE  /\ listed' \in SUBSET Rows(now)
         /\ Covered(listed) \subseteq Covered(listed')
         /\ \A t \in Covered(listed') \ Covered(listed) :
              /\ \E s \in Claims(page, cursor, gap) : t \in Instants(s)
              /\ gap.from <= t /\ t < cursor.before
              /\ t + 1 = cursor.before \/ t + 1 \in Covered(listed')
         /\ \A s \in Claims(page, cursor, gap) : Instants(s) \subseteq Covered(listed')
<1> DEFINE claims == Claims(page, cursor, gap)
<1>1. phase = "claim" /\ listed' = Recorded(listed, claims) /\ now \in Nat
      /\ listed \in SUBSET Rows(now)
  BY DEF Claim, IInv, HubInv
<1>2. \A s, u \in claims : s = u
  BY DEF Claims
<1>3. CASE claims = {}
  BY <1>1, <1>3 DEF Recorded
<1>4. CASE claims # {}
  <2>1. PICK s \in claims : TRUE
    BY <1>4
  <2>2. (CHOOSE u \in claims : TRUE) = s
    BY <1>2, <2>1
  <2>3. listed' = AddListed(listed, s)
    BY <1>1, <1>4, <2>2 DEF Recorded
  <2>4. s \in Rows(now) /\ s.to = cursor.before /\ gap.from <= s.from
    BY <1>1, ClaimIsSound
  <2>5. listed' \in SUBSET Rows(now) /\ Covered(listed') = Covered(listed) \cup Instants(s)
    BY <1>1, <2>3, <2>4, AddListedCovers
  <2> HIDE DEF claims
  <2>6. ASSUME NEW t \in Instants(s)
        PROVE  /\ gap.from <= t /\ t < cursor.before
               /\ t + 1 = cursor.before \/ t + 1 \in Instants(s)
    <3>1. s.from \in Nat /\ s.to \in Nat /\ gap.from \in Nat /\ cursor.before \in Nat
      BY <2>4 DEF Rows, Span, IInv, StateInv
    <3> QED BY <2>4, <2>6, <3>1 DEF Instants
  <2> QED BY <1>2, <2>1, <2>5, <2>6 DEF claims
<1> QED BY <1>3, <1>4

LEMMA ClaimStepInv ==
  ASSUME IInv, Claim
  PROVE  IInv'
<1>1. /\ created' = created /\ now' = now /\ held' = held /\ phase = "claim"
      /\ want' = want /\ todo' = todo /\ gap' = gap /\ page' = {}
      /\ \/ phase' = "next" /\ cursor' = cursor
         \/ phase' = "ask" /\ cursor' \in NextCursors(page, cursor, gap)
  BY DEF Claim, hub
<1>2. /\ listed' \in SUBSET Rows(now)
      /\ Covered(listed) \subseteq Covered(listed')
      /\ \A t \in Covered(listed') \ Covered(listed) :
           /\ \E s \in Claims(page, cursor, gap) : t \in Instants(s)
           /\ t + 1 = cursor.before \/ t + 1 \in Covered(listed')
      /\ \A s \in Claims(page, cursor, gap) : Instants(s) \subseteq Covered(listed')
  BY ClaimCovers
<1>3. HubInv'
  BY <1>1, <1>2 DEF IInv, HubInv, Ordered
<1>4. ASSUME phase' = "ask"
      PROVE  /\ cursor' \in [before : Nat, offset : Nat]
             /\ gap.from < cursor'.before /\ cursor'.before <= cursor.before
             /\ cursor'.before = cursor.before \/ cursor'.before \in Covered(listed')
             /\ \E k \in SUBSET Below(cursor'.before) :
                  Take(k, Below(cursor'.before), cursor'.offset) /\ k \subseteq held
  <2>1. cursor' \in NextCursors(page, cursor, gap)
    BY <1>1, <1>4
  <2>2. /\ cursor' \in [before : Nat, offset : Nat]
        /\ gap.from < cursor'.before /\ cursor'.before <= cursor.before
        /\ \/ cursor'.before = cursor.before
           \/ \E s \in Claims(page, cursor, gap) : cursor'.before \in Instants(s)
        /\ \E k \in SUBSET Below(cursor'.before) :
             Take(k, Below(cursor'.before), cursor'.offset) /\ k \subseteq held
    BY <1>1, <2>1, NextCursorIsSound
  <2> QED BY <1>2, <2>2
<1>5. StateInv'
  <2>1. cursor' \in [before : Nat, offset : Nat]
    BY <1>1, <1>4 DEF IInv, StateInv
  <2> QED BY <1>1, <2>1 DEF IInv, StateInv, Phases
<1>6. EdgeInv'
  <2> DEFINE Kept(t) == t \in Covered(listed') \/ ClearAt(t)
  <2>1. \A t : Anchored(t) => Kept(t)
    BY <1>2 DEF Anchored
  <2>2. \A t : ClearAt(t)' <=> ClearAt(t)
    BY <1>1 DEF ClearAt, Clear
  <2>3. \A t : Anchored(t)' <=> Kept(t)
    BY <2>2 DEF Anchored
  <2>4. /\ cursor.before \in Nat /\ now \in Nat /\ cursor.before <= now
        /\ gap.to \in Nat /\ cursor.before <= gap.to
        /\ ClearAt(gap.from) /\ Kept(cursor.before)
    <3>1. phase \in Walking
      BY <1>1 DEF Walking
    <3> QED BY <2>1, <3>1 DEF IInv, StateInv, HubInv, EdgeInv, Span
  <2>5. \A t \in Covered(listed') : Kept(t + 1)
    <3> SUFFICES ASSUME NEW t \in Covered(listed') PROVE Kept(t + 1)
      OBVIOUS
    <3>1. CASE t \in Covered(listed)
      BY <2>1, <3>1 DEF IInv, EdgeInv
    <3>2. CASE t \notin Covered(listed)
      BY <1>2, <2>4, <3>2
    <3> QED BY <3>1, <3>2
  <2>6. \A g \in todo : g.from < g.to /\ g.to <= now /\ ClearAt(g.from) /\ Kept(g.to)
    BY <2>1 DEF IInv, EdgeInv
  <2>7. ASSUME phase' \in Walking
        PROVE  /\ gap.from < cursor'.before /\ cursor'.before <= now
               /\ cursor'.before <= gap.to
               /\ Kept(cursor'.before)
    <3>1. phase' = "ask"
      BY <1>1, <2>7 DEF Walking
    <3>2. cursor'.before \in Nat /\ cursor'.before <= cursor.before
      BY <1>4, <3>1
    <3> QED BY <1>4, <2>4, <3>1, <3>2
  <2> HIDE DEF Kept
  <2>8. (\A t \in Covered(listed) : Anchored(t + 1))'
    BY <2>3, <2>5
  <2>9. (\A g \in todo : g.from < g.to /\ g.to <= now /\ ClearAt(g.from) /\ Anchored(g.to))'
    BY <1>1, <2>2, <2>3, <2>6
  <2>10. (phase \in Walking =>
            /\ gap.from < cursor.before /\ cursor.before <= now
            /\ cursor.before <= gap.to
            /\ ClearAt(gap.from) /\ Anchored(cursor.before))'
    <3>1. ClearAt(gap.from)'
      BY <1>1, <2>4 DEF ClearAt, Clear
    <3>2. ASSUME phase' \in Walking
          PROVE  Anchored(cursor.before)'
      <4>1. cursor'.before \in Covered(listed') \/ ClearAt(cursor'.before)
        BY <2>7, <3>2 DEF Kept
      <4> QED BY <1>1, <4>1 DEF Anchored, ClearAt, Clear
    <3> QED BY <1>1, <2>7, <3>1, <3>2
  <2> QED BY <2>8, <2>9, <2>10 DEF EdgeInv
<1>7. DrainInv'
  <2>1. \A t : Below(t)' = Below(t)
    BY <1>1 DEF Below
  <2> SUFFICES ASSUME phase' \in Walking
               PROVE  \E k \in SUBSET Below(cursor.before)' :
                        Skipped(k)' /\ k \subseteq held'
    BY DEF DrainInv
  <2>2. phase' = "ask"
    BY <1>1 DEF Walking
  <2>3. PICK k \in SUBSET Below(cursor'.before) :
          Take(k, Below(cursor'.before), cursor'.offset) /\ k \subseteq held
    BY <1>4, <2>2
  <2>4. Below(cursor.before)' = Below(cursor'.before)
    BY <1>1 DEF Below
  <2>5. Skipped(k)'
    BY <2>3, <2>4 DEF Skipped, Take, Newest
  <2> QED BY <1>1, <2>3, <2>4, <2>5
<1>8. PageInv'
  BY <1>1 DEF PageInv
<1>9. ClaimInv'
  <2> SUFFICES ASSUME ClearEdges, NEW b \in Build, created[b] \in Covered(listed')
               PROVE  b \in held
    BY <1>1 DEF ClaimInv, ClaimsAreKept
  <2>1. CASE created[b] \in Covered(listed)
    BY <2>1 DEF IInv, ClaimInv, ClaimsAreKept
  <2>2. CASE created[b] \notin Covered(listed)
    <3>1. PICK s \in Claims(page, cursor, gap) : created[b] \in Instants(s)
      BY <1>2, <2>2
    <3> QED BY <1>1, <3>1, ClaimIsSound
  <2> QED BY <2>1, <2>2
<1> QED BY <1>3, <1>5, <1>6, <1>7, <1>8, <1>9 DEF IInv

-----------------------------------------------------------------------------
LEMMA NextInv ==
  IInv /\ [Next]_vars => IInv'
<1> SUFFICES ASSUME IInv, [Next]_vars PROVE IInv'
  OBVIOUS
<1>1. CASE Tick
  BY <1>1, TickInv
<1>2. CASE \E w \in Windows : Begin(w)
  BY <1>2, BeginInv
<1>3. CASE Walk
  BY <1>3, NextGapInv, QuietInv, ClaimStepInv DEF Walk
<1>4. CASE Finish \/ Interrupt
  BY <1>4, QuietInv DEF Finish, Interrupt
<1>5. CASE UNCHANGED vars
  <2>1. /\ created' = created /\ now' = now /\ held' = held /\ listed' = listed
        /\ phase' = phase /\ want' = want /\ todo' = todo
        /\ gap' = gap /\ cursor' = cursor /\ page' = page
    BY <1>5 DEF vars, hub, store, run
  <2>2. \A t : Anchored(t)' <=> Anchored(t)
    BY <2>1 DEF Anchored, ClearAt, Clear, Covered
  <2>3. \A t : ClearAt(t)' <=> ClearAt(t)
    BY <2>1 DEF ClearAt, Clear
  <2>4. Below(cursor.before)' = Below(cursor.before)
    BY <2>1 DEF Below
  <2>5. HubInv' /\ StateInv' /\ ClaimInv'
    BY <2>1 DEF IInv, HubInv, StateInv, ClaimInv, ClaimsAreKept, Ordered
  <2>6. EdgeInv'
    BY <2>1, <2>2, <2>3 DEF IInv, EdgeInv, Walking
  <2>7. DrainInv' /\ PageInv'
    BY <2>1, <2>4 DEF IInv, DrainInv, Skipped, PageInv, IsPage, Take, Newest, Walking
  <2> QED BY <2>5, <2>6, <2>7 DEF IInv
<1> QED BY <1>1, <1>2, <1>3, <1>4, <1>5 DEF Next

THEOREM Invariance == Spec => []IInv
BY InitInv, NextInv, PTL DEF Spec

\* Every reachable state is well typed, whatever windows are asked for: spans,
\* cursors and offsets stay natural numbers and rows are rows of known tasks.
THEOREM TypeCorrect == Spec => []TypeOK
<1>1. IInv => TypeOK
  BY DEF IInv, HubInv, StateInv, TypeOK, Rows, Span
<1> QED BY <1>1, Invariance, PTL

\* Claims are kept: for every hub history with ties and ids out of order by up
\* to Skew, every page size, and any interruption of any run, no task created
\* in a span the store has listed is missing from it, provided windows begin
\* and end at instants no task follows within Skew.
THEOREM ClaimsKept ==
  ASSUME ClearEdges
  PROVE  Spec => []ClaimsAreKept
<1>1. IInv => ClaimsAreKept
  BY DEF IInv, ClaimInv
<1> QED BY <1>1, Invariance, PTL

\* A step that is not Claim leaves coverage as it was.
LEMMA OnlyClaimCovers ==
  ASSUME [Next]_vars
  PROVE  Claim \/ listed' = listed
BY DEF Next, vars, store, Tick, Begin, Walk, NextGap, NoGapLeft, AskPage, PutBuilds,
       Finish, Interrupt, Stop

LEMMA RowsOnlyArrive ==
  ASSUME [Next]_vars
  PROVE  held' = held \/ (phase = "put" /\ PutBuilds)
BY DEF Next, vars, store, Tick, Begin, Walk, NextGap, NoGapLeft, AskPage, PutBuilds,
       Claim, Finish, Interrupt, Stop

\* No step of a sync, and no interruption of one, ever withdraws a row or an
\* instant of coverage, and coverage grows only inside the gap being walked.
THEOREM CreditKept == Spec => CreditIsKept
<1>1. ASSUME IInv, [Next]_vars
      PROVE  /\ held \subseteq held'
             /\ Covered(listed) \subseteq Covered(listed')
             /\ Covered(listed') \ Covered(listed) \subseteq Instants(gap)
  <2>1. held \subseteq held'
    BY <1>1, RowsOnlyArrive DEF PutBuilds
  <2>2. CASE listed' = listed
    BY <2>1, <2>2
  <2>3. CASE Claim
    <3>1. /\ Covered(listed) \subseteq Covered(listed')
          /\ \A t \in Covered(listed') \ Covered(listed) :
               \E s \in Claims(page, cursor, gap) : t \in Instants(s)
      BY <1>1, <2>3, ClaimCovers
    <3>2. ASSUME NEW s \in Claims(page, cursor, gap)
          PROVE  Instants(s) \subseteq Instants(gap)
      <4>1. phase = "claim" /\ cursor.before <= gap.to
        BY <1>1, <2>3 DEF Claim, IInv, EdgeInv, Walking
      <4>2. s \in Rows(now) /\ s.to = cursor.before /\ gap.from <= s.from
        BY <1>1, <4>1, ClaimIsSound
      <4> QED BY <1>1, <4>1, <4>2 DEF Rows, Span, Instants, IInv, StateInv
    <3> QED BY <2>1, <3>1, <3>2
  <2> QED BY <1>1, <2>2, <2>3, OnlyClaimCovers
<1> QED BY <1>1, Invariance, PTL DEF Spec, CreditIsKept

\* The listing implements the ledger: whatever the pages, offsets and crashes,
\* each step of a run is a step the ledger allows or none it can see.
THEOREM ListingImplementsLedger ==
  ASSUME ClearEdges
  PROVE  Spec => ImplementsLedger
<1>1. Init => Ledger!Init
  BY DEF Init, Ledger!Init, Covered
<1>2. ASSUME IInv, [Next]_vars
      PROVE  [Ledger!Next]_(Ledger!vars)
  <2>1. CASE Tick
    <3>1. /\ now' = now + 1 /\ created' = created /\ held' = held
          /\ Covered(listed)' = Covered(listed) /\ now \in Nat
      BY <1>2, <2>1 DEF Tick, store, run, Covered, IInv, HubInv
    <3> QED BY <3>1 DEF Ledger!Next, Ledger!Pass
  <2>2. CASE PutBuilds
    <3>1. /\ held' = held \cup page /\ phase = "put" /\ created' = created
          /\ now' = now /\ Covered(listed)' = Covered(listed)
      BY <2>2 DEF PutBuilds, hub, Covered
    <3>2. page \subseteq {b \in Build : created[b] < now}
      BY <1>2, <3>1 DEF IInv, PageInv, Below
    <3> QED BY <3>1, <3>2 DEF Ledger!Next, Ledger!Hold
  <2>3. CASE Claim
    <3>1. /\ phase = "claim" /\ created' = created /\ now' = now /\ held' = held
          /\ cursor.before \in Nat /\ now \in Nat /\ cursor.before <= now
      BY <1>2, <2>3 DEF Claim, hub, IInv, HubInv, StateInv, EdgeInv, Walking
    <3>2. Covered(listed)' = Covered(listed')
      BY DEF Covered
    <3>3. /\ Covered(listed) \subseteq Covered(listed')
          /\ \A t \in Covered(listed') \ Covered(listed) :
               \E s \in Claims(page, cursor, gap) : t \in Instants(s)
      BY <1>2, <2>3, ClaimCovers
    <3>4. ASSUME NEW s \in Claims(page, cursor, gap), NEW t \in Instants(s)
          PROVE  t < now /\ \A b \in Build : created[b] = t => b \in held
      <4>1. /\ s \in Rows(now)
            /\ \A b \in Build : created[b] \in Instants(s) => b \in held
        BY <1>2, <3>1, ClaimIsSound
      <4>2. t < now
        BY <3>1, <3>4, <4>1 DEF Rows, Span, Instants
      <4> QED BY <3>4, <4>1, <4>2
    <3> QED BY <3>1, <3>2, <3>3, <3>4 DEF Ledger!Next, Ledger!Vouch
  <2>4. CASE ~Tick /\ ~PutBuilds /\ ~Claim
    <3>1. created' = created /\ now' = now /\ held' = held /\ listed' = listed
      BY <1>2, <2>4 DEF Next, vars, hub, store, Begin, Walk, NextGap, NoGapLeft,
            AskPage, Finish, Interrupt, Stop
    <3> QED BY <3>1 DEF Ledger!vars, Covered
  <2> QED BY <2>1, <2>2, <2>3, <2>4
<1> QED BY <1>1, <1>2, Invariance, PTL DEF Spec, ImplementsLedger, Ledger!Spec

-----------------------------------------------------------------------------
(***************************************************************************)
(* KojiListing: a finished walk leaves no gap.                             *)
(***************************************************************************)

\* The hub was in use before the window.
InUse == \E b \in Build : created[b] < want.from

\* The walk stays inside the window.
WithinInv ==
  phase # "idle" =>
    /\ \A g \in todo : want.from <= g.from
    /\ phase \in Walking => want.from <= gap.from

\* The rows the cursor's offset skips are of the gap, so that what lies before
\* it is still to come.
FreshInv ==
  phase \in Walking =>
    \E k \in SUBSET Below(cursor.before) :
      Skipped(k) /\ \A b \in k : gap.from < created[b]

\* What a run has not covered of its window, it has still to walk.
LeftInv ==
  phase # "idle" /\ InUse =>
    \A t \in Instants(want) :
      \/ t \in Covered(listed)
      \/ \E g \in todo : t \in Instants(g)
      \/ phase \in Walking /\ gap.from <= t /\ t < cursor.before

\* The run's own state goes only when it ends.
DoneInv == phase = "listed" => todo = {}

WalkInv == WithinInv /\ FreshInv /\ LeftInv /\ DoneInv

\* A page is empty only when nothing lies below the cursor but what was skipped.
LEMMA PageIsNotEmpty ==
  ASSUME IInv, WalkInv, InUse, phase = "claim"
  PROVE  page # {}
<1> SUFFICES ASSUME page = {} PROVE FALSE
  OBVIOUS
<1> DEFINE all == Below(cursor.before)
<1>1. PICK b \in Build : created[b] < want.from
  BY DEF InUse
<1>2. /\ gap.from \in Nat /\ want.from \in Nat /\ cursor.before \in Nat /\ now \in Nat
      /\ created[b] \in Nat /\ cursor.offset \in Nat
      /\ want.from <= gap.from /\ gap.from < cursor.before /\ cursor.before <= now
  BY DEF IInv, StateInv, HubInv, EdgeInv, Walking, Span, WalkInv, WithinInv
<1>3. b \in all
  BY <1>1, <1>2 DEF Below
<1>4. PICK k \in SUBSET all : Skipped(k) /\ \A a \in k : gap.from < created[a]
  BY DEF WalkInv, FreshInv, Walking
<1>5. PICK l \in SUBSET all : /\ Take(l, all, cursor.offset)
                              /\ Take(page, all \ l, PageSize)
  BY DEF IInv, PageInv, IsPage
<1>6. k = l
  <2>1. all \in SUBSET Build
    BY DEF Below
  <2> QED BY <1>2, <1>4, <1>5, <2>1, TakeUnique DEF Skipped
<1>7. b \notin l
  <2>1. ~ (gap.from < created[b])
    BY <1>1, <1>2
  <2> QED BY <1>4, <1>6, <2>1
<1>8. Cardinality(page) = 0
  BY FS_EmptySet
<1>9. page = all \ l
  BY <1>5, <1>8, PageAssumption DEF Take
<1> QED BY <1>3, <1>7, <1>9

\* What a step of the walk keeps, when it leaves the window and the hub alone.
LEMMA BeginWalk ==
  ASSUME IInv, NEW w \in Windows, Begin(w)
  PROVE  WalkInv'
<1>1. /\ want' = w /\ todo' = Gaps(listed, w) /\ phase' = "next" /\ listed' = listed
      /\ created' = created /\ now \in Nat /\ listed \in SUBSET Rows(now)
  BY DEF Begin, hub, store, IInv, HubInv
<1>2. w \in Span
  BY BeginInv DEF IInv, StateInv, Begin
<1>3. \A g \in Gaps(listed, w) : w.from <= g.from
  <2> SUFFICES ASSUME NEW g \in Gaps(listed, w) PROVE w.from <= g.from
    OBVIOUS
  <2>1. g \in Span /\ g.from < g.to /\ Instants(g) \subseteq Instants(w)
    <3>1. g.from \in {w.from} \cup {s.to : s \in listed}
          /\ g.to \in {w.to} \cup {s.from : s \in listed}
          /\ g = [from |-> g.from, to |-> g.to]
      BY DEF Gaps, GapEnds
    <3>2. g.from \in Nat /\ g.to \in Nat
      BY <1>1, <1>2, <3>1 DEF Rows, Span
    <3> QED BY <3>1, <3>2 DEF Gaps, Span
  <2>2. g.from \in Instants(w)
    BY <2>1 DEF Instants, Span
  <2> QED BY <1>2, <2>2 DEF Instants, Span
<1>4. WithinInv' /\ FreshInv' /\ DoneInv'
  BY <1>1, <1>3 DEF WithinInv, FreshInv, DoneInv, Walking
<1>5. ASSUME NEW t \in Instants(w)
      PROVE  t \in Covered(listed) \/ \E g \in Gaps(listed, w) : t \in Instants(g)
  BY <1>1, <1>2, GapsCover
<1>6. LeftInv'
  BY <1>1, <1>5 DEF LeftInv
<1> QED BY <1>4, <1>6 DEF WalkInv

LEMMA NextGapWalk ==
  ASSUME IInv, WalkInv, NextGap
  PROVE  WalkInv'
<1>1. PICK g \in todo : /\ gap' = g /\ todo' = todo \ {g}
                        /\ cursor' = [before |-> g.to, offset |-> 0]
  BY DEF NextGap
<1>2. /\ phase = "next" /\ phase' = "ask" /\ want' = want /\ created' = created
      /\ listed' = listed /\ now' = now /\ g \in Span
  BY DEF NextGap, hub, store, IInv, StateInv
<1>3. WithinInv'
  BY <1>1, <1>2 DEF WalkInv, WithinInv
<1>4. FreshInv'
  <2>1. Skipped({})'
    BY <1>1, FS_EmptySet DEF Skipped, Take, Newest
  <2> QED BY <2>1 DEF FreshInv
<1>5. LeftInv'
  <2> SUFFICES ASSUME InUse, NEW t \in Instants(want), t \notin Covered(listed)
               PROVE  \/ \E o \in todo' : t \in Instants(o)
                      \/ gap'.from <= t /\ t < cursor'.before
    BY <1>2 DEF LeftInv, InUse, Walking
  <2>1. PICK o \in todo : t \in Instants(o)
    BY <1>2 DEF WalkInv, LeftInv, Walking
  <2>2. CASE o = g
    BY <1>1, <1>2, <2>1, <2>2 DEF Instants, Span
  <2> QED BY <1>1, <2>1, <2>2
<1> QED BY <1>2, <1>3, <1>4, <1>5 DEF WalkInv, DoneInv

LEMMA ClaimWalk ==
  ASSUME IInv, WalkInv, Claim
  PROVE  WalkInv'
<1>1. /\ created' = created /\ now' = now /\ held' = held /\ phase = "claim"
      /\ want' = want /\ todo' = todo /\ gap' = gap
      /\ \/ phase' = "next" /\ cursor' = cursor /\ NextCursors(page, cursor, gap) = {}
         \/ phase' = "ask" /\ cursor' \in NextCursors(page, cursor, gap)
  BY DEF Claim, hub
<1>2. /\ Covered(listed) \subseteq Covered(listed')
      /\ \A s \in Claims(page, cursor, gap) : Instants(s) \subseteq Covered(listed')
  BY ClaimCovers
<1>3. /\ gap \in Span /\ cursor \in [before : Nat, offset : Nat]
      /\ page \in SUBSET Build /\ want \in Span
      /\ page \subseteq Below(cursor.before)
  BY <1>1 DEF IInv, StateInv, PageInv
<1>4. WithinInv' /\ DoneInv'
  BY <1>1 DEF WalkInv, WithinInv, DoneInv, Walking
<1>5. FreshInv'
  <2> SUFFICES ASSUME phase' = "ask"
               PROVE  \E k \in SUBSET Below(cursor'.before) :
                        /\ Take(k, Below(cursor'.before), cursor'.offset)
                        /\ \A b \in k : gap.from < created[b]
    BY <1>1 DEF FreshInv, Skipped, Below, Walking, Take, Newest
  <2>1. cursor' \in NextCursors(page, cursor, gap)
    BY <1>1
  <2>2. page # {} /\ ~FarSide(page, gap)
    BY <2>1 DEF NextCursors
  <2>3. \A b \in page : gap.from < created[b]
    <3> SUFFICES ASSUME NEW b \in page PROVE gap.from < created[b]
      OBVIOUS
    <3> DEFINE times == {created[a] : a \in page}
    <3>1. times \in SUBSET Nat /\ created[b] \in times
      BY <1>3 DEF IInv, HubInv
    <3>2. Min(times) \in Nat /\ Min(times) <= created[b]
      BY <3>1, LeastExists
    <3>3. gap.from < Min(times)
      <4>1. Oldest(page) = Min(times)
        BY DEF Oldest
      <4>2. ~(Min(times) <= gap.from)
        BY <2>2, <4>1 DEF FarSide
      <4> HIDE DEF times
      <4> QED BY <3>2, <4>2, <1>3 DEF Span
    <3> HIDE DEF times
    <3>4. created[b] \in Nat /\ gap.from \in Nat
      BY <3>1, <1>3 DEF Span
    <3> QED BY <3>2, <3>3, <3>4
  <2>4. CASE Crowded(page)
    <3>1. cursor' = [before |-> cursor.before, offset |-> cursor.offset + Cardinality(page)]
      BY <2>1, <2>2, <2>4 DEF NextCursors
    <3>2. PICK k \in SUBSET Below(cursor.before) :
            Skipped(k) /\ \A b \in k : gap.from < created[b]
      BY <1>1 DEF WalkInv, FreshInv, Walking
    <3>3. PICK l \in SUBSET Below(cursor.before) :
            /\ Take(l, Below(cursor.before), cursor.offset)
            /\ Take(page, Below(cursor.before) \ l, PageSize)
      BY <1>1 DEF IInv, PageInv, IsPage
    <3>4. Below(cursor.before) \in SUBSET Build /\ cursor.offset \in Nat
      BY <1>3 DEF Below
    <3>5. k = l
      BY <3>2, <3>3, <3>4, TakeUnique DEF Skipped
    <3>6. Take(l \cup page, Below(cursor.before), cursor.offset + Cardinality(page))
      BY <2>2, <3>3, <3>4, TakeMore
    <3>7. l \cup page \in SUBSET Below(cursor.before)
      BY <1>3
    <3>8. \A b \in l \cup page : gap.from < created[b]
      BY <2>3, <3>2, <3>5
    <3> QED BY <3>1, <3>6, <3>7, <3>8
  <2>5. CASE ~Crowded(page)
    <3>1. cursor' = [before |-> Edge(page), offset |-> 0]
      BY <2>1, <2>2, <2>5 DEF NextCursors
    <3>2. Take({}, Below(cursor'.before), cursor'.offset)
      BY <3>1, FS_EmptySet DEF Take, Newest
    <3> QED BY <3>2
  <2> QED BY <2>4, <2>5
<1>6. LeftInv'
  <2> SUFFICES ASSUME InUse, NEW t \in Instants(want), t \notin Covered(listed'),
                      ~ \E g \in todo : t \in Instants(g)
               PROVE  phase' = "ask" /\ gap.from <= t /\ t < cursor'.before
    BY <1>1 DEF LeftInv, InUse, Walking, Covered
  <2>1. page # {}
    BY <1>1, PageIsNotEmpty
  <2>2. t \in Nat /\ gap.from <= t /\ t < cursor.before
    <3>1. gap.from <= t /\ t < cursor.before
      BY <1>1, <1>2 DEF WalkInv, LeftInv
    <3> QED BY <3>1, <1>3 DEF Instants, Span
  <2>3. Oldest(page) \in Nat /\ Edge(page) \in Nat
    BY <1>3, <2>1, PageExtremes, SkewAssumption DEF IInv, Edge
  <2>4. ~FarSide(page, gap)
    <3> SUFFICES ASSUME FarSide(page, gap) PROVE FALSE
      OBVIOUS
    <3>1. [from |-> gap.from, to |-> cursor.before] \in Claims(page, cursor, gap)
      BY <2>1 DEF Claims
    <3>2. t \in Instants([from |-> gap.from, to |-> cursor.before])
      BY <1>3, <2>2 DEF Instants, Span
    <3> QED BY <1>2, <3>1, <3>2
  <2>5. phase' = "ask" /\ cursor' \in NextCursors(page, cursor, gap)
    BY <1>1, <2>1, <2>4 DEF NextCursors
  <2>6. CASE Crowded(page)
    BY <2>1, <2>2, <2>4, <2>5, <2>6 DEF NextCursors
  <2>7. CASE ~Crowded(page)
    <3>1. cursor' = [before |-> Edge(page), offset |-> 0]
      BY <2>1, <2>4, <2>5, <2>7 DEF NextCursors
    <3>2. gap.from < Edge(page)
      BY <1>3, <2>3, <2>4, SkewAssumption DEF FarSide, Edge, Span
    <3>3. t < Edge(page)
      <4> SUFFICES ASSUME Edge(page) <= t PROVE FALSE
        BY <2>2, <2>3
      <4>1. Max({Edge(page), gap.from}) = Edge(page)
        <5>1. \A m \in {Edge(page), gap.from} :
                (\A y \in {Edge(page), gap.from} : m >= y) => m = Edge(page)
          BY <1>3, <2>3, <3>2 DEF Span
        <5>2. \A y \in {Edge(page), gap.from} : Edge(page) >= y
          BY <1>3, <2>3, <3>2 DEF Span
        <5> QED BY <5>1, <5>2 DEF Max
      <4>2. cursor.before > Edge(page)
        BY <1>3, <2>2, <2>3
      <4>3. [from |-> Edge(page), to |-> cursor.before] \in Claims(page, cursor, gap)
        BY <2>1, <2>4, <4>1, <4>2 DEF Claims
      <4>4. t \in Instants([from |-> Edge(page), to |-> cursor.before])
        BY <1>3, <2>2, <2>3 DEF Instants
      <4> QED BY <1>2, <4>3, <4>4
    <3> QED BY <2>2, <2>5, <3>1, <3>3
  <2> QED BY <2>6, <2>7
<1> QED BY <1>4, <1>5, <1>6 DEF WalkInv

LEMMA OtherWalk ==
  ASSUME IInv, WalkInv, NoGapLeft \/ AskPage \/ PutBuilds \/ Stop \/ UNCHANGED vars
  PROVE  WalkInv'
<1>1. created' = created /\ now' = now /\ listed' = listed
  BY DEF NoGapLeft, AskPage, PutBuilds, Stop, vars, hub, store
<1>2. CASE Stop
  BY <1>2 DEF Stop, WalkInv, WithinInv, FreshInv, LeftInv, DoneInv, Walking
<1>3. CASE ~Stop
  <2>1. /\ want' = want /\ todo' = todo /\ gap' = gap /\ cursor' = cursor
        /\ (phase' = "idle") = (phase = "idle")
        /\ (phase' \in Walking) = (phase \in Walking)
        /\ phase' = "listed" => todo = {}
    BY <1>3 DEF NoGapLeft, AskPage, PutBuilds, vars, run, Walking, WalkInv, DoneInv
  <2>2. WithinInv' /\ LeftInv' /\ DoneInv'
    BY <1>1, <2>1 DEF WalkInv, WithinInv, LeftInv, DoneInv, InUse
  <2>3. FreshInv'
    <3>1. Below(cursor.before)' = Below(cursor.before)
      BY <1>1, <2>1 DEF Below
    <3>2. \A k : Skipped(k)' = Skipped(k)
      BY <2>1, <3>1 DEF Skipped, Take, Newest
    <3> QED BY <1>1, <2>1, <3>1, <3>2 DEF WalkInv, FreshInv
  <2> QED BY <2>2, <2>3 DEF WalkInv
<1> QED BY <1>2, <1>3

LEMMA TickWalk ==
  ASSUME IInv, WalkInv, Tick
  PROVE  WalkInv'
<1>1. /\ created' = created /\ listed' = listed /\ phase' = phase /\ want' = want
      /\ todo' = todo /\ gap' = gap /\ cursor' = cursor /\ now \in Nat /\ now' = now + 1
  BY DEF Tick, store, run, IInv, HubInv
<1>2. WithinInv' /\ LeftInv' /\ DoneInv'
  BY <1>1 DEF WalkInv, WithinInv, LeftInv, DoneInv, InUse
<1>3. FreshInv'
  <2> SUFFICES ASSUME phase \in Walking
               PROVE  (\E k \in SUBSET Below(cursor.before) :
                         Skipped(k) /\ \A b \in k : gap.from < created[b])'
    BY <1>1 DEF FreshInv
  <2>1. /\ cursor.before \in Nat /\ cursor.before <= now
        /\ \A b \in Build : created[b] \in Nat
    BY DEF IInv, StateInv, HubInv, EdgeInv
  <2>2. Below(cursor.before)' = Below(cursor.before)
    BY <1>1, <2>1 DEF Below
  <2>3. \A k : Skipped(k)' = Skipped(k)
    BY <1>1, <2>2 DEF Skipped, Take, Newest
  <2> QED BY <1>1, <2>2, <2>3 DEF WalkInv, FreshInv
<1> QED BY <1>2, <1>3 DEF WalkInv

LEMMA InitWalk ==
  Init => WalkInv
BY DEF Init, WalkInv, WithinInv, FreshInv, LeftInv, DoneInv, Walking

LEMMA NextWalk ==
  IInv /\ WalkInv /\ [Next]_vars => WalkInv'
<1> SUFFICES ASSUME IInv, WalkInv, [Next]_vars PROVE WalkInv'
  OBVIOUS
<1>1. CASE Tick
  BY <1>1, TickWalk
<1>2. CASE \E w \in Windows : Begin(w)
  BY <1>2, BeginWalk
<1>3. CASE Walk
  BY <1>3, NextGapWalk, ClaimWalk, OtherWalk DEF Walk
<1>4. CASE Finish \/ Interrupt \/ UNCHANGED vars
  BY <1>4, OtherWalk DEF Finish, Interrupt
<1> QED BY <1>1, <1>2, <1>3, <1>4 DEF Next

LEMMA WalkInvariance == Spec => [](IInv /\ WalkInv)
BY InitInv, NextInv, InitWalk, NextWalk, PTL DEF Spec

\* A window whose instants are all covered has no gap.
LEMMA CoveredHasNoGap ==
  ASSUME IInv, Instants(want) \subseteq Covered(listed)
  PROVE  Gaps(listed, want) = {}
<1> SUFFICES ASSUME NEW g \in Gaps(listed, want) PROVE FALSE
  OBVIOUS
<1>1. now \in Nat /\ listed \in SUBSET Rows(now) /\ want \in Span
  BY DEF IInv, HubInv, StateInv
<1>2. /\ g \in Span /\ g.from < g.to /\ Instants(g) \cap Covered(listed) = {}
      /\ want.from <= g.from /\ g.to <= want.to
  BY <1>1, GapsBounds
<1>3. g.from \in Instants(g) /\ g.from \in Instants(want)
  BY <1>1, <1>2 DEF Instants, Span
<1> QED BY <1>2, <1>3

\* A listing that reached its end has listed its whole window, whatever the
\* pages, ties and skew, on a hub that was in use before the window: every page
\* then holds a task, and the claims of one gap leave nothing between them.
THEOREM FinishedIsWhole == Spec => []FinishedLeavesNoGap
<1>1. IInv /\ WalkInv => FinishedLeavesNoGap
  <2> SUFFICES ASSUME IInv, WalkInv, phase = "listed", InUse
               PROVE  Gaps(listed, want) = {}
    BY DEF FinishedLeavesNoGap, InUse
  <2>1. Instants(want) \subseteq Covered(listed)
    BY DEF WalkInv, LeftInv, DoneInv, Walking
  <2> QED BY <2>1, CoveredHasNoGap
<1> QED BY <1>1, WalkInvariance, PTL
=============================================================================
