-------------------------- MODULE BuildOrderProofs --------------------------
(***************************************************************************)
(* The properties of BuildOrder, proved for any packages, any branch and   *)
(* any order of visit.                                                     *)
(*                                                                         *)
(* Reached(g) is taken as what it computes: of the sets that hold a        *)
(* package and what is led to from them, the least (ReachedIsLeast).       *)
(* SearchInv is the invariant of strongconnect, kept by each of its steps  *)
(* (EnterKeeps, LookKeeps, ReturnKeeps); at its end the components known   *)
(* are those of reachability (SearchEnds).  Then some package is always    *)
(* ready (SomeAreReady), so that the rounds take every one.                *)
(***************************************************************************)
EXTENDS BuildOrder, SequenceTheorems, FiniteSetTheorems, WellFoundedInduction, TLAPS
-----------------------------------------------------------------------------
(* Recursion over the naturals *)

\* < on the naturals as a relation, which is what WFMin speaks of.
Less == {p \in Nat \X Nat : p[1] < p[2]}

\* A set of naturals that is not empty has a least.
LEMMA LeastExists ==
  ASSUME NEW S \in SUBSET Nat, S # {}
  PROVE  \E m \in S : \A n \in S : m <= n
<1>1. IsWellFoundedOn(Less, Nat)
  <2>1. OpToRel(<, Nat) = Less
    BY Zenon DEF OpToRel, Less
  <2> QED BY <2>1, NatLessThanWellFounded, Zenon
<1>2. PICK m \in S : \A n \in S : ~ (<<n, m>> \in Less)
  BY <1>1, WFMin, Zenon
<1>3. \A n \in S : m <= n
  <2> SUFFICES ASSUME NEW n \in S, n < m PROVE FALSE
    BY SMT
  <2>1. <<n, m>> \in Less
    BY SMT DEF Less
  <2> QED BY <1>2, <2>1, Zenon
<1> QED BY <1>3

\* A step given by a function has a function that takes it up to any number.
Takes(f, a, F, m) == f[0] = a /\ \A n \in 1..m : f[n] = F[n][f[n - 1]]

LEMMA Recursion ==
  ASSUME NEW X, NEW a \in X, NEW F \in [Nat -> [X -> X]], NEW N \in Nat
  PROVE  \E f \in [0..N -> X] : Takes(f, a, F, N)
<1> DEFINE Bad == {m \in Nat : ~ \E f \in [0..m -> X] : Takes(f, a, F, m)}
<1> SUFFICES ASSUME N \in Bad PROVE FALSE
  OBVIOUS
<1>1. PICK m \in Bad : \A n \in Bad : m <= n
  <2>1. Bad \in SUBSET Nat /\ Bad # {} OBVIOUS
  <2> HIDE DEF Bad
  <2> QED BY <2>1, LeastExists
<1>2. m \in Nat /\ ~ \E f \in [0..m -> X] : Takes(f, a, F, m)
  BY <1>1
<1>3. m # 0
  <2> SUFFICES ASSUME m = 0 PROVE FALSE OBVIOUS
  <2> DEFINE z == [n \in 0..m |-> a]
  <2>1. z \in [0..m -> X] /\ Takes(z, a, F, m) BY DEF Takes
  <2> QED BY <2>1, <1>2
<1>4. m - 1 \in Nat /\ m - 1 \notin Bad
  <2> HIDE DEF Bad
  <2> QED BY <1>1, <1>2, <1>3
<1>5. PICK f \in [0..(m - 1) -> X] : Takes(f, a, F, m - 1)
  BY <1>4
<1> DEFINE g == [n \in 0..m |-> IF n = m THEN F[m][f[m - 1]] ELSE f[n]]
<1>6. \A n \in 0..m : n # m => n \in 0..(m - 1)
  BY <1>2
<1>7. g \in [0..m -> X]
  <2>1. f[m - 1] \in X BY <1>4, <1>5
  <2>2. F[m][f[m - 1]] \in X BY <2>1, <1>2
  <2> QED BY <2>2, <1>6, <1>5
<1>8. Takes(g, a, F, m)
  <2>1. g[0] = a BY <1>2, <1>3, <1>5 DEF Takes
  <2>2. ASSUME NEW n \in 1..m PROVE g[n] = F[n][g[n - 1]]
    <3>1. n \in 0..m /\ n - 1 \in 0..m /\ n - 1 # m /\ n - 1 \in 0..(m - 1) BY <1>2
    <3>2. g[n - 1] = f[n - 1] BY <3>1
    <3>3. CASE n = m BY <3>1, <3>2, <3>3
    <3>4. CASE n # m
      <4>1. n \in 1..(m - 1) BY <3>4, <1>2
      <4> QED BY <4>1, <3>1, <3>2, <3>4, <1>5 DEF Takes
    <3> QED BY <3>3, <3>4
  <2> QED BY <2>1, <2>2 DEF Takes
<1> QED BY <1>2, <1>7, <1>8

-----------------------------------------------------------------------------
(* Reachability *)

Successors(g, S) == UNION {g[q] : q \in S \cap DOMAIN g}
ReachStep(g, f, n) ==
  IF n = 0 THEN [p \in DOMAIN g |-> {p}]
  ELSE [p \in DOMAIN g |-> f[n - 1][p] \cup Successors(g, f[n - 1][p])]

\* What Reached(g) computes, step by step: the function it is defined by exists.
LEMMA ReachedUnfolds ==
  ASSUME NEW g, Cardinality(DOMAIN g) \in Nat
  PROVE  LET N == Cardinality(DOMAIN g)
         IN  \E f : /\ \A p \in DOMAIN g : f[0][p] = {p}
                    /\ \A n \in 1..N : \A p \in DOMAIN g :
                         f[n][p] = f[n - 1][p] \cup Successors(g, f[n - 1][p])
                    /\ Reached(g) = f[N]
<1> DEFINE N == Cardinality(DOMAIN g)
           U == DOMAIN g \cup Successors(g, DOMAIN g)
           X == [DOMAIN g -> SUBSET U]
           a == [p \in DOMAIN g |-> {p}]
           More(r) == [p \in DOMAIN g |-> r[p] \cup Successors(g, r[p])]
           F == [n \in Nat |-> [r \in X |-> More(r)]]
           Solves(f) == f = [n \in 0..N |-> ReachStep(g, f, n)]
<1>1. a \in X
  OBVIOUS
<1>2. \A r \in X : More(r) \in X
  <2> SUFFICES ASSUME NEW r \in X, NEW p \in DOMAIN g
               PROVE  r[p] \cup Successors(g, r[p]) \subseteq U
    OBVIOUS
  <2>1. r[p] \subseteq U OBVIOUS
  <2>2. Successors(g, r[p]) \subseteq Successors(g, DOMAIN g) BY DEF Successors
  <2> QED BY <2>1, <2>2
<1>3. F \in [Nat -> [X -> X]]
  <2> HIDE DEF More, X
  <2> QED BY <1>2
<1>4. PICK f \in [0..N -> X] : Takes(f, a, F, N)
  <2> HIDE DEF F, X, a, N
  <2>1. N \in Nat BY DEF N
  <2> QED BY <1>1, <1>3, <2>1, Recursion, Zenon
<1>5. \A n \in 1..N : f[n] = More(f[n - 1])
  <2> SUFFICES ASSUME NEW n \in 1..N PROVE f[n] = More(f[n - 1]) OBVIOUS
  <2>1. n \in Nat /\ n - 1 \in 0..N OBVIOUS
  <2>2. f[n - 1] \in X BY <2>1, <1>4
  <2> HIDE DEF X, More
  <2> QED BY <1>4, <2>1, <2>2 DEF Takes
<1>6. Solves(f)
  <2>1. ASSUME NEW n \in 0..N PROVE f[n] = ReachStep(g, f, n)
    <3>1. CASE n = 0 BY <3>1, <1>4 DEF ReachStep, Takes
    <3>2. CASE n # 0
      <4>1. n \in 1..N BY <3>2
      <4> QED BY <4>1, <3>2, <1>5 DEF ReachStep
    <3> QED BY <3>1, <3>2
  <2> HIDE DEF X
  <2> QED BY <1>4, <2>1
<1>7. PICK h : h = CHOOSE k : Solves(k)
  OBVIOUS
<1>8. Solves(h)
  <2> HIDE DEF Solves
  <2> QED BY <1>6, <1>7, Zenon
<1>9. Reached(g) = h[N]
  <2>1. h = CHOOSE k : k = [n \in 0..Cardinality(DOMAIN g) |->
              IF n = 0 THEN [p \in DOMAIN g |-> {p}]
              ELSE [p \in DOMAIN g |->
                      k[n - 1][p] \cup UNION {g[q] : q \in k[n - 1][p] \cap DOMAIN g}]]
    BY <1>7, Zenon DEF ReachStep, Successors
  <2> QED BY <2>1, Zenon DEF Reached
<1>10. \A n \in 0..N : h[n] = ReachStep(g, h, n)
  <2> HIDE DEF ReachStep, N
  <2> QED BY <1>8
<1>11. /\ \A p \in DOMAIN g : h[0][p] = {p}
       /\ \A n \in 1..N : \A p \in DOMAIN g :
            h[n][p] = h[n - 1][p] \cup Successors(g, h[n - 1][p])
  <2>1. 0 \in 0..N /\ \A n \in 1..N : n \in 0..N /\ n # 0 OBVIOUS
  <2>2. h[0] = [p \in DOMAIN g |-> {p}] BY <2>1, <1>10 DEF ReachStep
  <2>3. ASSUME NEW n \in 1..N PROVE h[n] = More(h[n - 1])
    <3>1. h[n] = ReachStep(g, h, n) BY <2>1, <1>10
    <3> QED BY <3>1, <2>1 DEF ReachStep
  <2> QED BY <2>2, <2>3
<1> QED BY <1>9, <1>11

ClosedUnder(g, S) == Successors(g, S) \subseteq S

\* What a package reaches holds it, what those in it lead to, and nothing else.
LEMMA ReachedIsLeast ==
  ASSUME NEW g, IsFiniteSet(DOMAIN g), NEW p \in DOMAIN g
  PROVE  /\ p \in Reached(g)[p] /\ ClosedUnder(g, Reached(g)[p])
         /\ \A S : p \in S /\ ClosedUnder(g, S) => Reached(g)[p] \subseteq S
<1> DEFINE D == DOMAIN g
           N == Cardinality(D)
<1>1. N \in Nat
  BY FS_CardinalityType
<1>2. PICK f : /\ \A q \in D : f[0][q] = {q}
               /\ \A n \in 1..N : \A q \in D :
                    f[n][q] = f[n - 1][q] \cup Successors(g, f[n - 1][q])
               /\ Reached(g) = f[N]
  BY <1>1, ReachedUnfolds
<1> DEFINE r(n) == f[n][p]
<1>3. r(0) = {p} /\ \A n \in 1..N : r(n) = r(n - 1) \cup Successors(g, r(n - 1))
  BY <1>2
<1>4. r(N) = Reached(g)[p]
  BY <1>2
<1> HIDE DEF r, D
<1>5. \A n \in 0..N : p \in r(n)
  <2> DEFINE Bad == {n \in 0..N : p \notin r(n)}
  <2> SUFFICES ASSUME Bad # {} PROVE FALSE OBVIOUS
  <2>1. PICK n \in Bad : \A m \in Bad : n <= m
    <3>1. Bad \in SUBSET Nat BY <1>1
    <3> HIDE DEF Bad
    <3> QED BY <3>1, LeastExists
  <2>2. n # 0 BY <1>3, <2>1
  <2>3. n \in 1..N /\ n - 1 \in 0..N /\ n - 1 \notin Bad BY <1>1, <2>1, <2>2
  <2> QED BY <1>3, <2>1, <2>3
<1>6. ASSUME NEW S, p \in S, ClosedUnder(g, S), NEW k \in 0..N PROVE r(k) \subseteq S
  <2> DEFINE Bad == {n \in 0..N : ~ (r(n) \subseteq S)}
  <2> SUFFICES ASSUME Bad # {} PROVE FALSE OBVIOUS
  <2>1. PICK n \in Bad : \A m \in Bad : n <= m
    <3>1. Bad \in SUBSET Nat BY <1>1
    <3> HIDE DEF Bad
    <3> QED BY <3>1, LeastExists
  <2>2. n # 0 BY <1>3, <1>6, <2>1
  <2>3. n \in 1..N /\ n - 1 \in 0..N /\ n - 1 \notin Bad BY <1>1, <2>1, <2>2
  <2>4. r(n - 1) \subseteq S BY <2>3
  <2>5. Successors(g, r(n - 1)) \subseteq Successors(g, S) BY <2>4 DEF Successors
  <2> QED BY <1>3, <1>6, <2>1, <2>3, <2>4, <2>5 DEF ClosedUnder
\* Until it is closed, it holds one more of the graph's with every step.
<1>7. ASSUME NEW k \in 0..N
      PROVE  ClosedUnder(g, r(k)) \/ Cardinality(r(k) \cap D) >= k + 1
  <2> DEFINE Grown(n) == ClosedUnder(g, r(n)) \/ Cardinality(r(n) \cap D) >= n + 1
             Bad == {n \in 0..N : ~ Grown(n)}
  <2> SUFFICES ASSUME Bad # {} PROVE FALSE OBVIOUS
  <2>1. PICK n \in Bad : \A m \in Bad : n <= m
    <3>1. Bad \in SUBSET Nat BY <1>1
    <3> HIDE DEF Bad
    <3> QED BY <3>1, LeastExists
  <2>2. n # 0
    <3> SUFFICES ASSUME n = 0 PROVE FALSE OBVIOUS
    <3>1. r(0) \cap D = {p} BY <1>3 DEF D
    <3>2. Cardinality({p}) = 1 BY FS_Singleton
    <3> QED BY <2>1, <3>1, <3>2
  <2>3. n \in 1..N /\ n - 1 \in 0..N /\ n - 1 \notin Bad /\ n \in Nat BY <1>1, <2>1, <2>2
  <2>4. ~ ClosedUnder(g, r(n)) /\ ~ (Cardinality(r(n) \cap D) >= n + 1)
    BY <2>1
  <2>5. r(n) = r(n - 1) \cup Successors(g, r(n - 1))
    BY <1>3, <2>3
  <2>6. ~ ClosedUnder(g, r(n - 1))
    <3> SUFFICES ASSUME ClosedUnder(g, r(n - 1)) PROVE FALSE OBVIOUS
    <3>1. r(n) = r(n - 1) BY <2>5 DEF ClosedUnder
    <3> QED BY <2>4, <3>1
  <2>7. Cardinality(r(n - 1) \cap D) >= n
    <3>1. Grown(n - 1) BY <2>3
    <3> QED BY <2>3, <2>6, <3>1
  <2>8. r(n) \cap D # r(n - 1) \cap D
    <3> SUFFICES ASSUME r(n) \cap D = r(n - 1) \cap D PROVE FALSE OBVIOUS
    <3>1. Successors(g, r(n)) = Successors(g, r(n - 1)) BY DEF Successors, D
    <3> QED BY <2>4, <2>5, <3>1 DEF ClosedUnder
  <2>9. /\ IsFiniteSet(r(n) \cap D) /\ r(n - 1) \cap D \subseteq r(n) \cap D
        /\ IsFiniteSet(r(n - 1) \cap D)
    BY <2>5, FS_Intersection DEF D
  <2>10. /\ Cardinality(r(n) \cap D) \in Nat /\ Cardinality(r(n - 1) \cap D) \in Nat
         /\ Cardinality(r(n - 1) \cap D) <= Cardinality(r(n) \cap D)
         /\ Cardinality(r(n - 1) \cap D) # Cardinality(r(n) \cap D)
    BY <2>8, <2>9, FS_Subset, FS_CardinalityType
  <2> QED BY <2>3, <2>4, <2>7, <2>10
<1>8. ClosedUnder(g, r(N))
  <2> SUFFICES ASSUME Cardinality(r(N) \cap D) >= N + 1 PROVE FALSE
    BY <1>1, <1>7
  <2>1. Cardinality(r(N) \cap D) <= N /\ Cardinality(r(N) \cap D) \in Nat
    BY FS_Intersection, FS_CardinalityType DEF D
  <2> QED BY <1>1, <2>1
<1>9. N \in 0..N
  BY <1>1
<1> QED BY <1>4, <1>5, <1>6, <1>8, <1>9
-----------------------------------------------------------------------------
(* The search for cycles.  Of the packages looked at, some are on the stack *)
(* and the others in a component that is known; of those on the stack, some *)
(* have their call of strongconnect under way.                              *)

\* The graph: finite, whole, and nothing waits for itself.
GraphInv ==
  /\ IsFiniteSet(DOMAIN edges)
  /\ \A p \in DOMAIN edges : edges[p] \subseteq DOMAIN edges \ {p}

OnStack == ToSet(stack)
Known   == UNION sccs
Leads(p, q) == q \in Reached(edges)[p]

SearchTypes ==
  /\ DOMAIN index = OnStack \cup Known /\ DOMAIN lowlink = DOMAIN index
  /\ DOMAIN index \subseteq DOMAIN edges /\ OnStack \cap Known = {}
  /\ \A v \in DOMAIN index : /\ index[v] \in Nat /\ lowlink[v] \in Nat
                             /\ index[v] < Cardinality(DOMAIN index)
  /\ stack \in Seq(DOMAIN edges)
  /\ calls \in Seq([of : DOMAIN edges, deps : SUBSET DOMAIN edges])
  /\ sccs \subseteq SUBSET DOMAIN edges

\* The stack is in the order of arrival, and so are the calls.
InOrder ==
  /\ \A i, j \in DOMAIN stack : i < j => index[stack[i]] < index[stack[j]]
  /\ \A i \in DOMAIN calls : calls[i].of \in OnStack
  /\ \A i, j \in DOMAIN calls : i < j => index[calls[i].of] < index[calls[j].of]

\* Of what a package on the stack waits for, what was not looked at yet is still
\* to be, by its call; a known component waits for known ones.
NothingSkipped ==
  /\ \A v \in OnStack : \A d \in edges[v] \ DOMAIN index :
       \E i \in DOMAIN calls : calls[i].of = v /\ d \in calls[i].deps
  /\ \A v \in Known : edges[v] \subseteq Known
  /\ \A i \in DOMAIN calls : calls[i].deps \subseteq edges[calls[i].of]

\* A call's package leads to whatever is above it on the stack, and whatever is
\* on the stack leads to the package of a call that is not above it.
StackLeads ==
  /\ \A i \in DOMAIN calls : \A x \in OnStack :
       index[calls[i].of] <= index[x] => Leads(calls[i].of, x)
  /\ \A x \in OnStack : \E i \in DOMAIN calls :
       index[calls[i].of] <= index[x] /\ Leads(x, calls[i].of)

\* x came since the i-th call began and before the next one did.
Under(i, x) ==
  /\ index[calls[i].of] <= index[x]
  /\ i + 1 \in DOMAIN calls => index[x] < index[calls[i + 1].of]

\* The lowlink of a call's package is that of a package on the stack that it
\* leads to, and as low as any that those under it wait for.
LowIsReached ==
  \A i \in DOMAIN calls :
    /\ lowlink[calls[i].of] <= index[calls[i].of]
    /\ \E w \in OnStack : index[w] = lowlink[calls[i].of] /\ Leads(calls[i].of, w)

LowIsLowest ==
  \A i \in DOMAIN calls : \A x \in OnStack : \A y \in edges[x] \cap OnStack :
    Under(i, x) /\ ~(x = calls[i].of /\ y \in calls[i].deps)
      => lowlink[calls[i].of] <= index[y]

\* The components known are those of the graph.
KnownAreComponents ==
  \A c \in sccs : \A p \in c : \A q \in DOMAIN edges :
    q \in c <=> Leads(p, q) /\ Leads(q, p)

SearchInv ==
  /\ SearchTypes /\ InOrder /\ NothingSkipped /\ StackLeads
  /\ LowIsReached /\ LowIsLowest /\ KnownAreComponents

-----------------------------------------------------------------------------
(* Leading to *)

\* Leading to is reflexive, transitive and stays within the graph.
LEMMA LeadsIs ==
  ASSUME GraphInv
  PROVE  /\ \A p \in DOMAIN edges : Leads(p, p)
         /\ \A p \in DOMAIN edges : \A q : Leads(p, q) => q \in DOMAIN edges
         /\ \A p, q \in DOMAIN edges : \A d \in edges[q] : Leads(p, q) => Leads(p, d)
         /\ \A p, q, r \in DOMAIN edges : Leads(p, q) /\ Leads(q, r) => Leads(p, r)
<1> DEFINE R(p) == Reached(edges)[p]
<1>1. \A p \in DOMAIN edges :
        /\ p \in R(p) /\ ClosedUnder(edges, R(p))
        /\ \A S : p \in S /\ ClosedUnder(edges, S) => R(p) \subseteq S
  BY ReachedIsLeast DEF GraphInv
<1>2. ClosedUnder(edges, DOMAIN edges)
  BY DEF ClosedUnder, Successors, GraphInv
<1>3. \A p, q \in DOMAIN edges : q \in R(p) => edges[q] \subseteq R(p)
  BY <1>1 DEF ClosedUnder, Successors
<1> HIDE DEF R
<1>4. ASSUME NEW p \in DOMAIN edges, NEW q \in DOMAIN edges, q \in R(p)
      PROVE  R(q) \subseteq R(p)
  <2>1. ClosedUnder(edges, R(p)) BY <1>1
  <2> QED BY <1>1, <1>4, <2>1
<1>5. \A p \in DOMAIN edges : p \in R(p) /\ R(p) \subseteq DOMAIN edges
  BY <1>1, <1>2
<1>6. \A p, q : Leads(p, q) <=> q \in R(p)
  BY DEF Leads, R
<1> QED BY <1>3, <1>4, <1>5, <1>6

\* What is closed holds all that a package of it leads to.
LEMMA LeadsWithin ==
  ASSUME GraphInv, NEW S \in SUBSET DOMAIN edges, \A p \in S : edges[p] \subseteq S,
         NEW p \in S, NEW q, Leads(p, q)
  PROVE  q \in S
<1>1. ClosedUnder(edges, S)
  BY DEF ClosedUnder, Successors
<1>2. Reached(edges)[p] \subseteq S
  BY <1>1, ReachedIsLeast DEF GraphInv
<1> QED BY <1>2 DEF Leads

LEMMA SameLeads ==
  ASSUME UNCHANGED edges
  PROVE  \A p, q : Leads(p, q)' <=> Leads(p, q)
BY DEF Leads, Reached

LEMMA MinOfTwo == \A m, n \in Int : Min({m, n}) = IF m <= n THEN m ELSE n
BY DEF Min

-----------------------------------------------------------------------------
(* A call of strongconnect begins *)

\* The first half of strongconnect, from Start or from Look.
LEMMA EnterKeeps ==
  ASSUME GraphInv, SearchInv, UNCHANGED edges,
         NEW v \in DOMAIN edges \ DOMAIN index,
         NEW outer \in Seq([of : DOMAIN edges, deps : SUBSET DOMAIN edges]),
         Len(outer) = Len(calls),
         \A i \in DOMAIN calls :
           /\ outer[i].of = calls[i].of /\ outer[i].deps \subseteq calls[i].deps
           /\ calls[i].deps \ {v} \subseteq outer[i].deps,
         calls # <<>> => v \in edges[calls[Len(calls)].of],
         Enter(v, outer)
  PROVE  SearchInv'
<1> DEFINE E == DOMAIN edges
           L == Len(calls)
           n == Cardinality(DOMAIN index)
           of(i) == calls[i].of
<1>1. /\ DOMAIN index = OnStack \cup Known /\ DOMAIN lowlink = DOMAIN index
      /\ DOMAIN index \subseteq E /\ OnStack \cap Known = {}
      /\ \A x \in DOMAIN index : index[x] \in Nat /\ lowlink[x] \in Nat /\ index[x] < n
      /\ stack \in Seq(E) /\ calls \in Seq([of : E, deps : SUBSET E])
      /\ sccs \subseteq SUBSET E
  BY DEF SearchInv, SearchTypes
<1>2. L \in Nat /\ DOMAIN calls = 1..L /\ DOMAIN outer = 1..L /\ DOMAIN stack = 1..Len(stack)
      /\ Len(stack) \in Nat
  BY <1>1, LenProperties
<1>3. IsFiniteSet(DOMAIN index) /\ n \in Nat /\ Cardinality(DOMAIN index \cup {v}) = n + 1
  BY <1>1, FS_Subset, FS_CardinalityType, FS_AddElement DEF GraphInv
<1>4. /\ index' = With(index, v, n) /\ lowlink' = With(lowlink, v, n) /\ sccs' = sccs
      /\ stack' = Append(stack, v)
      /\ calls' = Append(outer, [of |-> v, deps |-> edges[v] \cap E])
  BY DEF Enter
<1>5. /\ DOMAIN index' = DOMAIN index \cup {v} /\ index'[v] = n
      /\ \A x \in DOMAIN index : index'[x] = index[x] /\ x # v
      /\ DOMAIN lowlink' = DOMAIN index \cup {v} /\ lowlink'[v] = n
      /\ \A x \in DOMAIN index : lowlink'[x] = lowlink[x]
  BY <1>1, <1>4 DEF With
<1>6. /\ stack' \in Seq(E) /\ DOMAIN stack' = 1..Len(stack) + 1
      /\ stack'[Len(stack) + 1] = v /\ \A i \in 1..Len(stack) : stack'[i] = stack[i]
  BY <1>1, <1>2, <1>4
<1>7. OnStack' = OnStack \cup {v}
  BY <1>2, <1>6 DEF OnStack, ToSet
<1>8. edges[v] \subseteq E /\ edges[v] \cap E = edges[v]
  BY DEF GraphInv
<1>9. /\ calls' \in Seq([of : E, deps : SUBSET E]) /\ DOMAIN calls' = 1..L + 1
      /\ calls'[L + 1].of = v /\ calls'[L + 1].deps = edges[v]
      /\ \A i \in 1..L : calls'[i].of = of(i) /\ calls'[i].deps = outer[i].deps
  <2> DEFINE call == [of |-> v, deps |-> edges[v]]
             C == [of : E, deps : SUBSET E]
  <2>1. call \in C /\ call.of = v /\ call.deps = edges[v] BY <1>8
  <2>2. calls' = Append(outer, call) BY <1>4, <1>8
  <2> HIDE DEF call, C
  <2>3. outer \in Seq(C) BY DEF C
  <2>4. /\ calls' \in Seq(C) /\ Len(calls') = L + 1 /\ calls'[L + 1] = call
        /\ \A i \in 1..L : calls'[i] = outer[i]
    BY <1>2, <2>1, <2>2, <2>3, AppendProperties
  <2>5. DOMAIN calls' = 1..L + 1 BY <1>2, <2>4, LenProperties
  <2>6. calls' \in Seq([of : E, deps : SUBSET E]) BY <2>4 DEF C
  <2> QED BY <1>2, <2>1, <2>4, <2>5, <2>6
<1>10. Known' = Known
  BY <1>4 DEF Known
<1>11. \A i \in 1..L : of(i) \in OnStack /\ of(i) \in DOMAIN index /\ of(i) \in E
  BY <1>1, <1>2 DEF SearchInv, InOrder
<1>12. \A x \in OnStack : x \in DOMAIN index /\ x # v /\ x \in E
  BY <1>1
<1>13. v \notin Known
  BY <1>1
<1> HIDE DEF E, L, n, of
<1>14. SearchTypes'
  <2>1. DOMAIN edges' = E BY DEF E
  <2>2. \A x \in DOMAIN index' : /\ index'[x] \in Nat /\ lowlink'[x] \in Nat
                                 /\ index'[x] < Cardinality(DOMAIN index')
    BY <1>1, <1>3, <1>5
  <2>3. v \in E BY DEF E
  <2>4. /\ DOMAIN index' = OnStack' \cup Known' /\ DOMAIN lowlink' = DOMAIN index'
        /\ DOMAIN index' \subseteq E /\ OnStack' \cap Known' = {}
    BY <1>1, <1>5, <1>7, <1>10, <1>13, <2>3
  <2>5. sccs' \subseteq SUBSET E BY <1>1, <1>4
  <2>6. /\ stack' \in Seq(DOMAIN edges') /\ sccs' \subseteq SUBSET DOMAIN edges'
        /\ calls' \in Seq([of : DOMAIN edges', deps : SUBSET DOMAIN edges'])
        /\ DOMAIN index' \subseteq DOMAIN edges'
    BY <1>6, <1>9, <2>1, <2>4, <2>5, Zenon
  <2> QED BY <2>2, <2>4, <2>6 DEF SearchTypes
<1>15. InOrder'
  <2>1. ASSUME NEW i \in DOMAIN stack', NEW j \in DOMAIN stack', i < j
        PROVE  index'[stack'[i]] < index'[stack'[j]]
    <3>1. i \in 1..Len(stack) /\ stack'[i] = stack[i] BY <1>2, <1>6, <2>1
    <3>2. stack[i] \in DOMAIN index BY <1>2, <1>12, <3>1 DEF OnStack, ToSet
    <3>3. CASE j \in 1..Len(stack)
      <4>1. stack[j] \in DOMAIN index BY <1>2, <1>12, <3>3 DEF OnStack, ToSet
      <4> QED BY <1>2, <1>5, <1>6, <2>1, <3>1, <3>2, <3>3, <4>1 DEF SearchInv, InOrder
    <3>4. CASE j = Len(stack) + 1
      BY <1>1, <1>5, <1>6, <3>1, <3>2, <3>4
    <3> QED BY <1>6, <3>3, <3>4
  <2>2. \A i \in DOMAIN calls' : calls'[i].of \in OnStack'
    BY <1>2, <1>7, <1>9, <1>11
  <2>3. ASSUME NEW i \in DOMAIN calls', NEW j \in DOMAIN calls', i < j
        PROVE  index'[calls'[i].of] < index'[calls'[j].of]
    <3>1. i \in 1..L /\ calls'[i].of = of(i) BY <1>2, <1>9, <2>3
    <3>2. CASE j \in 1..L
      <4>1. index[of(i)] < index[of(j)] BY <1>2, <2>3, <3>1, <3>2 DEF SearchInv, InOrder, of
      <4> QED BY <1>5, <1>9, <1>11, <3>1, <3>2, <4>1
    <3>3. CASE j = L + 1
      BY <1>1, <1>5, <1>9, <1>11, <3>1, <3>3
    <3> QED BY <1>2, <1>9, <3>2, <3>3
  <2> QED BY <2>1, <2>2, <2>3 DEF InOrder
<1>16. NothingSkipped'
  <2>1. ASSUME NEW x \in OnStack', NEW d \in edges[x] \ DOMAIN index'
        PROVE  \E i \in DOMAIN calls' : calls'[i].of = x /\ d \in calls'[i].deps
    <3>1. CASE x = v
      BY <1>2, <1>9, <2>1, <3>1
    <3>2. CASE x \in OnStack
      <4>1. PICK i \in 1..L : of(i) = x /\ d \in calls[i].deps
        BY <1>2, <1>5, <2>1, <3>2 DEF SearchInv, NothingSkipped, of
      <4>2. d # v BY <1>5, <2>1
      <4>3. d \in calls'[i].deps BY <1>2, <1>9, <4>1, <4>2
      <4> QED BY <1>2, <1>9, <4>1, <4>3
    <3> QED BY <1>7, <3>1, <3>2
  <2>2. \A x \in Known' : edges'[x] \subseteq Known'
    BY <1>10 DEF SearchInv, NothingSkipped
  <2>3. \A i \in DOMAIN calls' : calls'[i].deps \subseteq edges[calls'[i].of]
    BY <1>2, <1>9 DEF SearchInv, NothingSkipped, of
  <2> QED BY <2>1, <2>2, <2>3 DEF NothingSkipped
\* Every call under way leads to the innermost, and that to v.
<1>17. \A i \in 1..L : Leads(of(i), v)
  <2> SUFFICES ASSUME NEW i \in 1..L PROVE Leads(of(i), v) OBVIOUS
  <2>1. L \in 1..L /\ i <= L BY <1>2
  <2>2. index[of(i)] <= index[of(L)]
    <3>1. CASE i = L BY <1>1, <1>11, <2>1, <3>1
    <3>2. CASE i # L
      <4>1. i \in DOMAIN calls /\ L \in DOMAIN calls /\ i < L BY <1>2, <2>1, <3>2
      <4>2. index[of(i)] < index[of(L)] BY <4>1 DEF SearchInv, InOrder, of
      <4> QED BY <1>1, <1>11, <2>1, <4>2
    <3> QED BY <3>1, <3>2
  <2>3. Leads(of(i), of(L))
    BY <1>2, <1>11, <2>1, <2>2 DEF SearchInv, StackLeads, of
  <2>4. v \in edges[of(L)] BY <1>2, <2>1 DEF of, L
  <2> QED BY <1>11, <2>1, <2>3, <2>4, LeadsIs DEF E
<1>18. Leads(v, v)
  BY LeadsIs
<1>19. StackLeads'
  <2>1. ASSUME NEW i \in DOMAIN calls', NEW x \in OnStack', index'[calls'[i].of] <= index'[x]
        PROVE  Leads(calls'[i].of, x)
    <3>1. CASE i \in 1..L
      <4>1. CASE x = v BY <1>9, <1>17, <3>1, <4>1
      <4>2. CASE x \in OnStack
        <5>1. index[of(i)] <= index[x] BY <1>5, <1>9, <1>11, <1>12, <2>1, <3>1, <4>2
        <5> QED BY <1>2, <1>9, <3>1, <4>2, <5>1 DEF SearchInv, StackLeads, of
      <4> QED BY <1>7, <4>1, <4>2
    <3>2. CASE i = L + 1
      <4>1. CASE x = v BY <1>9, <1>18, <3>2, <4>1
      <4>2. CASE x \in OnStack BY <1>1, <1>3, <1>5, <1>9, <1>12, <2>1, <3>2, <4>2
      <4> QED BY <1>7, <4>1, <4>2
    <3> QED BY <1>2, <1>9, <3>1, <3>2
  <2>2. ASSUME NEW x \in OnStack'
        PROVE  \E i \in DOMAIN calls' : index'[calls'[i].of] <= index'[x] /\ Leads(x, calls'[i].of)
    <3>1. CASE x = v
      BY <1>2, <1>3, <1>5, <1>9, <1>18, <3>1
    <3>2. CASE x \in OnStack
      <4>1. PICK i \in 1..L : index[of(i)] <= index[x] /\ Leads(x, of(i))
        BY <1>2, <3>2 DEF SearchInv, StackLeads, of
      <4>2. i \in DOMAIN calls' /\ calls'[i].of = of(i) BY <1>2, <1>9
      <4>3. index'[of(i)] = index[of(i)] /\ index'[x] = index[x] BY <1>5, <1>11, <1>12, <3>2
      <4> QED BY <4>1, <4>2, <4>3
    <3> QED BY <1>7, <3>1, <3>2
  <2> QED BY <2>1, <2>2, SameLeads DEF StackLeads
<1>20. LowIsReached'
  <2>1. ASSUME NEW i \in DOMAIN calls'
        PROVE  /\ lowlink'[calls'[i].of] <= index'[calls'[i].of]
               /\ \E w \in OnStack' : index'[w] = lowlink'[calls'[i].of] /\ Leads(calls'[i].of, w)
    <3>1. CASE i \in 1..L
      <4>1. lowlink[of(i)] <= index[of(i)]
        BY <1>2, <3>1 DEF SearchInv, LowIsReached, of
      <4>2. PICK w \in OnStack : index[w] = lowlink[of(i)] /\ Leads(of(i), w)
        BY <1>2, <3>1 DEF SearchInv, LowIsReached, of
      <4> QED BY <1>5, <1>7, <1>9, <1>11, <1>12, <3>1, <4>1, <4>2
    <3>2. CASE i = L + 1
      BY <1>3, <1>5, <1>7, <1>9, <1>18, <3>2
    <3> QED BY <1>2, <1>9, <3>1, <3>2
  <2> QED BY <2>1, SameLeads DEF LowIsReached
<1>21. LowIsLowest'
  <2>1. ASSUME NEW i \in DOMAIN calls', NEW x \in OnStack', NEW y \in edges[x] \cap OnStack',
               Under(i, x)', ~(x = calls'[i].of /\ y \in calls'[i].deps)
        PROVE  lowlink'[calls'[i].of] <= index'[y]
    <3>0. /\ index'[calls'[i].of] <= index'[x]
          /\ i + 1 \in 1..L + 1 => index'[x] < index'[calls'[i + 1].of]
      BY <1>9, <2>1 DEF Under
    <3>1. CASE i \in 1..L
      <4>1. x \in OnStack
        <5> SUFFICES ASSUME x = v PROVE FALSE BY <1>7
        <5>1. i + 1 \in 1..L + 1 BY <1>2, <3>1
        <5>2. CASE i = L BY <1>2, <1>3, <1>5, <1>9, <3>0, <5>1, <5>2
        <5>3. CASE i # L
          <6>1. i + 1 \in 1..L BY <1>2, <3>1, <5>3
          <6> QED BY <1>1, <1>3, <1>5, <1>9, <1>11, <3>0, <5>1, <6>1
        <5> QED BY <5>2, <5>3
      <4>2. Under(i, x)
        <5>1. index[of(i)] <= index[x] BY <1>5, <1>9, <1>11, <1>12, <3>0, <3>1, <4>1
        <5>2. ASSUME i + 1 \in 1..L PROVE index[x] < index[of(i + 1)]
          BY <1>2, <1>5, <1>9, <1>11, <1>12, <3>0, <4>1, <5>2
        <5> QED BY <1>2, <5>1, <5>2 DEF Under, of
      <4>3. CASE y \in OnStack
        <5>1. ~(x = of(i) /\ y \in calls[i].deps)
          BY <1>2, <1>9, <1>12, <2>1, <3>1, <4>3
        <5>2. lowlink[of(i)] <= index[y]
          BY <1>2, <2>1, <3>1, <4>1, <4>2, <4>3, <5>1 DEF SearchInv, LowIsLowest, of
        <5> QED BY <1>5, <1>9, <1>11, <1>12, <3>1, <4>3, <5>2
      <4>4. CASE y = v
        <5>1. lowlink[of(i)] <= index[of(i)]
          BY <1>2, <3>1 DEF SearchInv, LowIsReached, of
        <5> QED BY <1>1, <1>3, <1>5, <1>9, <1>11, <3>1, <4>4, <5>1
      <4> QED BY <1>7, <4>3, <4>4
    <3>2. CASE i = L + 1
      <4>1. x = v
        <5> SUFFICES ASSUME x \in OnStack PROVE FALSE BY <1>7
        <5> QED BY <1>1, <1>3, <1>5, <1>9, <1>12, <3>0, <3>2
      <4> QED BY <1>9, <2>1, <3>2, <4>1
    <3> QED BY <1>2, <1>9, <3>1, <3>2
  <2> QED BY <2>1 DEF LowIsLowest
<1>22. KnownAreComponents'
  BY <1>4, SameLeads DEF SearchInv, KnownAreComponents
<1> QED BY <1>14, <1>15, <1>16, <1>19, <1>20, <1>21, <1>22 DEF SearchInv

-----------------------------------------------------------------------------
(* A call looks at one that was looked at before *)

\* What was looked at before lowers the lowlink, when it is on the stack.
LEMMA LookKeeps ==
  ASSUME GraphInv, SearchInv, UNCHANGED <<edges, stack, index, sccs>>, calls # <<>>,
         NEW d \in calls[Len(calls)].deps, d \in DOMAIN index,
         calls' = [calls EXCEPT ![Len(calls)].deps = @ \ {d}],
         lowlink' = Lower(calls[Len(calls)].of, d)
  PROVE  SearchInv'
<1> DEFINE E == DOMAIN edges
           L == Len(calls)
           of(i) == calls[i].of
           v == of(L)
           C == [of : E, deps : SUBSET E]
<1>1. /\ DOMAIN index = OnStack \cup Known /\ DOMAIN lowlink = DOMAIN index
      /\ DOMAIN index \subseteq E /\ OnStack \cap Known = {}
      /\ \A x \in DOMAIN index : /\ index[x] \in Nat /\ lowlink[x] \in Nat
                                 /\ index[x] < Cardinality(DOMAIN index)
      /\ calls \in Seq(C)
  BY DEF SearchInv, SearchTypes
<1>2. L \in Nat /\ DOMAIN calls = 1..L /\ L \in 1..L /\ calls[L] \in C
  <2> HIDE DEF C
  <2>1. L \in Nat /\ DOMAIN calls = 1..L /\ L # 0 BY <1>1, LenProperties, EmptySeq
  <2>2. L \in 1..L BY <2>1
  <2> QED BY <1>1, <2>1, <2>2, ElementOfSeq
<1>3. /\ calls' \in Seq(C) /\ DOMAIN calls' = 1..L
      /\ \A i \in 1..L : /\ calls'[i].of = of(i)
                         /\ calls'[i].deps = IF i = L THEN calls[L].deps \ {d} ELSE calls[i].deps
  <2> DEFINE call == [calls[L] EXCEPT !.deps = @ \ {d}]
  <2>1. call \in C /\ call.of = of(L) /\ call.deps = calls[L].deps \ {d}
    BY <1>2
  <2>2. calls' = [calls EXCEPT ![L] = call]
    OBVIOUS
  <2> HIDE DEF call, C
  <2>3. /\ calls' \in Seq(C) /\ Len(calls') = L
        /\ \A i \in 1..L : calls'[i] = IF i = L THEN call ELSE calls[i]
    <3> DEFINE after == [calls EXCEPT ![L] = call]
    <3>1. /\ after \in Seq(C) /\ Len(after) = L
          /\ \A i \in 1..L : after[i] = IF i = L THEN call ELSE calls[i]
      BY <1>1, <1>2, <2>1, ExceptSeq
    <3> QED BY <2>2, <3>1, Zenon
  <2> QED BY <1>2, <2>1, <2>3, LenProperties
<1>4. \A i \in 1..L : of(i) \in OnStack /\ of(i) \in DOMAIN index
  BY <1>1, <1>2 DEF SearchInv, InOrder
<1>5. \A i \in 1..L : i # L => of(i) # v /\ index[of(i)] < index[v]
  <2> SUFFICES ASSUME NEW i \in 1..L, i # L PROVE index[of(i)] < index[v]
    BY <1>1, <1>4
  <2>1. i \in DOMAIN calls /\ L \in DOMAIN calls /\ i < L BY <1>2
  <2> QED BY <2>1 DEF SearchInv, InOrder
<1>6. /\ DOMAIN lowlink' = DOMAIN lowlink
      /\ \A x \in DOMAIN index : x # v => lowlink'[x] = lowlink[x]
      /\ lowlink'[v] \in Nat /\ lowlink'[v] <= lowlink[v]
      /\ d \in OnStack => lowlink'[v] <= index[d]
      /\ lowlink'[v] = lowlink[v] \/ (d \in OnStack /\ lowlink'[v] = index[d])
  <2>1. v \in DOMAIN lowlink /\ lowlink[v] \in Nat /\ index[d] \in Nat BY <1>1, <1>2, <1>4
  <2>2. CASE d \in OnStack
    <3>1. lowlink' = [lowlink EXCEPT ![v] = Min({lowlink[v], index[d]})]
      BY <2>2 DEF Lower, OnStack
    <3>2. Min({lowlink[v], index[d]}) = IF lowlink[v] <= index[d] THEN lowlink[v] ELSE index[d]
      BY <2>1, MinOfTwo
    <3> HIDE DEF v
    <3>3. DOMAIN lowlink' = DOMAIN lowlink /\ lowlink'[v] = Min({lowlink[v], index[d]})
      BY <2>1, <3>1
    <3>4. \A x \in DOMAIN lowlink : x # v => lowlink'[x] = lowlink[x]
      BY <3>1
    <3>5. /\ lowlink'[v] \in Nat /\ lowlink'[v] <= lowlink[v] /\ lowlink'[v] <= index[d]
          /\ lowlink'[v] = lowlink[v] \/ lowlink'[v] = index[d]
      BY <2>1, <3>2, <3>3
    <3> QED BY <1>1, <2>2, <3>3, <3>4, <3>5
  <2>3. CASE d \notin OnStack
    <3>1. lowlink' = lowlink BY <2>3 DEF Lower, OnStack
    <3> HIDE DEF v
    <3>2. lowlink'[v] \in Nat /\ lowlink'[v] <= lowlink[v] BY <2>1, <3>1
    <3> QED BY <2>3, <3>1, <3>2
  <2> QED BY <2>2, <2>3
<1>7. OnStack' = OnStack /\ Known' = Known
  BY DEF OnStack, Known
<1>8. calls[L].deps \subseteq edges[v] /\ v \in E
  BY <1>1, <1>2, <1>4 DEF SearchInv, NothingSkipped
<1> HIDE DEF E, L, v, C, of
<1>9. SearchTypes'
  <2>1. \A x \in DOMAIN index' : /\ index'[x] \in Nat /\ lowlink'[x] \in Nat
                                 /\ index'[x] < Cardinality(DOMAIN index')
    BY <1>1, <1>6
  <2>2. calls' \in Seq([of : DOMAIN edges', deps : SUBSET DOMAIN edges'])
    BY <1>3 DEF C, E
  <2>3. stack' \in Seq(DOMAIN edges') /\ sccs' \subseteq SUBSET DOMAIN edges'
        /\ DOMAIN index' \subseteq DOMAIN edges'
    BY DEF SearchInv, SearchTypes
  <2> QED BY <1>1, <1>6, <1>7, <2>1, <2>2, <2>3 DEF SearchTypes
<1>10. InOrder'
  <2>1. \A i \in DOMAIN calls' : calls'[i].of \in OnStack'
    BY <1>3, <1>4, <1>7
  <2>2. \A i, j \in DOMAIN calls' : i < j => index'[calls'[i].of] < index'[calls'[j].of]
    BY <1>2, <1>3 DEF SearchInv, InOrder, of
  <2> QED BY <2>1, <2>2 DEF SearchInv, InOrder
<1>11. NothingSkipped'
  <2>1. ASSUME NEW x \in OnStack', NEW e \in edges'[x] \ DOMAIN index'
        PROVE  \E i \in DOMAIN calls' : calls'[i].of = x /\ e \in calls'[i].deps
    <3>1. PICK i \in 1..L : of(i) = x /\ e \in calls[i].deps
      BY <1>2, <1>7, <2>1 DEF SearchInv, NothingSkipped, of
    <3>2. e # d BY <2>1
    <3> QED BY <1>3, <3>1, <3>2
  <2>2. \A x \in Known' : edges'[x] \subseteq Known'
    BY <1>7 DEF SearchInv, NothingSkipped
  <2>3. \A i \in DOMAIN calls' : calls'[i].deps \subseteq edges'[calls'[i].of]
    BY <1>2, <1>3, <1>8 DEF SearchInv, NothingSkipped, of, v
  <2> QED BY <2>1, <2>2, <2>3 DEF NothingSkipped
<1>12. StackLeads'
  <2>1. \A i \in DOMAIN calls' : \A x \in OnStack' :
          index'[calls'[i].of] <= index'[x] => Leads(calls'[i].of, x)
    BY <1>2, <1>3, <1>7 DEF SearchInv, StackLeads, of
  <2>2. \A x \in OnStack' : \E i \in DOMAIN calls' :
          index'[calls'[i].of] <= index'[x] /\ Leads(x, calls'[i].of)
    BY <1>2, <1>3, <1>7 DEF SearchInv, StackLeads, of
  <2> QED BY <2>1, <2>2, SameLeads DEF StackLeads
<1>13. LowIsReached'
  <2>1. ASSUME NEW i \in 1..L
        PROVE  /\ lowlink'[of(i)] <= index[of(i)]
               /\ \E w \in OnStack : index[w] = lowlink'[of(i)] /\ Leads(of(i), w)
    <3>1. /\ lowlink[of(i)] <= index[of(i)]
          /\ \E w \in OnStack : index[w] = lowlink[of(i)] /\ Leads(of(i), w)
      BY <1>2 DEF SearchInv, LowIsReached, of
    <3>2. CASE lowlink'[of(i)] = lowlink[of(i)]
      BY <3>1, <3>2
    <3>3. CASE lowlink'[of(i)] # lowlink[of(i)]
      <4>1. of(i) = v BY <1>4, <1>6, <3>3
      <4>2. d \in OnStack /\ lowlink'[v] = index[d] BY <1>6, <3>3, <4>1
      <4>3. d \in edges[v] BY <1>8 DEF L
      <4>4. Leads(v, d) BY <1>8, <4>3, LeadsIs DEF E
      <4>5. lowlink[v] \in Nat /\ lowlink'[v] \in Nat /\ index[v] \in Nat
        BY <1>1, <1>4, <1>6, <4>1
      <4>6. lowlink'[v] <= index[v] BY <1>6, <3>1, <4>1, <4>5
      <4> QED BY <4>1, <4>2, <4>4, <4>6
    <3> QED BY <3>2, <3>3
  <2> QED BY <1>3, <1>7, <2>1, SameLeads DEF LowIsReached
<1>14. LowIsLowest'
  <2>1. ASSUME NEW i \in 1..L, NEW x \in OnStack, NEW y \in edges[x] \cap OnStack,
               Under(i, x), ~(x = of(i) /\ y \in calls'[i].deps)
        PROVE  lowlink'[of(i)] <= index[y]
    <3>1. lowlink[of(i)] \in Nat /\ lowlink'[of(i)] \in Nat /\ index[y] \in Nat
          /\ lowlink'[of(i)] <= lowlink[of(i)]
      BY <1>1, <1>4, <1>6, <2>1
    <3>2. CASE x = of(i) /\ y \in calls[i].deps
      <4>1. i = L /\ y = d BY <1>3, <2>1, <3>2
      <4> QED BY <1>6, <2>1, <4>1 DEF v
    <3>3. CASE ~(x = of(i) /\ y \in calls[i].deps)
      <4>1. lowlink[of(i)] <= index[y]
        BY <1>2, <2>1, <3>3 DEF SearchInv, LowIsLowest, of
      <4> QED BY <3>1, <4>1
    <3> QED BY <3>2, <3>3
  <2>2. \A i \in 1..L : \A x : Under(i, x)' => Under(i, x)
    BY <1>2, <1>3 DEF Under, of
  <2> QED BY <1>3, <1>7, <2>1, <2>2 DEF LowIsLowest
<1>15. KnownAreComponents'
  BY SameLeads DEF SearchInv, KnownAreComponents
<1> QED BY <1>9, <1>10, <1>11, <1>12, <1>13, <1>14, <1>15 DEF SearchInv

-----------------------------------------------------------------------------
(* A call returns.  What is above its package on the stack is what came since *)
(* the call began.                                                            *)

Position(v) == CHOOSE i \in DOMAIN stack : stack[i] = v
Above(v)    == {stack[i] : i \in Position(v)..Len(stack)}

\* A package's part of the stack is what came no earlier than it.
LEMMA AboveIs ==
  ASSUME SearchInv, NEW v \in OnStack
  PROVE  /\ Position(v) \in 1..Len(stack) /\ Len(stack) \in Nat
         /\ Above(v) = {x \in OnStack : index[v] <= index[x]}
         /\ LET below == SubSeq(stack, 1, Position(v) - 1)
            IN  /\ below \in Seq(DOMAIN edges) /\ DOMAIN below = 1..Position(v) - 1
                /\ \A i \in 1..Position(v) - 1 : below[i] = stack[i]
                /\ ToSet(below) = OnStack \ Above(v)
<1> DEFINE at == Position(v)
           below == SubSeq(stack, 1, at - 1)
<1>1. /\ stack \in Seq(DOMAIN edges) /\ Len(stack) \in Nat /\ DOMAIN stack = 1..Len(stack)
      /\ \A x \in OnStack : index[x] \in Nat
  BY LenProperties DEF SearchInv, SearchTypes
<1>2. OnStack = {stack[i] : i \in 1..Len(stack)}
  BY <1>1 DEF OnStack, ToSet
<1>3. at \in 1..Len(stack) /\ stack[at] = v
  BY <1>1, <1>2 DEF Position
<1>4. \A i, j \in 1..Len(stack) : i < j => index[stack[i]] < index[stack[j]]
  BY <1>1 DEF SearchInv, InOrder
<1> HIDE DEF at
<1>5. \A i \in 1..Len(stack) : index[v] <= index[stack[i]] <=> at <= i
  <2> SUFFICES ASSUME NEW i \in 1..Len(stack)
               PROVE  index[v] <= index[stack[i]] <=> at <= i
    OBVIOUS
  <2>1. index[v] \in Nat /\ index[stack[i]] \in Nat BY <1>1, <1>2
  <2>2. CASE i < at
    <3>1. index[stack[i]] < index[v] BY <1>3, <1>4, <2>2
    <3> QED BY <1>3, <2>1, <2>2, <3>1
  <2>3. CASE i = at BY <1>3, <2>1, <2>3
  <2>4. CASE at < i
    <3>1. index[v] < index[stack[i]] BY <1>3, <1>4, <2>4
    <3> QED BY <1>3, <2>1, <2>4, <3>1
  <2> QED BY <1>3, <2>2, <2>3, <2>4
<1>6. Above(v) = {x \in OnStack : index[v] <= index[x]}
  <2>1. Above(v) = {stack[i] : i \in at..Len(stack)} BY DEF Above, at
  <2>2. ASSUME NEW i \in at..Len(stack)
        PROVE  stack[i] \in OnStack /\ index[v] <= index[stack[i]]
    <3>1. i \in 1..Len(stack) /\ at <= i BY <1>1, <1>3
    <3> QED BY <1>2, <1>5, <3>1
  <2>3. ASSUME NEW x \in OnStack, index[v] <= index[x] PROVE x \in Above(v)
    <3>1. PICK i \in 1..Len(stack) : x = stack[i] BY <1>2
    <3>2. i \in at..Len(stack) BY <1>1, <1>3, <1>5, <2>3, <3>1
    <3> QED BY <2>1, <3>1, <3>2
  <2> QED BY <2>1, <2>2, <2>3
<1>7. /\ below \in Seq(DOMAIN edges) /\ Len(below) = at - 1
      /\ \A i \in 1..at - 1 : below[i] = stack[i]
  <2>1. at - 1 \in Int /\ 1 \in Int /\ \A i \in 1..at - 1 : i \in 1..Len(stack) BY <1>1, <1>3
  <2>2. \A i \in 1..at - 1 : stack[i] \in DOMAIN edges BY <1>1, <2>1, ElementOfSeq
  <2>3. /\ below \in Seq(DOMAIN edges)
        /\ Len(below) = IF 1 <= at - 1 THEN (at - 1) - 1 + 1 ELSE 0
        /\ \A i \in 1..(at - 1) - 1 + 1 : below[i] = stack[1 + i - 1]
    BY <2>1, <2>2, SubSeqProperties
  <2> QED BY <1>1, <1>3, <2>3
<1>8. DOMAIN below = 1..at - 1
  BY <1>7, LenProperties
<1>9. ToSet(below) = OnStack \ Above(v)
  <2>1. ToSet(below) = {stack[i] : i \in 1..at - 1} BY <1>7, <1>8 DEF ToSet
  <2>2. ASSUME NEW i \in 1..at - 1 PROVE stack[i] \in OnStack \ Above(v)
    <3>1. i \in 1..Len(stack) /\ ~(at <= i) BY <1>1, <1>3
    <3> QED BY <1>2, <1>5, <1>6, <3>1
  <2>3. ASSUME NEW x \in OnStack \ Above(v) PROVE x \in ToSet(below)
    <3>1. PICK i \in 1..Len(stack) : x = stack[i] BY <1>2
    <3>2. ~(at <= i) BY <1>2, <1>5, <1>6, <2>3, <3>1
    <3>3. i \in 1..at - 1 BY <1>1, <1>3, <3>2
    <3> QED BY <2>1, <3>1, <3>3
  <2> QED BY <2>1, <2>2, <2>3
<1> QED BY <1>1, <1>3, <1>6, <1>7, <1>8, <1>9 DEF at

\* What holds of the package whose call returns, and of those above it.
LEMMA ReturnsFrom ==
  ASSUME GraphInv, SearchInv, calls # <<>>, calls[Len(calls)].deps = {}
  PROVE  LET L == Len(calls)
             v == calls[L].of
         IN  /\ L \in Nat /\ L # 0 /\ DOMAIN calls = 1..L
             /\ \A i \in 1..L : calls[i].of \in OnStack
             /\ \A i \in 1..L : i # L => index[calls[i].of] < index[v]
             /\ \A x \in Above(v) : Leads(x, v) /\ Leads(v, x)
             /\ \A x \in Above(v) : edges[x] \subseteq DOMAIN index
             /\ \A x \in Above(v) : \A y \in edges[x] \cap OnStack : lowlink[v] <= index[y]
<1> DEFINE L == Len(calls)
           of(i) == calls[i].of
           v == of(L)
           C == [of : DOMAIN edges, deps : SUBSET DOMAIN edges]
<1>1. /\ DOMAIN index \subseteq DOMAIN edges /\ OnStack \subseteq DOMAIN index
      /\ \A x \in DOMAIN index : index[x] \in Nat
      /\ calls \in Seq(C)
  BY DEF SearchInv, SearchTypes
<1>2. L \in Nat /\ L # 0 /\ DOMAIN calls = 1..L /\ L \in 1..L /\ L + 1 \notin DOMAIN calls
  <2> HIDE DEF C
  <2>1. L \in Nat /\ DOMAIN calls = 1..L /\ L # 0 BY <1>1, LenProperties, EmptySeq
  <2> QED BY <2>1
<1>3. \A i \in 1..L : of(i) \in OnStack
  BY <1>2 DEF SearchInv, InOrder
<1>4. \A i \in 1..L : i # L => index[of(i)] < index[v]
  <2> SUFFICES ASSUME NEW i \in 1..L, i # L PROVE index[of(i)] < index[v]
    OBVIOUS
  <2>1. i \in DOMAIN calls /\ L \in DOMAIN calls /\ i < L
    <3> HIDE DEF L, v
    <3> QED BY <1>2
  <2> QED BY <2>1 DEF SearchInv, InOrder
<1>5. Above(v) = {x \in OnStack : index[v] <= index[x]}
  <2>1. v \in OnStack BY <1>2, <1>3
  <2> QED BY <2>1, AboveIs
<1>6. /\ \A i \in 1..L : \A x \in OnStack : index[of(i)] <= index[x] => Leads(of(i), x)
      /\ \A x \in OnStack : \E i \in 1..L : index[of(i)] <= index[x] /\ Leads(x, of(i))
  BY <1>2 DEF SearchInv, StackLeads
<1>7. \A x \in OnStack : \A d \in edges[x] \ DOMAIN index : \E i \in 1..L : of(i) = x /\ d \in calls[i].deps
  BY <1>2 DEF SearchInv, NothingSkipped
<1>8. \A x \in OnStack : \A y \in edges[x] \cap OnStack : Under(L, x) => lowlink[v] <= index[y]
  BY <1>2 DEF SearchInv, LowIsLowest
<1>9. calls[L].deps = {}
  OBVIOUS
<1> HIDE DEF v, L, of
<1>10. ASSUME NEW x \in Above(v) PROVE Leads(x, v) /\ Leads(v, x)
  <2>1. Leads(v, x) BY <1>2, <1>5, <1>6, <1>10 DEF v
  <2>2. PICK i \in 1..L : index[of(i)] <= index[x] /\ Leads(x, of(i))
    BY <1>5, <1>6
  <2>3. index[of(i)] <= index[v]
    <3>1. index[of(i)] \in Nat /\ index[v] \in Nat BY <1>1, <1>2, <1>3 DEF v
    <3>2. CASE i = L BY <3>1, <3>2 DEF v
    <3>3. CASE i # L BY <1>4, <3>1, <3>3
    <3> QED BY <3>2, <3>3
  <2>4. Leads(of(i), v) BY <1>2, <1>3, <1>6, <2>3 DEF v
  <2>5. x \in DOMAIN edges /\ of(i) \in DOMAIN edges /\ v \in DOMAIN edges
    BY <1>1, <1>2, <1>3, <1>5 DEF v
  <2> QED BY <2>1, <2>2, <2>4, <2>5, LeadsIs
<1>11. ASSUME NEW x \in Above(v), NEW d \in edges[x] PROVE d \in DOMAIN index
  <2> SUFFICES ASSUME d \notin DOMAIN index PROVE FALSE OBVIOUS
  <2>1. PICK i \in 1..L : of(i) = x /\ d \in calls[i].deps BY <1>5, <1>7, <1>11
  <2>2. i # L BY <1>9, <2>1
  <2>3. index[x] < index[v] BY <1>4, <2>1, <2>2
  <2>4. index[v] <= index[x] /\ index[x] \in Nat /\ index[v] \in Nat BY <1>1, <1>2, <1>3, <1>5 DEF v
  <2> QED BY <2>3, <2>4
<1>12. ASSUME NEW x \in Above(v), NEW y \in edges[x] \cap OnStack PROVE lowlink[v] <= index[y]
  <2>1. x \in OnStack /\ index[of(L)] <= index[x] BY <1>5 DEF v
  <2>2. Under(L, x) BY <1>2, <2>1 DEF Under, of
  <2> QED BY <1>8, <2>1, <2>2
<1> QED BY <1>2, <1>3, <1>4, <1>10, <1>11, <1>12 DEF v, L, of

\* The state after: one call fewer, and its lowlink handed to the one around it.
LEMMA ReturnsTo ==
  ASSUME GraphInv, SearchInv, Return
  PROVE  LET L == Len(calls)
             v == calls[L].of
             P == calls[L - 1].of
         IN  /\ UNCHANGED <<edges, index>> /\ calls # <<>> /\ calls[L].deps = {}
             /\ calls' \in Seq([of : DOMAIN edges, deps : SUBSET DOMAIN edges])
             /\ DOMAIN calls' = 1..L - 1 /\ \A i \in 1..L - 1 : calls'[i] = calls[i]
             /\ DOMAIN lowlink' = DOMAIN lowlink
             /\ \A x \in DOMAIN index :
                  lowlink'[x] = IF L - 1 \in 1..L /\ x = P
                                THEN Min({lowlink[x], lowlink[v]}) ELSE lowlink[x]
             /\ IF lowlink[v] = index[v]
                THEN /\ sccs' = sccs \cup {Above(v)}
                     /\ stack' = SubSeq(stack, 1, Position(v) - 1)
                ELSE UNCHANGED <<sccs, stack>>
<1> DEFINE L == Len(calls)
           v == calls[L].of
           P == calls[L - 1].of
           C == [of : DOMAIN edges, deps : SUBSET DOMAIN edges]
<1>1. /\ UNCHANGED <<edges, index>> /\ calls # <<>> /\ calls[L].deps = {}
      /\ calls' = Front(calls)
      /\ lowlink' = IF calls' = <<>> THEN lowlink
                    ELSE [lowlink EXCEPT ![Last(calls').of] =
                            Min({lowlink[Last(calls').of], lowlink[v]})]
  BY DEF Return, Last
<1>2. IF lowlink[v] = index[v]
      THEN /\ sccs' = sccs \cup {Above(v)}
           /\ stack' = SubSeq(stack, 1, Position(v) - 1)
      ELSE UNCHANGED <<sccs, stack>>
  BY DEF Return, Last, Above, Position
<1>3. calls \in Seq(C) /\ DOMAIN lowlink = DOMAIN index
  BY DEF SearchInv, SearchTypes
<1>4. /\ L \in Nat /\ L # 0 /\ DOMAIN calls = 1..L
      /\ \A i \in 1..L : calls[i].of \in OnStack
  BY <1>1, ReturnsFrom
<1>5. /\ calls' \in Seq(C) /\ Len(calls') = L - 1
      /\ \A i \in 1..L - 1 : calls'[i] = calls[i]
  <2> HIDE DEF C
  <2>1. 1 \in Int /\ L - 1 \in Int /\ \A i \in 1..L - 1 : i \in 1..L BY <1>4
  <2>2. \A i \in 1..L - 1 : calls[i] \in C BY <1>3, <2>1, ElementOfSeq
  <2>3. calls' = SubSeq(calls, 1, L - 1) BY <1>1 DEF Front
  <2> HIDE DEF L
  <2>4. /\ calls' \in Seq(C) /\ Len(calls') = IF 1 <= L - 1 THEN (L - 1) - 1 + 1 ELSE 0
        /\ \A i \in 1..(L - 1) - 1 + 1 : calls'[i] = calls[1 + i - 1]
    BY <2>1, <2>2, <2>3, SubSeqProperties
  <2> QED BY <1>4, <2>4
<1>6. DOMAIN calls' = 1..L - 1
  <2> HIDE DEF C
  <2> QED BY <1>4, <1>5, LenProperties
<1>7. OnStack \subseteq DOMAIN lowlink
  BY DEF SearchInv, SearchTypes
<1>8. /\ DOMAIN lowlink' = DOMAIN lowlink
      /\ \A x \in DOMAIN index :
           lowlink'[x] = IF L - 1 \in 1..L /\ x = P
                         THEN Min({lowlink[x], lowlink[v]}) ELSE lowlink[x]
  <2>1. CASE L = 1
    <3>1. calls' = <<>>
      <4> HIDE DEF C, L
      <4> QED BY <1>5, <2>1, EmptySeq
    <3> QED BY <1>1, <2>1, <3>1
  <2>2. CASE L # 1
    <3>1. L - 1 \in 1..L - 1 /\ L - 1 \in 1..L
      <4> HIDE DEF L
      <4> QED BY <1>4, <2>2
    <3>2. calls' # <<>> /\ Last(calls').of = P /\ P \in OnStack
      BY <1>4, <1>5, <3>1 DEF Last
    <3> DEFINE low == Min({lowlink[P], lowlink[v]})
    <3>3. lowlink' = [lowlink EXCEPT ![P] = low] BY <1>1, <3>2
    <3> HIDE DEF low, P, L, v
    <3>4. P \in DOMAIN lowlink BY <1>7, <3>2
    <3>5. DOMAIN lowlink' = DOMAIN lowlink
          /\ \A x \in DOMAIN lowlink : lowlink'[x] = IF x = P THEN low ELSE lowlink[x]
      BY <3>3, <3>4
    <3> QED BY <1>3, <3>1, <3>5 DEF low
  <2> QED BY <2>1, <2>2
<1> QED BY <1>1, <1>2, <1>5, <1>6, <1>8

\* The end of strongconnect, with a component or without one.
LEMMA ReturnKeeps ==
  ASSUME GraphInv, SearchInv, Return
  PROVE  SearchInv'
<1> DEFINE E == DOMAIN edges
           L == Len(calls)
           of(i) == calls[i].of
           v == of(L)
           P == of(L - 1)
           S == Above(v)
<1>1. /\ DOMAIN index = OnStack \cup Known /\ DOMAIN lowlink = DOMAIN index
      /\ DOMAIN index \subseteq E /\ OnStack \cap Known = {}
      /\ \A x \in DOMAIN index : /\ index[x] \in Nat /\ lowlink[x] \in Nat
                                 /\ index[x] < Cardinality(DOMAIN index)
      /\ sccs \subseteq SUBSET E /\ stack \in Seq(E)
  BY DEF SearchInv, SearchTypes
<1>2. /\ UNCHANGED <<edges, index>> /\ calls # <<>> /\ calls[L].deps = {}
      /\ calls' \in Seq([of : E, deps : SUBSET E])
      /\ DOMAIN calls' = 1..L - 1 /\ \A i \in 1..L - 1 : calls'[i] = calls[i]
      /\ DOMAIN lowlink' = DOMAIN lowlink
      /\ \A x \in DOMAIN index :
           lowlink'[x] = IF L - 1 \in 1..L /\ x = P
                         THEN Min({lowlink[x], lowlink[v]}) ELSE lowlink[x]
      /\ IF lowlink[v] = index[v]
         THEN sccs' = sccs \cup {S} /\ stack' = SubSeq(stack, 1, Position(v) - 1)
         ELSE UNCHANGED <<sccs, stack>>
  BY ReturnsTo
<1>3. /\ L \in Nat /\ L # 0 /\ DOMAIN calls = 1..L
      /\ \A i \in 1..L : of(i) \in OnStack
      /\ \A i \in 1..L : i # L => index[of(i)] < index[v]
      /\ \A x \in S : Leads(x, v) /\ Leads(v, x)
      /\ \A x \in S : edges[x] \subseteq DOMAIN index
      /\ \A x \in S : \A y \in edges[x] \cap OnStack : lowlink[v] <= index[y]
  BY <1>2, ReturnsFrom
<1>4. v \in OnStack /\ L \in 1..L
  <2> HIDE DEF L
  <2>1. L \in 1..L BY <1>3
  <2> QED BY <1>3, <2>1
<1>5. /\ S = {x \in OnStack : index[v] <= index[x]}
      /\ SubSeq(stack, 1, Position(v) - 1) \in Seq(E)
      /\ DOMAIN SubSeq(stack, 1, Position(v) - 1) = 1..Position(v) - 1
      /\ \A i \in 1..Position(v) - 1 : SubSeq(stack, 1, Position(v) - 1)[i] = stack[i]
      /\ ToSet(SubSeq(stack, 1, Position(v) - 1)) = OnStack \ S
      /\ Position(v) \in 1..Len(stack) /\ Len(stack) \in Nat
  BY <1>4, AboveIs
<1>6. calls[L].deps = {}
  BY <1>2
<1> HIDE DEF E, L, of, v, P, S
<1>7. /\ \A i \in 1..L - 1 : i \in 1..L /\ i # L
      /\ \A i \in 1..L - 1 : calls'[i].of = of(i) /\ calls'[i].deps = calls[i].deps
      /\ v = of(L) /\ P = of(L - 1)
      /\ L - 1 \in 1..L => L - 1 \in 1..L - 1
  BY <1>2, <1>3 DEF of, v, P
<1>8. /\ \A x \in OnStack : x \in DOMAIN index /\ x \in E
      /\ \A i \in 1..L - 1 : /\ of(i) \in OnStack /\ index[of(i)] < index[v]
                             /\ index[of(i)] \in Nat /\ lowlink[of(i)] \in Nat
      /\ index[v] \in Nat /\ lowlink[v] \in Nat /\ v \in E
  BY <1>1, <1>3, <1>4, <1>7
\* What the invariant says, in these words.
<1>9. /\ \A x \in OnStack : \A d \in edges[x] \ DOMAIN index :
           \E i \in 1..L - 1 : of(i) = x /\ d \in calls[i].deps
      /\ \A x \in Known : edges[x] \subseteq Known
      /\ \A i \in 1..L - 1 : calls[i].deps \subseteq edges[of(i)]
  <2>1. /\ \A x \in OnStack : \A d \in edges[x] \ DOMAIN index :
             \E i \in 1..L : of(i) = x /\ d \in calls[i].deps
        /\ \A x \in Known : edges[x] \subseteq Known
        /\ \A i \in 1..L : calls[i].deps \subseteq edges[of(i)]
    BY <1>3 DEF SearchInv, NothingSkipped, of
  <2>2. \A i \in 1..L : i # L => i \in 1..L - 1 BY <1>3
  <2> QED BY <1>6, <1>7, <2>1, <2>2
<1>10. /\ \A i \in 1..L : \A x \in OnStack : index[of(i)] <= index[x] => Leads(of(i), x)
       /\ \A x \in OnStack : \E i \in 1..L : index[of(i)] <= index[x] /\ Leads(x, of(i))
  BY <1>3 DEF SearchInv, StackLeads, of
<1>11. \A i \in 1..L : /\ lowlink[of(i)] <= index[of(i)]
                       /\ \E w \in OnStack : index[w] = lowlink[of(i)] /\ Leads(of(i), w)
  BY <1>3 DEF SearchInv, LowIsReached, of
<1>12. \A i \in 1..L : \A x \in OnStack : \A y \in edges[x] \cap OnStack :
         Under(i, x) /\ ~(x = of(i) /\ y \in calls[i].deps) => lowlink[of(i)] <= index[y]
  BY <1>3 DEF SearchInv, LowIsLowest, of
<1>13. \A c \in sccs : \A p \in c : \A q \in E : q \in c <=> Leads(p, q) /\ Leads(q, p)
  BY DEF SearchInv, KnownAreComponents, E
\* The lowlinks after, of the calls that remain.
<1>14. /\ \A x \in DOMAIN index : lowlink'[x] \in Nat
       /\ \A i \in 1..L - 1 : /\ lowlink'[of(i)] <= lowlink[of(i)]
                              /\ lowlink'[of(i)] # lowlink[of(i)] =>
                                   i = L - 1 /\ lowlink'[of(i)] = lowlink[v]
       /\ \A i \in 1..L - 1 : i = L - 1 => lowlink'[of(i)] <= lowlink[v]
  <2>1. \A x \in DOMAIN index :
          Min({lowlink[x], lowlink[v]}) = IF lowlink[x] <= lowlink[v] THEN lowlink[x] ELSE lowlink[v]
    BY <1>1, <1>8, MinOfTwo
  <2>2. \A x \in DOMAIN index : lowlink'[x] \in Nat
    BY <1>1, <1>2, <1>8, <2>1
  <2>3. ASSUME NEW i \in 1..L - 1
        PROVE  /\ lowlink'[of(i)] <= lowlink[of(i)]
               /\ lowlink'[of(i)] # lowlink[of(i)] => i = L - 1 /\ lowlink'[of(i)] = lowlink[v]
               /\ i = L - 1 => lowlink'[of(i)] <= lowlink[v]
    <3>1. of(i) \in DOMAIN index BY <1>8
    <3>2. CASE i = L - 1
      <4>1. of(i) = P /\ L - 1 \in 1..L BY <1>7, <3>2
      <4>2. lowlink'[of(i)] = IF lowlink[of(i)] <= lowlink[v] THEN lowlink[of(i)] ELSE lowlink[v]
        BY <1>2, <2>1, <3>1, <4>1
      <4> QED BY <1>8, <3>2, <4>2
    <3>3. CASE i # L - 1
      <4>1. L - 1 \in 1..L => of(i) # P
        <5> SUFFICES ASSUME L - 1 \in 1..L, of(i) = of(L - 1) PROVE FALSE BY <1>7
        <5>1. i \in DOMAIN calls /\ L - 1 \in DOMAIN calls /\ i < L - 1 BY <1>3, <1>7, <3>3
        <5>2. index[of(i)] < index[of(L - 1)] BY <5>1 DEF SearchInv, InOrder, of
        <5> QED BY <1>8, <5>2
      <4>2. lowlink'[of(i)] = lowlink[of(i)] BY <1>2, <3>1, <4>1
      <4> QED BY <1>8, <3>3, <4>2
    <3> QED BY <3>2, <3>3
  <2> QED BY <2>2, <2>3
\* Whatever becomes of the stack, the calls that remain are on it.
<1>15. OnStack' = IF lowlink[v] = index[v] THEN OnStack \ S ELSE OnStack
  <2>1. CASE lowlink[v] = index[v]
    BY <1>2, <1>5, <2>1 DEF OnStack
  <2>2. CASE lowlink[v] # index[v]
    BY <1>2, <2>2 DEF OnStack
  <2> QED BY <2>1, <2>2
<1>16. \A i \in 1..L - 1 : of(i) \in OnStack'
  BY <1>5, <1>8, <1>15
<1>17. OnStack' \subseteq OnStack
  BY <1>15
<1>18. InOrder'
  <2>1. \A i, j \in DOMAIN stack' : i < j => index'[stack'[i]] < index'[stack'[j]]
    <3>1. \A i, j \in DOMAIN stack : i < j => index[stack[i]] < index[stack[j]]
      BY DEF SearchInv, InOrder
    <3>2. CASE lowlink[v] = index[v]
      <4>1. stack' = SubSeq(stack, 1, Position(v) - 1) BY <1>2, <3>2
      <4>2. DOMAIN stack = 1..Len(stack) BY <1>1, LenProperties
      <4>3. DOMAIN stack' = 1..Position(v) - 1 BY <1>5, <4>1
      <4>4. \A i \in DOMAIN stack' : i \in DOMAIN stack /\ stack'[i] = stack[i]
        BY <1>5, <4>1, <4>2, <4>3
      <4> QED BY <1>2, <3>1, <4>4
    <3>3. CASE lowlink[v] # index[v]
      BY <1>2, <3>1, <3>3
    <3> QED BY <3>2, <3>3
  <2>2. \A i \in DOMAIN calls' : calls'[i].of \in OnStack'
    BY <1>2, <1>7, <1>16
  <2>3. \A i, j \in DOMAIN calls' : i < j => index'[calls'[i].of] < index'[calls'[j].of]
    <3>1. \A i, j \in 1..L : i < j => index[of(i)] < index[of(j)]
      BY <1>3 DEF SearchInv, InOrder, of
    <3> QED BY <1>2, <1>7, <3>1
  <2> QED BY <2>1, <2>2, <2>3 DEF InOrder
\* Those above v are left for a call that remains, when v is not the lowest.
<1>19. \A x \in OnStack' : \E i \in 1..L - 1 : index[of(i)] <= index[x] /\ Leads(x, of(i))
  <2> SUFFICES ASSUME NEW x \in OnStack'
               PROVE  \E i \in 1..L - 1 : index[of(i)] <= index[x] /\ Leads(x, of(i))
    OBVIOUS
  <2>0. x \in OnStack /\ index[x] \in Nat BY <1>1, <1>8, <1>17
  <2>1. PICK i \in 1..L : index[of(i)] <= index[x] /\ Leads(x, of(i))
    BY <1>10, <2>0
  <2>2. CASE i # L
    <3>1. i \in 1..L - 1 BY <1>3, <2>2
    <3> QED BY <2>1, <3>1
  <2>3. CASE i = L
    <3>1. index[v] <= index[x] /\ Leads(x, v) BY <1>7, <2>1, <2>3
    <3>2. lowlink[v] # index[v] BY <1>5, <1>15, <2>0, <3>1
    <3>3. PICK w \in OnStack : index[w] = lowlink[v] /\ Leads(v, w) BY <1>4, <1>7, <1>11
    <3>4. index[w] < index[v] /\ index[w] \in Nat BY <1>4, <1>7, <1>8, <1>11, <3>2, <3>3
    <3>5. PICK j \in 1..L : index[of(j)] <= index[w] /\ Leads(w, of(j)) BY <1>10
    <3>6. of(j) \in E /\ index[of(j)] \in Nat /\ w \in E /\ x \in E BY <1>1, <1>3, <1>8, <2>0
    <3>7. j # L BY <1>7, <1>8, <3>4, <3>5, <3>6
    <3>8. j \in 1..L - 1 BY <1>3, <3>7
    <3>9. index[of(j)] <= index[x] BY <1>8, <2>0, <3>1, <3>4, <3>5, <3>6
    <3>10. Leads(x, of(j)) BY <1>8, <3>1, <3>3, <3>5, <3>6, LeadsIs DEF E
    <3> QED BY <3>8, <3>9, <3>10
  <2> QED BY <2>2, <2>3
<1>20. StackLeads'
  <2>1. \A i \in DOMAIN calls' : \A x \in OnStack' :
          index'[calls'[i].of] <= index'[x] => Leads(calls'[i].of, x)
    BY <1>2, <1>7, <1>10, <1>17
  <2>2. \A x \in OnStack' : \E i \in DOMAIN calls' :
          index'[calls'[i].of] <= index'[x] /\ Leads(x, calls'[i].of)
    BY <1>2, <1>7, <1>19
  <2> QED BY <1>2, <2>1, <2>2, SameLeads DEF StackLeads
<1>21. LowIsReached'
  <2>1. ASSUME NEW i \in 1..L - 1
        PROVE  /\ lowlink'[of(i)] <= index[of(i)]
               /\ \E w \in OnStack' : index[w] = lowlink'[of(i)] /\ Leads(of(i), w)
    <3>1. lowlink[of(i)] <= index[of(i)] /\ index[of(i)] < index[v] BY <1>7, <1>8, <1>11
    <3>2. lowlink'[of(i)] \in Nat /\ lowlink'[of(i)] <= index[of(i)]
      BY <1>8, <1>14, <3>1
    <3>3. PICK w \in OnStack : index[w] = lowlink'[of(i)] /\ Leads(of(i), w)
      <4>1. CASE lowlink'[of(i)] = lowlink[of(i)]
        BY <1>7, <1>11, <4>1
      <4>2. CASE lowlink'[of(i)] # lowlink[of(i)]
        <5>1. lowlink'[of(i)] = lowlink[v] BY <1>14, <4>2
        <5>2. PICK w \in OnStack : index[w] = lowlink[v] /\ Leads(v, w) BY <1>4, <1>7, <1>11
        <5>3. index[of(i)] <= index[v] BY <1>8, <3>1
        <5>4. Leads(of(i), v) BY <1>4, <1>7, <1>10, <5>3
        <5>5. Leads(of(i), w) BY <1>8, <5>2, <5>4, LeadsIs DEF E
        <5> QED BY <5>1, <5>2, <5>5
      <4> QED BY <4>1, <4>2
    <3>4. w \in OnStack'
      <4>1. index[w] < index[v] BY <1>8, <3>1, <3>2, <3>3
      <4> QED BY <1>5, <1>8, <1>15, <3>2, <3>3, <4>1
    <3> QED BY <3>2, <3>3, <3>4
  <2> QED BY <1>2, <1>7, <2>1, SameLeads DEF LowIsReached
<1>22. LowIsLowest'
  <2>1. ASSUME NEW i \in 1..L - 1, NEW x \in OnStack', NEW y \in edges[x] \cap OnStack', Under(i, x)',
               ~(x = of(i) /\ y \in calls[i].deps)
        PROVE  lowlink'[of(i)] <= index[y]
    <3>0. /\ x \in OnStack /\ y \in OnStack /\ index[x] \in Nat /\ index[y] \in Nat
          /\ lowlink[of(i)] \in Nat /\ lowlink'[of(i)] \in Nat
          /\ lowlink'[of(i)] <= lowlink[of(i)] /\ i \in 1..L
      BY <1>1, <1>7, <1>8, <1>14, <1>17, <2>1
    <3>1. /\ index[of(i)] <= index[x]
          /\ i + 1 \in 1..L - 1 => index[x] < index[of(i + 1)]
      BY <1>2, <1>7, <2>1 DEF Under
    <3>2. CASE i = L - 1 /\ index[v] <= index[x]
      <4>1. x \in S BY <1>5, <3>0, <3>2
      <4>2. lowlink[v] <= index[y] BY <1>3, <2>1, <3>0, <4>1
      <4>3. lowlink'[of(i)] <= lowlink[v] BY <1>14, <3>2
      <4> QED BY <1>8, <3>0, <4>2, <4>3
    <3>3. CASE ~(i = L - 1 /\ index[v] <= index[x])
      <4>1. ASSUME i + 1 \in 1..L PROVE index[x] < index[of(i + 1)]
        <5>1. CASE i = L - 1
          <6>1. i + 1 = L BY <1>3, <5>1
          <6> QED BY <1>7, <1>8, <3>0, <3>3, <5>1, <6>1
        <5>2. CASE i # L - 1
          <6>1. i + 1 \in 1..L - 1 BY <1>3, <5>2
          <6> QED BY <3>1, <6>1
        <5> QED BY <5>1, <5>2
      <4>2. Under(i, x) BY <1>3, <3>1, <4>1 DEF Under, of
      <4>3. lowlink[of(i)] <= index[y] BY <1>12, <2>1, <3>0, <4>2
      <4> QED BY <3>0, <4>3
    <3> QED BY <3>2, <3>3
  <2> QED BY <1>2, <1>7, <2>1 DEF LowIsLowest
\* What is popped is closed, together with what was known.
<1>23. CASE lowlink[v] = index[v]
  <2>1. /\ Known' = Known \cup S /\ OnStack' = OnStack \ S /\ S \subseteq OnStack
        /\ sccs' = sccs \cup {S}
    BY <1>2, <1>5, <1>15, <1>23 DEF Known
  <2>2. ASSUME NEW x \in S, NEW d \in edges[x] PROVE d \in Known'
    <3>1. d \in DOMAIN index BY <1>3, <2>2
    <3>2. CASE d \in OnStack
      <4>1. lowlink[v] <= index[d] BY <1>3, <2>2, <3>2
      <4> QED BY <1>5, <1>23, <2>1, <3>2, <4>1
    <3> QED BY <1>1, <2>1, <3>1, <3>2
  <2>3. \A x \in Known' : edges[x] \subseteq Known'
    BY <1>9, <2>1, <2>2
  <2>4. Known' \subseteq E /\ Known \subseteq E
    BY <1>1, <1>8, <2>1
  <2>5. SearchTypes'
    <3>1. \A x \in DOMAIN index' : /\ index'[x] \in Nat /\ lowlink'[x] \in Nat
                                   /\ index'[x] < Cardinality(DOMAIN index')
      BY <1>1, <1>2, <1>14
    <3>2. /\ DOMAIN index' = OnStack' \cup Known' /\ DOMAIN lowlink' = DOMAIN index'
          /\ DOMAIN index' \subseteq E /\ OnStack' \cap Known' = {}
      BY <1>1, <1>2, <2>1
    <3>3. stack' \in Seq(E) /\ sccs' \subseteq SUBSET E
      <4>1. S \subseteq E BY <1>8, <2>1
      <4> QED BY <1>1, <1>2, <1>5, <1>23, <2>1, <4>1
    <3>4. DOMAIN edges' = E BY <1>2 DEF E
    <3> QED BY <1>2, <3>1, <3>2, <3>3, <3>4 DEF SearchTypes
  <2>6. NothingSkipped'
    <3>1. \A x \in OnStack' : \A d \in edges'[x] \ DOMAIN index' :
            \E i \in DOMAIN calls' : calls'[i].of = x /\ d \in calls'[i].deps
      BY <1>2, <1>7, <1>9, <1>17
    <3>2. \A i \in DOMAIN calls' : calls'[i].deps \subseteq edges'[calls'[i].of]
      BY <1>2, <1>7, <1>9
    <3> QED BY <1>2, <2>3, <3>1, <3>2 DEF NothingSkipped
  <2>7. \A p \in S : \A q \in E : q \in S <=> Leads(p, q) /\ Leads(q, p)
    <3> SUFFICES ASSUME NEW p \in S, NEW q \in E
                 PROVE  q \in S <=> Leads(p, q) /\ Leads(q, p)
      OBVIOUS
    <3>1. p \in E BY <1>8, <2>1
    <3>2. ASSUME q \in S PROVE Leads(p, q) /\ Leads(q, p)
      <4>1. Leads(p, v) /\ Leads(v, p) /\ Leads(q, v) /\ Leads(v, q) BY <1>3, <3>2
      <4> QED BY <1>8, <3>1, <4>1, LeadsIs DEF E
    <3>3. ASSUME Leads(p, q), Leads(q, p) PROVE q \in S
      <4>1. q \in Known'
        <5> DEFINE K == Known'
        <5>1. K \in SUBSET DOMAIN edges /\ (\A x \in K : edges[x] \subseteq K) /\ p \in K
          BY <2>1, <2>3, <2>4 DEF E
        <5> HIDE DEF K
        <5>2. q \in K BY <3>3, <5>1, LeadsWithin
        <5> QED BY <5>2 DEF K
      <4>2. q \notin Known
        <5> SUFFICES ASSUME q \in Known PROVE FALSE OBVIOUS
        <5>1. Known \in SUBSET DOMAIN edges /\ \A x \in Known : edges[x] \subseteq Known
          BY <1>9, <2>4 DEF E
        <5>2. p \in Known BY <3>3, <5>1, LeadsWithin
        <5> QED BY <1>1, <2>1, <5>2
      <4> QED BY <2>1, <4>1, <4>2
    <3> QED BY <3>2, <3>3
  <2>8. KnownAreComponents'
    <3>1. DOMAIN edges' = E BY <1>2 DEF E
    <3>2. \A c \in sccs' : \A p \in c : \A q \in E : q \in c <=> Leads(p, q) /\ Leads(q, p)
      BY <1>13, <2>1, <2>7
    <3>3. \A p, q : Leads(p, q)' <=> Leads(p, q) BY <1>2, SameLeads
    <3> QED BY <3>1, <3>2, <3>3 DEF KnownAreComponents
  <2> QED BY <1>18, <1>20, <1>21, <1>22, <2>5, <2>6, <2>8 DEF SearchInv
<1>24. CASE lowlink[v] # index[v]
  <2>1. UNCHANGED <<sccs, stack>> BY <1>2, <1>24
  <2>2. Known' = Known /\ OnStack' = OnStack BY <2>1 DEF Known, OnStack
  <2>3. SearchTypes'
    <3>1. \A x \in DOMAIN index' : /\ index'[x] \in Nat /\ lowlink'[x] \in Nat
                                   /\ index'[x] < Cardinality(DOMAIN index')
      BY <1>1, <1>2, <1>14
    <3>2. /\ DOMAIN index' = OnStack' \cup Known' /\ DOMAIN lowlink' = DOMAIN index'
          /\ DOMAIN index' \subseteq E /\ OnStack' \cap Known' = {}
      BY <1>1, <1>2, <2>2
    <3>3. DOMAIN edges' = E BY <1>2 DEF E
    <3> QED BY <1>1, <1>2, <2>1, <3>1, <3>2, <3>3 DEF SearchTypes
  <2>4. NothingSkipped'
    <3>1. \A x \in OnStack' : \A d \in edges'[x] \ DOMAIN index' :
            \E i \in DOMAIN calls' : calls'[i].of = x /\ d \in calls'[i].deps
      BY <1>2, <1>7, <1>9, <1>17
    <3>2. \A i \in DOMAIN calls' : calls'[i].deps \subseteq edges'[calls'[i].of]
      BY <1>2, <1>7, <1>9
    <3> QED BY <1>2, <1>9, <2>2, <3>1, <3>2 DEF NothingSkipped
  <2>5. KnownAreComponents'
    BY <1>2, <2>1, SameLeads DEF SearchInv, KnownAreComponents
  <2> QED BY <1>18, <1>20, <1>21, <1>22, <2>3, <2>4, <2>5 DEF SearchInv
<1> QED BY <1>23, <1>24

-----------------------------------------------------------------------------
(* What the search finds, and what it is for *)

\* Every package of the graph is in a component that is known.
Found == Known = DOMAIN edges /\ sccs \subseteq SUBSET DOMAIN edges /\ KnownAreComponents

\* Nothing is looked at yet.
LEMMA SearchBegins ==
  ASSUME calls = <<>>, stack = <<>>, index = NoFunction, lowlink = NoFunction, sccs = {}
  PROVE  SearchInv
<1>1. OnStack = {} /\ Known = {} /\ DOMAIN calls = {} /\ DOMAIN stack = {}
  BY DEF OnStack, ToSet, Known
<1>2. DOMAIN index = {} /\ DOMAIN lowlink = {}
  BY DEF NoFunction
<1>3. SearchTypes
  BY <1>1, <1>2, EmptySeq DEF SearchTypes
<1> QED BY <1>1, <1>2, <1>3 DEF SearchInv, InOrder, NothingSkipped, StackLeads, LowIsReached,
                               LowIsLowest, KnownAreComponents

\* Every package was looked at, and no call is under way.
LEMMA SearchEnds ==
  ASSUME SearchInv, calls = <<>>, DOMAIN index = DOMAIN edges
  PROVE  Found
<1>1. OnStack = {}
  <2>1. DOMAIN calls = {} OBVIOUS
  <2> QED BY <2>1 DEF SearchInv, StackLeads
<1> QED BY <1>1 DEF SearchInv, SearchTypes, Found

\* Every step of the search keeps its invariant.
LEMMA SearchSteps ==
  ASSUME GraphInv, SearchInv, NEW v, Start(v) \/ Look(v) \/ Return
  PROVE  SearchInv'
<1>1. /\ DOMAIN index \subseteq DOMAIN edges
      /\ calls \in Seq([of : DOMAIN edges, deps : SUBSET DOMAIN edges])
  BY DEF SearchInv, SearchTypes
<1>2. CASE Start(v)
  <2>1. calls = <<>> /\ v \in DOMAIN edges \ DOMAIN index /\ Enter(v, <<>>) /\ UNCHANGED edges
    BY <1>2 DEF Start
  <2>2. DOMAIN calls = {} /\ Len(calls) = Len(<<>>)
    BY <2>1
  <2>3. <<>> \in Seq([of : DOMAIN edges, deps : SUBSET DOMAIN edges])
    OBVIOUS
  <2> QED BY <2>1, <2>2, <2>3, EnterKeeps
<1>3. CASE Look(v)
  <2> DEFINE L == Len(calls)
             outer == [calls EXCEPT ![L].deps = @ \ {v}]
             C == [of : DOMAIN edges, deps : SUBSET DOMAIN edges]
  <2>1. /\ calls # <<>> /\ v \in calls[L].deps /\ UNCHANGED edges
        /\ IF v \notin DOMAIN index THEN Enter(v, outer)
           ELSE /\ lowlink' = Lower(calls[L].of, v) /\ calls' = outer
                /\ UNCHANGED <<stack, index, sccs>>
    BY <1>3 DEF Look, Last
  <2>2. L \in Nat /\ DOMAIN calls = 1..L /\ L \in 1..L /\ calls[L] \in C
    <3> HIDE DEF C
    <3>1. L \in Nat /\ DOMAIN calls = 1..L /\ L # 0 BY <1>1, <2>1, LenProperties, EmptySeq DEF C
    <3>2. L \in 1..L
      <4> HIDE DEF L
      <4> QED BY <3>1
    <3> QED BY <1>1, <3>1, <3>2, ElementOfSeq DEF C
  <2>3. v \in DOMAIN edges /\ v \in edges[calls[L].of]
    BY <2>1, <2>2 DEF SearchInv, NothingSkipped
  <2>4. /\ outer \in Seq(C) /\ Len(outer) = L
        /\ \A i \in DOMAIN calls :
             /\ outer[i].of = calls[i].of /\ outer[i].deps \subseteq calls[i].deps
             /\ calls[i].deps \ {v} \subseteq outer[i].deps
    <3> DEFINE call == [calls[L] EXCEPT !.deps = @ \ {v}]
               after == [calls EXCEPT ![L] = call]
    <3>1. call \in C /\ call.of = calls[L].of /\ call.deps = calls[L].deps \ {v}
      BY <2>2
    <3>2. outer = after
      OBVIOUS
    <3> HIDE DEF call, C
    <3>3. /\ after \in Seq(C) /\ Len(after) = L
          /\ \A i \in 1..L : after[i] = IF i = L THEN call ELSE calls[i]
      BY <1>1, <2>2, <3>1, ExceptSeq DEF C
    <3> HIDE DEF after, outer, L
    <3> QED BY <2>2, <3>1, <3>2, <3>3
  <2>5. CASE v \in DOMAIN index
    BY <2>1, <2>5, LookKeeps
  <2>6. CASE v \notin DOMAIN index
    <3> HIDE DEF outer
    <3>1. Enter(v, outer) /\ v \in DOMAIN edges \ DOMAIN index BY <2>1, <2>3, <2>6
    <3> QED BY <2>1, <2>3, <2>4, <3>1, EnterKeeps
  <2> QED BY <2>5, <2>6
<1>4. CASE Return
  BY <1>4, ReturnKeeps
<1> QED BY <1>2, <1>3, <1>4

LEMMA TwoAreMany ==
  ASSUME NEW c, IsFiniteSet(c), NEW p \in c, NEW q \in c, p # q
  PROVE  Cardinality(c) > 1
<1>1. IsFiniteSet({q}) /\ Cardinality({q}) = 1
  BY FS_Singleton
<1>2. Cardinality({q} \cup {p}) = 2
  BY <1>1, FS_AddElement
<1>3. Cardinality({q} \cup {p}) <= Cardinality(c) /\ Cardinality(c) \in Nat
  BY FS_Subset, FS_CardinalityType
<1> QED BY <1>2, <1>3

\* Two packages are in a cycle together just when each leads to the other.
LEMMA CyclesAre ==
  ASSUME GraphInv, Found, NEW p \in DOMAIN edges, NEW q \in DOMAIN edges, p # q
  PROVE  (\E c \in Cycles : {p, q} \subseteq c) <=> Leads(p, q) /\ Leads(q, p)
<1>1. ASSUME NEW c \in Cycles, {p, q} \subseteq c PROVE Leads(p, q) /\ Leads(q, p)
  BY <1>1 DEF Found, KnownAreComponents, Cycles
<1>2. ASSUME Leads(p, q), Leads(q, p) PROVE \E c \in Cycles : {p, q} \subseteq c
  <2>1. PICK c \in sccs : p \in c BY DEF Found, Known
  <2>2. q \in c BY <1>2, <2>1 DEF Found, KnownAreComponents
  <2>3. IsFiniteSet(c)
    <3>1. c \in SUBSET DOMAIN edges BY <2>1 DEF Found
    <3> QED BY <3>1, FS_Subset DEF GraphInv
  <2>4. Cardinality(c) > 1 BY <2>1, <2>2, <2>3, TwoAreMany
  <2> QED BY <2>1, <2>2, <2>4 DEF Cycles
<1> QED BY <1>1, <1>2

\* While packages remain, one is ready: of those that lead to the fewest, whatever
\* it waits for leads back to it, and is in a cycle with it.
LEMMA SomeAreReady ==
  ASSUME GraphInv, Found, remaining \subseteq DOMAIN edges, remaining # {}
  PROVE  Ready # {}
<1> DEFINE R(p) == Reached(edges)[p]
           sizes == {Cardinality(R(p)) : p \in remaining}
<1>1. \A p \in DOMAIN edges : IsFiniteSet(R(p)) /\ Cardinality(R(p)) \in Nat
  <2> SUFFICES ASSUME NEW p \in DOMAIN edges
               PROVE  IsFiniteSet(R(p)) /\ Cardinality(R(p)) \in Nat
    OBVIOUS
  <2>1. R(p) \in SUBSET DOMAIN edges BY LeadsIs DEF Leads
  <2>2. IsFiniteSet(R(p)) BY <2>1, FS_Subset DEF GraphInv
  <2> QED BY <2>2, FS_CardinalityType
<1>2. PICK n \in sizes : \A m \in sizes : n <= m
  <2>1. sizes \in SUBSET Nat /\ sizes # {} BY <1>1
  <2> HIDE DEF sizes
  <2> QED BY <2>1, LeastExists
<1>3. PICK p \in remaining : \A q \in remaining : Cardinality(R(p)) <= Cardinality(R(q))
  BY <1>2
<1>4. p \in DOMAIN edges
  OBVIOUS
<1> SUFFICES ASSUME Ready = {} PROVE FALSE
  OBVIOUS
<1>5. PICK q \in Layered(p) : q \in remaining
  BY DEF Ready
<1>6. q \in edges[p] /\ q \in DOMAIN edges /\ q # p
  BY <1>4, <1>5 DEF Layered, GraphInv
<1>7. Leads(p, p) /\ Leads(p, q)
  BY <1>4, <1>6, LeadsIs
<1>8. R(q) \subseteq R(p)
  <2>1. \A r : Leads(q, r) => r \in DOMAIN edges BY <1>6, LeadsIs
  <2>2. \A r : Leads(q, r) => Leads(p, r) BY <1>4, <1>6, <1>7, <2>1, LeadsIs
  <2> QED BY <2>2 DEF Leads
<1>9. R(q) = R(p)
  <2>1. Cardinality(R(q)) <= Cardinality(R(p)) BY <1>1, <1>4, <1>8, FS_Subset
  <2>2. Cardinality(R(p)) <= Cardinality(R(q)) BY <1>3, <1>5
  <2>3. Cardinality(R(q)) = Cardinality(R(p)) BY <1>1, <1>4, <1>6, <2>1, <2>2
  <2> QED BY <1>1, <1>4, <1>8, <2>3, FS_Subset
<1>10. Leads(q, p)
  BY <1>7, <1>9 DEF Leads
<1>11. \E c \in Cycles : {p, q} \subseteq c
  BY <1>4, <1>6, <1>7, <1>10, CyclesAre
<1> QED BY <1>5, <1>11 DEF Layered
-----------------------------------------------------------------------------
(* The rounds keep the waits, whatever is taken for cycles *)

Layering == {"layers", "ordered", "did not settle"}

\* What is asked for is about the packages that can be rebuilt.
Asked ==
  phase = "block" =>
    /\ DOMAIN needs = Package \ cannot
    /\ \A p \in DOMAIN needs : needs[p] \subseteq Package

\* The graph that is layered is closed, and leaves out none of the waits.
Closed ==
  phase \in {"cycles"} \cup Layering =>
    \A p \in DOMAIN edges : needs[p] = edges[p] /\ edges[p] \subseteq DOMAIN edges

\* Each package of the graph is still to come or in a round.
Accounted ==
  /\ rounds \in Seq(SUBSET DOMAIN edges)
  /\ phase \notin Layering => rounds = <<>>
  /\ phase \in Layering =>
       /\ remaining \subseteq DOMAIN edges
       /\ \A p \in DOMAIN edges \ remaining : \E i \in DOMAIN rounds : p \in rounds[i]

IInv == Asked /\ Closed /\ Accounted /\ WaitsAreEarlier

\* A round takes the packages whose waits are over, but for those inside a cycle.
LEMMA RoundKeepsWaits == IInv /\ Round => WaitsAreEarlier' /\ Accounted'
<1> SUFFICES ASSUME IInv, Round PROVE WaitsAreEarlier' /\ Accounted'
  OBVIOUS
<1>1. /\ phase = "layers" /\ rounds' = Append(rounds, Ready) /\ remaining' = remaining \ Ready
      /\ UNCHANGED <<phase, needs, edges, sccs>>
  BY DEF Round, tarjan
<1>2. /\ rounds \in Seq(SUBSET DOMAIN edges) /\ remaining \subseteq DOMAIN edges
      /\ \A p \in DOMAIN edges \ remaining : \E i \in DOMAIN rounds : p \in rounds[i]
      /\ \A p \in DOMAIN edges : needs[p] = edges[p] /\ edges[p] \subseteq DOMAIN edges
  BY <1>1 DEF IInv, Accounted, Closed, Layering
<1>3. Ready \subseteq remaining
  BY DEF Ready
<1>4. /\ rounds' \in Seq(SUBSET DOMAIN edges) /\ Len(rounds') = Len(rounds) + 1
      /\ rounds'[Len(rounds) + 1] = Ready
      /\ \A i \in 1..Len(rounds) : rounds'[i] = rounds[i]
      /\ DOMAIN rounds = 1..Len(rounds) /\ DOMAIN rounds' = 1..Len(rounds) + 1
      /\ Len(rounds) \in Nat
  BY <1>1, <1>2, <1>3
<1>5. Accounted'
  <2>1. ASSUME NEW p \in DOMAIN edges \ remaining' PROVE \E i \in DOMAIN rounds' : p \in rounds'[i]
    <3>1. CASE p \in Ready
      BY <1>4, <3>1
    <3>2. CASE p \notin Ready
      BY <1>1, <1>2, <1>4, <3>2
    <3> QED
      BY <3>1, <3>2
  <2> QED
    BY <1>1, <1>2, <1>4, <2>1 DEF Accounted, Layering
<1>6. ASSUME NEW i \in DOMAIN rounds', NEW p \in rounds'[i], NEW q \in needs[p]
      PROVE  \/ \E j \in 1..i - 1 : q \in rounds'[j]
             \/ \E c \in Cycles : {p, q} \subseteq c
  <2>1. CASE i \in DOMAIN rounds
    <3>1. p \in rounds[i]
      BY <1>4, <2>1
    <3>2. \/ \E j \in 1..i - 1 : q \in rounds[j]
          \/ \E c \in Cycles : {p, q} \subseteq c
      BY <2>1, <3>1 DEF IInv, WaitsAreEarlier
    <3> QED
      BY <1>4, <2>1, <3>2
  <2>2. CASE i = Len(rounds) + 1
    <3>1. p \in Ready /\ p \in DOMAIN edges /\ q \in edges[p] /\ q \in DOMAIN edges
      BY <1>2, <1>3, <1>4, <2>2
    <3>2. CASE q \in Layered(p)
      <4>1. q \notin remaining
        BY <3>1, <3>2 DEF Ready
      <4>2. PICK j \in DOMAIN rounds : q \in rounds[j]
        BY <1>2, <3>1, <4>1
      <4> QED
        BY <1>4, <2>2, <4>2
    <3>3. CASE q \notin Layered(p)
      BY <3>1, <3>3 DEF Layered
    <3> QED
      BY <3>2, <3>3
  <2> QED
    BY <1>4, <2>1, <2>2
<1>7. Cycles' = Cycles
  BY <1>1 DEF Cycles
<1> QED
  BY <1>1, <1>5, <1>6, <1>7 DEF WaitsAreEarlier

\* The other steps put nothing in a round.
LEMMA OtherSteps == IInv /\ [Next]_vars => Round \/ IInv'
<1> SUFFICES ASSUME IInv, [Next]_vars PROVE Round \/ IInv'
  OBVIOUS
<1>1. CASE Ask
  <2>1. /\ phase' = "block" /\ needs' = [p \in Package \ cannot |-> Waits(p)]
        /\ UNCHANGED <<branch, edges, rounds>> /\ rounds = <<>>
    BY <1>1 DEF Ask, layers, IInv, Accounted, Layering
  <2>2. \A p \in Package : Waits(p) \subseteq Package
    BY DEF Waits
  <2>3. DOMAIN needs' = Package \ cannot /\ \A p \in DOMAIN needs' : needs'[p] \subseteq Package
    BY <2>1, <2>2
  <2>4. cannot' = cannot
    BY <2>1 DEF cannot
  <2>5. Asked'
    BY <2>3, <2>4 DEF Asked
  <2>6. Closed' /\ WaitsAreEarlier'
    BY <2>1 DEF Closed, Layering, WaitsAreEarlier
  <2>7. Accounted'
    BY <2>1 DEF IInv, Accounted, Layering
  <2> QED
    BY <2>5, <2>6, <2>7 DEF IInv
<1>2. ASSUME NEW p \in Package, Block(p) PROVE IInv'
  BY <1>2 DEF Block, IInv, Asked, Closed, Accounted, Layering, WaitsAreEarlier, cannot, layers, tarjan, Cycles
<1>3. CASE Blocked
  <2>1. /\ phase = "block" /\ phase' = "cycles"
        /\ \A p \in DOMAIN needs \ DOMAIN blocked_by : Blockers(p) = {}
        /\ edges' = [p \in DOMAIN needs \ DOMAIN blocked_by |-> needs[p] \ Stuck]
        /\ UNCHANGED <<branch, needs, blocked_by, rounds>> /\ rounds = <<>>
    BY <1>3 DEF Blocked, layers, IInv, Accounted, Layering
  <2>2. /\ DOMAIN needs = Package \ cannot
        /\ \A p \in DOMAIN needs : needs[p] \subseteq Package
    BY <2>1 DEF IInv, Asked
  <2>3. DOMAIN edges' = Package \ Stuck
    BY <2>1, <2>2 DEF Stuck
  <2>4. \A p \in DOMAIN edges' : needs[p] = edges'[p] /\ edges'[p] \subseteq DOMAIN edges'
    BY <2>1, <2>2, <2>3 DEF Blockers, Stuck
  <2>5. rounds' \in Seq(SUBSET DOMAIN edges')
    BY <2>1
  <2> QED
    BY <2>1, <2>4, <2>5 DEF IInv, Asked, Closed, Accounted, Layering, WaitsAreEarlier
<1>4. ASSUME NEW p \in Package, Start(p) \/ Look(p) PROVE IInv'
  <2>1. phase = "cycles" /\ UNCHANGED <<phase, needs, edges, rounds, remaining>>
    BY <1>4 DEF Start, Look, layers
  <2> QED
    BY <2>1 DEF IInv, Asked, Closed, Accounted, Layering, WaitsAreEarlier
<1>5. CASE Return
  <2>1. phase = "cycles" /\ UNCHANGED <<phase, needs, edges, rounds, remaining>>
    BY <1>5 DEF Return, layers
  <2> QED
    BY <2>1 DEF IInv, Asked, Closed, Accounted, Layering, WaitsAreEarlier
<1>6. CASE Counted
  BY <1>6 DEF Counted, IInv, Asked, Closed, Accounted, Layering, WaitsAreEarlier
<1>7. CASE Settle
  <2>1. /\ phase = "layers" /\ phase' \in {"ordered", "did not settle"}
        /\ UNCHANGED <<branch, needs, edges, sccs, rounds, remaining>>
    BY <1>7 DEF Settle, tarjan, layers
  <2>2. Cycles' = Cycles
    BY <2>1 DEF Cycles
  <2>3. Asked' /\ Closed' /\ Accounted'
    BY <2>1 DEF IInv, Asked, Closed, Accounted, Layering
  <2>4. WaitsAreEarlier'
    <3>1. rounds' = rounds /\ needs' = needs /\ Cycles' = Cycles
      BY <2>1, <2>2
    <3> QED
      BY <3>1 DEF IInv, WaitsAreEarlier
  <2> QED
    BY <2>3, <2>4 DEF IInv
<1>8. CASE Given \/ UNCHANGED vars
  <2>1. UNCHANGED vars
    BY <1>8 DEF Given
  <2>2. UNCHANGED <<branch, phase, needs, edges, sccs, rounds, remaining>>
    BY <2>1 DEF vars, tarjan, layers
  <2>3. Cycles' = Cycles /\ cannot' = cannot
    BY <2>2 DEF Cycles, cannot
  <2>4. Asked' /\ Closed' /\ Accounted'
    BY <2>2, <2>3 DEF IInv, Asked, Closed, Accounted
  <2>5. WaitsAreEarlier'
    BY <2>2, <2>3 DEF IInv, WaitsAreEarlier
  <2> QED
    BY <2>4, <2>5 DEF IInv
<1>9. Round => Round \/ IInv'
  OBVIOUS
<1> QED
  BY <1>1, <1>2, <1>3, <1>4, <1>5, <1>6, <1>7, <1>8, <1>9 DEF Next

\* The rounds, whatever the search has found.
LEMMA OrderInvariance == Spec => []IInv
<1>1. Init => IInv
  BY DEF Init, IInv, Asked, Closed, Accounted, Layering, WaitsAreEarlier
<1>2. IInv /\ [Next]_vars => IInv'
  <2> SUFFICES ASSUME IInv, Round PROVE IInv'
    BY OtherSteps
  <2>1. UNCHANGED <<branch, phase, needs, edges>> /\ phase = "layers"
    BY DEF Round
  <2>2. Asked' /\ Closed'
    BY <2>1 DEF IInv, Asked, Closed, Layering
  <2> QED
    BY <2>2, RoundKeepsWaits DEF IInv
<1> QED
  BY <1>1, <1>2, PTL DEF Spec

\* Whatever is put in a round, everything that it waits for is in an earlier one
\* or in a cycle with it, for any set of packages.
THEOREM WaitsKept == Spec => []WaitsAreEarlier
<1>1. IInv => WaitsAreEarlier
  BY DEF IInv
<1> QED
  BY <1>1, OrderInvariance, PTL

-----------------------------------------------------------------------------
(* The whole of build_order *)

Graphed == {"cycles"} \cup Layering

\* What each waits for is asked for once.  The packages blocked are among those
\* asked about, and each leads to one that cannot be rebuilt.
Blocking ==
  /\ phase # "ask" => needs = [p \in Package \ cannot |-> Waits(p)]
  /\ DOMAIN blocked_by \subseteq Package \ cannot
  /\ phase = "ask" => DOMAIN blocked_by = {}
  /\ \A p \in DOMAIN blocked_by : Reached(needs)[p] \cap cannot # {}

\* The graph is of the others.  It is searched, and then its components are known.
Searching ==
  /\ phase \in Graphed => GraphInv /\ DOMAIN edges = Package \ Stuck
  /\ phase \in {"ask", "block"} => /\ calls = <<>> /\ stack = <<>> /\ sccs = {}
                                   /\ index = NoFunction /\ lowlink = NoFunction
  /\ phase = "cycles" => SearchInv
  /\ phase \in Layering => Found

\* A package is in one round at most, and then no longer to come.  None is left.
Settling ==
  /\ phase \in {"ask", "block", "cycles", "layers", "ordered"}
  /\ \A i, j \in DOMAIN rounds : i # j => rounds[i] \cap rounds[j] = {}
  /\ phase \in Layering => \A i \in DOMAIN rounds : rounds[i] \cap remaining = {}
  /\ phase = "ordered" => remaining = {}

PlanInv == Blocking /\ Searching /\ Settling

LEMMA PackagesAreFinite == IsFiniteSet(Package) /\ IsFiniteSet(Binary)
BY BuildAssumption

LEMMA PlanInit == Init => PlanInv
<1> SUFFICES ASSUME Init PROVE PlanInv
  OBVIOUS
<1>1. DOMAIN blocked_by = {} /\ DOMAIN rounds = {}
  BY DEF Init, NoFunction
<1> QED BY <1>1 DEF Init, PlanInv, Blocking, Searching, Settling, Graphed, Layering

\* What blocks a package leads to one that cannot be rebuilt, and so does it.
LEMMA BlockKeeps ==
  ASSUME IInv, PlanInv, NEW p \in Package, Block(p)
  PROVE  PlanInv'
<1>1. /\ phase = "block" /\ p \in DOMAIN needs \ DOMAIN blocked_by /\ Blockers(p) # {}
      /\ blocked_by' = With(blocked_by, p, Blockers(p))
      /\ UNCHANGED <<branch, phase, needs, edges, calls, stack, index, lowlink, sccs, remaining, rounds>>
  BY DEF Block, tarjan, layers
<1>2. /\ needs = [q \in Package \ cannot |-> Waits(q)]
      /\ DOMAIN blocked_by \subseteq Package \ cannot
      /\ \A q \in DOMAIN blocked_by : Reached(needs)[q] \cap cannot # {}
  BY <1>1 DEF PlanInv, Blocking
<1>3. DOMAIN needs = Package \ cannot
  BY <1>2
<1>4. IsFiniteSet(DOMAIN needs)
  BY <1>3, PackagesAreFinite, FS_Difference
<1>5. DOMAIN blocked_by' = DOMAIN blocked_by \cup {p}
  BY <1>1 DEF With
<1>6. Reached(needs)[p] \cap cannot # {}
  <2>1. PICK q \in needs[p] : q \in Stuck BY <1>1 DEF Blockers
  <2>2. p \in Reached(needs)[p] /\ ClosedUnder(needs, Reached(needs)[p])
    BY <1>1, <1>4, ReachedIsLeast
  <2>3. q \in Reached(needs)[p]
    BY <1>1, <2>1, <2>2 DEF ClosedUnder, Successors
  <2>4. CASE q \in cannot BY <2>3, <2>4
  <2>5. CASE q \in DOMAIN blocked_by
    <3>1. q \in DOMAIN needs BY <1>2, <1>3, <2>5
    <3>2. Reached(needs)[q] \subseteq Reached(needs)[p]
      BY <1>4, <2>2, <2>3, <3>1, ReachedIsLeast
    <3> QED BY <1>2, <2>5, <3>2
  <2> QED BY <2>1, <2>4, <2>5 DEF Stuck
<1>7. cannot' = cannot
  BY <1>1 DEF cannot
<1>8. Blocking'
  <2>1. \A q \in Package : Waits(q)' = Waits(q)
    BY <1>1 DEF Waits, Buildroot, Required
  <2>2. \A q \in DOMAIN blocked_by' : Reached(needs)[q] \cap cannot # {}
    BY <1>2, <1>5, <1>6
  <2>3. Reached(needs)' = Reached(needs) BY <1>1 DEF Reached
  <2>4. needs' = [q \in Package \ cannot' |-> Waits(q)']
    BY <1>1, <1>2, <1>7, <2>1
  <2>5. DOMAIN blocked_by' \subseteq Package \ cannot' BY <1>1, <1>2, <1>3, <1>5, <1>7
  <2> QED BY <1>1, <1>7, <2>2, <2>3, <2>4, <2>5 DEF Blocking
<1>9. Searching'
  BY <1>1 DEF PlanInv, Searching, Graphed, Layering
<1>10. Settling'
  BY <1>1 DEF PlanInv, Settling, Layering
<1> QED BY <1>8, <1>9, <1>10 DEF PlanInv

\* Nothing of the plan's first part changes once the graph is built.
LEMMA BlockingKept ==
  ASSUME Blocking, UNCHANGED <<branch, needs, blocked_by>>, phase # "ask", phase' # "ask"
  PROVE  Blocking' /\ Stuck' = Stuck
<1>1. cannot' = cannot
  BY DEF cannot
<1>2. \A q \in Package : Waits(q)' = Waits(q)
  BY DEF Waits, Buildroot, Required
<1>3. Reached(needs)' = Reached(needs)
  BY DEF Reached
<1>4. needs' = [q \in Package \ cannot' |-> Waits(q)']
  BY <1>1, <1>2 DEF Blocking
<1> QED BY <1>1, <1>3, <1>4 DEF Blocking, Stuck

\* Every step of build_order keeps what the plan rests on.
LEMMA PlanSteps == IInv /\ PlanInv /\ [Next]_vars => PlanInv'
<1> SUFFICES ASSUME IInv, PlanInv, [Next]_vars PROVE PlanInv'
  OBVIOUS
<1>1. CASE Ask
  <2>1. /\ phase = "ask" /\ phase' = "block"
        /\ needs' = [p \in Package \ cannot |-> Waits(p)]
        /\ UNCHANGED <<branch, blocked_by, calls, stack, index, lowlink, sccs, remaining, rounds>>
    BY <1>1 DEF Ask, tarjan, layers
  <2>2. cannot' = cannot BY <2>1 DEF cannot
  <2>3. \A p \in Package : Waits(p)' = Waits(p) BY <2>1 DEF Waits, Buildroot, Required
  <2>4. DOMAIN blocked_by' = {} BY <2>1 DEF PlanInv, Blocking
  <2>5. needs' = [p \in Package \ cannot' |-> Waits(p)'] BY <2>1, <2>2, <2>3
  <2>6. Blocking' BY <2>1, <2>4, <2>5 DEF Blocking
  <2>7. Searching' BY <2>1 DEF PlanInv, Searching, Graphed, Layering
  <2>8. Settling' BY <2>1 DEF PlanInv, Settling, Layering
  <2> QED BY <2>6, <2>7, <2>8 DEF PlanInv
<1>2. ASSUME NEW p \in Package, Block(p) PROVE PlanInv'
  BY <1>2, BlockKeeps
<1>3. CASE Blocked
  <2>1. /\ phase = "block" /\ phase' = "cycles"
        /\ \A p \in DOMAIN needs \ DOMAIN blocked_by : Blockers(p) = {}
        /\ edges' = [p \in DOMAIN needs \ DOMAIN blocked_by |-> needs[p] \ Stuck]
        /\ UNCHANGED <<branch, needs, blocked_by, calls, stack, index, lowlink, sccs, remaining, rounds>>
    BY <1>3 DEF Blocked, tarjan, layers
  <2>2. Blocking' /\ Stuck' = Stuck BY <2>1, BlockingKept DEF PlanInv
  <2>3. needs = [p \in Package \ cannot |-> Waits(p)] BY <2>1 DEF PlanInv, Blocking
  <2>4. DOMAIN edges' = Package \ Stuck BY <2>1, <2>3 DEF Stuck
  <2>5. IsFiniteSet(Package \ Stuck) BY PackagesAreFinite, FS_Difference
  <2>6. ASSUME NEW p \in DOMAIN edges' PROVE edges'[p] \subseteq DOMAIN edges' \ {p}
    <3>1. p \in Package \ cannot /\ edges'[p] = Waits(p) \ Stuck BY <2>1, <2>3, <2>6
    <3>2. Waits(p) \subseteq Package \ {p} BY DEF Waits
    <3> QED BY <2>4, <3>1, <3>2
  <2>7. GraphInv' BY <2>4, <2>5, <2>6 DEF GraphInv
  <2>8. SearchInv'
    <3>1. /\ calls' = <<>> /\ stack' = <<>> /\ sccs' = {}
          /\ index' = NoFunction /\ lowlink' = NoFunction
      BY <2>1 DEF PlanInv, Searching
    <3>2. (calls = <<>> /\ stack = <<>> /\ index = NoFunction /\ lowlink = NoFunction /\ sccs = {}
             => SearchInv)'
      BY SearchBegins, PTL
    <3> QED BY <3>1, <3>2
  <2>9. Searching' BY <2>1, <2>2, <2>4, <2>7, <2>8 DEF Searching, Graphed, Layering
  <2>10. Settling' BY <2>1 DEF PlanInv, Settling, Layering
  <2> QED BY <2>2, <2>9, <2>10 DEF PlanInv
<1>4. ASSUME NEW v, Start(v) \/ Look(v) \/ Return PROVE PlanInv'
  <2>1. phase = "cycles" /\ UNCHANGED <<branch, phase, needs, blocked_by, edges, remaining, rounds>>
    BY <1>4 DEF Start, Look, Return, layers
  <2>2. Blocking' /\ Stuck' = Stuck BY <2>1, BlockingKept DEF PlanInv
  <2>3. GraphInv /\ SearchInv BY <2>1 DEF PlanInv, Searching, Graphed
  <2>4. SearchInv' BY <1>4, <2>3, SearchSteps
  <2>5. GraphInv' BY <2>1, <2>3 DEF GraphInv
  <2>6. Searching' BY <2>1, <2>2, <2>4, <2>5 DEF PlanInv, Searching, Graphed, Layering
  <2>7. Settling' BY <2>1 DEF PlanInv, Settling, Layering
  <2> QED BY <2>2, <2>6, <2>7 DEF PlanInv
<1>5. CASE Counted
  <2>1. /\ phase = "cycles" /\ phase' = "layers" /\ calls = <<>> /\ DOMAIN index = DOMAIN edges
        /\ UNCHANGED <<branch, needs, blocked_by, edges, sccs, rounds>>
    BY <1>5 DEF Counted, tarjan
  <2>2. Blocking' /\ Stuck' = Stuck BY <2>1, BlockingKept DEF PlanInv
  <2>3. GraphInv /\ SearchInv BY <2>1 DEF PlanInv, Searching, Graphed
  <2>4. Found BY <2>1, <2>3, SearchEnds
  <2>5. GraphInv' /\ Found' 
    BY <2>1, <2>3, <2>4, SameLeads DEF GraphInv, Found, Known, KnownAreComponents
  <2>6. Searching' BY <2>1, <2>2, <2>5 DEF PlanInv, Searching, Graphed, Layering
  <2>7. rounds = <<>> /\ rounds' = <<>> BY <2>1 DEF IInv, Accounted, Layering
  <2>8. Settling' BY <2>1, <2>7 DEF PlanInv, Settling, Layering
  <2> QED BY <2>2, <2>6, <2>8 DEF PlanInv
<1>6. CASE Round
  <2>1. /\ phase = "layers" /\ remaining' = remaining \ Ready /\ rounds' = Append(rounds, Ready)
        /\ UNCHANGED <<branch, phase, needs, blocked_by, edges, sccs>>
    BY <1>6 DEF Round, tarjan
  <2>2. Blocking' /\ Stuck' = Stuck BY <2>1, BlockingKept DEF PlanInv
  <2>3. GraphInv' /\ Found'
    BY <2>1, SameLeads DEF PlanInv, Searching, Graphed, Layering, GraphInv, Found, Known, KnownAreComponents
  <2>4. Searching' BY <2>1, <2>2, <2>3 DEF PlanInv, Searching, Graphed, Layering
  <2>5. /\ rounds \in Seq(SUBSET DOMAIN edges) /\ remaining \subseteq DOMAIN edges
        /\ Ready \subseteq remaining
    BY <2>1 DEF IInv, Accounted, Layering, Ready
  <2>6. /\ DOMAIN rounds = 1..Len(rounds) /\ Len(rounds) \in Nat
        /\ DOMAIN rounds' = 1..Len(rounds) + 1 /\ rounds'[Len(rounds) + 1] = Ready
        /\ \A i \in 1..Len(rounds) : rounds'[i] = rounds[i]
    BY <2>1, <2>5
  <2>7. /\ \A i, j \in 1..Len(rounds) : i # j => rounds[i] \cap rounds[j] = {}
        /\ \A i \in 1..Len(rounds) : rounds[i] \cap remaining = {}
    BY <2>1, <2>6 DEF PlanInv, Settling, Layering
  <2>8. \A i \in 1..Len(rounds) : rounds'[i] \cap Ready = {}
    BY <2>5, <2>6, <2>7
  <2>9. \A i, j \in DOMAIN rounds' : i # j => rounds'[i] \cap rounds'[j] = {}
    <3> SUFFICES ASSUME NEW i \in DOMAIN rounds', NEW j \in DOMAIN rounds', i # j
                 PROVE  rounds'[i] \cap rounds'[j] = {}
      OBVIOUS
    <3>1. CASE i = Len(rounds) + 1
      <4>1. j \in 1..Len(rounds) BY <2>6, <3>1
      <4> QED BY <2>6, <2>8, <3>1, <4>1
    <3>2. CASE j = Len(rounds) + 1
      <4>1. i \in 1..Len(rounds) BY <2>6, <3>2
      <4> QED BY <2>6, <2>8, <3>2, <4>1
    <3>3. CASE i # Len(rounds) + 1 /\ j # Len(rounds) + 1
      <4>1. i \in 1..Len(rounds) /\ j \in 1..Len(rounds) BY <2>6, <3>3
      <4> QED BY <2>6, <2>7, <4>1
    <3> QED BY <3>1, <3>2, <3>3
  <2>10. \A i \in DOMAIN rounds' : rounds'[i] \cap remaining' = {}
    <3> SUFFICES ASSUME NEW i \in DOMAIN rounds' PROVE rounds'[i] \cap remaining' = {}
      OBVIOUS
    <3>1. CASE i = Len(rounds) + 1 BY <2>1, <2>6, <3>1
    <3>2. CASE i \in 1..Len(rounds) BY <2>1, <2>6, <2>7, <3>2
    <3> QED BY <2>6, <3>1, <3>2
  <2>11. Settling' BY <2>1, <2>9, <2>10 DEF Settling
  <2> QED BY <2>2, <2>4, <2>11 DEF PlanInv
<1>7. CASE Settle
  <2>1. /\ phase = "layers" /\ Ready = {}
        /\ phase' = IF remaining = {} THEN "ordered" ELSE "did not settle"
        /\ UNCHANGED <<branch, needs, blocked_by, edges, sccs, remaining, rounds>>
    BY <1>7 DEF Settle, tarjan, layers
  <2>2. GraphInv /\ Found /\ remaining \subseteq DOMAIN edges
    BY <2>1 DEF PlanInv, Searching, Graphed, Layering, IInv, Accounted
  <2>3. remaining = {} /\ phase' = "ordered"
    BY <2>1, <2>2, SomeAreReady
  <2>4. Blocking' /\ Stuck' = Stuck BY <2>1, <2>3, BlockingKept DEF PlanInv
  <2>5. GraphInv' /\ Found'
    BY <2>1, <2>2, SameLeads DEF GraphInv, Found, Known, KnownAreComponents
  <2>6. Searching' BY <2>1, <2>3, <2>4, <2>5 DEF PlanInv, Searching, Graphed, Layering
  <2>7. Settling' BY <2>1, <2>3 DEF PlanInv, Settling, Layering
  <2> QED BY <2>4, <2>6, <2>7 DEF PlanInv
<1>8. CASE Given \/ UNCHANGED vars
  <2>1. UNCHANGED <<branch, phase, needs, blocked_by, edges, calls, stack, index, lowlink, sccs,
                    remaining, rounds>>
    BY <1>8 DEF Given, vars, tarjan, layers
  <2>2. Blocking' /\ Stuck' = Stuck
    <3>1. CASE phase = "ask"
      <4>1. DOMAIN blocked_by' = {} /\ phase' = "ask" BY <2>1, <3>1 DEF PlanInv, Blocking
      <4>2. Blocking' BY <4>1 DEF Blocking
      <4> QED BY <2>1, <4>2 DEF Stuck, cannot
    <3>2. CASE phase # "ask" BY <2>1, <3>2, BlockingKept DEF PlanInv
    <3> QED BY <3>1, <3>2
  <2>3. Searching'
    <3>1. GraphInv' <=> GraphInv BY <2>1 DEF GraphInv
    <3>2. Found' <=> Found BY <2>1, SameLeads DEF Found, Known, KnownAreComponents
    <3>3. SearchInv => SearchInv'
      <4>1. OnStack' = OnStack /\ Known' = Known BY <2>1 DEF OnStack, Known
      <4>2. \A i, x : Under(i, x)' <=> Under(i, x) BY <2>1 DEF Under
      <4>3. SearchTypes /\ InOrder => SearchTypes' /\ InOrder'
        BY <2>1, <4>1 DEF SearchTypes, InOrder
      <4>4. NothingSkipped => NothingSkipped' BY <2>1, <4>1 DEF NothingSkipped
      <4>5. StackLeads /\ LowIsReached /\ KnownAreComponents
              => StackLeads' /\ LowIsReached' /\ KnownAreComponents'
        BY <2>1, <4>1, SameLeads DEF StackLeads, LowIsReached, KnownAreComponents
      <4>6. LowIsLowest => LowIsLowest' BY <2>1, <4>1, <4>2 DEF LowIsLowest
      <4> QED BY <4>3, <4>4, <4>5, <4>6 DEF SearchInv
    <3> QED BY <2>1, <2>2, <3>1, <3>2, <3>3 DEF PlanInv, Searching
  <2>4. Settling' BY <2>1 DEF PlanInv, Settling
  <2> QED BY <2>2, <2>3, <2>4 DEF PlanInv
<1>9. CASE Return
  BY <1>4, <1>9
<1>10. ASSUME NEW p \in Package, Block(p) \/ Start(p) \/ Look(p) PROVE PlanInv'
  BY <1>2, <1>4, <1>10
<1>11. [Next]_vars => \/ Ask \/ Blocked \/ Return \/ Counted \/ Round \/ Settle
                      \/ Given \/ UNCHANGED vars
                      \/ \E p \in Package : Block(p) \/ Start(p) \/ Look(p)
  BY DEF Next
<1> HIDE DEF PlanInv
<1> QED
  BY <1>1, <1>3, <1>5, <1>6, <1>7, <1>8, <1>9, <1>10, <1>11, Zenon

\* The rounds and what they rest on, always.
LEMMA PlanInvariance == Spec => [](IInv /\ PlanInv)
<1>1. Init => PlanInv
  BY PlanInit
<1>2. IInv /\ PlanInv /\ [Next]_vars => PlanInv'
  BY PlanSteps
<1> QED
  BY <1>1, <1>2, OrderInvariance, PTL DEF Spec

\* Every dependency cycle is found whole and nothing else is taken for one, for
\* any packages and in whatever order they are visited.
THEOREM CyclesFound == Spec => []CyclesAreKnots
<1>1. PlanInv => CyclesAreKnots
  <2> SUFFICES ASSUME PlanInv, phase \in {"layers", "ordered"},
                      NEW p \in DOMAIN edges, NEW q \in DOMAIN edges, p # q
               PROVE  (\E c \in Cycles : {p, q} \subseteq c)
                        <=> (q \in Reached(edges)[p] /\ p \in Reached(edges)[q])
    BY DEF CyclesAreKnots
  <2>1. GraphInv /\ Found
    BY DEF PlanInv, Searching, Graphed, Layering
  <2> QED
    BY <2>1, CyclesAre DEF Leads
<1> QED
  BY <1>1, PlanInvariance, PTL

\* The error "build order did not settle" is never given: a package is always
\* ready while some remain.
THEOREM AlwaysSettles == Spec => [](phase # "did not settle")
<1>1. PlanInv => phase # "did not settle"
  BY DEF PlanInv, Settling
<1> QED
  BY <1>1, PlanInvariance, PTL

-----------------------------------------------------------------------------
(* Who is placed and who is blocked *)

\* At the end, a package is blocked when its waits lead to one that cannot be
\* rebuilt, and otherwise it is in one round.
LEMMA BlockedOrPlaced ==
  ASSUME IInv, PlanInv, phase = "ordered", NEW p \in Package \ cannot
  PROVE  IF Reached(needs)[p] \cap cannot # {}
         THEN p \in DOMAIN blocked_by \ Placed
         ELSE /\ p \notin DOMAIN blocked_by
              /\ Cardinality({i \in DOMAIN rounds : p \in rounds[i]}) = 1
<1>1. /\ DOMAIN needs = Package \ cannot
      /\ \A q \in DOMAIN blocked_by : Reached(needs)[q] \cap cannot # {}
  BY DEF PlanInv, Blocking
<1>2. DOMAIN edges = Package \ Stuck /\ remaining = {}
  BY DEF PlanInv, Searching, Settling, Graphed, Layering
<1>3. /\ rounds \in Seq(SUBSET DOMAIN edges)
      /\ \A q \in DOMAIN edges : \E i \in DOMAIN rounds : q \in rounds[i]
      /\ \A q \in DOMAIN edges : needs[q] = edges[q] /\ edges[q] \subseteq DOMAIN edges
  BY <1>2 DEF IInv, Accounted, Closed, Layering
<1>4. CASE p \in DOMAIN blocked_by
  <2>1. p \notin DOMAIN edges
    BY <1>2, <1>4 DEF Stuck
  <2>2. \A i \in DOMAIN rounds : rounds[i] \subseteq DOMAIN edges
    BY <1>3
  <2> QED
    BY <1>1, <1>4, <2>1, <2>2 DEF Placed
<1>5. CASE p \notin DOMAIN blocked_by
  <2>1. p \in DOMAIN edges /\ DOMAIN edges \cap cannot = {} /\ DOMAIN edges \subseteq DOMAIN needs
    BY <1>1, <1>2, <1>5 DEF Stuck
  <2>2. ClosedUnder(needs, DOMAIN edges)
    BY <1>3 DEF ClosedUnder, Successors
  <2>3. IsFiniteSet(DOMAIN needs)
    BY <1>1, PackagesAreFinite, FS_Difference
  <2>4. Reached(needs)[p] \subseteq DOMAIN edges
    BY <2>1, <2>2, <2>3, ReachedIsLeast
  <2>5. PICK i \in DOMAIN rounds : p \in rounds[i]
    BY <1>3, <2>1
  <2>6. {j \in DOMAIN rounds : p \in rounds[j]} = {i}
    BY <2>5 DEF PlanInv, Settling
  <2>7. Cardinality({i}) = 1
    BY FS_Singleton
  <2> QED
    BY <1>5, <2>1, <2>4, <2>6, <2>7
<1> QED
  BY <1>4, <1>5

-----------------------------------------------------------------------------
(* Buildroots *)

\* Nothing more is brought into a buildroot after the last wave: "a real buildroot
\* settles within a dozen", and MAX_WAVES is there for one that would not.
WavesSuffice ==
  \A p \in Package \ cannot :
    branch.brs[p] \subseteq Buildroot(p) /\ Required(Buildroot(p)) \subseteq Buildroot(p)

Wave(p, f, n) ==
  IF n = 0 THEN {}
  ELSE f[n - 1] \cup (IF n = 1 THEN branch.brs[p] ELSE Required(f[n - 1]))

\* What Buildroot(p) computes, wave by wave.
LEMMA BuildrootUnfolds ==
  ASSUME branch \in Branch, NEW p \in Package
  PROVE  \E f \in [0..MAX_WAVES -> SUBSET Binary] :
           /\ \A n \in 0..MAX_WAVES : f[n] = Wave(p, f, n)
           /\ Buildroot(p) = f[MAX_WAVES]
<1> DEFINE N == MAX_WAVES
           X == SUBSET Binary
           More(n, r) == r \cup (IF n = 1 THEN branch.brs[p] ELSE Required(r))
           F == [n \in Nat |-> [r \in X |-> More(n, r)]]
           Solves(f) == f = [n \in 0..N |-> Wave(p, f, n)]
<1>1. N \in Nat
  BY BuildAssumption
<1>2. \A n \in Nat : \A r \in X : More(n, r) \in X
  <2>1. /\ branch.brs \in [Package -> SUBSET Binary]
        /\ branch.requires \in [Binary -> SUBSET Binary]
    BY BuildAssumption
  <2>2. \A r \in X : Required(r) \subseteq Binary
    BY <2>1 DEF Required
  <2> QED
    BY <2>1, <2>2
<1>3. F \in [Nat -> [X -> X]]
  <2> HIDE DEF More, X
  <2> QED BY <1>2
<1>4. PICK f \in [0..N -> X] : Takes(f, {}, F, N)
  <2> HIDE DEF F, N
  <2>1. {} \in X OBVIOUS
  <2> HIDE DEF X
  <2> QED BY <1>1, <1>3, <2>1, Recursion, Zenon
<1>5. Solves(f)
  <2>1. ASSUME NEW n \in 0..N PROVE f[n] = Wave(p, f, n)
    <3>1. CASE n = 0 BY <3>1, <1>4 DEF Wave, Takes
    <3>2. CASE n # 0
      <4>1. n \in 1..N /\ n \in Nat /\ n - 1 \in 0..N BY <1>1, <3>2
      <4>2. f[n - 1] \in X BY <1>4, <4>1
      <4>3. f[n] = More(n, f[n - 1])
        <5> HIDE DEF X, More
        <5> QED BY <1>4, <4>1, <4>2 DEF Takes
      <4> QED BY <3>2, <4>3 DEF Wave
    <3> QED BY <3>1, <3>2
  <2> HIDE DEF X
  <2> QED BY <1>4, <2>1
<1>6. PICK h : h = CHOOSE k : Solves(k)
  OBVIOUS
<1>7. Solves(h)
  <2> HIDE DEF Solves
  <2> QED BY <1>5, <1>6, Zenon
<1>8. Buildroot(p) = h[N]
  <2>1. h = CHOOSE k : k = [n \in 0..MAX_WAVES |->
              IF n = 0 THEN {}
              ELSE k[n - 1] \cup (IF n = 1 THEN branch.brs[p] ELSE Required(k[n - 1]))]
    BY <1>6, Zenon DEF Wave
  <2> QED BY <2>1, Zenon DEF Buildroot
<1>9. \A n \in 0..N : h[n] = Wave(p, h, n)
  <2> HIDE DEF Wave, N
  <2> QED BY <1>7
<1>10. \A n \in 0..N : h[n] \in X
  <2> DEFINE Bad == {n \in 0..N : h[n] \notin X}
  <2> SUFFICES ASSUME Bad # {} PROVE FALSE OBVIOUS
  <2>1. PICK n \in Bad : \A m \in Bad : n <= m
    <3>1. Bad \in SUBSET Nat BY <1>1
    <3> HIDE DEF Bad
    <3> QED BY <3>1, LeastExists
  <2>2. n # 0 BY <1>9, <2>1 DEF Wave
  <2>3. n \in Nat /\ n \in 0..N /\ n - 1 \in 0..N /\ n - 1 \notin Bad BY <1>1, <2>1, <2>2
  <2>4. h[n] = More(n, h[n - 1]) BY <1>9, <2>2, <2>3 DEF Wave
  <2> HIDE DEF More
  <2> QED BY <1>2, <2>1, <2>3, <2>4
<1>11. h \in [0..N -> X]
  <2>1. h = [n \in 0..N |-> h[n]] 
    <3> HIDE DEF Wave
    <3> QED BY <1>7
  <2> HIDE DEF X, Solves
  <2> QED BY <1>10, <2>1
<1> QED BY <1>8, <1>9, <1>11

\* A buildroot that has settled is what its BuildRequires lead to.
LEMMA BuildrootIs ==
  ASSUME branch \in Branch, NEW p \in Package,
         branch.brs[p] \subseteq Buildroot(p), Required(Buildroot(p)) \subseteq Buildroot(p)
  PROVE  Buildroot(p) = UNION {Reached(branch.requires)[c] : c \in branch.brs[p]}
<1> DEFINE g == branch.requires
           U == UNION {Reached(g)[c] : c \in branch.brs[p]}
<1>1. /\ branch.brs[p] \subseteq Binary /\ DOMAIN g = Binary
      /\ \A b \in Binary : g[b] \subseteq Binary
  BY BuildAssumption
<1>2. PICK f \in [0..MAX_WAVES -> SUBSET Binary] :
        /\ \A n \in 0..MAX_WAVES : f[n] = Wave(p, f, n)
        /\ Buildroot(p) = f[MAX_WAVES]
  BY BuildrootUnfolds
<1>3. MAX_WAVES \in Nat
  BY BuildAssumption
<1>4. \A S \in SUBSET Binary : Required(S) = Successors(g, S)
  BY <1>1 DEF Required, Successors
<1>5. \A c \in Binary :
        /\ c \in Reached(g)[c] /\ ClosedUnder(g, Reached(g)[c])
        /\ \A S : c \in S /\ ClosedUnder(g, S) => Reached(g)[c] \subseteq S
  BY <1>1, PackagesAreFinite, ReachedIsLeast
<1> HIDE DEF g
<1>6. U \subseteq Buildroot(p)
  <2>1. Buildroot(p) \in SUBSET Binary BY <1>2, <1>3
  <2>2. ClosedUnder(g, Buildroot(p)) BY <1>4, <2>1 DEF ClosedUnder
  <2> QED BY <1>1, <1>5, <2>2
<1>7. branch.brs[p] \subseteq U /\ U \subseteq Binary
  <2>1. ClosedUnder(g, Binary) BY <1>1 DEF ClosedUnder, Successors
  <2> QED BY <1>1, <1>5, <2>1
<1>8. ClosedUnder(g, U)
  <2> SUFFICES ASSUME NEW q \in U \cap DOMAIN g PROVE g[q] \subseteq U
    BY DEF ClosedUnder, Successors
  <2>1. PICK c \in branch.brs[p] : q \in Reached(g)[c] OBVIOUS
  <2>2. ClosedUnder(g, Reached(g)[c]) BY <1>1, <1>5
  <2> QED BY <2>1, <2>2 DEF ClosedUnder, Successors
<1> HIDE DEF U
<1>9. \A n \in 0..MAX_WAVES : f[n] \subseteq U
  <2> DEFINE Bad == {n \in 0..MAX_WAVES : ~ (f[n] \subseteq U)}
  <2> SUFFICES ASSUME Bad # {} PROVE FALSE OBVIOUS
  <2>1. PICK n \in Bad : \A m \in Bad : n <= m
    <3>1. Bad \in SUBSET Nat BY <1>3
    <3> HIDE DEF Bad
    <3> QED BY <3>1, LeastExists
  <2>2. n # 0 BY <1>2, <2>1 DEF Wave
  <2>3. n \in 0..MAX_WAVES /\ n - 1 \in 0..MAX_WAVES /\ n - 1 \notin Bad
    BY <1>3, <2>1, <2>2
  <2>4. f[n - 1] \subseteq U /\ f[n - 1] \subseteq Binary BY <1>2, <2>3
  <2>5. Required(f[n - 1]) \subseteq Required(U) BY <2>4 DEF Required
  <2>6. Required(U) \subseteq U BY <1>4, <1>7, <1>8 DEF ClosedUnder
  <2>7. f[n] = f[n - 1] \cup (IF n = 1 THEN branch.brs[p] ELSE Required(f[n - 1]))
    BY <1>2, <2>2, <2>3 DEF Wave
  <2> QED BY <1>7, <2>1, <2>4, <2>5, <2>6, <2>7
<1>10. Buildroot(p) \subseteq U
  BY <1>2, <1>3, <1>9
<1> QED BY <1>6, <1>10 DEF U, g

\* It is so wherever there are fewer binary packages than waves: a wave that does
\* not settle a buildroot brings one more into it.
LEMMA EnoughWaves ==
  ASSUME branch \in Branch, MAX_WAVES > Cardinality(Binary)
  PROVE  WavesSuffice
<1> SUFFICES ASSUME NEW p \in Package
             PROVE  branch.brs[p] \subseteq Buildroot(p) /\ Required(Buildroot(p)) \subseteq Buildroot(p)
  BY DEF WavesSuffice
<1> DEFINE N == MAX_WAVES
           Whole(S) == branch.brs[p] \subseteq S
           Settled(S) == Required(S) \subseteq S
<1>1. N \in Nat /\ Cardinality(Binary) \in Nat /\ N >= 1
  BY BuildAssumption, FS_CardinalityType
<1>2. PICK f \in [0..N -> SUBSET Binary] :
        /\ \A n \in 0..N : f[n] = Wave(p, f, n)
        /\ Buildroot(p) = f[N]
  BY BuildrootUnfolds
<1>3. f[1] = branch.brs[p]
  <2>1. f[0] = Wave(p, f, 0) /\ f[1] = Wave(p, f, 1) BY <1>1, <1>2
  <2> QED BY <2>1 DEF Wave
<1>4. ASSUME NEW n \in 2..N PROVE f[n] = f[n - 1] \cup Required(f[n - 1])
  <2>1. f[n] = Wave(p, f, n) /\ n # 0 /\ n # 1 BY <1>1, <1>2
  <2> QED BY <2>1 DEF Wave
<1>5. \A n \in 0..N : /\ IsFiniteSet(f[n]) /\ Cardinality(f[n]) \in Nat
                      /\ Cardinality(f[n]) <= Cardinality(Binary)
  <2> SUFFICES ASSUME NEW n \in 0..N
               PROVE  /\ IsFiniteSet(f[n]) /\ Cardinality(f[n]) \in Nat
                      /\ Cardinality(f[n]) <= Cardinality(Binary)
    OBVIOUS
  <2>1. f[n] \subseteq Binary BY <1>2
  <2> QED BY <2>1, PackagesAreFinite, FS_Subset, FS_CardinalityType
<1> DEFINE Good(n) == Whole(f[n]) /\ (Settled(f[n]) \/ Cardinality(f[n]) >= n)
           Bad == {n \in 1..N : ~ Good(n)}
<1>6. Good(1)
  <2>1. CASE branch.brs[p] = {}
    BY <1>3, <2>1 DEF Required
  <2>2. CASE branch.brs[p] # {}
    <3>1. 1 \in 0..N BY <1>1
    <3>2. Cardinality(f[1]) # 0 BY <1>3, <1>5, <2>2, <3>1, FS_EmptySet
    <3> QED BY <1>3, <1>5, <3>1, <3>2
  <2> QED BY <2>1, <2>2
<1>7. ASSUME NEW n \in 2..N, Good(n - 1) PROVE Good(n)
  <2>1. n \in 0..N /\ n - 1 \in 0..N /\ n \in Nat BY <1>1
  <2>2. f[n] = f[n - 1] \cup Required(f[n - 1]) BY <1>4
  <2>3. Whole(f[n]) BY <1>7, <2>2
  <2> SUFFICES ASSUME ~ Settled(f[n]) PROVE Cardinality(f[n]) >= n
    BY <2>3
  <2>4. f[n] # f[n - 1]
    BY <2>2
  <2>5. Cardinality(f[n - 1]) >= n - 1
    <3>1. ~ Settled(f[n - 1]) BY <2>2, <2>4
    <3> QED BY <1>7, <3>1
  <2>6. /\ Cardinality(f[n - 1]) <= Cardinality(f[n])
        /\ Cardinality(f[n - 1]) # Cardinality(f[n])
    BY <1>5, <2>1, <2>2, <2>4, FS_Subset
  <2> QED BY <1>5, <2>1, <2>5, <2>6
<1> HIDE DEF Good
<1>8. Good(N)
  <2> SUFFICES ASSUME Bad # {} PROVE FALSE
    BY <1>1
  <2>1. PICK n \in Bad : \A m \in Bad : n <= m
    <3>1. Bad \in SUBSET Nat BY <1>1
    <3> HIDE DEF Bad
    <3> QED BY <3>1, LeastExists
  <2>2. n # 1 BY <1>6, <2>1
  <2>3. n \in 2..N /\ n - 1 \in 1..N /\ n - 1 \notin Bad BY <1>1, <2>1, <2>2
  <2> QED BY <1>7, <2>1, <2>3
<1>9. Cardinality(f[N]) < N /\ Cardinality(f[N]) \in Nat
  BY <1>1, <1>5
<1> QED
  BY <1>1, <1>2, <1>8, <1>9 DEF Good

\* What the repositories say does not change while the order is worked out.
LEMMA BranchStays == Spec => [](branch \in Branch)
<1>1. Init => branch \in Branch
  BY DEF Init
<1>2. branch \in Branch /\ [Next]_vars => (branch \in Branch)'
  BY DEF Next, Ask, Block, Blocked, Start, Look, Return, Counted, Round, Settle, Given, vars
<1> QED
  BY <1>1, <1>2, PTL DEF Spec

\* Provided no buildroot is cut short by MAX_WAVES: the order settles, and each
\* package that can be rebuilt is in one round, or blocked just when what its
\* buildroot brings in leads to one that cannot be.
THEOREM EveryPackagePlaced == Spec => [](WavesSuffice => EveryPackageIsPlaced)
<1>1. IInv /\ PlanInv /\ branch \in Branch /\ WavesSuffice => EveryPackageIsPlaced
  <2> SUFFICES ASSUME IInv, PlanInv, branch \in Branch, WavesSuffice
               PROVE  EveryPackageIsPlaced
    OBVIOUS
  <2>1. phase # "did not settle"
    BY DEF PlanInv, Settling
  <2>2. ASSUME phase = "ordered", NEW p \in Package \ cannot
        PROVE  IF Reached([q \in DOMAIN needs |-> BroughtIn(q)])[p] \cap cannot # {}
               THEN p \in DOMAIN blocked_by \ Placed
               ELSE /\ p \notin DOMAIN blocked_by
                    /\ Cardinality({i \in DOMAIN rounds : p \in rounds[i]}) = 1
    <3>1. needs = [q \in Package \ cannot |-> Waits(q)]
      BY <2>2 DEF PlanInv, Blocking
    <3>2. \A q \in Package \ cannot : Waits(q) = BroughtIn(q)
      <4> SUFFICES ASSUME NEW q \in Package \ cannot PROVE Waits(q) = BroughtIn(q)
        OBVIOUS
      <4>1. Buildroot(q) = UNION {Reached(branch.requires)[c] : c \in branch.brs[q]}
        BY BuildrootIs DEF WavesSuffice
      <4> QED
        BY <4>1 DEF Waits, BroughtIn
    <3>3. [q \in DOMAIN needs |-> BroughtIn(q)] = needs
      BY <3>1, <3>2
    <3> QED
      BY <2>2, <3>3, BlockedOrPlaced
  <2> QED
    BY <2>1, <2>2 DEF EveryPackageIsPlaced
<1> QED
  BY <1>1, PlanInvariance, BranchStays, PTL
=============================================================================
