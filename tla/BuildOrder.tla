----------------------------- MODULE BuildOrder -----------------------------
(***************************************************************************)
(* The order in which `ebranch rebuild-plan` has a library's dependents    *)
(* rebuilt: build_order (tools/ebranch/src/rebuild_plan.rs) with the       *)
(* buildroots of Closure, and the graph algorithms of dag.rs.              *)
(*                                                                         *)
(* A binary package that links an old SONAME cannot be installed beside    *)
(* the new library, so a package whose buildroot has one waits for the     *)
(* package it is built from.  A dependency is represented by the binary    *)
(* packages that provide it.  Where the code goes through a map in the     *)
(* order of its names, the model takes any order.                          *)
(***************************************************************************)
EXTENDS Integers, FiniteSets, Sequences, FiniteSetsExt, SequencesExt

CONSTANTS
  Package,       \* the source packages still to rebuild
  Binary,        \* the binary packages of the branch
  SourceOf,      \* what each is built from
  Branch,        \* the branches planned for
  MAX_WAVES

\* Of a branch: the BuildRequires of each package, what each binary package
\* requires, those that require an old SONAME, and the packages whose
\* BuildRequires do not resolve.
ASSUME BuildAssumption ==
  /\ MAX_WAVES \in Nat
  /\ IsFiniteSet(Package) /\ IsFiniteSet(Binary)
  /\ Branch \subseteq [brs : [Package -> SUBSET Binary],
                       requires : [Binary -> SUBSET Binary],
                       links : SUBSET Binary, cannot : SUBSET Package]

VARIABLES
  branch,
  phase,
  needs,         \* the packages each waits for
  blocked_by,
  edges,
  \* find_cycles: the calls of strongconnect under way, innermost last, each
  \* with the dependencies it has yet to look at.
  calls, stack, index, lowlink, sccs,
  \* topological_layers
  remaining, rounds

tarjan == <<calls, stack, index, lowlink, sccs>>
layers == <<remaining, rounds>>
vars   == <<branch, phase, needs, blocked_by, edges, tarjan, layers>>

NoFunction == [x \in {} |-> x]
With(f, x, v) == [y \in DOMAIN f \cup {x} |-> IF y = x THEN v ELSE f[y]]

-----------------------------------------------------------------------------
(* What a package waits for *)

Required(bs) == UNION {branch.requires[b] : b \in bs}

cannot == branch.cannot

\* Mutant: what the BuildRequires bring along is not followed.
BuildrootDirect(p) == branch.brs[p]

\* The BuildRequires' providers and, wave by wave, what those require.
Buildroot(p) ==
  LET installed[n \in 0..MAX_WAVES] ==
        IF n = 0 THEN {}
        ELSE installed[n - 1] \cup
             (IF n = 1 THEN branch.brs[p] ELSE Required(installed[n - 1]))
  IN  installed[MAX_WAVES]

Waits(p) == {SourceOf[b] : b \in Buildroot(p) \cap branch.links} \cap (Package \ {p})

Ask ==
  /\ phase = "ask"
  /\ needs' = [p \in Package \ cannot |-> Waits(p)]
  /\ phase' = "block"
  /\ UNCHANGED <<branch, blocked_by, edges, tarjan, layers>>

-----------------------------------------------------------------------------
(* What is blocked *)

Stuck == cannot \cup DOMAIN blocked_by

\* Mutant: only a need that cannot be rebuilt itself blocks a package.
BlockersDirect(p) == needs[p] \cap cannot

Blockers(p) == needs[p] \cap Stuck

Block(p) ==
  /\ phase = "block" /\ p \in DOMAIN needs \ DOMAIN blocked_by
  /\ Blockers(p) # {}
  /\ blocked_by' = With(blocked_by, p, Blockers(p))
  /\ UNCHANGED <<branch, phase, needs, edges, tarjan, layers>>

Blocked ==
  /\ phase = "block"
  /\ \A p \in DOMAIN needs \ DOMAIN blocked_by : Blockers(p) = {}
  /\ edges' = [p \in DOMAIN needs \ DOMAIN blocked_by |-> needs[p] \ Stuck]
  /\ phase' = "cycles"
  /\ UNCHANGED <<branch, needs, blocked_by, tarjan, layers>>

-----------------------------------------------------------------------------
(* Cycles: strongconnect *)

Enter(v, outer) ==
  /\ index' = With(index, v, Cardinality(DOMAIN index))
  /\ lowlink' = With(lowlink, v, Cardinality(DOMAIN index))
  /\ stack' = Append(stack, v)
  /\ calls' = Append(outer, [of |-> v, deps |-> edges[v] \cap DOMAIN edges])
  /\ UNCHANGED sccs

Start(v) ==
  /\ phase = "cycles" /\ calls = <<>>
  /\ v \in DOMAIN edges \ DOMAIN index
  /\ Enter(v, <<>>)
  /\ UNCHANGED <<branch, phase, needs, blocked_by, edges, layers>>

\* Mutant: a dependency whose component is known counts as well.
LowerAlways(v, d) == [lowlink EXCEPT ![v] = Min({@, index[d]})]

Lower(v, d) ==
  IF d \in ToSet(stack) THEN [lowlink EXCEPT ![v] = Min({@, index[d]})] ELSE lowlink

Look(d) ==
  /\ phase = "cycles" /\ calls # <<>>
  /\ d \in Last(calls).deps
  /\ LET v == Last(calls).of
         outer == [calls EXCEPT ![Len(calls)].deps = @ \ {d}]
     IN  IF d \notin DOMAIN index
         THEN Enter(d, outer)
         ELSE /\ lowlink' = Lower(v, d)
              /\ calls' = outer
              /\ UNCHANGED <<stack, index, sccs>>
  /\ UNCHANGED <<branch, phase, needs, blocked_by, edges, layers>>

Return ==
  /\ phase = "cycles" /\ calls # <<>> /\ Last(calls).deps = {}
  /\ LET v == Last(calls).of
         at == CHOOSE i \in DOMAIN stack : stack[i] = v
     IN  /\ IF lowlink[v] = index[v]
            THEN /\ sccs' = sccs \cup {{stack[i] : i \in at..Len(stack)}}
                 /\ stack' = SubSeq(stack, 1, at - 1)
            ELSE UNCHANGED <<sccs, stack>>
         /\ calls' = Front(calls)
         /\ lowlink' = IF calls' = <<>> THEN lowlink
                       ELSE [lowlink EXCEPT ![Last(calls').of] = Min({@, lowlink[v]})]
  /\ UNCHANGED <<branch, phase, needs, blocked_by, edges, index, layers>>

Cycles == {c \in sccs : Cardinality(c) > 1}

Counted ==
  /\ phase = "cycles" /\ calls = <<>> /\ DOMAIN index = DOMAIN edges
  /\ remaining' = DOMAIN edges
  /\ phase' = "layers"
  /\ UNCHANGED <<branch, needs, blocked_by, edges, tarjan, rounds>>

-----------------------------------------------------------------------------
(* Rounds: topological_layers *)

\* Mutant: the waits inside a cycle are kept.
LayeredWhole(p) == edges[p]

\* Mutant: what a package of a cycle waits for is dropped altogether.
LayeredNone(p) == IF p \in UNION Cycles THEN {} ELSE edges[p]

\* The waits inside a cycle are dropped, so that the rest can be layered.
Layered(p) == {d \in edges[p] : \A c \in Cycles : ~ {p, d} \subseteq c}

Ready == {p \in remaining : Layered(p) \cap remaining = {}}

Round ==
  /\ phase = "layers" /\ Ready # {}
  /\ remaining' = remaining \ Ready
  /\ rounds' = Append(rounds, Ready)
  /\ UNCHANGED <<branch, phase, needs, blocked_by, edges, tarjan>>

\* "build order did not settle", or the rounds are given out.
Settle ==
  /\ phase = "layers" /\ Ready = {}
  /\ phase' = IF remaining = {} THEN "ordered" ELSE "did not settle"
  /\ UNCHANGED <<branch, needs, blocked_by, edges, tarjan, layers>>

-----------------------------------------------------------------------------
Init ==
  /\ branch \in Branch
  /\ phase = "ask" /\ needs = NoFunction /\ blocked_by = NoFunction /\ edges = NoFunction
  /\ calls = <<>> /\ stack = <<>> /\ index = NoFunction /\ lowlink = NoFunction
  /\ sccs = {} /\ remaining = {} /\ rounds = <<>>

\* The plan is given out, or the error.
Given == phase \in {"ordered", "did not settle"} /\ UNCHANGED vars

Next ==
  \/ Ask \/ Blocked \/ Return \/ Counted \/ Round \/ Settle \/ Given
  \/ \E p \in Package : Block(p) \/ Start(p) \/ Look(p)

Spec == Init /\ [][Next]_vars

-----------------------------------------------------------------------------
(* Properties *)

\* What reaches what along the edges of a graph.
Reached(g) ==
  LET reach[n \in 0..Cardinality(DOMAIN g)] ==
        IF n = 0 THEN [p \in DOMAIN g |-> {p}]
        ELSE [p \in DOMAIN g |->
                reach[n - 1][p] \cup UNION {g[q] : q \in reach[n - 1][p] \cap DOMAIN g}]
  IN  reach[Cardinality(DOMAIN g)]

Placed == UNION {rounds[i] : i \in DOMAIN rounds}

\* The packages whose binaries would be in p's buildroot and cannot be, until
\* they are rebuilt.
BroughtIn(p) ==
  {SourceOf[b] : b \in branch.links \cap
     UNION {Reached(branch.requires)[c] : c \in branch.brs[p]}} \cap (Package \ {p})

\* "A round needs only packages from earlier rounds in its buildroot", save those
\* of a cycle, which need each other: whatever is put in a round, everything that
\* it waits for is in an earlier one.
WaitsAreEarlier ==
  \A i \in DOMAIN rounds : \A p \in rounds[i] : \A q \in needs[p] :
    \/ \E j \in 1..i - 1 : q \in rounds[j]
    \/ \E c \in Cycles : {p, q} \subseteq c

\* The order always settles, and every package is in one round, or cannot be
\* rebuilt, or is blocked, and that is when what its buildroot brings in leads to
\* one that cannot be rebuilt.
EveryPackageIsPlaced ==
  /\ phase # "did not settle"
  /\ phase = "ordered" =>
       \A p \in Package \ cannot :
         IF Reached([q \in DOMAIN needs |-> BroughtIn(q)])[p] \cap cannot # {}
         THEN p \in DOMAIN blocked_by \ Placed
         ELSE /\ p \notin DOMAIN blocked_by
              /\ Cardinality({i \in DOMAIN rounds : p \in rounds[i]}) = 1

\* What is reported as cycles are the packages that wait for each other, whole.
CyclesAreKnots ==
  phase \in {"layers", "ordered"} =>
    \A p, q \in DOMAIN edges : p # q =>
      ((\E c \in Cycles : {p, q} \subseteq c)
         <=> (q \in Reached(edges)[p] /\ p \in Reached(edges)[q]))

\* "Each cycle is one round in `rounds`" (RebuildPlan::cycles).  Not so: dropping
\* the waits inside a cycle leaves a member that also waits for a package
\* outside of it in a later round than one that does not.
EachCycleIsOneRound ==
  phase = "ordered" => \A c \in Cycles : \E i \in DOMAIN rounds : c \subseteq rounds[i]
=============================================================================
