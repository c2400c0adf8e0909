---------------------------- MODULE KojiListing ----------------------------
(***************************************************************************)
(* The listing half of `koji-lag sync` (tools/koji-lag/src/sync.rs and     *)
(* sweep.rs): build tasks are listed from the hub by creation time, newest *)
(* first, page by page, and the store records which spans of creation time *)
(* have been listed in full.                                               *)
(*                                                                         *)
(* The hub is the environment: `created` says when each build task is      *)
(* created, and a task is visible from the instant after.  Koji assigns    *)
(* ids in creation order up to a skew.  Everything but `held` and `listed` *)
(* is lost when a run stops; those two are SQLite tables.                  *)
(***************************************************************************)
EXTENDS Spans

CONSTANTS
  Build,          \* task ids
  Horizon,        \* bound: the last instant
  Midnights,      \* instants a window may begin or end at
  Grace,          \* CREATE_GRACE_SECS
  Reread,         \* REREAD_SECS
  Skew,           \* how far ids may disagree with creation order
  PageSize,       \* --page-size, at least 1 (fill_gap clamps it)
  Starts,         \* bound: the instants the history may start at
  ClearEdges      \* assume no task is created just after a window's edge

ASSUME BuildAssumption == Build \subseteq Nat /\ IsFiniteSet(Build)
ASSUME TimeAssumption == /\ Horizon \in Nat
                         /\ Grace \in Nat
                         /\ Midnights \subseteq Nat
                         /\ Starts \subseteq Nat
ASSUME PageAssumption == PageSize \in Nat \ {0}
ASSUME SkewAssumption == Skew \in Nat /\ Reread \in Nat /\ Skew < Reread
ASSUME EdgeAssumption == ClearEdges \in BOOLEAN

VARIABLES
  created,        \* hub: creation instant of each build task
  now,            \* the clock
  held,           \* store, table builds: the ids it has rows for
  listed,         \* store, table listed: spans listed in full
  phase,          \* where the run is
  want,           \* the span of creation time the window needs
  todo,           \* gaps not yet walked
  gap,            \* the gap being walked
  cursor,         \* where the next page is asked from
  page            \* the page in hand

hub   == <<created, now>>
store == <<held, listed>>
run   == <<phase, want, todo, gap, cursor, page>>
vars  == <<hub, store, run>>

Phases == {"idle", "next", "ask", "put", "claim", "listed"}

NoSpan == [from |-> 0, to |-> 0]
NoCursor == [before |-> 0, offset |-> 0]

-----------------------------------------------------------------------------
\* The hub.

\* Ids follow creation to within Skew: ties and slightly late commits.
Ordered(c) == \A a, b \in Build : a > b => c[b] <= c[a] + Skew

\* listTasks(method = build, createdBefore = before).
Below(before) == {b \in Build : created[b] < before /\ created[b] < now}

\* The newest part of a set of tasks, by id.
Newest(part, all) == /\ part \subseteq all
                     /\ \A a \in part, b \in all \ part : a > b

\* `limit` newest of `all`, or all there is.
Take(part, all, limit) == /\ Newest(part, all)
                          /\ Cardinality(part) <= limit
                          /\ Cardinality(part) < limit => part = all

\* order -id, offset, limit.
IsPage(p, before, offset) ==
  \E skipped \in SUBSET Below(before) :
    /\ Take(skipped, Below(before), offset)
    /\ Take(p, Below(before) \ skipped, PageSize)

\* No task is created in the instants a far edge at t could still miss.
Clear(t) == \A b \in Build : created[b] \notin t .. (t + Skew)

-----------------------------------------------------------------------------
\* Mutant: a window's end is not clamped to the present.
WindowsUnclamped ==
  {[from |-> after - Grace, to |-> before] :
     after \in {m \in Midnights : m >= Grace}, before \in Midnights}

\* resolve_window and the span `run` derives from it.  `before` is a midnight
\* already past, or the present when today's date was given explicitly.
Windows ==
  {[from |-> after - Grace, to |-> before] :
     after \in {m \in Midnights : m >= Grace},
     before \in {m \in Midnights : m <= now} \cup {now}}

Wanted(w) == /\ w.from + Grace < w.to
             /\ ClearEdges => Clear(w.from) /\ Clear(w.to)

\* The oldest and newest creations on a page.
Oldest(p) == Min({created[b] : b \in p})
NewestCreation(p) == Max({created[b] : b \in p})

\* Mutant: no margin.
EdgeBare(p) == Oldest(p)

Edge(p) == Oldest(p) + Reread

\* The walk is over: the far side is reached, or the hub ran out.
FarSide(p, g) == Oldest(p) <= g.from \/ Cardinality(p) < PageSize

\* A page spanning less than the margin it would be re-read by.
Crowded(p) == NewestCreation(p) - Oldest(p) < Reread

\* Mutant: a finished walk claims short of the far end of its gap.
ClaimsToEdge(p, c, g) ==
  IF p # {} /\ c.before > Edge(p)
  THEN {[from |-> Max({Edge(p), g.from}), to |-> c.before]}
  ELSE {}

\* sweep::step, listed: the spans a page lets the store claim (none or one).
Claims(p, c, g) ==
  IF p = {} THEN {}
  ELSE IF FarSide(p, g) THEN {[from |-> g.from, to |-> c.before]}
  ELSE IF c.before > Edge(p)
       THEN {[from |-> Max({Edge(p), g.from}), to |-> c.before]}
  ELSE {}

\* Mutant: a crowded page is re-read from its edge like any other.
NextCursorsNoDrain(p, c, g) ==
  IF p = {} \/ FarSide(p, g) THEN {} ELSE {[before |-> Edge(p), offset |-> 0]}

\* sweep::step, next: where to go from here (nowhere or one cursor).
NextCursors(p, c, g) ==
  IF p = {} \/ FarSide(p, g) THEN {}
  ELSE IF Crowded(p)
       THEN {[before |-> c.before, offset |-> c.offset + Cardinality(p)]}
  ELSE {[before |-> Edge(p), offset |-> 0]}

-----------------------------------------------------------------------------
Init ==
  /\ created \in [Build -> 0..Horizon]
  /\ Ordered(created)
  /\ now \in Starts
  /\ held = {} /\ listed = {}
  /\ phase = "idle" /\ want = NoSpan /\ todo = {} /\ gap = NoSpan
  /\ cursor = NoCursor /\ page = {}

Tick == /\ now < Horizon
        /\ now' = now + 1
        /\ UNCHANGED <<created, store, run>>

\* run: the window is resolved and the gaps in it are looked up once.
Begin(w) ==
  /\ phase = "idle"
  /\ Wanted(w)
  /\ want' = w
  /\ todo' = Gaps(listed, w)
  /\ phase' = "next"
  /\ UNCHANGED <<hub, store, gap, cursor, page>>

\* for gap in gaps.iter().rev(), and the head of fill_gap.
NextGap ==
  /\ phase = "next"
  /\ \E g \in todo :
       /\ \A other \in todo : other.from <= g.from
       /\ gap' = g
       /\ todo' = todo \ {g}
       /\ cursor' = [before |-> g.to, offset |-> 0]
  /\ phase' = "ask"
  /\ UNCHANGED <<hub, store, want, page>>

NoGapLeft ==
  /\ phase = "next"
  /\ todo = {}
  /\ phase' = "listed"
  /\ UNCHANGED <<hub, store, want, todo, gap, cursor, page>>

\* HubPages::page.
AskPage ==
  /\ phase = "ask"
  /\ \E p \in SUBSET Below(cursor.before) :
       IsPage(p, cursor.before, cursor.offset) /\ page' = p
  /\ phase' = "put"
  /\ UNCHANGED <<hub, store, want, todo, gap, cursor>>

\* store.put_builds, one transaction.
PutBuilds ==
  /\ phase = "put"
  /\ held' = held \cup page
  /\ phase' = "claim"
  /\ UNCHANGED <<hub, listed, want, todo, gap, cursor, page>>

\* step, store.add_listed (its own transaction), and the end of the loop.
Recorded(l, claims) ==
  IF claims = {} THEN l ELSE AddListed(l, CHOOSE s \in claims : TRUE)

Claim ==
  /\ phase = "claim"
  /\ listed' = Recorded(listed, Claims(page, cursor, gap))
  /\ \/ /\ NextCursors(page, cursor, gap) = {}
        /\ phase' = "next"
        /\ UNCHANGED cursor
     \/ /\ cursor' \in NextCursors(page, cursor, gap)
        /\ phase' = "ask"
  /\ page' = {}
  /\ UNCHANGED <<hub, held, want, todo, gap>>

\* A hub error past its retries, a store error, Ctrl-C or a crash: the run is
\* over wherever it was, and only the tables remain.
Stop ==
  /\ phase # "idle"
  /\ phase' = "idle"
  /\ want' = NoSpan /\ todo' = {} /\ gap' = NoSpan
  /\ cursor' = NoCursor /\ page' = {}
  /\ UNCHANGED <<hub, store>>

\* The listing is done; in this module the run ends with it.
Finish == phase = "listed" /\ Stop
Interrupt == phase # "listed" /\ Stop

Walk == NextGap \/ NoGapLeft \/ AskPage \/ PutBuilds \/ Claim

Next == \/ Tick
        \/ \E w \in Windows : Begin(w)
        \/ Walk
        \/ Finish
        \/ Interrupt

Spec == Init /\ [][Next]_vars

\* A run that has begun keeps taking steps unless something stops it: the
\* loop has no wait but the hub's answer, which `timeout` bounds.
FairSpec == Spec /\ WF_vars(Walk) /\ WF_vars(Finish)

-----------------------------------------------------------------------------
TypeOK ==
  /\ created \in [Build -> 0..Horizon]
  /\ now \in Nat
  /\ held \subseteq Build
  /\ listed \subseteq Span
  /\ phase \in Phases
  /\ want \in Span
  /\ todo \subseteq Span
  /\ gap \in Span
  /\ cursor \in [before : Nat, offset : Nat]
  /\ page \subseteq Build

\* A claim is a promise that everything created in the span is in the store
\* (fill_gap): whatever pages, ties, skew and interruptions there were, no
\* task created in a listed span is missing from the table.
ClaimsAreKept == \A b \in Build : created[b] \in Covered(listed) => b \in held

\* A run that reached the end of its listing left no gap in its window, on a hub
\* that was in use before the window; on a younger one a gap with nothing below
\* it answers an empty page, which claims nothing.
FinishedLeavesNoGap ==
  phase = "listed" /\ (\E b \in Build : created[b] < want.from)
    => Gaps(listed, want) = {}

\* Coverage is credited page by page and never withdrawn, and only within the
\* gap being walked; rows are never dropped.
CreditIsKept ==
  [][/\ held \subseteq held'
     /\ Covered(listed) \subseteq Covered(listed')
     /\ Covered(listed') \ Covered(listed) \subseteq Instants(gap)]_vars

\* A walk ends: crowds, ties and re-reading never make it ask for the same
\* rows for ever.
EveryRunEnds == phase # "idle" ~> phase = "idle"

\* The walk, the crashes and the span table implement the ledger: no step of
\* a sync vouches for an instant whose builds are not already in the table.
Ledger == INSTANCE CoverageLedger WITH claimed <- Covered(listed)

ImplementsLedger == Ledger!Spec
=============================================================================
