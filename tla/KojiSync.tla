------------------------------ MODULE KojiSync ------------------------------
(***************************************************************************)
(* A whole `koji-lag sync` (tools/koji-lag/src/sync.rs, run) and the       *)
(* question its store answers for every report: which days it holds whole  *)
(* (store.rs, whole_days).                                                 *)
(*                                                                         *)
(* KojiListing lists the builds, ChildSweep fetches the children of those  *)
(* the store knows to be complete, and a local update names the builds     *)
(* their children can name.  Added to the two here are the columns of the  *)
(* builds table the listing fills besides the id: whether the row has a    *)
(* completion time (`known`) and a package name (`named`).  The children   *)
(* half is this module's own vocabulary; the listing is named List!...     *)
(***************************************************************************)
EXTENDS ChildSweep, Spans

CONSTANTS
  Horizon, Midnights, Grace, Reread, Skew, PageSize, Starts, ClearEdges,
  Day             \* ticks in a UTC day

ASSUME ListingAssumption ==
  /\ Horizon \in Nat /\ Grace \in Nat
  /\ Midnights \subseteq Nat /\ Starts \subseteq Nat
  /\ PageSize \in Nat \ {0}
  /\ Skew \in Nat /\ Reread \in Nat /\ Skew < Reread
  /\ ClearEdges \in BOOLEAN
ASSUME DayAssumption == /\ Day \in Nat \ {0}
                        /\ \A m \in Midnights : m % Day = 0

VARIABLES
  created, now, held, listed, phase, want, todo, gap, cursor, page,
  finished,       \* hub: when each build completes
  known,          \* store: rows of table builds with a completion time
  named,          \* store: rows of table builds with a package name
  ended           \* of the rows on the page in hand, those already complete

List == INSTANCE KojiListing

listing  == <<created, now, held, listed, phase, want, todo, gap, cursor, page>>
sweeping == <<kids, tasks, swept, chunks, batch, rows, sweep>>
syncVars == <<listing, sweeping, finished, known, named, ended>>

-----------------------------------------------------------------------------
\* Mutant: the window opens just after its first instant.
InWindowPast(b) == want.from + Grace < finished[b] /\ finished[b] < want.to

\* The completion window of the run, resolve_window's [after, before).
InWindow(b) == want.from + Grace <= finished[b] /\ finished[b] < want.to

\* builds_needing_children selects by completion, which a running build lacks.
CompletedInWindow == {b \in known : InWindow(b)}

Unswept == CompletedInWindow \ swept

\* A child of a collected kind carries the SRPM it was handed.
NamedByChild(b) == Collected(ChildrenOf({b})) \cap tasks # {}

SyncInit ==
  /\ List!Init
  /\ Init
  /\ \E took \in [Build -> 0..Grace] : finished = [b \in Build |-> created[b] + took[b]]
  /\ known = {} /\ named = {} /\ ended = {}

\* Steps of the listing that leave the new columns alone.
Listing ==
  /\ \/ List!Tick
     \/ \E w \in List!Windows : List!Begin(w)
     \/ List!NextGap
     \/ List!NoGapLeft
     \/ List!Claim
  /\ UNCHANGED <<sweeping, finished, known, named, ended>>

\* A page says of each task what the hub knew of it when it was asked.
AskPage == /\ List!AskPage
           /\ ended' = {b \in page' : finished[b] <= now}
           /\ UNCHANGED <<sweeping, finished, known, named>>

\* put_builds replaces every column of a row but children_gen: completion_ts
\* and package become what the page says, and a dist-git build's own request
\* names no package.
PutBuilds == /\ List!PutBuilds
             /\ known' = (known \ page) \cup ended
             /\ named' = named \ page
             /\ ended' = {}
             /\ UNCHANGED <<sweeping, finished>>

\* sweep_children.
SweepBegin == /\ phase = "listed"
              /\ Unswept # {}
              /\ Begin(CompletedInWindow)
              /\ UNCHANGED <<listing, finished, known, named, ended>>

Sweeping == /\ \/ Split \/ Accept \/ PutTasks
               \/ MarkSwept \/ Done
            /\ UNCHANGED <<listing, finished, known, named, ended>>

\* fill_missing_packages over the window, and the end of the run.
FillNames == /\ phase = "listed" /\ sweep = "idle" /\ Unswept = {}
             /\ named' = named \cup {b \in CompletedInWindow : NamedByChild(b)}
             /\ List!Finish
             /\ UNCHANGED <<sweeping, finished, known, ended>>

\* The run is over wherever it was, and only the tables remain.
SyncInterrupt == /\ List!Stop
                 /\ ended' = {}
                 /\ IF sweep = "idle" THEN UNCHANGED sweeping ELSE Interrupt
                 /\ UNCHANGED <<finished, known, named>>

Step == \/ Listing \/ AskPage \/ PutBuilds
        \/ SweepBegin \/ Sweeping \/ FillNames

SyncNext == Step \/ SyncInterrupt

SyncSpec == SyncInit /\ [][SyncNext]_syncVars

-----------------------------------------------------------------------------
\* Store::whole_days: listed from the day's grace to its end, and no build
\* known to have completed in it lacks its children.
Days == {d \in 0..Horizon : d % Day = 0 /\ d >= Grace}

CompletedOn(b, d) == d <= finished[b] /\ finished[b] < d + Day

\* Mutants: the day alone need be listed, or no child is needed.
WholeNoGrace(d) ==
  /\ Gaps(listed, [from |-> d, to |-> d + Day]) = {}
  /\ {b \in known : CompletedOn(b, d)} \subseteq swept

WholeListedOnly(d) == Gaps(listed, [from |-> d - Grace, to |-> d + Day]) = {}

Whole(d) ==
  /\ Gaps(listed, [from |-> d - Grace, to |-> d + Day]) = {}
  /\ {b \in known : CompletedOn(b, d)} \subseteq swept

-----------------------------------------------------------------------------
SyncTypeOK == /\ List!TypeOK /\ TypeOK
              /\ finished \in [Build -> 0..Horizon + Grace]
              /\ known \subseteq held /\ named \subseteq held /\ ended \subseteq page
              /\ swept \subseteq known

\* Every build that completed on a whole day has a row: the days before it that
\* the listing reaches back through hold every build that could finish in it.
WholeDayHoldsEveryBuild ==
  \A d \in Days : Whole(d) => \A b \in Build : CompletedOn(b, d) => b \in held

\* A build a whole day reports on is reported with its arch tasks: a day is
\* never whole in between a build's listing and its children's arrival.
WholeDayHasChildren ==
  \A d \in Days : Whole(d) =>
    \A b \in known : CompletedOn(b, d) =>
      Collected(ChildrenOf({b})) \subseteq tasks

\* A run that reaches its end leaves every full day of its window whole.
SyncedWindowIsWhole ==
  phase = "listed" /\ sweep = "idle" /\ Unswept = {} =>
    \A d \in Days : want.from + Grace <= d /\ d + Day <= want.to => Whole(d)

\* fetch.rs:41-45: a build still running when its creation was listed is picked
\* up by whichever sync covers the day it finishes, so a whole day counts it.
EveryCompletionIsCounted ==
  \A d \in Days : Whole(d) => \A b \in Build : CompletedOn(b, d) => b \in known

\* DEVELOPMENT.md:296: after the children stage of every sync, a build any of
\* whose children names its package has that name.  Not so: a row listed again
\* loses its name, and only those of the run's window are named.
SyncedBuildsAreNamed ==
  [][FillNames => \A b \in swept : NamedByChild(b) => b \in named']_syncVars
=============================================================================
