----------------------------- MODULE ChildSweep -----------------------------
(***************************************************************************)
(* The children half of `koji-lag sync` (sync.rs, sweep_children, and      *)
(* fetch.rs, fetch_children_batched): the child tasks of completed builds  *)
(* are asked for a batch of parents at a time.  An answer that fills the   *)
(* page may be cut short, so its batch is split in two and asked again.    *)
(*                                                                         *)
(* `tasks` and `swept` are the store; the rest is lost when a run stops.   *)
(***************************************************************************)
EXTENDS Integers, FiniteSets, Sequences, SequencesExt

CONSTANTS
  Build,          \* ids of completed builds
  MaxKids,        \* bound: child tasks of one build
  ParentChunk,    \* PARENT_CHUNK
  ChildPageLimit  \* CHILD_PAGE_LIMIT

ASSUME BatchAssumption == /\ Build \subseteq Nat /\ IsFiniteSet(Build) /\ MaxKids \in Nat
                          /\ ParentChunk \in Nat \ {0}
                          /\ ChildPageLimit \in Nat \ {0}

VARIABLES
  kids,           \* hub: how many child tasks each build has
  tasks,          \* store, table tasks: child tasks <<parent, i>> held
  swept,          \* store, builds.children_gen: parents settled
  chunks,         \* batches still to ask for, the next one last
  batch,          \* the batch whose answer is in hand
  rows,           \* the tasks of that answer worth keeping
  sweep           \* where the sweep is

hub   == kids
store == <<tasks, swept>>
run   == <<chunks, batch, rows, sweep>>
vars  == <<hub, store, run>>

Stages == {"idle", "ask", "put", "mark"}

Child == Build \X (1..MaxKids)

\* The child tasks of some parents, and those of a kind that is collected: a
\* build's first child stands for what it has of the other kinds (tagging,
\* notification), the rest for its arch and SRPM tasks.
ChildrenOf(parents) == {c \in Child : c[1] \in parents /\ c[2] <= kids[c[1]]}
Collected(answer) == {c \in answer : c[2] > 1}

Total(parents) == Cardinality(ChildrenOf(parents))

-----------------------------------------------------------------------------
\* parents.chunks(PARENT_CHUNK)
Chunked(parents) ==
  [i \in 1..((Len(parents) + ParentChunk - 1) \div ParentChunk) |->
     SubSeq(parents, (i - 1) * ParentChunk + 1,
            IF i * ParentChunk < Len(parents) THEN i * ParentChunk ELSE Len(parents))]

\* builds_needing_children: ORDER BY task_id DESC
Pending(window) ==
  LET unswept == window \ swept
  IN  {parents \in [1..Cardinality(unswept) -> unswept] :
         \A i, j \in DOMAIN parents : i < j => parents[i] > parents[j]}

\* Mutant: a page that is exactly full counts as a whole answer.
OverflowedPast(answer) == Cardinality(answer) > ChildPageLimit

\* A batch is split rather than accepted when its answer fills the page and
\* there is something to split.
Overflowed(answer) == Cardinality(answer) >= ChildPageLimit
Splits(chunk, answer) == Overflowed(answer) /\ Len(chunk) > 1

\* Mutants: halves that miss a parent, and halves that do not shrink.
HalvesMissOne(chunk) ==
  LET mid == Len(chunk) \div 2
  IN  <<SubSeq(chunk, 1, mid), SubSeq(chunk, mid + 2, Len(chunk))>>

HalvesAskAgain(chunk) == <<chunk>>

Halves(chunk) ==
  LET mid == Len(chunk) \div 2
  IN  <<SubSeq(chunk, 1, mid), SubSeq(chunk, mid + 1, Len(chunk))>>

\* listTasks(parent = chunk, limit): all there is, or a page of it.
Answers(chunk) ==
  LET all == ChildrenOf(ToSet(chunk))
  IN  IF Cardinality(all) <= ChildPageLimit THEN {all}
      ELSE kSubset(ChildPageLimit, all)

-----------------------------------------------------------------------------
Init == /\ kids \in [Build -> 0..MaxKids]
        /\ tasks = {} /\ swept = {}
        /\ chunks = <<>> /\ batch = {} /\ rows = {} /\ sweep = "idle"

\* sweep_children for the builds completed in some window.
Begin(window) ==
  /\ sweep = "idle"
  /\ window \ swept # {}
  /\ \E parents \in Pending(window) : chunks' = Chunked(parents)
  /\ sweep' = "ask"
  /\ UNCHANGED <<hub, store, batch, rows>>

\* One request of the loop in fetch_children_batched.
Split ==
  /\ sweep = "ask" /\ chunks # <<>>
  /\ \E answer \in Answers(Last(chunks)) :
       /\ Splits(Last(chunks), answer)
       /\ chunks' = Front(chunks) \o Halves(Last(chunks))
  /\ UNCHANGED <<hub, store, batch, rows, sweep>>

Accept ==
  /\ sweep = "ask" /\ chunks # <<>>
  /\ \E answer \in Answers(Last(chunks)) :
       /\ ~Splits(Last(chunks), answer)
       /\ rows' = Collected(answer)
  /\ batch' = ToSet(Last(chunks))
  /\ chunks' = Front(chunks)
  /\ sweep' = "put"
  /\ UNCHANGED <<hub, store>>

\* store.put_tasks, then store.mark_children_swept: two transactions.
PutTasks ==
  /\ sweep = "put"
  /\ tasks' = tasks \cup rows
  /\ sweep' = "mark"
  /\ UNCHANGED <<hub, swept, chunks, batch, rows>>

MarkSwept ==
  /\ sweep = "mark"
  /\ swept' = swept \cup batch
  /\ batch' = {} /\ rows' = {}
  /\ sweep' = "ask"
  /\ UNCHANGED <<hub, tasks, chunks>>

\* The stack of batches is empty.
Done ==
  /\ sweep = "ask" /\ chunks = <<>>
  /\ sweep' = "idle"
  /\ UNCHANGED <<hub, store, chunks, batch, rows>>

\* A hub error past its retries, a store error, Ctrl-C or a crash.
Interrupt ==
  /\ sweep # "idle"
  /\ sweep' = "idle" /\ chunks' = <<>> /\ batch' = {} /\ rows' = {}
  /\ UNCHANGED <<hub, store>>

Progress == Split \/ Accept \/ PutTasks \/ MarkSwept \/ Done

Next == \/ \E window \in SUBSET Build : Begin(window)
        \/ Progress
        \/ Interrupt

Spec == Init /\ [][Next]_vars

\* The loop waits for nothing but the hub, whose answers are timed out.
FairSpec == Spec /\ WF_vars(Progress)

-----------------------------------------------------------------------------
TypeOK ==
  /\ kids \in [Build -> 0..MaxKids]
  /\ tasks \subseteq Collected(Child) /\ swept \subseteq Build
  /\ chunks \in Seq(Seq(Build)) /\ batch \subseteq Build /\ rows \subseteq Child
  /\ sweep \in Stages

\* A build is marked swept only once every child task of a collected kind is
\* in the store, whatever splits and interruptions there were.  The one
\* exception is the build the code warns of, whose own children fill a page.
SweptHasItsChildren ==
  \A b \in swept : Total({b}) <= ChildPageLimit =>
                     Collected(ChildrenOf({b})) \subseteq tasks

\* The parents still to ask about.
Queued == UNION {ToSet(chunks[i]) : i \in DOMAIN chunks}

\* A parent leaves the stack only into the batch in hand, and the batch only
\* by being marked; only an interruption may drop either.
NoParentIsDropped ==
  [][sweep # "idle" /\ sweep' # "idle" =>
       Queued \cup batch \subseteq Queued' \cup batch' \cup swept']_vars

\* However the answers overflow, splitting comes to an end.
EverySweepEnds == sweep # "idle" ~> sweep = "idle"
=============================================================================
