--------------------------- MODULE BranchRequests ---------------------------
(***************************************************************************)
(* Branch requests (tools/ebranch/src/branch_request.rs): a report of      *)
(* packages wanted in a branch, the bugs filed for them, and the commands  *)
(* that file, escalate and close those bugs, while maintainers, releng and *)
(* the repositories change under them.                                     *)
(*                                                                         *)
(* A command reads the report when it starts and writes it back, if it has *)
(* changed, when it ends well.  Any question may go unanswered and any     *)
(* write may be lost on the way there or on the way back: most of these    *)
(* end the command and lose what it had to say to the report.  One person  *)
(* runs one command at a time on a report; reports are for different       *)
(* branches of the same packages.                                          *)
(*                                                                         *)
(* A write that reports failure is one of VerifiedWrite: it may have been  *)
(* applied all the same.  Left out: dry runs; the wording of requests,     *)
(* which tells a branch from a build in it; the links between bugs, which  *)
(* are only added and which no decision reads; an asker whose Bugzilla     *)
(* identity is not configured, so that no bug is known to be theirs; and   *)
(* the claim that close may make on what it closes, which people's own     *)
(* reassignments include.                                                  *)
(***************************************************************************)
EXTENDS Integers, SequencesExt

CONSTANTS
  Pkg,
  Branch,
  Person,
  Asker,        \* who runs ebranch
  Maintainer,   \* whom Bugzilla assigns a new request to
  PingMin,      \* PING_MIN_DAYS and RELENG_MIN_DAYS, in steps of the clock
  RelengMin,
  MaxBugs,      \* bounds
  MaxTickets,
  MaxActs,      \* what other people do, but for answering and building
  MaxDay

ASSUME RequestAssumption == /\ Asker \in Person /\ Maintainer \in Person
                            /\ PingMin \in Nat /\ RelengMin \in Nat /\ MaxBugs \in Nat
                            /\ MaxTickets \in Nat /\ MaxActs \in Nat /\ MaxDay \in Nat

VARIABLES
  today,
  bug,          \* the bugs, in the order they were filed
  ticket,       \* releng's tickets
  landed,       \* of each branch and package: never there, there (in testing, say) or withdrawn
  access,       \* the packages the asker may branch by now
  acts,         \* how many of MaxActs there have been
  report,       \* the requests recorded in each branch's report
  run           \* the command at work on each report

Never == -1

world == <<today, bug, ticket, landed, access, acts>>
vars  == <<world, report, run>>

\* BranchRequest
Entry == [rhbz : Nat, pinged : BOOLEAN, releng : Nat]
Recorded(n) == [rhbz |-> n, pinged |-> FALSE, releng |-> 0]

NoRequests == [p \in {} |-> Recorded(0)]

Idle == [at |-> "idle", view |-> NoRequests, changed |-> FALSE, todo |-> {},
         seen |-> {}, may |-> {}, found |-> <<>>, known |-> {}]

Open(n) == bug[n].status # "CLOSED"

\* follow_duplicate, for DUPE_HOPS.  Bugs are closed as duplicates of older ones,
\* so there is no loop to leave alone.
Hop(n) == IF bug[n].status = "CLOSED" /\ bug[n].dupe # 0 THEN bug[n].dupe ELSE n
LiveRequest(n) == Hop(Hop(Hop(Hop(n))))

\* adoptable: the oldest open request for the package and the branch.
Requests(p, b) == {n \in DOMAIN bug : bug[n].pkg = p /\ bug[n].branch = b /\ Open(n)}
Oldest(ids) == CHOOSE n \in ids : \A m \in ids : n <= m

\* The packages that a branch has, as target_probe reads it.
Has(b) == {p \in Pkg : landed[b][p] = "there"}

\* needinfo_age looks at the flags on whoever the bug is assigned to now.
Waiting(n) == {f \in bug[n].flags : f.of = bug[n].assignee}

AssignedToAsker(n) == bug[n].assignee = Asker

\* A needinfo is set.  The bug keeps its flags until they are answered or cleared,
\* and, for the properties, when somebody but the asker was first asked and whether
\* anybody but ebranch ever did.
Flagged(x, q, by) ==
  [x EXCEPT !.flags = @ \cup {[of |-> q, on |-> today, by |-> by]},
            !.since = IF @ = Never /\ q # Asker THEN today ELSE @,
            !.byhand = @ \/ by = "hand"]

-----------------------------------------------------------------------------
(* Commands *)

At(b, stage) == run[b].at = stage
Goto(b, stage) == run' = [run EXCEPT ![b].at = stage]

\* A command ends: with an error it saves nothing.
GiveUp(b) == run' = [run EXCEPT ![b] = Idle] /\ UNCHANGED report

\* Well, it saves if it has changed the report (ReportFile::save).
Save(b) ==
  /\ report' = IF run[b].changed THEN [report EXCEPT ![b] = run[b].view] ELSE report
  /\ run' = [run EXCEPT ![b] = Idle]

Command(b, at, todo) ==
  /\ At(b, "idle")
  /\ run' = [run EXCEPT ![b] = [Idle EXCEPT !.at = at, !.view = report[b], !.todo = todo]]
  /\ UNCHANGED <<world, report>>

\* A question is not answered, or the user has had enough.
Interrupt(b) == ~At(b, "idle") /\ GiveUp(b) /\ UNCHANGED world

-----------------------------------------------------------------------------
(* file-requests *)

FileRequests(b) == Command(b, "refresh", Pkg)

\* refresh_recorded: a request closed as a duplicate becomes the one it duplicates.
\* The candidates were taken before: the packages without a request.
Refresh(b) ==
  /\ At(b, "refresh")
  /\ LET view == run[b].view
         live == [p \in DOMAIN view |->
                    IF LiveRequest(view[p].rhbz) = view[p].rhbz THEN view[p]
                    ELSE [view[p] EXCEPT !.rhbz = LiveRequest(view[p].rhbz), !.pinged = FALSE]] IN
     run' = [run EXCEPT ![b].at = "search", ![b].view = live, ![b].changed = live # view,
                        ![b].todo = Pkg \ DOMAIN view]
  /\ UNCHANGED <<world, report>>

\* Mutant: nothing is adopted.
AdoptedNone(p, b) == {}

\* search_existing finds the open requests among the candidates, or warns.
Adopted(p, b) == Requests(p, b)

\* target_probe, then search_existing and adopt_request: a package adopted is
\* filed for no more.  The offer to adopt is taken, as it is without a terminal.
Search(b) ==
  /\ At(b, "search")
  /\ \E answered \in BOOLEAN :
       LET took == {p \in run[b].todo : answered /\ Adopted(p, b) # {}} IN
       run' = [run EXCEPT ![b].at = "sort", ![b].todo = @ \ took, ![b].seen = Has(b),
                 ![b].known = IF answered THEN {n \in DOMAIN bug : Open(n)} ELSE {},
                 ![b].changed = @ \/ took # {},
                 ![b].view = [p \in DOMAIN @ \cup took |->
                    IF p \in took THEN Recorded(Oldest(Adopted(p, b))) ELSE @[p]]]
  /\ UNCHANGED <<world, report>>

\* partition_filable, which keeps out what the branch has and what other
\* repositories bar, and branch_standing
Sort(b) ==
  /\ At(b, "sort")
  /\ \E barred \in SUBSET Pkg :
       run' = [run EXCEPT ![b].at = "file", ![b].todo = @ \ (barred \cup run[b].seen),
                          ![b].may = access]
  /\ UNCHANGED <<world, report>>

NewBug(p, b) ==
  [pkg |-> p, branch |-> b, status |-> "NEW", dupe |-> 0, born |-> today,
   assignee |-> IF p \in run[b].may THEN Asker ELSE Maintainer, flags |-> {},
   since |-> Never, byhand |-> FALSE, closed |-> "no"]

\* file_one_of_kind for the next package: filed and recorded, or the call fails,
\* perhaps after the bug was made.  offer_to_branch may end it without a bug, and
\* a bug about work the asker can do is claimed.
FileOne(b, p) ==
  /\ At(b, "file") /\ p \in run[b].todo
  /\ \/ /\ Len(bug) < MaxBugs
        /\ bug' = Append(bug, NewBug(p, b))
        /\ \/ /\ run' = [run EXCEPT ![b].todo = @ \ {p}, ![b].changed = TRUE,
                 ![b].view = [q \in DOMAIN @ \cup {p} |->
                               IF q = p THEN Recorded(Len(bug')) ELSE @[q]]]
              /\ UNCHANGED report
           \/ GiveUp(b)
     \/ /\ \/ p \in run[b].may /\ run' = [run EXCEPT ![b].todo = @ \ {p}] /\ UNCHANGED report
           \/ GiveUp(b)
        /\ UNCHANGED bug
  /\ UNCHANGED <<today, ticket, landed, access, acts>>

Filed(b) == At(b, "file") /\ run[b].todo = {} /\ Save(b) /\ UNCHANGED world

-----------------------------------------------------------------------------
(* escalate *)

Escalate(b) ==
  /\ DOMAIN report[b] # {}
  /\ Command(b, "standing", DOMAIN report[b])

\* branch_standing for every request; what dist-git does not answer is no access.
Standing(b) ==
  /\ At(b, "standing")
  /\ \E known \in {access, {}} :
       run' = [run EXCEPT ![b].at = "look", ![b].may = known]
  /\ UNCHANGED <<world, report>>

\* Mutant: the flag is not consulted.
PingedByReport(n, e) == e.pinged

\* "The flag is the truth; the bool is a local cache of it."
Pinged(n, e) == e.pinged \/ Waiting(n) # {}

\* ping_decision
MayPing(b, p, n, pinged) ==
  /\ Open(n) /\ ~AssignedToAsker(n) /\ p \notin run[b].may
  /\ ~pinged /\ bug[n].status = "NEW" /\ today - bug[n].born >= PingMin

\* Mutant: the wait is counted from the request's filing.
MayFileByAge(b, p, n, pinged, releng) ==
  /\ Open(n) /\ ~AssignedToAsker(n) /\ p \notin run[b].may
  /\ pinged /\ releng = 0 /\ bug[n].status = "NEW" /\ today - bug[n].born >= RelengMin

\* ping_decision's AlreadyPinged and releng_decision, by the oldest flag
MayFile(b, p, n, pinged, releng) ==
  /\ Open(n) /\ ~AssignedToAsker(n) /\ p \notin run[b].may
  /\ pinged /\ releng = 0 /\ bug[n].status = "NEW"
  /\ \E f \in Waiting(n) : today - f.on >= RelengMin

\* One request is read, followed if it moved, and judged.
Look(b, p) ==
  /\ At(b, "look") /\ p \in run[b].todo
  /\ LET e == run[b].view[p]
         n == LiveRequest(e.rhbz)
         moved == [rhbz |-> n, pinged |-> e.pinged /\ n = e.rhbz, releng |-> e.releng]
         seen == [moved EXCEPT !.pinged = Pinged(n, moved)]
         next == IF MayPing(b, p, n, seen.pinged) THEN "ping"
                 ELSE IF MayFile(b, p, n, seen.pinged, seen.releng) THEN "ticket"
                 ELSE "look" IN
     run' = [run EXCEPT ![b].at = next, ![b].view[p] = seen, ![b].changed = @ \/ seen # e,
                        ![b].todo = @ \ {p}, ![b].found = IF next = "look" THEN <<>>
                                               ELSE <<[pkg |-> p, of |-> bug[n].assignee]>>]
  /\ UNCHANGED <<world, report>>

\* The ping: a comment and a needinfo for the assignee that was read.
Ping(b) ==
  /\ At(b, "ping")
  /\ LET p == Head(run[b].found).pkg  n == run[b].view[p].rhbz IN
     \/ /\ bug' = [bug EXCEPT ![n] = Flagged(@, Head(run[b].found).of, "ebranch")]
        /\ \/ /\ run' = [run EXCEPT ![b].at = "look", ![b].view[p].pinged = TRUE,
                                    ![b].changed = TRUE]
              /\ UNCHANGED report
           \/ GiveUp(b)
     \/ GiveUp(b) /\ UNCHANGED bug
  /\ UNCHANGED <<today, ticket, landed, access, acts>>

\* open_duplicate: the open tickets of this title, which names the package.
OpenTicket(p) == {t \in DOMAIN ticket : ticket[t].pkg = p /\ ticket[t].open}

\* file_releng: without a FAS or a token it is only reported; an open ticket is
\* recorded; without one the user is asked.
SearchTickets(b) ==
  /\ At(b, "ticket")
  /\ LET p == Head(run[b].found).pkg IN
     \/ Goto(b, "look")
     \/ IF OpenTicket(p) = {} THEN Goto(b, "create")
        ELSE run' = [run EXCEPT ![b].at = "look", ![b].changed = TRUE,
                                ![b].view[p].releng = Oldest(OpenTicket(p))]
  /\ UNCHANGED <<world, report>>

\* create_issue, after the prompt, which may be answered no.
CreateTicket(b) ==
  /\ At(b, "create")
  /\ LET p == Head(run[b].found).pkg IN
     \/ /\ Len(ticket) < MaxTickets
        /\ ticket' = Append(ticket, [pkg |-> p, of |-> run[b].view[p].rhbz, open |-> TRUE])
        /\ \/ /\ run' = [run EXCEPT ![b].at = "look", ![b].changed = TRUE,
                                      ![b].view[p].releng = Len(ticket')]
              /\ UNCHANGED report
           \/ GiveUp(b)
     \/ Goto(b, "look") /\ UNCHANGED <<ticket, report>>
  /\ UNCHANGED <<today, bug, landed, access, acts>>

Escalated(b) == At(b, "look") /\ run[b].todo = {} /\ Save(b) /\ UNCHANGED world

-----------------------------------------------------------------------------
(* close *)

Close(b) ==
  /\ At(b, "idle")
  /\ run' = [run EXCEPT ![b] = [Idle EXCEPT !.at = "decide", !.view = report[b],
                                            !.todo = DOMAIN report[b], !.seen = Has(b)]]
  /\ UNCHANGED <<world, report>>

\* Mutant: a request is closed whether or not its package is there.
CloseDecisionAlways(b, p, n) ==
  IF ~Open(n) THEN (IF bug[n].flags # {} THEN "tidy" ELSE "leave") ELSE "close"

\* close_decision, of the bug as recorded and the branch as probed; a closed bug
\* whose needinfo is outstanding is tidied.
CloseDecision(b, p, n) ==
  IF ~Open(n) THEN (IF bug[n].flags # {} THEN "tidy" ELSE "leave")
  ELSE IF p \in run[b].seen THEN "close" ELSE "leave"

\* Every request is read before any is written; found keeps what to write.
Decide(b, p) ==
  /\ At(b, "decide") /\ p \in run[b].todo
  /\ LET n == run[b].view[p].rhbz
         todo == [bug |-> n, act |-> CloseDecision(b, p, n), flags |-> bug[n].flags] IN
     run' = [run EXCEPT ![b].todo = @ \ {p},
               ![b].found = IF todo.act = "leave" THEN @
                            ELSE IF todo.act = "tidy" THEN <<todo>> \o @ ELSE Append(@, todo)]
  /\ UNCHANGED <<world, report>>

Decided(b) ==
  /\ At(b, "decide") /\ run[b].todo = {}
  /\ Goto(b, "write")
  /\ UNCHANGED <<world, report>>

\* Mutant: a close leaves the flags.
CloseBugOnly(x) == [bug EXCEPT ![x.bug].status = "CLOSED", ![x.bug].closed = "ebranch"]

\* The flags read are cleared in the same write as the close; one set since stays.
CloseBug(x) ==
  [bug EXCEPT ![x.bug].flags = @ \ x.flags,
              ![x.bug].status = "CLOSED", ![x.bug].closed = "ebranch"]

\* One write: a flag that cannot be cleared is left, a bug that cannot be closed
\* ends the command.
WriteClose(b) ==
  /\ At(b, "write") /\ run[b].found # <<>>
  /\ LET x == Head(run[b].found)
         Rest == run' = [run EXCEPT ![b].found = Tail(@)] /\ UNCHANGED report IN
     IF x.act = "tidy"
     THEN /\ bug' = [bug EXCEPT ![x.bug].flags = @ \ x.flags] \/ UNCHANGED bug
          /\ Rest
     ELSE \/ bug' = CloseBug(x) /\ (Rest \/ GiveUp(b))
          \/ GiveUp(b) /\ UNCHANGED bug
  /\ UNCHANGED <<today, ticket, landed, access, acts>>

\* The report is saved as it was read.
Closed(b) == At(b, "write") /\ run[b].found = <<>> /\ Save(b) /\ UNCHANGED world

-----------------------------------------------------------------------------
(* Everybody else *)

Day ==
  /\ today < MaxDay /\ today' = today + 1
  /\ UNCHANGED <<bug, ticket, landed, access, acts, report, run>>

Act == acts < MaxActs /\ acts' = acts + 1

\* People act on a bug: it is filed by hand, given to somebody else, the asker
\* perhaps; somebody is asked something, or a question is answered or withdrawn; the
\* bug is taken, refused, found to be a duplicate of an older one, or reopened.
Edit(n, edited) ==
  /\ bug' = [bug EXCEPT ![n] = edited]
  /\ UNCHANGED <<today, ticket, landed, access, report, run>>

FileByHand(p, b) ==
  /\ Len(bug) < MaxBugs
  /\ bug' = Append(bug, [NewBug(p, b) EXCEPT !.assignee = Maintainer])
  /\ Act /\ UNCHANGED <<today, ticket, landed, access, report, run>>

HandOver(n, q) == q # bug[n].assignee /\ Act /\ Edit(n, [bug[n] EXCEPT !.assignee = q])
AskByHand(n, q) == Act /\ Edit(n, Flagged(bug[n], q, "hand"))
Answer(n, f) == UNCHANGED acts /\ Edit(n, [bug[n] EXCEPT !.flags = @ \ {f}])
Take(n)   == bug[n].status = "NEW" /\ Act /\ Edit(n, [bug[n] EXCEPT !.status = "ASSIGNED"])
Refuse(n) == Open(n) /\ Act /\ Edit(n, [bug[n] EXCEPT !.status = "CLOSED", !.closed = "hand"])
MarkDuplicate(n, m) ==
  /\ Open(n) /\ m < n /\ bug[m].pkg = bug[n].pkg /\ bug[m].branch = bug[n].branch
  /\ Act /\ Edit(n, [bug[n] EXCEPT !.status = "CLOSED", !.closed = "hand", !.dupe = m])
Reopen(n, status) ==
  /\ ~Open(n)
  /\ Act /\ Edit(n, [bug[n] EXCEPT !.status = status, !.closed = "no", !.dupe = 0])

Land(p, b) ==
  /\ landed[b][p] # "there"
  /\ landed' = [landed EXCEPT ![b][p] = "there"]
  /\ UNCHANGED <<today, bug, ticket, access, acts, report, run>>

\* An update is unpushed, or a package retired.
Withdraw(p, b) ==
  /\ landed[b][p] = "there"
  /\ landed' = [landed EXCEPT ![b][p] = "withdrawn"]
  /\ Act /\ UNCHANGED <<today, bug, ticket, access, report, run>>

Grant(p) ==
  /\ p \notin access /\ access' = access \cup {p}
  /\ Act /\ UNCHANGED <<today, bug, ticket, landed, report, run>>

CloseTicket(t) ==
  /\ ticket[t].open
  /\ ticket' = [ticket EXCEPT ![t].open = FALSE]
  /\ Act /\ UNCHANGED <<today, bug, landed, access, report, run>>

-----------------------------------------------------------------------------
Init ==
  /\ today = 0 /\ bug = <<>> /\ ticket = <<>> /\ access = {} /\ acts = 0
  /\ landed = [b \in Branch |-> [p \in Pkg |-> "never"]]
  /\ report = [b \in Branch |-> NoRequests] /\ run = [b \in Branch |-> Idle]

Step(b) ==
  \/ FileRequests(b) \/ Refresh(b) \/ Search(b) \/ Sort(b) \/ Filed(b)
  \/ Escalate(b) \/ Standing(b) \/ Ping(b) \/ SearchTickets(b) \/ CreateTicket(b) \/ Escalated(b)
  \/ Close(b) \/ Decided(b) \/ WriteClose(b) \/ Closed(b)
  \/ Interrupt(b)
  \/ \E p \in Pkg : FileOne(b, p) \/ Look(b, p) \/ Decide(b, p)

Others ==
  \/ Day
  \/ \E p \in Pkg : Grant(p) \/ \E b \in Branch : FileByHand(p, b) \/ Land(p, b) \/ Withdraw(p, b)
  \/ \E n \in DOMAIN bug :
       \/ Take(n) \/ Refuse(n) \/ \E status \in {"NEW", "ASSIGNED"} : Reopen(n, status)
       \/ \E q \in Person : HandOver(n, q) \/ AskByHand(n, q)
       \/ \E f \in bug[n].flags : Answer(n, f)
       \/ \E m \in DOMAIN bug : MarkDuplicate(n, m)
  \/ \E t \in DOMAIN ticket : CloseTicket(t)

Next == (\E b \in Branch : Step(b)) \/ Others

Spec == Init /\ [][Next]_vars

-----------------------------------------------------------------------------
(* Properties *)

TypeOK ==
  /\ today \in 0..MaxDay /\ access \subseteq Pkg /\ acts \in 0..MaxActs
  /\ \A n \in DOMAIN bug :
       /\ bug[n].pkg \in Pkg /\ bug[n].branch \in Branch /\ bug[n].dupe < n
       /\ bug[n].status \in {"NEW", "ASSIGNED", "CLOSED"} /\ bug[n].assignee \in Person
       /\ bug[n].since \in Never..MaxDay
       /\ \A f \in bug[n].flags : f.of \in Person /\ f.on \in bug[n].born..MaxDay
  /\ \A t \in DOMAIN ticket : ticket[t].pkg \in Pkg /\ ticket[t].of \in DOMAIN bug
  /\ \A b \in Branch :
       /\ landed[b] \in [Pkg -> {"never", "there", "withdrawn"}]
       /\ \A p \in DOMAIN report[b] :
            /\ p \in Pkg /\ report[b][p] \in Entry
            /\ bug[report[b][p].rhbz].pkg = p

\* However runs end, ebranch opens no second request for a package and a branch:
\* what a run filed and did not live to record, the next one adopts "rather than
\* opening a second bug for the same package" (file_batch).  Only what was filed or
\* reopened after its search, or all if the search went unanswered, is not seen.
NoSecondRequest ==
  [][\A b \in Branch : \A p \in Pkg :
       FileOne(b, p) /\ Len(bug') > Len(bug) => Requests(p, b) \cap run[b].known = {}]_vars

\* ebranch puts no second question of its own to a person who has not answered the
\* first: "pinging again would put a second needinfo? on the same person"
\* (escalate_with).  The first may be of a run that was lost before it recorded it,
\* and the bug may have been others' in between.
NeverAskedTwiceOver ==
  [][\A b \in Branch : Ping(b) =>
       LET x == Head(run[b].found) IN
       \A f \in bug[run[b].view[x.pkg].rhbz].flags : f.of = x.of => f.by = "hand"]_vars

\* Releng hears only of a request of which somebody, not the asker, was asked in
\* that same bug and had the time the policy gives, "counted from the ping, not
\* from the bug" (RELENG_MIN_DAYS), whatever bug it was recorded as; and if nobody
\* but ebranch asked, the bug had the time that goes before a ping as well.
TicketFollowsItsPing ==
  [][Len(ticket') > Len(ticket) =>
       LET n == Last(ticket').of IN
       /\ bug[n].since # Never /\ today - bug[n].since >= RelengMin
       /\ ~bug[n].byhand => today - bug[n].born >= PingMin + RelengMin]_vars

\* A request that ebranch has closed, and nobody reopened, is one whose package came
\* to the branch, even if it was withdrawn since, and none of ebranch's questions
\* about it is left in anybody's queue.
ClosedIsSettled ==
  \A n \in DOMAIN bug : bug[n].closed = "ebranch" =>
    /\ landed[bug[n].branch][bug[n].pkg] # "never"
    /\ \A f \in bug[n].flags : f.by = "hand"
=============================================================================
