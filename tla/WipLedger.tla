----------------------------- MODULE WipLedger -----------------------------
(***************************************************************************)
(* The ledger of `ebranch check-wip` (tools/ebranch/src/wip.rs): which     *)
(* packages a packaging effort is about, across the runs that refresh it.  *)
(*                                                                         *)
(* A run reads the file, applies the decisions of its command line, asks   *)
(* each COPR and then Koji, forgets what it was asked to prune, and writes *)
(* the file back.  Any of the questions may go unanswered.  What a run     *)
(* observes of builds, branches and updates is left to WipBranches: here a *)
(* package is its route, whether a COPR ever staged it, and which one does.*)
(***************************************************************************)
CONSTANTS
  Package, Copr,
  Tag,            \* side tags
  Run,            \* runs of the tool that may be under way at once
  CommandLines,   \* what a run may be asked for
  MayTear,        \* whether a run can die, or fill the disk, while it writes
  None            \* no COPR stages the package


Routes  == {"unknown", "decided"}
Entry   == {e \in [route : Routes, seen_in_copr : BOOLEAN, staged : Copr \cup {None}] :
              e.staged # None => e.seen_in_copr}
Ledgers == [packages  : UNION {[tracked -> Entry] : tracked \in SUBSET Package},
            ignored   : SUBSET Package,
            coprs     : SUBSET Copr,
            side_tags : SUBSET Tag]

Prunable == {"packages", "side-tags"}
Options == [forget : SUBSET Package, add : SUBSET Package,
            set : SUBSET (Package \X Routes), coprs : SUBSET Copr,
            side_tags : SUBSET Tag, prune : SUBSET Prunable, offline : BOOLEAN]

NoOptions == [forget |-> {}, add |-> {}, set |-> {}, coprs |-> {}, side_tags |-> {},
              prune |-> {}, offline |-> TRUE]

ASSUME LedgerAssumption == /\ None \notin Copr
                           /\ MayTear \in BOOLEAN
                           /\ CommandLines \subseteq Options

VARIABLES
  file,           \* the ledger on disk
  live,           \* Koji: the side tags that exist
  stage,          \* where each run is
  opts,           \* what it was asked for
  ledger,         \* its copy of the ledger
  todo,           \* COPRs it has still to ask
  established,    \* copr_absence_established
  scan,           \* what it learnt of the side tags
  dirty,          \* whether it has something to write
  \* History, for the properties.
  saved,          \* the ledger last written in full
  named,          \* packages a COPR named in the run
  unheard         \* COPRs of the run that have not answered

run  == <<stage, opts, ledger, todo, established, scan, dirty, named, unheard>>
vars == <<file, live, run, saved>>

Stages == {"idle", "coprs", "prune", "save", "write"}

Unreadable == [damaged |-> TRUE]
Unasked    == [missing |-> {}, definite |-> FALSE]

Tracked(l) == DOMAIN l.packages
Fresh      == [route |-> "unknown", seen_in_copr |-> FALSE, staged |-> None]
Empty      == [packages  |-> [p \in {} |-> Fresh], ignored |-> {}, coprs |-> {},
               side_tags |-> {}]

-----------------------------------------------------------------------------
\* l.packages without, or with fresh entries for, some packages.
Without(l, gone) == [p \in Tracked(l) \ gone |-> l.packages[p]]
With(l, new)     == [p \in Tracked(l) \cup new |->
                       IF p \in Tracked(l) THEN l.packages[p] ELSE Fresh]

Forget(l, names) ==
  [l EXCEPT !.packages = Without(l, names), !.ignored = @ \cup names]

\* Mutant: naming a package does not take its refusal back.
AddKeepsRefusal(l, names) == [l EXCEPT !.packages = With(l, names)]

Add(l, names) ==
  [l EXCEPT !.packages = With(l, names), !.ignored = @ \ names]

\* apply_assignment, for each `package=route`.
Assign(l, set) ==
  [l EXCEPT !.packages = [p \in Tracked(l) |->
     IF \E r \in Routes : <<p, r>> \in set
     THEN [l.packages[p] EXCEPT !.route = CHOOSE r \in Routes : <<p, r>> \in set]
     ELSE l.packages[p]]]

\* The decisions of a command line, in the order they are applied.
Decide(l, o) ==
  Assign(Add(Forget([l EXCEPT !.side_tags = @ \cup o.side_tags], o.forget), o.add), o.set)

\* A name that is not known is an error, and the run ends with nothing saved.
Decidable(l, o) ==
  /\ o.forget \subseteq Tracked(l) \cup l.ignored
  /\ \A s \in o.set : s[1] \in (Tracked(l) \ o.forget) \cup o.add

Decisions(l, o) ==
  \/ ~(o.side_tags \subseteq l.side_tags)
  \/ o.forget # {} \/ o.set # {}
  \/ ~(o.add \subseteq Tracked(l) \ o.forget)

\* Mutants: what another COPR stages counts as departed too; what is still
\* staged is entered anew; and what was tracked before is not marked as seen.
ReconcileAll(l, copr, answer) ==
  [l EXCEPT
     !.packages = [p \in Tracked(l) \cup (answer \ l.ignored) |->
        IF p \in answer
        THEN [With(l, answer)[p] EXCEPT !.seen_in_copr = TRUE, !.staged = copr]
        ELSE [l.packages[p] EXCEPT !.staged = None]],
     !.coprs = @ \cup {copr}]

ReconcileAnew(l, copr, answer) ==
  [l EXCEPT
     !.packages = [p \in Tracked(l) \cup (answer \ l.ignored) |->
        IF p \in answer
        THEN [Fresh EXCEPT !.seen_in_copr = TRUE, !.staged = copr]
        ELSE IF l.packages[p].staged = copr
        THEN [l.packages[p] EXCEPT !.staged = None]
        ELSE l.packages[p]],
     !.coprs = @ \cup {copr}]

\* Fold a COPR's package list into the ledger: what it names and the ledger
\* does not refuse is staged there, and what it staged and no longer names is
\* staged nowhere, but stays.
Reconcile(l, copr, answer) ==
  [l EXCEPT
     !.packages = [p \in Tracked(l) \cup (answer \ l.ignored) |->
        IF p \in answer
        THEN [With(l, answer)[p] EXCEPT !.seen_in_copr = TRUE, !.staged = copr]
        ELSE IF l.packages[p].staged = copr
        THEN [l.packages[p] EXCEPT !.staged = None]
        ELSE l.packages[p]],
     !.coprs = @ \cup {copr}]

\* Mutant: a refused package is taken up from a side tag.
AdoptRefused(l, found) == [l EXCEPT !.packages = With(l, found)]

\* adopt_side_tag_builds: the packages the side tags hold.
Adopt(l, found) == [l EXCEPT !.packages = With(l, found \ l.ignored)]

Gone(l) == {p \in Tracked(l) : l.packages[p].seen_in_copr /\ l.packages[p].staged = None}

PrunePackages(l) == [l EXCEPT !.packages = Without(l, Gone(l))]
PruneSideTags(l, missing) == [l EXCEPT !.side_tags = @ \ missing]

-----------------------------------------------------------------------------
Idle(r) ==
  /\ stage' = [stage EXCEPT ![r] = "idle"]
  /\ opts' = [opts EXCEPT ![r] = NoOptions]
  /\ ledger' = [ledger EXCEPT ![r] = Empty]
  /\ todo' = [todo EXCEPT ![r] = {}]
  /\ established' = [established EXCEPT ![r] = FALSE]
  /\ scan' = [scan EXCEPT ![r] = Unasked]
  /\ dirty' = [dirty EXCEPT ![r] = FALSE]
  /\ named' = [named EXCEPT ![r] = {}]
  /\ unheard' = [unheard EXCEPT ![r] = {}]

\* A missing file is an empty ledger.
Init ==
  /\ file = Empty /\ saved = Empty
  /\ live \in SUBSET Tag
  /\ stage = [r \in Run |-> "idle"] /\ opts = [r \in Run |-> NoOptions]
  /\ ledger = [r \in Run |-> Empty] /\ todo = [r \in Run |-> {}]
  /\ established = [r \in Run |-> FALSE] /\ scan = [r \in Run |-> Unasked]
  /\ dirty = [r \in Run |-> FALSE]
  /\ named = [r \in Run |-> {}] /\ unheard = [r \in Run |-> {}]

\* Load the file and apply the decisions; unless offline, the COPRs recorded
\* and given are to be asked, and with none there is no absence to establish.
Start(r, o) ==
  LET coprs == file.coprs \cup o.coprs IN
  /\ stage[r] = "idle" /\ file # Unreadable
  /\ Decidable(file, o)
  /\ opts' = [opts EXCEPT ![r] = o]
  /\ ledger' = [ledger EXCEPT ![r] = Decide(file, o)]
  /\ dirty' = [dirty EXCEPT ![r] = Decisions(file, o) \/ ~o.offline]
  /\ stage' = [stage EXCEPT ![r] = IF o.offline THEN "prune" ELSE "coprs"]
  /\ todo' = [todo EXCEPT ![r] = IF o.offline THEN {} ELSE coprs]
  /\ established' = [established EXCEPT ![r] = ~o.offline /\ coprs # {}]
  /\ unheard' = [unheard EXCEPT ![r] = coprs]
  /\ UNCHANGED <<file, live, scan, named, saved>>

CoprAnswers(r, copr, answer) ==
  /\ stage[r] = "coprs" /\ copr \in todo[r]
  /\ ledger' = [ledger EXCEPT ![r] = Reconcile(@, copr, answer)]
  /\ todo' = [todo EXCEPT ![r] = @ \ {copr}]
  /\ named' = [named EXCEPT ![r] = @ \cup answer]
  /\ unheard' = [unheard EXCEPT ![r] = @ \ {copr}]
  /\ UNCHANGED <<file, live, stage, opts, established, scan, dirty, saved>>

CoprFails(r, copr) ==
  /\ stage[r] = "coprs" /\ copr \in todo[r]
  /\ todo' = [todo EXCEPT ![r] = @ \ {copr}]
  /\ established' = [established EXCEPT ![r] = FALSE]
  /\ UNCHANGED <<file, live, stage, opts, ledger, scan, dirty, saved, named, unheard>>

\* Mutant: a tag that did not answer is taken to be gone.
ScanSilentMissing(r) ==
  /\ stage[r] = "coprs" /\ todo[r] = {}
  /\ \E silent \in SUBSET ledger[r].side_tags, found \in SUBSET Package :
       LET answering == ledger[r].side_tags \ silent IN
       /\ answering \cap live = {} => found = {}
       /\ ledger' = [ledger EXCEPT ![r] = Adopt(@, found)]
       /\ scan' = [scan EXCEPT ![r] = [missing |-> silent \cup (answering \ live),
                                       definite |-> TRUE]]
  /\ stage' = [stage EXCEPT ![r] = "prune"]
  /\ UNCHANGED <<file, live, opts, todo, established, dirty, saved, named, unheard>>

\* refresh_built, as far as the side tags go: each tag answers with what it
\* holds, is said not to exist, or gives no definite answer (an error, or a
\* hub found unresponsive before its turn).
ScanSideTags(r) ==
  /\ stage[r] = "coprs" /\ todo[r] = {}
  /\ \E silent \in SUBSET ledger[r].side_tags, found \in SUBSET Package :
       LET answering == ledger[r].side_tags \ silent IN
       /\ answering \cap live = {} => found = {}
       /\ ledger' = [ledger EXCEPT ![r] = Adopt(@, found)]
       /\ scan' = [scan EXCEPT ![r] = [missing |-> answering \ live,
                                       definite |-> silent = {}]]
  /\ stage' = [stage EXCEPT ![r] = "prune"]
  /\ UNCHANGED <<file, live, opts, todo, established, dirty, saved, named, unheard>>

\* Koji is not installed: no tag is asked about.
NoKoji(r) ==
  /\ stage[r] = "coprs" /\ todo[r] = {}
  /\ stage' = [stage EXCEPT ![r] = "prune"]
  /\ UNCHANGED <<file, live, opts, ledger, todo, established, scan, dirty, saved,
                 named, unheard>>

Pruned(r) ==
  LET l == IF "packages" \in opts[r].prune /\ established[r]
           THEN PrunePackages(ledger[r]) ELSE ledger[r]
  IN  IF "side-tags" \in opts[r].prune /\ scan[r].definite
      THEN PruneSideTags(l, scan[r].missing) ELSE l

\* What this run established licenses what it may forget.
Prune(r) ==
  /\ stage[r] = "prune"
  /\ IF dirty[r]
     THEN /\ ledger' = [ledger EXCEPT ![r] = Pruned(r)]
          /\ stage' = [stage EXCEPT ![r] = "save"]
          /\ UNCHANGED <<opts, todo, established, scan, dirty, named, unheard>>
     ELSE Idle(r)
  /\ UNCHANGED <<file, live, saved>>

\* Ledger::save: std::fs::write empties the file, then writes it.
Truncate(r) ==
  /\ stage[r] = "save"
  /\ file' = Empty
  /\ stage' = [stage EXCEPT ![r] = "write"]
  /\ UNCHANGED <<live, opts, ledger, todo, established, scan, dirty, saved,
                 named, unheard>>

Write(r) ==
  /\ stage[r] = "write"
  /\ file' = ledger[r] /\ saved' = ledger[r]
  /\ Idle(r)
  /\ UNCHANGED live

\* A run is killed, or its write fails part of the way.
Crash(r) ==
  /\ stage[r] # "idle"
  /\ IF stage[r] = "write" THEN MayTear /\ file' \in {file, Unreadable}
                           ELSE file' = file
  /\ Idle(r)
  /\ UNCHANGED <<live, saved>>

\* The hub removes a side tag; its name is never used again.
TagRemoved(tag) ==
  /\ tag \in live
  /\ live' = live \ {tag}
  /\ UNCHANGED <<file, run, saved>>

RunStep(r) ==
  \/ \E o \in CommandLines : Start(r, o)
  \/ \E copr \in Copr, answer \in SUBSET Package : CoprAnswers(r, copr, answer)
  \/ \E copr \in Copr : CoprFails(r, copr)
  \/ ScanSideTags(r)
  \/ NoKoji(r)
  \/ Prune(r)
  \/ Truncate(r)
  \/ Write(r)
  \/ Crash(r)

Next == \/ \E r \in Run : RunStep(r)
        \/ \E tag \in Tag : TagRemoved(tag)

Spec == Init /\ [][Next]_vars

-----------------------------------------------------------------------------
TypeOK ==
  /\ file \in Ledgers \cup {Unreadable} /\ saved \in Ledgers
  /\ live \subseteq Tag
  /\ stage \in [Run -> Stages] /\ opts \in [Run -> Options]
  /\ ledger \in [Run -> Ledgers]
  /\ todo \in [Run -> SUBSET Copr] /\ unheard \in [Run -> SUBSET Copr]
  /\ established \in [Run -> BOOLEAN] /\ dirty \in [Run -> BOOLEAN]
  /\ scan \in [Run -> [missing : SUBSET Tag, definite : BOOLEAN]]
  /\ named \in [Run -> SUBSET Package]

\* "A ledger that both tracks and ignores one would be contradicting itself"
\* (run): so does no ledger, on disk or in hand, whatever COPRs and side tags
\* turn up between a refusal and what takes it back.
NeverTrackedAndIgnored ==
  /\ file # Unreadable => Tracked(file) \cap file.ignored = {}
  /\ \A r \in Run : Tracked(ledger[r]) \cap ledger[r].ignored = {}

\* A package leaves the effort only when told: it was forgotten by name, or the
\* run was to prune packages, a COPR had once staged it, every COPR answered
\* and none of them named it (README: "Neither prunes on a question that was
\* not answered").
LeavesOnlyWhenTold ==
  [][\A r \in Run : Write(r) =>
       \A p \in Tracked(saved) \ Tracked(saved') :
         \/ p \in opts[r].forget
         \/ /\ "packages" \in opts[r].prune
            /\ saved.packages[p].seen_in_copr
            /\ unheard[r] = {} /\ ledger[r].coprs # {}
            /\ p \notin named[r]]_vars

\* Forgetting is a standing decision (Ledger::ignored): a refused package is
\* taken up again by nothing but --add.
ForgottenStaysForgotten ==
  [][\A r \in Run : Write(r) =>
       saved.ignored \cap Tracked(saved') \subseteq opts[r].add]_vars

\* A route is only ever recorded from an explicit instruction: no refresh of
\* a package that stays changes it.
DecisionsAreKept ==
  [][\A r \in Run : Write(r) =>
       \A p \in Tracked(saved) \cap Tracked(saved') :
         \/ saved'.packages[p].route = saved.packages[p].route
         \/ p \in opts[r].forget \cap opts[r].add
         \/ \E s \in opts[r].set : s[1] = p]_vars

\* "The hub did not say" never becomes "the tag is gone" (prune_side_tags): a
\* side tag that exists stays in the ledger.
LiveTagsAreKept ==
  [][\A r \in Run : Write(r) => saved.side_tags \cap live \subseteq saved'.side_tags]_vars
=============================================================================
