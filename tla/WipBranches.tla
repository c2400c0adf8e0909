---------------------------- MODULE WipBranches ----------------------------
(***************************************************************************)
(* What `ebranch check-wip` (tools/ebranch/src/wip.rs) records of one      *)
(* package branch by branch, while the distro moves under the ledger.      *)
(*                                                                         *)
(* A branch goes by two names: until mass branching the release F45 is     *)
(* what "rawhide" builds and what Fedora names the side tags f45-..., so   *)
(* "f45" is a second name for it; afterwards rawhide is F46 and f45 is a   *)
(* release of its own.  Bodhi says which, when it answers.  The effort has *)
(* some f45 side tags, whose builds count for the branch that is F45.      *)
(*                                                                         *)
(* A run holds the ledger in memory until its end, so one that dies has    *)
(* not happened; what can fail is any of its questions.                    *)
(*                                                                         *)
(* The names of this module are not those of WipLedger, the other half of  *)
(* the command, so that one module can speak of both.                      *)
(***************************************************************************)
EXTENDS Naturals, Sequences, FiniteSetsExt

CONSTANTS
  SideTag,        \* number of registered f45 side tags, in ledger order
  MaxVersion      \* bound: versions of the package are 1..MaxVersion

ASSUME BranchesAssumption == SideTag \in Nat /\ MaxVersion \in Nat \ {0}

Name     == {"rawhide", "f45"}
Release  == {"F45", "F46"}
Version  == 0..MaxVersion      \* 0: no such thing
Built    == [version : Version, of : Release \cup {"none"}]
NotBuilt == [version |-> 0, of |-> "none"]

VARIABLES
  \* The distro.
  branched,       \* whether mass branching has happened
  repos,          \* what each release's repositories carry
  tagged,         \* newest build in each release's candidate and testing tags
  inTag,          \* the build each side tag holds
  \* The ledger.
  targets, staged, shipped, built,
  \* The run.
  phase,
  branches,       \* branches examined
  tags,           \* those whose Koji tags are known
  aliased,        \* whether "f45" was found to be another name for rawhide
  scanned,           \* the side tag build found for each branch
  waiting,           \* branches whose turn has not come
  \* History, for the properties.
  due,            \* newest build of each release when the run began
  heard,          \* newest build Koji told the run of, for each branch
  complete        \* whether every question has been answered

distro == <<branched, repos, tagged, inTag>>
facts == <<targets, staged, shipped, built>>
working    == <<phase, branches, tags, aliased, scanned, waiting>>
seen   == <<due, heard, complete>>
branchesVars   == <<distro, facts, working, seen>>

Phases == {"idle", "releases", "shipped", "scan", "built", "done"}

ReleaseOf(n) == IF n = "rawhide" /\ branched THEN "F46" ELSE "F45"

Tags(r) == IF r = "F45" THEN 1..SideTag ELSE {}

Newer(a, b) == IF a.version > b.version THEN a ELSE b

NoBuilds == [n \in Name |-> NotBuilt]

-----------------------------------------------------------------------------
\* Mutant: a recorded build that the branch carries settles the question.
WorthAskingUntilBuilt(n) ==
  /\ staged = 0 \/ staged > shipped[n]
  /\ built[n] = NotBuilt \/ built[n].version > shipped[n]

\* worth_asking_koji: a staged version the branch carries already settles it.
WorthAsking(n) == staged = 0 \/ staged > shipped[n]

\* release_tags and what follows from it: a name for a release that is already
\* examined is dropped as a target, with its facts, and kept as an alias.
Duplicate(n) == n # "rawhide" /\ ReleaseOf(n) = ReleaseOf("rawhide")

Implied == IF SideTag > 0 THEN {"f45"} ELSE {}

\* Mutant: what the side tags imply is not examined.
ExaminedTargets(known) ==
  {n \in {"rawhide"} \cup targets : ~(n \in known /\ Duplicate(n))}

\* Branches to examine, given the names Bodhi knew: rawhide, the targets and
\* what the side tags imply, but for duplicates.
Examined(known) ==
  {n \in {"rawhide"} \cup targets \cup Implied : ~(n \in known /\ Duplicate(n))}

\* The branch a side tag's builds belong to.
Attributed == IF aliased THEN "rawhide" ELSE "f45"

-----------------------------------------------------------------------------
BranchesInit ==
  /\ branched = FALSE
  /\ repos = [r \in Release |-> 0] /\ tagged = [r \in Release |-> 0]
  /\ inTag = [i \in 1..SideTag |-> 0]
  /\ targets = {} /\ staged = 0
  /\ shipped = [n \in Name |-> 0] /\ built = NoBuilds
  /\ phase = "idle" /\ branches = {} /\ tags = {} /\ aliased = FALSE
  /\ scanned = NoBuilds /\ waiting = {}
  /\ due = [r \in Release |-> 0] /\ heard = NoBuilds /\ complete = TRUE

\* The distro's own steps: a build lands in a side tag or in a release's tags,
\* a compose carries what is tagged, and once, between runs, mass branching.
BuildInSideTag ==
  /\ \E i \in 1..SideTag, v \in 1..MaxVersion :
       v > inTag[i] /\ inTag' = [inTag EXCEPT ![i] = v]
  /\ UNCHANGED <<branched, repos, tagged, facts, working, seen>>

BuildTagged ==
  /\ \E r \in Release, v \in 1..MaxVersion :
       /\ r = "F46" => branched
       /\ v > tagged[r] /\ tagged' = [tagged EXCEPT ![r] = v]
  /\ UNCHANGED <<branched, repos, inTag, facts, working, seen>>

Compose ==
  /\ \E r \in Release :
       repos[r] < tagged[r] /\ repos' = [repos EXCEPT ![r] = tagged[r]]
  /\ UNCHANGED <<branched, tagged, inTag, facts, working, seen>>

MassBranching ==
  /\ ~branched /\ phase = "idle"
  /\ branched' = TRUE
  /\ tagged' = [tagged EXCEPT !["F46"] = tagged["F45"]]
  /\ repos' = [repos EXCEPT !["F46"] = repos["F45"]]
  /\ UNCHANGED <<inTag, facts, working, seen>>

\* A run begins, perhaps with --target f45, and learns what a COPR stages.
Begin(given) ==
  /\ phase = "idle"
  /\ targets' = targets \cup given
  /\ staged' \in Version
  /\ phase' = "releases"
  /\ due' = [r \in Release |-> Max({tagged[r]} \cup {inTag[i] : i \in Tags(r)})]
  /\ heard' = NoBuilds /\ complete' = TRUE
  /\ UNCHANGED <<distro, shipped, built, branches, tags, aliased, scanned, waiting>>

\* Mutant: a dropped target leaves its facts behind.
ForgetTarget(kept) == targets' = kept \ {"rawhide"} /\ UNCHANGED <<shipped, built>>

\* drop_target, for the names no longer examined.
DropTargets(kept) ==
  /\ targets' = kept \ {"rawhide"}
  /\ shipped' = [n \in Name |-> IF n \in kept THEN shipped[n] ELSE 0]
  /\ built' = [n \in Name |-> IF n \in kept THEN built[n] ELSE NotBuilt]

\* Bodhi lists its releases, or does not answer and knows no name.
Resolve(known) ==
  LET examined == Examined(known) IN
  /\ phase = "releases"
  /\ DropTargets(examined)
  /\ branches' = examined
  /\ tags' = examined \cap known
  /\ aliased' = ("f45" \in known /\ Duplicate("f45"))
  /\ waiting' = examined
  /\ phase' = "shipped"
  /\ complete' = (known # {})
  /\ UNCHANGED <<distro, staged, scanned, due, heard>>

\* refresh_shipped, a branch at a time: what its repositories carry, or what
\* the ledger has when the query fails.
AskShipped ==
  /\ phase = "shipped"
  /\ \E n \in waiting :
       /\ waiting' = waiting \ {n}
       /\ \/ shipped' = [shipped EXCEPT ![n] = repos[ReleaseOf(n)]] /\ UNCHANGED complete
          \/ complete' = FALSE /\ UNCHANGED shipped
  /\ UNCHANGED <<distro, targets, staged, built, phase, branches, tags, aliased, scanned,
                 due, heard>>

ShippedDone ==
  /\ phase = "shipped" /\ waiting = {}
  /\ phase' = "scan"
  /\ UNCHANGED <<distro, facts, branches, tags, aliased, scanned, waiting, seen>>

\* side_tag_builds keeps one build for a branch: the last tag's.
LastBuild(answering) ==
  LET holding == {i \in answering : inTag[i] > 0}
  IN  IF holding = {} THEN NotBuilt
      ELSE [version |-> inTag[Max(holding)], of |-> "F45"]

\* Mutant: what is tracked already is not adopted.
AdoptUnknown(n, build) == [built EXCEPT ![n] = IF @ = NotBuilt THEN build ELSE @]

\* adopt_side_tag_builds, for a package that is tracked.
AdoptBuild(n, build) == [built EXCEPT ![n] = Newer(build, @)]

\* The side tags answer, or some do not; a hub found unresponsive ends it, as a
\* missing koji client does before any is asked.
ScanBuilds ==
  /\ phase = "scan"
  /\ \E answering \in SUBSET (1..SideTag), hub \in BOOLEAN :
       LET build == LastBuild(answering) IN
       /\ scanned' = [scanned EXCEPT ![Attributed] = build]
       /\ built' = AdoptBuild(Attributed, build)
       /\ heard' = [heard EXCEPT ![Attributed] =
                      [version |-> Max({0} \cup {inTag[i] : i \in answering}), of |-> "F45"]]
       /\ complete' = (complete /\ hub /\ answering = 1..SideTag)
       /\ phase' = IF hub THEN "built" ELSE "done"
       /\ waiting' = IF hub THEN tags ELSE {}
  /\ UNCHANGED <<distro, targets, staged, shipped, branches, tags, aliased, due>>

\* The newest of a side tag's build and a release tag's goes on record.
Newest(n) ==
  Newer(IF tagged[ReleaseOf(n)] = 0 THEN NotBuilt
        ELSE [version |-> tagged[ReleaseOf(n)], of |-> ReleaseOf(n)], scanned[n])

\* The rest of refresh_built, a branch at a time: asked if worth asking, and
\* left as it is when the query fails.
AskBuilt ==
  /\ phase = "built"
  /\ \E n \in waiting :
       /\ waiting' = waiting \ {n}
       /\ \/ /\ WorthAsking(n)
             /\ built' = [built EXCEPT ![n] = Newest(n)]
             /\ heard' = [heard EXCEPT ![n] = Newer(@, Newest(n))]
             /\ UNCHANGED complete
          \/ WorthAsking(n) /\ complete' = FALSE /\ UNCHANGED <<built, heard>>
          \/ ~WorthAsking(n) /\ UNCHANGED <<built, seen>>
  /\ UNCHANGED <<distro, targets, staged, shipped, phase, branches, tags, aliased, scanned, due>>

BuiltDone ==
  /\ phase = "built" /\ waiting = {}
  /\ phase' = "done"
  /\ UNCHANGED <<distro, facts, branches, tags, aliased, scanned, waiting, seen>>

\* The ledger is saved, and the run's own state goes.
Save ==
  /\ phase = "done"
  /\ phase' = "idle" /\ branches' = {} /\ tags' = {} /\ aliased' = FALSE
  /\ scanned' = NoBuilds /\ waiting' = {}
  /\ due' = [r \in Release |-> 0] /\ heard' = NoBuilds /\ complete' = TRUE
  /\ UNCHANGED <<distro, facts>>

BranchesNext ==
  \/ BuildInSideTag \/ BuildTagged \/ Compose \/ MassBranching
  \/ \E given \in {{}, {"f45"}} : Begin(given)
  \/ Resolve(Name) \/ Resolve({})
  \/ AskShipped \/ ShippedDone
  \/ ScanBuilds
  \/ AskBuilt \/ BuiltDone
  \/ Save

BranchesSpec == BranchesInit /\ [][BranchesNext]_branchesVars

-----------------------------------------------------------------------------
BranchesTypeOK ==
  /\ branched \in BOOLEAN
  /\ repos \in [Release -> Version] /\ tagged \in [Release -> Version]
  /\ inTag \in [1..SideTag -> Version]
  /\ targets \subseteq {"f45"} /\ staged \in Version
  /\ shipped \in [Name -> Version] /\ built \in [Name -> Built]
  /\ phase \in Phases
  /\ branches \subseteq Name /\ tags \subseteq branches /\ waiting \subseteq branches
  /\ aliased \in BOOLEAN /\ complete \in BOOLEAN
  /\ scanned \in [Name -> Built] /\ heard \in [Name -> Built]
  /\ due \in [Release -> Version]

Asking == phase \notin {"idle", "releases"}

\* No fact outlives the examination of its branch: one nothing refreshes would
\* read exactly like one that is kept up to date (run).
FactsAreExamined ==
  Asking => \A n \in Name : shipped[n] > 0 \/ built[n] # NotBuilt => n \in branches

\* However the distro moves, a side tag's builds are recorded under a branch
\* the run examines, and once Bodhi has answered under one of its release.
SideTagBuildsHaveABranch ==
  Asking /\ SideTag > 0 => /\ Attributed \in branches
                           /\ tags # {} => ReleaseOf(Attributed) = "F45"

\* A run leaves on record, for each branch, a build as new as any Koji told it
\* of: "the latest build Koji has for each branch" (Package::built).
NewestHeardIsRecorded ==
  phase = "done" => \A n \in branches : built[n].version >= heard[n].version

\* Nothing recorded keeps a newer build from being found (worth_asking_koji): an
\* effort with no COPR behind it, all of whose questions were answered, knows
\* of every build there was when the run began.
BuildsAreFound ==
  phase = "done" /\ complete /\ staged = 0 =>
    \A n \in branches : built[n].version >= due[ReleaseOf(n)]

=============================================================================
