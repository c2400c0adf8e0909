# sandogasa: TLA+ specifications and proofs

sandogasa is a workspace of command-line tools for distribution packagers
(`src/tools/`, 16 of them) over a set of shared crates (`src/crates/`, 28). Most
of the code asks a web service something and prints the answer. What is modelled
here is the part that is not like that: the commands that keep a store, a ledger,
a report or a branch from one run to the next, or leave their traces on bugs, so
that what a run does depends on where the runs before it stopped and on which of
their questions were answered; and one algorithm, the order of a rebuild plan.

Paths below are relative to the repository. In a module, an action carries the
name of the function it stands for where there is one.

## Inventory

### Tools with state of their own

| tool | state it keeps | operations that change it | what is hard |
|---|---|---|---|
| koji-lag | an SQLite store: `builds`, `tasks`, `listed` (spans of creation time listed in full) | `sync`: page walk (`sync.rs`, `sweep.rs`), child sweep (`fetch.rs`), naming; `whole_days` reads | two transactions per page, ids out of order, ties in a second, interruption anywhere, coverage as promise |
| ebranch check-wip | a TOML ledger of packages, COPRs, side tags, refusals | `run`: edits, `reconcile`, `adopt_side_tag_builds`, `prune`, `save` | read at the start and written whole at the end; COPRs, Koji and Bodhi that do not answer; mass branching |
| dbranch rebuild / update | the packaging repository, its remote, source packages in the parent directory | merge, edits, changelog, `debuild`, build, push, upload, tag | each stage can be the last and is resumed; several people, one remote |
| ebranch branch requests | a report file; bugs in Bugzilla, tickets of releng | `file-requests`, `escalate`, `close` | the report is written once, at the end; bugs move meanwhile; lost answers |
| ebranch rebuild-plan | none while it computes: needs, cycles, rounds | `build_order`, `find_cycles`, `topological_layers` | waits through other packages, cycles, what blocks what |
| ebranch submit | files of a chain | phases built in order | resuming |
| cpu-sig-tracker | none; acts on Koji, GitLab and JIRA | retire, untag | steps over several services in turn |
| hs-relmon | none; acts on tags of repositories | prune_tags, retire | choosing from contents that move |
| poi-tracker | an inventory file | reconcile, act | a file and a service changed in turn |
| fedora-cve-triage | its own comments on the bugs; a cache of what it confirmed | skips, closes, asks, records | a transition only on evidence; missing evidence is not absence; repeating oneself |

The other tools (fedora-review-digest, fesco-chair, hs-intake, hs-meetings,
koji-diff, sandogasa-hattrack, -pkg-acl, -pkg-health, -report, and the reporting
half of koji-lag) compute a page of text from one round of queries.

### Shared crates

`sandogasa-bugzilla` has the write that the tools above rest on: it reads back a
request that failed and repeats only what did not land. `sandogasa-cli` holds the
retries and a disk cache shared by processes,
`sandogasa-cve` a client that paces its requests, `sandogasa-closure` a
breadth-first walk in waves, `sandogasa-rpmvercmp` the version order.
`sandogasa-koji`, `-kojihub`, `-copr`, `-bodhi`, `-fedrq`, `-gitlab` and the rest
are blocking clients of one service each, with no state between calls; the models
take their answers, and their silence, as nondeterministic inputs. The others
classify, parse or lay out. `PROJECT.json` lists every one with its status.

### How they interact

There are no threads that share state in the parts modelled. Concurrency is
between a run and the service it asks (whose contents move while it asks),
between one run and another run of the same tool (of the same person later, or of
another person), and between a run and whatever ends it.

    koji-lag sync  --listTasks-->  Koji hub        --rows, spans-->  SQLite store --> reports
    check-wip      --builds, tags, releases-->  COPR, Koji, Bodhi, repositories;  ledger file
    dbranch        --git, debuild, dput-->  clone <--push/fetch--> remote;  archive or PPA
    branch requests, cve-triage  --verified write-->  Bugzilla  <--  maintainers, Bodhi, releng
    rebuild-plan   --dependencies-->  repositories (fedrq) --> dag --> rounds

### What makes each part correct

- koji-lag: a span is vouched for only when every build created in it is in the
  store; a walk ends; a build is marked swept only with its children; a day
  reported as whole is whole.
- check-wip: a package leaves, comes back or changes its route only by
  instruction; no silence is read as absence; a recorded fact belongs to the
  release its branch is today, and does not hide a newer one.
- dbranch: versions descend and none is given twice; what is uploaded is what
  was pushed; an upload carries what its destination cannot supply.
- verified writes: what is reported done was done; nothing is written twice as far
  as the bugs can tell.
- branch requests: one request per package and branch, one question per
  maintainer at a time, a ticket only after a question in that bug had the wait the
  policy gives, a close that leaves no question of ebranch's behind it.
- fedora-cve-triage: a bug is closed only when the releases it covers are
  answered, none speaking for one that was not read or has no fix; neither a finding nor a question is repeated for the same builds.
- rebuild-plan: whatever a package's buildroot needs is in an earlier round;
  every package is in a round or is named as blocked.

## Modules

| module | models | extends or instantiates |
|---|---|---|
| `Spans` | `Span`, `touches`, `add_listed`, `gaps` (`store.rs`) as operators | |
| `SpanTable` | the `listed` table under any sequence of calls, and the loop in `gaps` | `Spans` |
| `CoverageLedger` | abstract: what the listing promises, without pages or spans | |
| `KojiListing` | `run`, `fill_gap` (`sync.rs`), `step`, `HubPages` (`sweep.rs`), `put_builds` | `Spans`, `CoverageLedger` by refinement |
| `ChildSweep` | `sweep_children`, `fetch_children_batched` | |
| `KojiSync` | one sync end to end, repeated, and `whole_days` | `Spans`, `ChildSweep`; `KojiListing` as an instance |
| `WipLedger` | check-wip's ledger across runs (`wip.rs`) | |
| `WipBranches` | what check-wip records per branch, across mass branching | |
| `DbranchRebuild` | `rebuild` of one branch by several people (`rebuild.rs`, `changelog.rs`) | |
| `VerifiedWrite` | `update_many_verified` (`client.rs`), one call | |
| `BranchRequests` | `file-requests`, `escalate`, `close` on a report (`branch_request.rs`) | |
| `CveTriage` | one bug under `fedora-cve-triage run`, run after run (`main.rs`) | |
| `BuildOrder` | `build_order` (`rebuild_plan.rs`) with `dag.rs` | |
| `KojiListingProofs` | theorems | `KojiListing`, `SpanTable` |
| `KojiSyncProofs` | theorems | `KojiSync`, and with it `ChildSweep`; `KojiListingProofs` as an instance |
| `CheckWipProofs` | theorems | `WipLedger`, `WipBranches` |
| `DbranchRebuildProofs`, `VerifiedWriteProofs`, `BranchRequestsProofs`, `CveTriageProofs`, `BuildOrderProofs` | theorems | the module they prove about |
| `MC...` | small instances | the module they instantiate |

Each model takes as input what it cannot see: the hub's history, the answers of
a service, the command line of a run. Its variables are, in that order, the
world outside, what is persisted, and what a run holds in memory; the third group
is lost by the action that stops a run.

### koji-lag

`KojiListing`: `created` is the hub's history, `held` and `listed` the two
tables, `want`, `todo`, `gap`, `cursor`, `page` and `phase` the run. A run opens
with a window (`Begin`), takes the gaps once (`NextGap`, `NoGapLeft`), and for
each walks: ask a page (`AskPage`), write its rows (`PutBuilds`), then record the
span that the page settles and move the cursor (`Claim`, which is `step` and
`add_listed`). Writing rows and recording the span are two transactions, and
`Interrupt` may fall between any two steps. The hub answers the newest ids below
the cursor, `PageSize` of them; ids follow creation only to within `Skew`, and a
task is visible from the instant after its creation. `CoverageLedger` says what
this must amount to: an instant in the past may be vouched for when everything
created in it is held, and nothing is withdrawn.

`ChildSweep`: parents are asked for in batches on a stack; an answer that fills
the page splits its batch in two (`Split`), any other is accepted (`Accept`),
written (`PutTasks`) and then marked (`MarkSwept`).

`KojiSync` adds to both the columns `known` (a completion time) and `named` (a
package), what a page says of a running build, and `FillNames`. Its `Whole(d)` is
`whole_days`.

### ebranch check-wip

`WipLedger`: `file` is the ledger on disk, `saved` what was last written in full,
`live` the side tags that exist; each run has a stage, its options, its copy of
the ledger and what it has heard. `Start` loads the file and applies the options
(`Decide`: forget, add, assign, in the order of `run`); `CoprAnswers` reconciles
with one COPR, `CoprFails` with its silence; `ScanSideTags` adopts the builds of
side tags and learns which are gone; `Prune` and `Truncate`, `Write` end the run.
Saving is two steps, since `std::fs::write` empties the file first.

`WipBranches` follows one package through the stages of a run (release names,
shipped versions, side tags, builds) while the distribution builds, composes and
branches under it. Any question may go unanswered. Left out: the report, Bodhi's
updates, and everything of `WipLedger`.

### dbranch rebuild

`DbranchRebuild`: a branch is a sequence of commits, of which a tree keeps the
changelog, whether the packaging files are adjusted, and whether it was fixed by
hand. The merge stage is a chain of actions from `MergeClean` or `MergeConflict`
through `Adjust`, `Dch` and `Normalize` to `CommitEntry`; then `Source`, `Build`,
`Push`, `Upload`, each of which may be the first of a resumed run. `ensure_source`
is `Usable`, `Refresh` and `Exists`, and a refresh may be declined. `Stop` ends a
run at any step and leaves work tree, index and packages as they are. Between runs
a person may commit a fix, conclude or abandon a merge, or reset to the remote.
The steps inside a stage touch nothing of another clone's, so only whole stages of
different people are interleaved. Left out: the spelling of versions, lint, tag, the choice of
branches in a bulk run, and `update`. The three target kinds differ in
`orig_required` and in that spelling, which matters once: `debian_base`
(`changelog.rs:122`) takes off the suffixes that `dbranch` gives, and not the
`+deb<N>u<M>` that `gbp dch --stable` gives (`plan.rs:181`), so that a stanza left by
a run interrupted before `Normalize` on a stable branch is a new base for the next
version. In the model the base is that of the stanza below, as it is for the other
kinds.

### Verified writes

`VerifiedWrite`: `changed`, `shows` and `comments` are Bugzilla's, of each bug the
second of its last change, whether its fields are those asked for, and how often
it has been given the body. A request (`Send`) is applied bug by bug
(`TakeEffect`), before or after the call has given up on it (`Failed`); others
change bugs as well (`Touch`). `Landed` is the code's test of a bug read back.
Three faults are recorded when they happen, since the call cannot see them: a
read that fails, a request applied late, and two changes of a bug in one second.
`BranchRequests` and `CveTriage` use the result: there, a write that reports
failure may have been applied.

### ebranch branch requests

`BranchRequests`: `bug`, `ticket`, `landed` and `access` are the world, `report`
the file of each branch, `run` the command at work on it with its copy of the
report (`view`). Each command is a chain of actions from the load to `Save`;
`Interrupt` may end it between any two, and a write that fails (`GiveUp`) may have
been applied. Between any two steps days pass and people do what they like: file a
request by hand, assign it to anybody, ask anybody something (`AskByHand`), answer or
withdraw a question, take, refuse, merge or reopen a request, unpush an update or
retire a package (`Withdraw`), grant access, close a ticket. A bug keeps its
flags, each with whom it asks, since when and who set it, as `needinfo_age` reads
them; for the properties it also keeps since when somebody but the asker has been
asked, and whether anybody asked by hand. Dates are steps of a clock: `PingMin` and
`RelengMin` stand for 7 and 14 days. Left out: dry runs, `file-request` for a
package without a report, the links between bugs, an asker without a configured
Bugzilla identity, and the claim a close may make, which is a reassignment like
people's; wording. Bugs are marked
duplicates of older ones only, so the hops `follow_duplicate` is limited to are
never used up.

### fedora-cve-triage

`CveTriage`: `updates` is Bodhi, `status` and `said` the bug, `confirmed` the
user's cache and `analysis` the version of the tool's reasoning. A run reads the
releases one by one, each of which may fail (`ReadRelease`), decides whether the
bug was answered (`Skip`), has it claimed by a check (`Claim`), judges it
(`JudgeNothing`, `JudgeBuildroots` and `Judge`, which are `classify_bodhi_check` over
`earliest_carrying_fix` and `categorize_bug`), writes, and records its finding. In
`Judge` any releases may collide with a name of another ecosystem, which are
not read and which make the best answer so far be forgotten, and any others end as
product mismatches, as when fedrq does not give their provides; neither is unread nor
unfixed. `run.aside` remembers them, for the properties, while a close is
pending. The other checks' conclusions are choices. `run.excuse` remembers what the run could not read; the
properties say which of those free it.

### ebranch rebuild-plan

`BuildOrder`: `branch` is what the repositories say; `Ask` computes what each
package waits for, `Block` and `Blocked` the closure of what cannot be rebuilt,
`Start`, `Look` and `Return` are `strongconnect` with its recursion on a stack of
calls, `Round` and `Settle` the layers. Where the code goes in order of names the
model goes in any order.

## What the runs check

| run | shows | bounds |
|---|---|---|
| `SpanTable` | rows stay separate, and the loop in `gaps` answers the maximal unlisted stretches, for every sequence of calls | spans within 0..8 |
| `KojiListing` | claims are kept, a finished run leaves no gap, credit is never withdrawn, the walk implements `CoverageLedger`, and every run ends | 4 builds, pages of 2, skew 1 under a re-read of 2, windows on three midnights |
| `ChildSweep` | no parent lost by splitting, none marked without its children, every sweep ends | 3 parents with 0 to 3 children, batches of 3, pages of 2 |
| `KojiSync` | a whole day has a row for every build completed in it, with its children; a finished sync leaves its days whole | 3 builds, days of 2 ticks, grace 2, several windows |
| `KojiSync_running` | violation, below | 4 builds |
| `WipLedger` | nothing leaves, comes back or changes its route but by instruction, and live side tags stay | 2 packages, 2 COPRs, a side tag, one run at a time |
| `WipBranches` | recorded facts are of an examined branch, side-tag builds have one and are found, no recorded build hides a newer one | one side tag, 2 versions |
| `DbranchRebuild` | versions descend, uploads were pushed and carry their tarball | 2 people, 2 Debian releases, 4 commits, 4 stanzas; the runs of one of them stop anywhere but between an edit of a packaging file and its commit; a clone without the branch fetched before the first push or just now |
| `VerifiedWrite` | what is done was written; without the three faults nothing is written twice or unknown to the caller; every call ends | 2 bugs, 2 attempts, 3 seconds, one change by others per bug |
| `BranchRequests` | no request where one was seen, no second question to a person who owes an answer, a ticket only for a bug in which somebody was asked and had the wait, closes settled | 1 package, 1 branch, 3 people, 2 bugs, 1 ticket, 2 days, 2 acts of other people besides answering and building |
| `CveTriage` | no release speaks for one unread or unfixed unless that was set aside as another product's, findings and questions not repeated, what was said or confirmed is known to the next run | 2 releases, 2 updates besides those at the start, 2 versions of the reasoning |
| `BuildOrder` | waits are in earlier rounds, every package is placed or blocked as reachability says, cycles are the strongly connected components | 3 packages, every pattern of BuildRequires between them, with one package in between that brings any others along, every set that cannot be rebuilt |

Most modules also have a `TypeOK`, which states the shape of the state. It is not
among the runs' properties. `TypeCorrect`, `SweepTypeCorrect` and `SyncTypeCorrect`
prove it, or an inductive invariant proved below implies it.

Why these bounds are enough to be interesting. A page of two makes a full page of
one second's tasks, a full page with a late commit under it and an empty page all
occur among four builds. Three parents on pages of two force an uneven split and
a parent that cannot be split. Two COPRs are needed for a package to move between
them or to be in one that does not answer. Two releases and four commits let one
person's whole rebuild collide with another's, or one person's be followed by a
merge of the next release with a second entry. Two bugs and two attempts let a
request be applied to one bug, lost for the other, and overtaken by its own
repetition. Two bugs of one package make a duplicate of each other, a request
filed by hand beside one that was lost, and a ticket about the wrong one; three
people are the asker, the one asked and one to reassign to, and two acts let a
question by hand meet a reassignment, a reopening or a withdrawal. Two
releases are what a tracker needs to be fixed in one and not the other, and two
updates to be stable under an older one with the fix. Three packages make a cycle
with a third before it, after it or between. Mutations of the mapped definitions
(a dropped margin, an exact page taken as whole, a refusal not kept, an upload
before the push, and so on) are listed in `PROJECT.json` and each is refuted.

`CHECK_DEADLOCK FALSE` stands where the instance really stops: the horizon of
time or of commits is used up. `SpanTable`, `WipBranches` and `BuildOrder` check
for it.

### Fairness

`KojiListing` and `ChildSweep` assume weak fairness of the steps of a run that has
begun (`Walk`, `Finish`, `Progress`) and of nothing else. The loops are sequential
and wait only for an answer of the hub, which the client bounds by a timeout; an
answer that fails ends the run and is an `Interrupt`, which is not fair.
`VerifiedWrite` assumes weak fairness of the call's own steps (`Client`): in
`wait` it may always fail, as the client's timeout has it. No fairness is assumed
of people, of the hub's history or of other runs, and no liveness is claimed of
the ledger, of a rebuild or of a bug.

### Where the code does not do what is said of it

One is a run that TLC refutes: `KojiSync_running`. A build still running when its
creation is listed is never listed again, so its completion is not learnt, and the
day is still whole.

The others have a definition that states what is said, and an instance in which
TLC refutes it; the passing runs leave that instance out.

| what is said | what happens | refuted |
|---|---|---|
| "a claim is a promise that everything created in the span is in the store" (`sync.rs:221`) | the last full page of a gap is claimed down to the gap's far edge, without the re-read margin (`sweep.rs:109`) | `ClaimsAreKept` in `KojiListing.cfg` with `ClearEdges = FALSE` |
| names are derived "after the children stage of every sync" (koji-lag `DEVELOPMENT.md:296`) | a row listed again takes the page's package, none for a dist-git build, and names are filled only within the run's window | `SyncedBuildsAreNamed` in `KojiSync.cfg` with `UninterruptedSpec` |
| `Package::built` is "the latest build Koji has" (`wip.rs:231`) | of two side tags of a branch, the one registered last hides a newer build in the other (`wip.rs:868`) | `NewestHeardIsRecorded` in `WipBranches.cfg` with `SideTag = 2` |
| packaging tweaks are "re-checked on every merge" (dbranch `README.md:434`) | a run that stops between editing a file and committing it leaves an edit that every later run takes for done (`rebuild.rs:2563`) | `AdjustedIsCommitted` in `DbranchRebuild.cfg` with `EditsFail = TRUE` |
| a request that was lost is not "repeated, which would duplicate its comment" (`client.rs:455-461`) | it is, when a read fails, the request is applied late, or another change shares the second | `NeverRepeated` in `VerifiedWrite.cfg` |
| "a family tracker is not answered until every release it covers is" (`main.rs:1125`) | a release whose provides cannot be read stays a product mismatch, neither unread nor unfixed, and another's fix outranks it and closes the bug (`main.rs:3278-3372`) | `EveryReleaseIsAnswered` in `CveTriage.cfg` |
| a bug closed as never affected was "never affected" (`NeverAffected`) | one release never affected outranks another whose fix is in testing (`main.rs:4353-4361`) | `NeverAffectedIsTrue` in `CveTriage.cfg` with `MaxUpdates = 3` |
| "each cycle is one round" (`rebuild_plan.rs:310`, 2718) | the edges inside a cycle are dropped, and a member that also waits for a package outside comes in a later round than one that does not | `EachCycleIsOneRound` in `BuildOrder.cfg` |

Smaller ones were seen and are part of the models, without a property. A releng
ticket is looked for by its title, which names the package and not the branch, so
another branch's open ticket is recorded as this one's; `releng` is kept when a
duplicate is followed; a ticket prompt may outlast the answer to the needinfo. A
needinfo set by hand counts from its day, whatever the bug's age, so that a ticket
may come before ebranch would have asked: `TicketFollowsItsPing` promises both waits
only where nobody but ebranch asked. A question asked during a close outlives it.
`fedora-cve-triage` asks again when Bodhi did not answer the skip stage, whatever
it said before, and merges `cf_fixed_in` with what it read when it searched.

A window older than every task of the hub is a lesser case: its page is empty and
claims nothing, so it is asked again each time. `FinishedLeavesNoGap` excepts it.

`EditsFail` is `FALSE` in the passing run for `UploadedWasPushed`: an edit that is not
committed is in the package that is built and not in the branch that is pushed.

Two assumptions of the pass runs stand in for behaviour without such a sentence.
`WipLedger` runs one at a time: with two, the file read at the start and written
at the end loses the decision saved in between. `KeepsPackages = FALSE` has people
who reset to the remote start with no source packages: one that survives is newer
than the history reset to, and `source_state`, which compares times, would take it
for built from that history.

## What is proved

For every value of the constants, under the assumptions the modules name. Every
safety invariant and action property of the passing runs has a theorem.

`KojiListingProofs`, on the table: adding a span adds exactly its instants to what
is covered and keeps every row a span (`HullCovers`, `AddListedCovers`) and apart
from the others (`AddListedSeparate`). From `TableInv`, that the rows are separate
and vouch for what was named and nothing else, follow `RowsSeparate` and
`GapsAreTheRest`: the loop in `gaps` returns the maximal stretches no row covers,
oldest first. Rows that are apart are finitely many and can be listed in order
(`RowsHaveAnOrder`); `LoopInv` says what the loop has in hand after each row, and
`TurnKeeps` that a turn keeps it; two gaps that meet are one (`GapsAreApart`), so
that what the loop found is all there is. `KojiListing` takes its gaps by that
answer, `Gaps`, and not by the loop.

On the listing: `ClaimsAreKept` is not inductive: that a claim is sound
depends on what the pages before it brought. The inductive invariant `IInv` is
the conjunction of

- `HubInv`: history in order up to the skew, listed rows in the past;
- `StateInv`: types, and which variables are meaningful in which phase;
- `EdgeInv`: every end of a listed span or gap is an instant a walk may
  rely on, because it is a window's clear edge or has a held task just below;
- `DrainInv`: while walking, the rows skipped by the cursor's offset are held,
  so draining a crowded second by offset loses none of it;
- `PageInv`: a page in hand is an answer to the cursor it was asked with;
- `ClaimInv`: under `ClearEdges`, claims are kept.

Its steps rest on three lemmas: what an answer does not contain is older than what
it contains, up to the skew (`WhatIsMissingIsOlder`); hence the span claimed from
it has no other task (`ClaimIsSound`); and the next cursor preserves the drain
(`NextCursorIsSound`). `SkewAssumption`, that the skew is less than the re-read
margin, is what the second needs, as `sweep.rs` says. From `IInv` follow
`TypeCorrect`, `ClaimsKept`, `CreditKept` and `ListingImplementsLedger`, the
refinement of `CoverageLedger`: every step of a sync is a step of the ledger or a
stutter.

That a run ends with nothing left to ask (`FinishedIsWhole`) needs the complement
of that, `WalkInv`: an instant of the window is covered, or in a gap still to do,
or in the part of the present gap below the cursor (`LeftInv`); the rows a
cursor's offset skips are of the gap (`FreshInv`), so that a page is empty only
when the gap's older end is older than every task (`PageIsNotEmpty`). The hub must
have been in use before the window: the property says so, and the code is what it
is for a window older than the hub.

`KojiSyncProofs`, on the sweep: `SweptHasItsChildren` and `NoParentIsDropped`, for
any builds, children, batch size and page limit. `IInv` adds to the first that an
answer in hand is whole for each parent of its batch (`AnswerIsWhole`) and that a
batch is in hand only after an answer (`Stacked`). Their lemmas are the arithmetic
of batches: chunks and halves are sequences of builds (`ChunkedIsSeq`), a split
keeps every parent on the stack (`SplitKeepsParents`), and an answer short of a
page, or of one parent, is whole (`AcceptedIsWhole`). `BatchAssumption` has the
store's builds finite in number.

On a sync from end to end: `SyncIsListing` and `SyncIsSweep` show that it is a
behaviour of `KojiListing` and one of `ChildSweep`, each step of it a step or a
stutter of either. So their invariants hold of a sync, and `SyncInv` is their
conjunction with `HubSays` (a build takes at most the grace, and its times do not
change) and `ColumnsInv` (a stored completion is one that has been, and the page
in hand says so of every such row on it, which is why a row listed again does not
lose it: `CompletionsAreKept`). `SettledInv`, that what a sweep asks about or has
settled is known to have completed, gives `SyncTypeCorrect` and `SettledAreKnown`.
The three properties of a day follow. `WholeDaysHoldBuilds` is under `ClearEdges`,
the hypothesis of `ClaimsKept`. `WholeDaysHaveChildren` is under `MaxKids <=
ChildPageLimit`: a single build whose children fill a page is stored as it is,
with a warning, and is the case the sweep says it cannot repair.
`SyncsLeaveWholeDays` is under `InUseEarlier`, the hub's use before the windows.

`CheckWipProofs`, on the ledger: type correctness and `NeverTrackedAndIgnored`,
for any number of concurrent runs, torn writes included, from what each operation
on a ledger returns. For one run at a time whose writes are not torn (`Alone`),
the four action properties, from `SoloInv`: the file is what was saved, an idle
run knows nothing, refusals and routes in hand are those of the file as the
options change them, nothing is pruned before its time, a silence is remembered
until the run ends, what a COPR staged was named, and every package dropped was
dropped with a licence.

On the branches: `FactsExamined` and `BuildsAttributed` hold for any number of
side tags, from `RunInv`, whose `NamesInv` says which names a run may examine at
each stage: rawhide always, the name of the side tags' builds, and once Bodhi has
answered all of its own and only those. `HeardIsRecorded` and `EveryBuildIsFound`
have the hypothesis `OneTag`, one side tag at most: with two of one branch the
code keeps what the last one said, which is the divergence listed above. Their
invariants are `HeardInv` (a branch whose turn has not come was told of by the
scan only) and `DueInv` (what there was to find stays in a tag, in the scan or on
record, whatever is tagged, composed or deleted in the meantime).

`DbranchRebuildProofs`: `VersionsDescend`, `OrigIsSupplied` and `UploadsArePushed`,
for any people, destinations, releases and limits, the first two with runs stopped
anywhere. None is inductive.

- `LogInv`, for the versions. A descending log does not stay so when a merge
  prepends what it lacks; one that is also `Complete`, with every release up to its
  newest, does, because what it lacks is then newer than all it has
  (`MissingIsNewer`). `resolve_conflict` (`ResolvedIsGood`), the new stanza
  (`NextStanzaIsGood`) and the normalization (`OnTopIsGood`) keep both, and so does
  a clone's work tree, the log without the stanza being normalized included.
- `UploadInv`, for the upload: a package built no earlier than the tip was made is
  of the tip (`PackageInv`), one that this run built is of the tip and for the run's
  destination (`FreshInv`, `BuiltInv`), a branch is pushed before its upload
  (`PushInv`), and a clone without a branch has nothing to upload (`EmptyInv`). A
  package is built from the work tree, which differs from the tip in a packaging file
  only between its edit and its commit (`EditInv`) and not at all after the merge
  stage (`CleanInv`). The theorem's hypotheses are `~EditsFail`, that no run stops
  between the two, and `~KeepsPackages`, the case described above in which
  `source_state` compares times across a reset.

`Incoming` and `GapsLoop` are recursive functions, so that they can be proved
about without an induction theorem: the least length at which a claim about them
fails is excluded by the step before it (`IncomingExists`, `IncomingIsLacking`,
`LoopExists`, `LoopReturns`). The same argument by minimal counterexample stands
wherever a proof needs an induction.

`VerifiedWriteProofs`: `DoneIsWritten` and `WhatLandedIsKnown`, for any bugs,
attempts and time. Neither is inductive. The invariant `IInv` is `TypeOK`,
`DoneIsWritten`, `Grounded` (a bug that has moved past its snapshot, or shows what
it did not show, was written or touched) and, while no fault has happened,
`Clean`: no request is pending except the current one, what it may still apply to
is what remains, and a bug of the call that was written shows it by its time.

`BranchRequestsProofs`: the four properties of the run, for any packages,
branches, people, waits, bugs, tickets, acts of other people and any number of reports
worked on at once. None is inductive: a command acts on what it read steps ago. `IInv`
is `Types`; `Named` (a duplicate is of its original's package and branch, and what a
report or a run holds for a package is a request for it in the report's branch);
`Asked` (no question to anybody but the asker is older than the first, which is in the
past and, unless somebody asked by hand, follows the first wait; what ebranch closed
came to its branch and has none of ebranch's questions); and, for every branch,
`Relies`: what the command at work there has concluded and not yet acted on. `Calm`
says what everybody else may do to the requests of a branch (among it asking,
answering, reassigning and reopening) and `CalmKeeps` that no such step takes from a
command what it relies on; so each step needs showing for its own branch only
(`StepKeeps`). Why `escalate` need not re-read before its ping, though the bug may be
handed on and asked in meanwhile, or `close` before its write, is `Relies` at those
stages: only ebranch itself sets questions of ebranch's, and a wait once over stays
over. That the oldest request exists is well-foundedness of the numbers
(`LeastExists`).

`CveTriageProofs`: the four properties of the run, for any releases, updates,
versions of the reasoning and runs, whichever requests fail. They are about what a
run says at its end, from what it read stages ago, so `IInv` carries that along:
`Judged` (a verdict that closes holds of every release not set aside, and each of
those was read), `Heard` (until it speaks, the bug says what the run read; `record_findings`
compares with that and not with the bug, which the question of the same run has
changed since: its text is no finding's) and `News` (past the skip without an
excuse, the last comment is another analysis's or for other builds). That the
earliest fixed update is one of those with the fix is well-foundedness again
(`MinIs`). `TriageAssumption` wants a release to be covered: without one, no
builds are known and no builds recorded would be the same value, and the code
judges no such bug by its updates (`Coverage::Unknown`).

`BuildOrderProofs`: the three properties of the run, for any finite sets of
packages and binaries, any branch and any order of visit, in four parts.

- `Reached(g)` is computed step by step, as many steps as the graph has nodes;
  `ReachedIsLeast` says that of the sets which hold a package and what is led to
  from them it is the least: until the set is closed, each step adds a node. Every
  other proof uses only that.
- `SearchInv` is the invariant of `strongconnect`. `InOrder`: stack and calls are
  in order of arrival. `NothingSkipped`: a dependency not yet looked at is still to
  be, by the call of the package that has it, and a known component waits for known
  ones only. `StackLeads`: a call's package leads to what is above it, and all on
  the stack leads to a call at or below it. `LowIsReached` and `LowIsLowest`: a
  call's lowlink is the arrival of a package on the stack that it leads to, and no
  later than any that those under it wait for. Hence `KnownAreComponents`. A call
  that returns with lowlink and index equal has above it what leads nowhere else on
  the stack, so that this is a component (`ReturnsFrom`); a call that returns with
  less hands its part of the stack to the call before it (`ReturnsTo`).
  `CyclesFound` is `KnownAreComponents` when the search ends.
- So `AlwaysSettles`: of the packages that remain, take one that leads to the
  fewest; what it waits for leads to as many, hence back to it, hence is in a cycle
  with it, and that wait is dropped (`SomeAreReady`). The error "build order did
  not settle" cannot be given, which is what `rebuild_plan.rs:2718` is after.
- `PlanInv` adds to `IInv` (from which `WaitsKept`: `edges` are `needs` without what
  blocks, and a round takes only what has nothing left to wait for) that what is
  blocked leads to what cannot be rebuilt, and that rounds are apart from each other
  and from what remains. `EveryPackagePlaced` follows for what packages wait for;
  that this is what their buildroots bring in (`BuildrootIs`) holds when no walk is
  cut off at `MAX_WAVES`, which is the theorem's one hypothesis, `WavesSuffice`:
  "a real buildroot settles within a dozen" (`rebuild_plan.rs:2478`). Where one is
  cut off, the code leaves out a wait. It never is where there are fewer binary
  packages than waves (`EnoughWaves`), nor in the run, where two of the three waves
  are enough.

Only model-checked: liveness (`EveryRunEnds`, `EverySweepEnds`, `EveryCallEnds`),
since fairness and ENABLED are outside the prover.

## Not modelled

- The text of anything: reports, comments, tables, diffs, version spellings.
- The clients of web services, beyond that they answer, fail or lag.
- SQLite, git, dpkg and TOML themselves: transactions are atomic, a commit is
  durable, a file parses back to what was written unless the write was torn.
- Wall-clock differences between hub and client: one clock in `KojiListing`.
- Two syncs of one store at once.
- The gathering of evidence: what a CVE affects, what a build provides, what a
  dependency resolves to. The models take the conclusions as inputs.
- Most of the code by length is of these kinds, and parts of the rest are in the
  plan: the models stand for the commands whose order of steps matters.

## Plan

In this order; each with the properties that make it worth it.

1. `DbranchRebuild`: `update` and tag as further stages of the same module.
2. `KojiSync`: a second writer of the store.
3. `WipBranches`: Bodhi's updates recorded and withdrawn.
4. `CveTriage`: what the other checks conclude, check by check. `BranchRequests`:
   two reports of one package, and a refinement: a request per package and branch
   that is open, asked about, escalated, settled.
5. `NvdCache` (`sandogasa-cve/src/cache.rs`): pacing with and without a key,
   retry after a refusal, answers by age. `DiskCache` and `Retry`
   (`sandogasa-cli`): several processes on one file; which failures are repeated.
6. ebranch `resolve` (the closure walked) and `submit` (phases resumed);
   `check_update` and `karma`: a verdict never from a question that was not
   answered.
7. Algorithms against a reference definition, in one run: `rpmvercmp` as a total
   preorder, the closure walk against reachability, the pool overlap of koji-lag.
8. Tools that act on several services in turn: cpu-sig-tracker (retire, untag),
   hs-relmon (prune_tags), poi-tracker (reconcile).

Abstract specifications still worth stating: a store that answers reports
(`KojiSync`), a set of standing decisions (`WipLedger`), and a linear history of
releases with one publisher per version (`DbranchRebuild`).
