--------------------------- MODULE DbranchRebuild ---------------------------
(***************************************************************************)
(* `dbranch rebuild` of one downstream branch (tools/dbranch/src/          *)
(* rebuild.rs), by several people who each have a clone of the packaging   *)
(* repository and share its remote.                                        *)
(*                                                                         *)
(* A run takes a branch through consecutive stages: merge the Debian       *)
(* branch and write a changelog entry, build the source package beside the *)
(* repository, scratch-build it, push the branch, upload the source        *)
(* package.  Every git, gbp, debuild and dput call may fail and every step *)
(* may be the last of its run; the next run starts at the stage that       *)
(* stopped, at the one after it, or from the top (DEVELOPMENT.md,          *)
(* "Idempotency / resume").                                                *)
(*                                                                         *)
(* A run given fewer stages is one that stops earlier.  The merge source is *)
(* a ref every clone sees at once (--source).  A target's kind decides the *)
(* spelling of its versions, which is left out, and whether the archive's  *)
(* pool backs its uploads.  With the spelling goes that debian_base does   *)
(* not take the one gbp dch gives a stable update off again: the stanza    *)
(* an interrupted run leaves has the base it was written from here.        *)
(***************************************************************************)
EXTENDS Integers, SequencesExt, FiniteSetsExt

CONSTANTS
  Clone,          \* people, each with one clone
  Destination,    \* where each one uploads: the archive, whose pool backs
                  \* what it is sent, or elsewhere
  MaxRelease,     \* bound: releases of the Debian branch
  MaxTime,        \* bound: commits made, in all
  MaxStanzas,     \* bound: stanzas of a changelog
  Unlucky,        \* bound: whose runs may stop before they are done
  EditsFail,      \* whether a run may stop between editing a packaging file
                  \* and committing it
  KeepsPackages   \* whether the source package outlives a reset to the remote

ASSUME RebuildAssumption == /\ Unlucky \subseteq Clone
                            /\ Destination \in [Clone -> SUBSET {"archive", "elsewhere"}]
                            /\ MaxRelease \in Nat \ {0} /\ MaxTime \in Nat /\ MaxStanzas \in Nat
                            /\ EditsFail \in BOOLEAN /\ KeepsPackages \in BOOLEAN

Stages == <<"merge", "source", "build", "push", "upload">>
Stage  == Range(Stages)
Index(s) == CHOOSE i \in DOMAIN Stages : Stages[i] = s

\* A changelog is a sequence of stanzas, newest first.  <<b, 0>> is release b of
\* the Debian branch, <<b, n>> its n-th rebuild, <<b, Provisional>> what gbp dch
\* writes before the version is put right.
Provisional == -1
Stanza == (1..MaxRelease) \X ({Provisional} \cup Nat)

VARIABLES
  release,        \* the Debian branch: releases so far
  remote,         \* history of the branch on the remote
  sent,           \* what the last step uploaded
  now,            \* the time, which passes with every commit
  \* One per clone.
  branch,         \* history of the local branch, <<>> when there is none
  tree,           \* the work tree
  merging,        \* an unfinished merge
  package,        \* the source package last built in the parent directory
  next,           \* the stage to resume at
  run

world == <<release, remote>>
local == <<branch, tree, merging, package>>
vars  == <<world, sent, now, local, next, run>>

NoRun   == [step |-> "idle", built |-> "nothing"]  \* for where it has built the source
NoMerge == [theirs |-> 0, state |-> "none"]

Debian(b) == [i \in 1..b |-> <<b + 1 - i, 0>>]
SourceTree(b) == [log |-> Debian(b), adjusted |-> FALSE, fix |-> FALSE]
SourceCommit(b) == [tree |-> SourceTree(b), at |-> 0]
NoTree == [log |-> <<>>, adjusted |-> FALSE, fix |-> FALSE]

Tip(history) == IF history = <<>> THEN [tree |-> NoTree, at |-> 0] ELSE Last(history)
Head_(c) == Tip(branch[c])
Clean(c) == tree[c] = Head_(c).tree /\ merging[c] = NoMerge
Top(c) == Head(tree[c].log)        \* top_package_version: the work tree's

-----------------------------------------------------------------------------
(* The changelog *)

\* The stanzas of theirs that ours lacks, in their order.
Incoming(ours, theirs) ==
  LET upTo[n \in 0..Len(theirs)] ==
        IF n = 0 THEN <<>>
        ELSE IF Contains(ours, theirs[n]) THEN upTo[n - 1]
        ELSE Append(upTo[n - 1], theirs[n])
  IN  upTo[Len(theirs)]

\* Mutant: the local entries are kept on top.
ResolvedOursFirst(ours, theirs) == ours \o Incoming(ours, theirs)

\* resolve_conflict: the incoming stanzas above the local ones.
Resolved(ours, theirs) == Incoming(ours, theirs) \o ours

\* Mutant: only the newest stanza is counted.
NextStanzaTop(log) == <<Head(log)[1], Max({0, Head(log)[2]}) + 1>>

\* next_suffixed: one past the highest rebuild of the top stanza's base.
NextStanza(log) ==
  LET base == Head(log)[1] IN
  <<base, Max({0} \cup {s[2] : s \in {x \in Range(log) : x[1] = base}}) + 1>>

-----------------------------------------------------------------------------
(* The stages of a run *)

\* The stage that a step belongs to.
StageOf(step) == IF step \in Stage THEN step ELSE "merge"

After(s) == Stages[IF s = "upload" THEN 1 ELSE Index(s) + 1]

\* The stage is done: the run goes on to the next or ends.
Done(c, s) ==
  /\ next' = [next EXCEPT ![c] = After(s)]
  /\ run' = [run EXCEPT ![c] = IF s = "upload" THEN NoRun
                               ELSE [@ EXCEPT !.step = After(s)]]

Go(c, step) == run' = [run EXCEPT ![c].step = step] /\ UNCHANGED next

\* A step of the run is the last: a command failed, or the run was killed.
Stopped(c) ==
  /\ next' = [next EXCEPT ![c] = StageOf(run[c].step)]
  /\ run' = [run EXCEPT ![c] = NoRun]

\* The steps inside a stage read and write nothing of another clone's, so only
\* whole stages of different people are interleaved.
Between(c) == run[c].step \in Stage \cup {"idle"}

Turn(c, uploaded) == (\A d \in Clone \ {c} : Between(d)) /\ sent' = uploaded

Commit(c, contents) ==
  /\ now < MaxTime /\ now' = now + 1
  /\ branch' = [branch EXCEPT ![c] = Append(@, [tree |-> contents, at |-> now'])]

\* What a clone with no branch of its own has of the remote's: nothing, when it
\* last fetched before the first push, or all of it.  Bound: no fetch in between.
Fetched(c) == IF branch[c] = <<>> THEN {<<>>, remote} ELSE {<<>>}

\* classify_target and checkout_existing: a local branch is used as it is; one
\* that only the remote had, when last fetched, is tracked; and only the merge
\* stage may create one.
Begin(c, first, fetched) ==
  /\ Turn(c, {})
  /\ run[c] = NoRun
  /\ IF branch[c] # <<>> \/ fetched = <<>>
     THEN /\ first = "merge" \/ branch[c] # <<>>
          /\ UNCHANGED <<branch, tree>>
     ELSE /\ branch' = [branch EXCEPT ![c] = fetched]
          /\ tree' = [tree EXCEPT ![c] = Tip(fetched).tree]
  /\ next' = [next EXCEPT ![c] = first]
  /\ run' = [run EXCEPT ![c].step = first]
  /\ UNCHANGED <<world, now, merging, package>>

-----------------------------------------------------------------------------
(* The merge stage *)

Merged(c) == Contains(Head_(c).tree.log, <<release, 0>>)

\* A branch that exists nowhere starts from the Debian branch.
Create(c) ==
  /\ Turn(c, {})
  /\ run[c].step = "merge" /\ branch[c] = <<>>
  /\ branch' = [branch EXCEPT ![c] = <<SourceCommit(release)>>]
  /\ tree' = [tree EXCEPT ![c] = SourceTree(release)]
  /\ Go(c, "adjust")
  /\ UNCHANGED <<world, now, merging, package>>

\* git merge: nothing to merge, or a merge git finishes by itself.
MergeClean(c) ==
  /\ Turn(c, {})
  /\ run[c].step = "merge" /\ branch[c] # <<>> /\ merging[c] = NoMerge
  /\ \/ Merged(c) /\ UNCHANGED <<now, branch, tree>>
     \/ /\ ~Merged(c) /\ tree[c].log = Head_(c).tree.log
        /\ LET log == Resolved(tree[c].log, Debian(release)) IN
           /\ Commit(c, [Head_(c).tree EXCEPT !.log = log])
           /\ tree' = [tree EXCEPT ![c].log = log]
  /\ Go(c, "adjust")
  /\ UNCHANGED <<world, merging, package>>

\* git merge stops at a conflict in the changelog and perhaps elsewhere, or
\* finds an unfinished merge: either way its failure is taken for the conflict.
MergeConflict(c) ==
  /\ Turn(c, {})
  /\ run[c].step = "merge" /\ branch[c] # <<>>
  /\ IF merging[c] # NoMerge THEN UNCHANGED merging
     ELSE /\ ~Merged(c) /\ tree[c].log = Head_(c).tree.log
          /\ \E state \in {"changelog", "others"} :
               merging' = [merging EXCEPT ![c] = [theirs |-> release, state |-> state]]
  /\ Go(c, "resolve")
  /\ UNCHANGED <<world, now, branch, tree, package>>

\* git merge refuses a changelog with uncommitted changes, and resolve_changelog
\* a conflict elsewhere, one without markers, or none at all.
Refuse(c) ==
  /\ Turn(c, {})
  /\ \/ /\ run[c].step = "merge" /\ branch[c] # <<>> /\ merging[c] = NoMerge
        /\ ~Merged(c) /\ tree[c].log # Head_(c).tree.log
     \/ run[c].step = "resolve" /\ merging[c].state # "changelog"
  /\ Stopped(c)
  /\ UNCHANGED <<world, now, local>>

\* resolve_changelog, and git add
Resolve(c) ==
  /\ Turn(c, {})
  /\ run[c].step = "resolve" /\ merging[c].state = "changelog"
  /\ tree' = [tree EXCEPT ![c].log = Resolved(@, Debian(merging[c].theirs))]
  /\ merging' = [merging EXCEPT ![c].state = "resolved"]
  /\ Go(c, "conclude")
  /\ UNCHANGED <<world, now, branch, package>>

\* git commit, which concludes the merge
Conclude(c) ==
  /\ Turn(c, {})
  /\ run[c].step = "conclude"
  /\ Commit(c, [Head_(c).tree EXCEPT !.log = tree[c].log])
  /\ merging' = [merging EXCEPT ![c] = NoMerge]
  /\ Go(c, "adjust")
  /\ UNCHANGED <<world, tree, package>>

\* adjust_branch_packaging, for one file: edit_file and create_packaging_file
\* write the work tree, and whether there is something to commit is whether
\* that changed the file.
Adjust(c) ==
  /\ Turn(c, {})
  /\ run[c].step = "adjust"
  /\ tree' = [tree EXCEPT ![c].adjusted = TRUE]
  /\ Go(c, IF tree'[c] = tree[c] THEN "dch" ELSE "commit file")
  /\ UNCHANGED <<world, now, branch, merging, package>>

CommitFile(c) ==
  /\ Turn(c, {})
  /\ run[c].step = "commit file"
  /\ Commit(c, [Head_(c).tree EXCEPT !.adjusted = TRUE])
  /\ Go(c, "dch")
  /\ UNCHANGED <<world, tree, merging, package>>

\* gbp dch
Dch(c) ==
  /\ Turn(c, {})
  /\ run[c].step = "dch" /\ Len(tree[c].log) < MaxStanzas
  /\ tree' = [tree EXCEPT ![c].log = <<<<Head(@)[1], Provisional>>>> \o @]
  /\ Go(c, "normalize")
  /\ UNCHANGED <<world, now, branch, merging, package>>

\* normalize_top_stanza, with the version computed before gbp dch
Normalize(c) ==
  /\ Turn(c, {})
  /\ run[c].step = "normalize"
  /\ tree' = [tree EXCEPT ![c].log = <<NextStanza(Tail(@))>> \o Tail(@)]
  /\ Go(c, "commit entry")
  /\ UNCHANGED <<world, now, branch, merging, package>>

CommitEntry(c) ==
  /\ Turn(c, {})
  /\ run[c].step = "commit entry"
  /\ Commit(c, [Head_(c).tree EXCEPT !.log = tree[c].log])
  /\ Done(c, "merge")
  /\ UNCHANGED <<world, tree, merging, package>>

-----------------------------------------------------------------------------
(* The source package.  One of an older version is forgotten: the branch is at
   that version again only after a reset. *)

\* Mutant: a Debian target never needs the tarball.
OrigRequiredNever(dest) == FALSE

\* orig_required
OrigRequired(dest) == dest # "archive"

Packages(c, version) == {p \in package[c] : p.version = version}

\* Mutant: a package that exists is ready.
SourceStateExists(c, needOrig) ==
  LET found == Packages(c, Top(c)) IN
  IF found = {} THEN "missing"
  ELSE IF needOrig /\ \A p \in found : ~p.orig THEN "no orig"
  ELSE "ready"

\* source_state: freshness is a comparison of two times.
SourceState(c, needOrig) ==
  LET found == Packages(c, Top(c)) IN
  IF found = {} THEN "missing"
  ELSE IF \A p \in found : p.built < Head_(c).at THEN "stale"
  ELSE IF needOrig /\ \A p \in found : ~p.orig THEN "no orig"
  ELSE "ready"

\* source_stage: debuild packs the work tree, with the orig tarball (-sa) or, as
\* dpkg decides for a release that reuses its upstream version (-si), without.
Debuild(c, dest) ==
  package' = [package EXCEPT ![c] =
    {[version |-> Top(c), tree |-> tree[c], of |-> Head_(c).at,
      orig |-> OrigRequired(dest), built |-> now]}]

Source(c, dest) ==
  /\ Turn(c, {})
  /\ run[c].step = "source"
  /\ Debuild(c, dest)
  /\ next' = [next EXCEPT ![c] = "build"]
  /\ run' = [run EXCEPT ![c] = [step |-> "build", built |-> dest]]
  /\ UNCHANGED <<world, now, branch, tree, merging>>

\* Where a run's uploads go is one of its options.
For(c, dest) == run[c].built \in {"nothing", dest}

\* What ensure_source asks a stage's package to be.
Usable(c, dest) ==
  \/ run[c].built # "nothing"
  \/ SourceState(c, run[c].step = "upload" /\ OrigRequired(dest)) = "ready"

\* ensure_source: the source stage is run first, if the user agrees.
Refresh(c, dest) ==
  /\ Turn(c, {})
  /\ run[c].step \in {"build", "upload"} /\ ~Usable(c, dest)
  /\ Debuild(c, dest)
  /\ run' = [run EXCEPT ![c].built = dest]
  /\ UNCHANGED <<world, now, branch, tree, merging, next>>

\* Otherwise a package that is there is used as it is.
Exists(c) == Packages(c, Top(c)) # {}

\* And without one the run stops.
NoSource(c) ==
  /\ Turn(c, {})
  /\ run[c].step \in {"build", "upload"} /\ ~Exists(c)
  /\ Stopped(c)
  /\ UNCHANGED <<world, now, local>>

\* build_stage
Build(c) ==
  /\ Turn(c, {})
  /\ run[c].step = "build" /\ Exists(c)
  /\ Done(c, "build")
  /\ UNCHANGED <<world, now, local>>

-----------------------------------------------------------------------------
(* Push and upload *)

\* push_stage: the remote takes only what adds to what it has.  watch_pipeline:
\* the pipeline passed, never appeared or took too long, or it failed.
Push(c) ==
  /\ Turn(c, {})
  /\ run[c].step = "push" /\ IsPrefix(remote, branch[c])
  /\ remote' = branch[c]
  /\ Done(c, "push") \/ (c \in Unlucky /\ Stopped(c))
  /\ UNCHANGED <<release, now, local>>

Rejected(c) ==
  /\ Turn(c, {})
  /\ run[c].step = "push" /\ ~IsPrefix(remote, branch[c])
  /\ Stopped(c)
  /\ UNCHANGED <<world, now, local>>

\* Mutant: uploads do not wait for the branch to be pushed.
UploadUnpushed(c, dest) ==
  /\ run[c].step \in {"push", "upload"} /\ For(c, dest) /\ Exists(c)
  /\ Turn(c, {[package |-> p, dest |-> dest, head |-> Head_(c).at,
               declined |-> ~Usable(c, dest)] : p \in Packages(c, Top(c))})
  /\ Done(c, "upload")
  /\ UNCHANGED <<world, now, local>>

\* upload_stage
Upload(c, dest) ==
  /\ run[c].step = "upload" /\ For(c, dest) /\ Exists(c)
  /\ Turn(c, {[package |-> p, dest |-> dest, head |-> Head_(c).at,
               declined |-> ~Usable(c, dest)] : p \in Packages(c, Top(c))})
  /\ Done(c, "upload")
  /\ UNCHANGED <<world, now, local>>

\* Any step may be the run's last: a failed command, a failed pipeline, ^C.
Stop(c) ==
  /\ Turn(c, {})
  /\ c \in Unlucky /\ run[c].step # "idle"
  /\ run[c].step = "commit file" => EditsFail
  /\ Stopped(c)
  /\ UNCHANGED <<world, now, local>>

-----------------------------------------------------------------------------
(* What people do between runs *)

\* The Debian branch gains a release.
Release ==
  /\ release < MaxRelease
  /\ release' = release + 1 /\ sent' = {}
  /\ UNCHANGED <<remote, now, local, next, run>>

\* A failed build or pipeline is fixed by a commit, and a branch changed by
\* hand is pushed before it is uploaded.
FixByHand(c) ==
  /\ Turn(c, {})
  /\ c \in Unlucky /\ run[c] = NoRun /\ next[c] # "merge"
  /\ branch[c] # <<>> /\ Clean(c) /\ ~tree[c].fix
  /\ Commit(c, [tree[c] EXCEPT !.fix = TRUE])
  /\ tree' = [tree EXCEPT ![c].fix = TRUE]
  /\ next' = [next EXCEPT ![c] = IF @ = "upload" THEN "push" ELSE @]
  /\ UNCHANGED <<world, merging, package, run>>

\* A conflict is resolved by hand and committed.
ConcludeByHand(c) ==
  /\ Turn(c, {})
  /\ run[c] = NoRun /\ merging[c] # NoMerge
  /\ LET log == IF merging[c].state = "resolved" THEN tree[c].log
                ELSE Resolved(tree[c].log, Debian(merging[c].theirs)) IN
     /\ Commit(c, [Head_(c).tree EXCEPT !.log = log])
     /\ tree' = [tree EXCEPT ![c].log = log]
  /\ merging' = [merging EXCEPT ![c] = NoMerge]
  /\ UNCHANGED <<world, package, next, run>>

\* git merge --abort, git checkout -- .
Discard(c) ==
  /\ Turn(c, {})
  /\ run[c] = NoRun /\ ~Clean(c)
  /\ tree' = [tree EXCEPT ![c] = Head_(c).tree]
  /\ merging' = [merging EXCEPT ![c] = NoMerge]
  /\ UNCHANGED <<world, now, branch, package, next, run>>

\* git fetch, git reset --hard: the way out of a rejected push.
Reset(c) ==
  /\ Turn(c, {})
  /\ run[c] = NoRun /\ remote # <<>> /\ branch[c] # remote
  /\ branch' = [branch EXCEPT ![c] = remote]
  /\ tree' = [tree EXCEPT ![c] = Tip(remote).tree]
  /\ merging' = [merging EXCEPT ![c] = NoMerge]
  /\ package' = [package EXCEPT ![c] = IF KeepsPackages THEN @ ELSE {}]
  /\ next' = [next EXCEPT ![c] = "push"]
  /\ UNCHANGED <<world, now, run>>

-----------------------------------------------------------------------------
Init ==
  /\ release = 1 /\ remote = <<>> /\ sent = {} /\ now = 0
  /\ branch = [c \in Clone |-> <<>>]
  /\ tree = [c \in Clone |-> NoTree] /\ merging = [c \in Clone |-> NoMerge]
  /\ package = [c \in Clone |-> {}]
  /\ next = [c \in Clone |-> "merge"] /\ run = [c \in Clone |-> NoRun]

MergeStage(c) ==
  \/ Create(c) \/ MergeClean(c) \/ MergeConflict(c) \/ Refuse(c)
  \/ Resolve(c) \/ Conclude(c)
  \/ Adjust(c) \/ CommitFile(c)
  \/ Dch(c) \/ Normalize(c) \/ CommitEntry(c)

Pipeline(c) ==
  \/ \E dest \in Destination[c] : Source(c, dest) \/ Refresh(c, dest) \/ Upload(c, dest)
  \/ NoSource(c) \/ Build(c)
  \/ Push(c) \/ Rejected(c)

ByHand(c) == FixByHand(c) \/ ConcludeByHand(c) \/ Discard(c) \/ Reset(c)

Next ==
  \/ \E c \in Clone :
       \/ \E first \in {"merge", next[c]}, fetched \in Fetched(c) : Begin(c, first, fetched)
       \/ MergeStage(c)
       \/ Pipeline(c)
       \/ Stop(c)
       \/ ByHand(c)
  \/ Release

Spec == Init /\ [][Next]_vars

-----------------------------------------------------------------------------
(* Properties *)

Log     == Seq(Stanza)
Tree    == [log : Log, adjusted : BOOLEAN, fix : BOOLEAN]
History == Seq([tree : Tree, at : 0..MaxTime])
Package == [version : Stanza, tree : Tree, of : 0..MaxTime, orig : BOOLEAN,
            built : 0..MaxTime]
Steps == Stage \cup {"idle", "resolve", "conclude", "adjust", "commit file",
                     "dch", "normalize", "commit entry"}

TypeOK ==
  /\ release \in 1..MaxRelease /\ now \in 0..MaxTime
  /\ remote \in History
  /\ \A u \in sent : /\ u.package \in Package /\ u.dest \in {"archive", "elsewhere"}
                        /\ u.head \in 0..MaxTime /\ u.declined \in BOOLEAN
  /\ \A c \in Clone :
       /\ branch[c] \in History
       /\ tree[c] \in Tree
       /\ merging[c] \in [theirs : 0..MaxRelease,
                          state : {"none", "changelog", "others", "resolved"}]
       /\ \A p \in package[c] : p \in Package /\ Packages(c, p.version) = {p}
       /\ next[c] \in Stage
       /\ run[c] \in [step : Steps, built : {"archive", "elsewhere", "nothing"}]

\* "A Debian changelog is version-descending" (resolve_conflict): on every
\* branch the releases never rise from a stanza to an older one, and the
\* rebuilds of one release count down to it, so that no version is given twice,
\* whatever merges and runs were left unfinished.
ChangelogDescends ==
  \A h \in {remote} \cup Range(branch) :
    LET log == Tip(h).tree.log
        versions == {i \in DOMAIN log : log[i][2] # Provisional} IN
    \A i, j \in versions : i < j =>
      \/ log[i][1] > log[j][1]
      \/ log[i][1] = log[j][1] /\ log[i][2] > log[j][2]

\* What is uploaded is what was pushed: of two people who rebuild one release,
\* each giving it the same version, only the one whose push was taken uploads
\* it, and after a fix what goes up is the fixed tree, unless a refresh that was
\* offered is declined (SourceState: "Built from this commit").
UploadedWasPushed ==
  \A u \in sent :
    \/ u.declined
    \/ /\ u.package.of = u.head
       /\ \E i \in DOMAIN remote : remote[i] = [tree |-> u.package.tree, at |-> u.head]

\* An upload to where no pool can supply the orig tarball carries it, whatever
\* destination the source package was first built for, unless declined.
OrigIsOffered ==
  \A u \in sent : u.dest = "elsewhere" => u.package.orig \/ u.declined

\* "The packaging tweaks are re-checked on every merge" (README): the merge
\* stage ends with the branch, not only the work tree, adjusted.  Not so with
\* EditsFail: what a run edited and did not commit, the next one takes for done.
AdjustedIsCommitted ==
  [][\A c \in Clone : CommitEntry(c) => Last(branch'[c]).tree.adjusted]_vars
=============================================================================
