------------------------------ MODULE CveTriage ------------------------------
(***************************************************************************)
(* fedora-cve-triage run (tools/fedora-cve-triage/src/main.rs) on one bug, *)
(* run after run: it is skipped if an earlier run answered it for the      *)
(* builds there are, else claimed by one of the checks, judged against     *)
(* Bodhi's updates of every release it covers, closed, asked about or      *)
(* commented on, while builds are made and reach users.                    *)
(*                                                                         *)
(* An update is a build of the component that has the fix or not, and is   *)
(* stable or not yet.  Whether the package of a release is the CVE's       *)
(* product is a choice, made anew by every run: NVD's names and what fedrq *)
(* answers, or fails to, decide it.  Left out: what the other checks       *)
(* conclude and from what, which are choices here; previews, declined      *)
(* plans and failed writes, which are all a write not made; the bug's      *)
(* claim by its editor.                                                    *)
(***************************************************************************)
EXTENDS Integers, FiniteSetsExt, SequencesExt, Functions

CONSTANTS
  Release,        \* the releases the bug covers
  MaxUpdates,     \* bounds: the updates of all releases, and the versions of the
  MaxAnalysis     \* tool that reason differently

\* A bug that names no release is judged by no update (Coverage::Unknown).
ASSUME TriageAssumption == Release # {} /\ MaxUpdates \in Nat /\ MaxAnalysis \in Nat \ {0}

VARIABLES
  updates,        \* each release's updates in the order they were submitted
  status,         \* of the bug: "open", or how it was closed
  said,           \* the last comment on it that carries the tool's marker
  confirmed,      \* this user's record of findings that a re-read confirmed
  analysis,       \* ANALYSIS of the tool installed
  run

world == <<updates, analysis>>
bug   == <<status, said>>
vars  == <<world, bug, confirmed, run>>

Unknown == <<>>      \* no builds are recorded

\* bug_builds: what each release's newest update is, and whether it is stable.
Newest(us)  == IF us = <<>> THEN <<0, "none">> ELSE <<Len(us), Last(us).status>>
Builds(seen) == [r \in Release |-> Newest(seen[r])]

Read(r) == r \in DOMAIN run.seen
AllRead == \A r \in Release : Read(r)

\* last_recorded_finding is what was said; it is the current_finding when this
\* analysis said it.
Nothing == [text |-> "nothing", builds |-> Unknown, analysis |-> 0]
Current == said.analysis = analysis

Idle == [at |-> "idle", seen |-> <<>>, failed |-> {}, before |-> Nothing, excuse |-> {},
         note |-> "none", verdict |-> "none", aside |-> {}, acted |-> FALSE]

-----------------------------------------------------------------------------
(* Reading Bodhi *)

\* A question about the bug is being written.
Asking == run.at = "write" /\ run.verdict = "partial"

\* Triage::updates, for whichever of the stages needs it: an answer is kept for the
\* run, a failure after its retries is not.
ReadRelease(r) ==
  /\ run.at \in {"builds", "judge", "record"} \/ Asking
  /\ ~Read(r) /\ r \notin run.failed
  /\ \/ run' = [run EXCEPT !.seen = [x \in DOMAIN @ \cup {r} |->
                                      IF x = r THEN updates[r] ELSE @[x]]]
     \/ run' = [run EXCEPT !.failed = @ \cup {r}]
  /\ UNCHANGED <<world, bug, confirmed>>

\* bug_builds gives up at the first release that is not answered.
BuildsKnown == run.failed = {} /\ AllRead
BuildsDone  == run.failed # {} \/ AllRead
BuildsRead  == IF BuildsKnown THEN Builds(run.seen) ELSE Unknown

Goto(stage) == [run EXCEPT !.at = stage, !.failed = {}, !.aside = {}]

-----------------------------------------------------------------------------
(* skip_already_triaged *)

\* A run finds the bug; comments are read only of a bug with the keyword, which
\* comes with the first comment.  Without a finding of this analysis, nor a
\* confirmation by it, or when rechecking, the builds are not asked for.
Start ==
  /\ run.at = "idle" /\ status = "open"
  /\ \E recheck \in BOOLEAN :
       LET known == ~recheck /\ (Current \/ confirmed.analysis = analysis) IN
       run' = [Idle EXCEPT !.at = IF known THEN "builds" ELSE "claim", !.before = said,
                           !.excuse = IF recheck THEN {"recheck"} ELSE {}]
  /\ UNCHANGED <<world, bug, confirmed>>

\* Comments that cannot be read are as good as none.
StartBlind ==
  /\ run.at = "idle" /\ status = "open" /\ said # Nothing
  /\ run' = [Idle EXCEPT !.at = "claim", !.excuse = {"comments"}]
  /\ UNCHANGED <<world, bug, confirmed>>

\* finding_is_current, or confirms: for the builds Bodhi shows, if it shows them.
Answered(builds) ==
  /\ builds # Unknown
  /\ IF Current THEN builds = said.builds ELSE builds = confirmed.builds

Skip ==
  /\ run.at = "builds" /\ BuildsDone
  /\ run' = IF Answered(BuildsRead) THEN Idle
            ELSE [Goto("claim") EXCEPT !.excuse = IF BuildsKnown THEN {} ELSE {"builds"}]
  /\ UNCHANGED <<world, bug, confirmed>>

-----------------------------------------------------------------------------
(* The checks *)

\* In the order configured the first check that wants the bug has it.  Another
\* check's write, curate_and_close or apply_fix_plans, may close or move the bug;
\* bundled-library may leave a note, of which "fixed" names a build to ask about.
Claim ==
  /\ run.at = "claim"
  /\ \E note \in {"none", "real", "fixed"} :
       \/ run' = [Goto("judge") EXCEPT !.note = note]
       \/ run' = [Goto("record") EXCEPT !.note = note]
  /\ UNCHANGED <<world, bug, confirmed>>

ClaimedByAnother ==
  /\ run.at = "claim"
  /\ run' = Idle
  /\ status' \in {status, "closed by another check"}
  /\ UNCHANGED <<world, said, confirmed>>

-----------------------------------------------------------------------------
(* bodhi-check *)

Fixing(us) == {i \in DOMAIN us : us[i].fixed}

\* categorize_bug: the earliest update with the fix decides, unless the package is
\* some other product, or nothing tells that it is the CVE's (ProductMismatch).
ByVersion(us, mismatch) ==
  IF us = <<>> THEN "not shipped"
  ELSE IF mismatch THEN "mismatch"
  ELSE IF Fixing(us) = {} THEN "unfixed"
  ELSE us[Min(Fixing(us))].status

\* earliest_carrying_fix asks the builds themselves, of which some do not tell.
ByBuildroot(us, told) ==
  IF us = <<>> THEN "not shipped"
  ELSE IF Fixing(us) \cap told = {} THEN "unfixed"
  ELSE IF Min(Fixing(us) \cap told) = 1 THEN "never"
  ELSE us[Min(Fixing(us) \cap told)].status

\* result_priority
Best(ranked) ==
  IF "stable" \in ranked THEN "stable"
  ELSE IF "never" \in ranked THEN "never"
  ELSE IF "testing" \in ranked THEN "testing"
  ELSE IF "unfixed" \in ranked THEN "nofix" ELSE "none"

\* Mutant: what is unfixed somewhere is closed where it is fixed.
VerdictOfBest(answers, ranked, partial) == Best(ranked)

\* The best of the releases' answers, which those left unfixed keep open.
Verdict(answers, ranked, partial) ==
  IF "unfixed" \in answers /\ answers \cap partial # {} THEN "partial" ELSE Best(ranked)

\* Releases that are set aside matter to the properties once they let a bug be closed.
Conclude(verdict, aside) ==
  run' = [Goto("write") EXCEPT
            !.verdict = verdict,
            !.aside = IF verdict \in {"stable", "never"} THEN aside ELSE {},
            !.acted = verdict \in {"stable", "never", "testing"}]

\* A statically linked library is first looked for in the buildroots, if the note
\* says of which package; they may come to nothing, and Judge follows.
JudgeBuildroots ==
  /\ run.at = "judge" /\ run.note = "fixed" /\ Release \subseteq DOMAIN run.seen \cup run.failed
  /\ IF ~AllRead THEN Conclude("unchecked", {})
     ELSE \E told \in [Release -> SUBSET (1..MaxUpdates)] :
            LET answers == {ByBuildroot(run.seen[r], told[r]) : r \in Release}
                verdict == Verdict(answers, answers, {"stable", "never", "testing"}) IN
            /\ verdict \notin {"nofix", "none"}
            /\ Conclude(verdict, {})
  /\ UNCHANGED <<world, bug, confirmed>>

\* With no fixed version known, or none for the component, nothing is settled.
JudgeNothing ==
  /\ run.at = "judge"
  /\ Conclude("none", {})
  /\ UNCHANGED <<world, bug, confirmed>>

\* Nor where a release could not be read.  One where a name of another ecosystem
\* collides is not read, and what came before it is forgotten: of the best answer
\* only that of some later releases is left.
Judge ==
  /\ run.at = "judge"
  /\ \E collide \in SUBSET Release : \E mismatch \in SUBSET (Release \ collide) :
       LET judged == Release \ collide
           Answers(rs) == {ByVersion(run.seen[r], r \in mismatch) : r \in rs} IN
       /\ judged \subseteq DOMAIN run.seen \cup run.failed
       /\ IF \E r \in judged : ~Read(r) THEN Conclude("unchecked", {})
          ELSE \E ranked \in IF collide = {} THEN {Release} ELSE SUBSET judged :
                 Conclude(Verdict(Answers(judged), Answers(ranked), {"stable"}),
                          collide \cup mismatch)
  /\ UNCHANGED <<world, bug, confirmed>>

\* Mutant: the comment does not name the builds it was reached against.
MarkedBare(text, builds) == [text |-> text, builds |-> Unknown, analysis |-> analysis]

\* triage_marker
Marked(text, builds) == [text |-> text, builds |-> builds, analysis |-> analysis]

Say(text, builds) == said' = Marked(text, builds)

\* The bug is closed as ERRATA or NOTABUG, or it is not.
WriteClose ==
  /\ run.at = "write" /\ run.verdict \in {"stable", "never"}
  /\ status' = IF run.verdict = "stable" THEN "ERRATA" ELSE "NOTABUG"
  /\ run' = Goto("record")
  /\ UNCHANGED <<world, said, confirmed>>

\* AskAssignee: one comment with the marker, and a needinfo for the assignee.  It
\* names the builds, of releases not read before too, if all are read.  The answer
\* may be lost with the write made, which settles the bug only if known.
WriteAsk ==
  /\ Asking /\ BuildsDone
  /\ Say("partial", BuildsRead)
  /\ \E known \in BOOLEAN :
       run' = [Goto("record") EXCEPT !.acted = known]
  /\ UNCHANGED <<world, status, confirmed>>

\* Nothing is written that is kept here: there is nothing to write, or it was skipped,
\* or it failed, or it is the tracker of a bug filed late.
WriteNothing ==
  /\ run.at = "write"
  /\ run' = Goto("record")
  /\ UNCHANGED <<world, bug, confirmed>>

-----------------------------------------------------------------------------
(* record_findings *)

Recordable == run.note # "none" /\ ~run.acted

\* Mutant: the whole comments are compared, with the analysis they name.
UnchangedWhole(builds) == run.before = Marked(run.note, builds)

\* unchanged_findings
Unchanged(builds) == run.before.text = run.note /\ run.before.builds = builds

\* Mutant: what is unchanged is not remembered.
RememberNothing(builds) == UNCHANGED confirmed

\* remember_confirmed
Remember(builds) ==
  confirmed' = IF builds = Unknown THEN confirmed
               ELSE [analysis |-> analysis, builds |-> builds]

\* The bug says it already, and that is remembered, even in a preview.
Confirm ==
  /\ run.at = "record" /\ Recordable /\ BuildsDone /\ Unchanged(BuildsRead)
  /\ Remember(BuildsRead)
  /\ run' = Idle
  /\ UNCHANGED <<world, bug>>

\* The finding and the keyword go out in one write.
Record ==
  /\ run.at = "record" /\ Recordable /\ BuildsDone /\ ~Unchanged(BuildsRead)
  /\ Say(run.note, BuildsRead)
  /\ run' = Idle
  /\ UNCHANGED <<world, status, confirmed>>

End ==
  /\ run.at = "record" /\ (Recordable => BuildsDone /\ ~Unchanged(BuildsRead))
  /\ run' = Idle
  /\ UNCHANGED <<world, bug, confirmed>>

-----------------------------------------------------------------------------
(* Everything else *)

Submit(r) ==
  /\ FoldFunction(LAMBDA us, n : n + Len(us), 0, updates) < MaxUpdates
  /\ \E fixed \in BOOLEAN :
       updates' = [updates EXCEPT ![r] = Append(@, [fixed |-> fixed, status |-> "testing"])]
  /\ UNCHANGED <<bug, confirmed, analysis, run>>

Push(r) ==
  \E i \in DOMAIN updates[r] :
    /\ updates[r][i].status = "testing"
    /\ updates' = [updates EXCEPT ![r][i].status = "stable"]
    /\ UNCHANGED <<bug, confirmed, analysis, run>>

\* The confirmations are a cache.
LoseCache ==
  /\ confirmed # [analysis |-> 0, builds |-> Unknown]
  /\ confirmed' = [analysis |-> 0, builds |-> Unknown]
  /\ UNCHANGED <<world, bug, run>>

Upgrade ==
  /\ run.at = "idle" /\ analysis < MaxAnalysis /\ analysis' = analysis + 1
  /\ UNCHANGED <<updates, bug, confirmed, run>>

-----------------------------------------------------------------------------
Init ==
  /\ updates \in [Release -> {<<>>, <<[fixed |-> FALSE, status |-> "stable"]>>,
                              <<[fixed |-> TRUE, status |-> "stable"]>>}]
  /\ status = "open" /\ said = Nothing /\ analysis = 1
  /\ confirmed = [analysis |-> 0, builds |-> Unknown] /\ run = Idle

Next ==
  \/ Start \/ StartBlind \/ Skip \/ Claim \/ ClaimedByAnother
  \/ JudgeBuildroots \/ JudgeNothing \/ Judge \/ WriteClose \/ WriteAsk \/ WriteNothing
  \/ Confirm \/ Record \/ End
  \/ LoseCache \/ Upgrade
  \/ \E r \in Release : ReadRelease(r) \/ Submit(r) \/ Push(r)

Spec == Init /\ [][Next]_vars

-----------------------------------------------------------------------------
(* Properties *)

\* "The releases that did answer must not speak for the ones that did not"
\* (result_priority): the check closes a bug only if each release that ships the
\* package was read and has a build with the fix, and as fixed by an update only if
\* one is out, but for the releases whose package it took for another product.
ClosedIsAnswered ==
  [][WriteClose =>
       /\ \A r \in Release \ run.aside :
            Read(r) /\ (run.seen[r] = <<>> \/ Fixing(run.seen[r]) # {})
       /\ status' = "ERRATA" => \E r \in Release \ run.aside : "stable" \in
            {run.seen[r][i].status : i \in Fixing(run.seen[r])}]_vars

\* "A family tracker is not answered until every release it covers is"
\* (PartiallyFixed).  Not so, by classify_bodhi_check: a release whose provides
\* cannot be read stays a product mismatch, which is neither unread nor unfixed,
\* and the fix of another release outranks it.
EveryReleaseIsAnswered ==
  [][WriteClose => \A r \in DOMAIN run.seen :
       run.seen[r] = <<>> \/ Fixing(run.seen[r]) # {}]_vars

\* A finding is not posted under the same finding for the same builds, whichever
\* analysis posted that, unless the bug's comments could not be read
\* (unchanged_findings).
FindingsNotRepeated ==
  [][Record /\ "comments" \notin run.excuse =>
       ~(said'.text = said.text /\ said'.builds = said.builds)]_vars

\* "The assignee is asked once per change" (bodhi_check_bugs): so far as this
\* analysis goes, the bug was not rechecked, and both it and its builds were read.
AskedOncePerChange ==
  [][WriteAsk /\ run.excuse = {} => said' # said]_vars

\* What a run has said or confirmed against the builds there are, the next run does
\* not read again, whichever analysis said it first (remember_confirmed), unless the
\* run had asked about the bug just before and could not name its builds then.
SaidIsRemembered ==
  [][/\ WriteAsk \/ Record \/ (Confirm /\ said.builds # Unknown)
     /\ AllRead /\ run.seen = updates
     => IF Current' THEN said'.builds = Builds(updates)
        ELSE confirmed' = [analysis |-> analysis, builds |-> Builds(updates)]]_vars

\* "No update fixed this, because nothing here was ever affected" (NeverAffected): a
\* bug is closed so only if the oldest build of each release it covers had the fix.
\* Not so, by result_priority: one release never affected outranks another whose
\* fix is still in testing.
NeverAffectedIsTrue ==
  [][WriteClose /\ status' = "NOTABUG" =>
       \A r \in Release : run.seen[r] = <<>> \/ run.seen[r][1].fixed]_vars
=============================================================================
