--------------------------- MODULE CveTriageProofs ---------------------------
(***************************************************************************)
(* What CveTriage promises, proved for any releases, updates and versions  *)
(* of the tool's reasoning.                                                *)
(***************************************************************************)
EXTENDS CveTriage, WellFoundedInduction, TLAPS

Update == [fixed : BOOLEAN, status : {"testing", "stable"}]

\* What was read in a run, of some of the releases.
Seen == UNION {[S -> Seq(Update)] : S \in SUBSET Release}

Stages == {"idle", "builds", "claim", "judge", "write", "record"}

Types ==
  /\ updates \in [Release -> Seq(Update)]
  /\ run.at \in Stages /\ run.note \in {"none", "real", "fixed"}
  /\ DOMAIN run = {"at", "seen", "failed", "before", "excuse", "note", "verdict", "aside",
                 "acted"}
  /\ run.seen \in Seen

\* What is read does not also count as failed.
ReadOrFailed == run.failed \subseteq Release \ DOMAIN run.seen

\* A bug to close is answered for every release but those set aside.
Fixed(r) == Read(r) /\ (run.seen[r] = <<>> \/ Fixing(run.seen[r]) # {})

StableIn(r) == \E i \in Fixing(run.seen[r]) : run.seen[r][i].status = "stable"

Judged ==
  run.at = "write" /\ run.verdict \in {"stable", "never"} =>
    /\ \A r \in Release \ run.aside : Fixed(r)
    /\ run.verdict = "stable" => \E r \in Release \ run.aside : StableIn(r)

\* Until a run speaks the bug says what the run read of it; when it has asked, it
\* says so, of the builds the run knows, if it knew them then.
Heard ==
  /\ run.at = "builds" => run.excuse = {}
  /\ run.at # "idle" =>
       /\ "comments" \in run.excuse => run.before = Nothing
       /\ "comments" \notin run.excuse =>
            \/ said = run.before
            \/ /\ run.at = "record" /\ said = Marked("partial", said.builds)
               /\ said.builds # Unknown => AllRead /\ said.builds = Builds(run.seen)

\* A run that is past the skip without an excuse has something new to judge.
News ==
  run.at \in {"claim", "judge", "write"} /\ run.excuse = {} =>
    ~Current \/ (AllRead /\ Builds(run.seen) # said.builds)

IInv == Types /\ ReadOrFailed /\ Judged /\ Heard /\ News

-----------------------------------------------------------------------------
(* Operators *)

LEMMA MinIs ==
  ASSUME NEW S, S \subseteq Nat, S # {}
  PROVE  Min(S) \in S
<1> DEFINE Less == {p \in Nat \X Nat : p[1] < p[2]}
<1>1. IsWellFoundedOn(Less, Nat)
  BY NatLessThanWellFounded DEF OpToRel
<1>2. \A m, n \in Nat : m < n => <<m, n>> \in Less
  OBVIOUS
<1> HIDE DEF Less
<1>3. PICK n \in S : \A m \in S : ~ <<m, n>> \in Less
  BY <1>1, WFMin
<1>4. ASSUME NEW m \in S PROVE n =< m
  <2>1. m \in Nat /\ n \in Nat
    OBVIOUS
  <2>2. ~ (m < n)
    BY <1>2, <1>3, <2>1
  <2> QED
    BY <2>1, <2>2
<1> QED
  BY <1>4 DEF Min

\* Which releases leave a bug fixed, and how.
LEMMA StatusIs ==
  ASSUME NEW us \in Seq(Update), NEW F, F \subseteq Fixing(us), F # {}
  PROVE  Min(F) \in Fixing(us) /\ us[Min(F)].status \in {"testing", "stable"}
<1>1. F \subseteq Nat
  BY DEF Fixing
<1>2. Min(F) \in F
  BY <1>1, MinIs
<1>3. Min(F) \in Fixing(us) /\ Min(F) \in DOMAIN us
  BY <1>2 DEF Fixing
<1>4. us[Min(F)] \in Update
  BY <1>3
<1> QED
  BY <1>3, <1>4 DEF Update

LEMMA VersionTells ==
  ASSUME NEW us \in Seq(Update), NEW mismatch \in BOOLEAN
  PROVE  /\ ByVersion(us, mismatch) # "unfixed" => us = <<>> \/ mismatch \/ Fixing(us) # {}
         /\ ByVersion(us, mismatch) = "stable" =>
              ~mismatch /\ \E i \in Fixing(us) : us[i].status = "stable"
         /\ ByVersion(us, mismatch) # "never"
<1>1. CASE us = <<>> \/ mismatch
  BY <1>1 DEF ByVersion
<1>2. CASE us # <<>> /\ ~mismatch /\ Fixing(us) = {}
  BY <1>2 DEF ByVersion
<1>3. CASE us # <<>> /\ ~mismatch /\ Fixing(us) # {}
  <2>1. Min(Fixing(us)) \in Fixing(us) /\ us[Min(Fixing(us))].status \in {"testing", "stable"}
    BY <1>3, StatusIs
  <2>2. ByVersion(us, mismatch) = us[Min(Fixing(us))].status
    BY <1>3 DEF ByVersion
  <2> QED
    BY <1>3, <2>1, <2>2
<1> QED
  BY <1>1, <1>2, <1>3

LEMMA BuildrootTells ==
  ASSUME NEW us \in Seq(Update), NEW told
  PROVE  /\ ByBuildroot(us, told) # "unfixed" => us = <<>> \/ Fixing(us) # {}
         /\ ByBuildroot(us, told) = "stable" => \E i \in Fixing(us) : us[i].status = "stable"
<1> DEFINE F == Fixing(us) \cap told
<1>1. CASE us = <<>>
  BY <1>1 DEF ByBuildroot
<1>2. CASE us # <<>> /\ F = {}
  BY <1>2 DEF ByBuildroot
<1>3. CASE us # <<>> /\ F # {}
  <2>1. Min(F) \in Fixing(us) /\ us[Min(F)].status \in {"testing", "stable"}
    BY <1>3, StatusIs
  <2>2. ByBuildroot(us, told) = IF Min(F) = 1 THEN "never" ELSE us[Min(F)].status
    BY <1>3 DEF ByBuildroot
  <2> QED
    BY <2>1, <2>2
<1> QED
  BY <1>1, <1>2, <1>3

\* One release left unfixed keeps the bug from being closed, and what closes it is
\* the answer of some release.
LEMMA VerdictTells ==
  ASSUME NEW answers, NEW ranked, NEW partial, ranked \subseteq answers, "stable" \in partial,
         "never" \in answers => "never" \in partial
  PROVE  /\ Verdict(answers, ranked, partial) \in {"stable", "never"} => "unfixed" \notin answers
         /\ Verdict(answers, ranked, partial) = "stable" => "stable" \in answers
BY DEF Verdict, Best

-----------------------------------------------------------------------------
(* Steps *)

LEMMA NothingSeen == <<>> \in Seen /\ DOMAIN <<>> = {}
<1>1. <<>> \in [{} -> Seq(Update)]
  OBVIOUS
<1> QED
  BY <1>1, {} \in SUBSET Release DEF Seen

\* A run that is over knows nothing.
LEMMA IdleKeeps ==
  ASSUME run' = Idle, updates' \in [Release -> Seq(Update)]
  PROVE  IInv'
<1>1. Types'
  BY NothingSeen DEF Types, Idle, Stages
<1>2. ReadOrFailed' /\ Judged' /\ Heard' /\ News'
  BY DEF Idle, ReadOrFailed, Judged, Heard, News
<1> QED
  BY <1>1, <1>2 DEF IInv

\* A run goes on with what it has read and heard.
LEMMA StageKeeps ==
  ASSUME IInv, NEW at \in Stages \ {"idle", "builds"}, NEW note \in {"none", "real", "fixed"},
         NEW verdict, NEW aside, NEW acted,
         run' = [run EXCEPT !.at = at, !.failed = {}, !.aside = aside, !.note = note,
                            !.verdict = verdict, !.acted = acted],
         run.at \in {"claim", "judge", "write"}, at = "record" \/ run.at # "write",
         UNCHANGED <<world, said>>, Judged'
  PROVE  IInv'
<1>1. /\ run'.at = at /\ run'.failed = {} /\ run'.note = note /\ run'.seen = run.seen
      /\ run'.before = run.before /\ run'.excuse = run.excuse /\ DOMAIN run' = DOMAIN run
  BY DEF IInv, Types
<1>2. Types' /\ ReadOrFailed'
  BY <1>1 DEF IInv, Types, ReadOrFailed, world
<1>3. Heard'
  BY <1>1 DEF IInv, Heard, Stages
<1>4. News'
  BY <1>1 DEF IInv, News, world, Current, AllRead, Read, Builds
<1> QED
  BY <1>2, <1>3, <1>4 DEF IInv

LEMMA StartKeeps ==
  ASSUME IInv, Start \/ StartBlind \/ Skip
  PROVE  IInv'
<1>1. CASE Start
  <2>1. PICK recheck \in BOOLEAN :
          LET known == ~recheck /\ (Current \/ confirmed.analysis = analysis) IN
          run' = [Idle EXCEPT !.at = IF known THEN "builds" ELSE "claim", !.before = said,
                              !.excuse = IF recheck THEN {"recheck"} ELSE {}]
    BY <1>1 DEF Start
  <2>2. /\ run'.at \in {"builds", "claim"} /\ run'.seen = <<>> /\ run'.failed = {}
        /\ run'.before = said /\ run'.note = "none" /\ DOMAIN run' = DOMAIN Idle
        /\ run'.excuse \in {{}, {"recheck"}}
        /\ run'.at = "builds" => run'.excuse = {}
        /\ run'.at = "claim" /\ run'.excuse = {} => ~Current
    BY <2>1 DEF Idle
  <2>3. UNCHANGED <<world, said>>
    BY <1>1 DEF Start, bug
  <2>4. Types' /\ ReadOrFailed'
    BY <2>2, <2>3, NothingSeen DEF IInv, Types, ReadOrFailed, Idle, Stages, world
  <2>5. Judged' /\ Heard' /\ News'
    BY <2>2, <2>3 DEF Judged, Heard, News, Current, world
  <2> QED
    BY <2>4, <2>5 DEF IInv
<1>2. CASE StartBlind
  <2>1. /\ run'.at = "claim" /\ run'.seen = <<>> /\ run'.failed = {}
        /\ run'.before = Nothing /\ run'.note = "none" /\ DOMAIN run' = DOMAIN Idle
        /\ run'.excuse = {"comments"}
    BY <1>2 DEF StartBlind, Idle
  <2>2. UNCHANGED <<world, said>>
    BY <1>2 DEF StartBlind, bug
  <2>3. Types' /\ ReadOrFailed'
    BY <2>1, <2>2, NothingSeen DEF IInv, Types, ReadOrFailed, Idle, Stages, world
  <2>4. Judged' /\ Heard' /\ News'
    BY <2>1 DEF Judged, Heard, News
  <2> QED
    BY <2>3, <2>4 DEF IInv
<1>3. CASE Skip
  <2>1. run.at = "builds" /\ UNCHANGED <<world, said>>
    BY <1>3 DEF Skip, bug
  <2>2. CASE run' = Idle
    BY <2>1, <2>2, IdleKeeps DEF IInv, Types, world
  <2>3. CASE run' = [Goto("claim") EXCEPT !.excuse = IF BuildsKnown THEN {} ELSE {"builds"}]
    <3>1. /\ run'.at = "claim" /\ run'.seen = run.seen /\ run'.failed = {}
          /\ run'.before = run.before /\ run'.note = run.note /\ DOMAIN run' = DOMAIN run
          /\ run'.excuse = IF BuildsKnown THEN {} ELSE {"builds"}
      BY <2>3 DEF IInv, Types, Goto
    <3>2. Types' /\ ReadOrFailed'
      BY <2>1, <3>1 DEF IInv, Types, ReadOrFailed, Stages, world
    <3>3. Judged' /\ Heard'
      BY <2>1, <3>1 DEF IInv, Judged, Heard
    <3>4. run.before = said
      BY <2>1 DEF IInv, Heard
    <3>5. BuildsKnown => ~Current \/ (AllRead /\ Builds(run.seen) # said.builds)
      <4> SUFFICES ASSUME BuildsKnown, Current
                   PROVE  AllRead /\ Builds(run.seen) # said.builds
        OBVIOUS
      <4>1. AllRead /\ BuildsRead = Builds(run.seen)
        BY DEF BuildsKnown, BuildsRead
      <4>2. run' # Idle
        BY <3>1 DEF Idle
      <4>3. ~Answered(Builds(run.seen))
        BY <1>3, <4>1, <4>2 DEF Skip
      <4>4. Builds(run.seen) # Unknown
        BY TriageAssumption DEF Builds, Unknown
      <4> QED
        BY <4>1, <4>3, <4>4 DEF Answered
    <3>6. News'
      BY <2>1, <3>1, <3>5 DEF News, world, Current, AllRead, Read, Builds
    <3> QED
      BY <3>2, <3>3, <3>6 DEF IInv
  <2> QED
    BY <1>3, <2>2, <2>3 DEF Skip
<1> QED
  BY <1>1, <1>2, <1>3

LEMMA ReadReleaseKeeps ==
  ASSUME IInv, NEW r \in Release, ReadRelease(r)
  PROVE  IInv'
<1> DEFINE seen == [x \in DOMAIN run.seen \cup {r} |-> IF x = r THEN updates[r] ELSE run.seen[x]]
<1>1. /\ run.at \in {"builds", "judge", "record"} \/ (run.at = "write" /\ run.verdict = "partial")
      /\ ~Read(r) /\ r \notin run.failed
      /\ UNCHANGED <<world, bug>>
      /\ \/ run' = [run EXCEPT !.seen = seen]
         \/ run' = [run EXCEPT !.failed = @ \cup {r}]
  BY DEF ReadRelease, Asking
<1>2. ~AllRead
  BY <1>1 DEF AllRead
<1>3. seen \in Seen /\ DOMAIN seen = DOMAIN run.seen \cup {r}
  <2>1. PICK S \in SUBSET Release : run.seen \in [S -> Seq(Update)]
    BY DEF IInv, Types, Seen
  <2>2. updates[r] \in Seq(Update)
    BY DEF IInv, Types
  <2>3. seen \in [S \cup {r} -> Seq(Update)]
    BY <2>1, <2>2
  <2> QED
    BY <2>3 DEF Seen
<1> HIDE DEF seen
<1>4. /\ run'.at = run.at /\ run'.before = run.before /\ run'.note = run.note
      /\ run'.excuse = run.excuse /\ run'.verdict = run.verdict /\ DOMAIN run' = DOMAIN run
      /\ \/ run'.seen = seen /\ run'.failed = run.failed
         \/ run'.seen = run.seen /\ run'.failed = run.failed \cup {r}
  BY <1>1 DEF IInv, Types
<1>5. Types'
  BY <1>1, <1>3, <1>4 DEF IInv, Types, world
<1>6. ReadOrFailed'
  BY <1>1, <1>3, <1>4 DEF IInv, ReadOrFailed, Read
<1>7. Judged' /\ Heard'
  <2>1. Judged'
    BY <1>1, <1>4 DEF Judged
  <2>2. said' = said
    BY <1>1 DEF bug
  <2> QED
    BY <1>1, <1>2, <1>4, <2>1, <2>2 DEF IInv, Heard, Marked, world
<1>8. News'
  BY <1>1, <1>2, <1>4 DEF IInv, News, Current, bug, world
<1> QED
  BY <1>5, <1>6, <1>7, <1>8 DEF IInv

LEMMA ClaimKeeps ==
  ASSUME IInv, Claim \/ ClaimedByAnother
  PROVE  IInv'
<1>1. CASE ClaimedByAnother
  BY <1>1, IdleKeeps DEF ClaimedByAnother, IInv, Types, world
<1>2. CASE Claim
  <2>1. PICK at \in {"judge", "record"}, note \in {"none", "real", "fixed"} :
          run' = [Goto(at) EXCEPT !.note = note]
    BY <1>2 DEF Claim
  <2>2. run' = [run EXCEPT !.at = at, !.failed = {}, !.aside = {}, !.note = note,
                           !.verdict = run.verdict, !.acted = run.acted]
    BY <2>1 DEF Goto, IInv, Types
  <2>3. Judged'
    BY <2>2 DEF Judged, IInv, Types
  <2> QED
    BY <1>2, <2>2, <2>3, StageKeeps DEF Claim, Stages, bug
<1> QED
  BY <1>1, <1>2

\* The end of a judgement, which leaves the rest of the run as it is.
LEMMA ConcludeKeeps ==
  ASSUME IInv, run.at = "judge", NEW verdict, NEW aside,
         Conclude(verdict, aside), UNCHANGED <<world, bug, confirmed>>,
         verdict \in {"stable", "never"} =>
           /\ \A r \in Release \ aside : Fixed(r)
           /\ verdict = "stable" => \E r \in Release \ aside : StableIn(r)
  PROVE  IInv'
<1> DEFINE kept  == IF verdict \in {"stable", "never"} THEN aside ELSE {}
           acted == verdict \in {"stable", "never", "testing"}
<1>1. run' = [run EXCEPT !.at = "write", !.failed = {}, !.aside = kept, !.note = run.note,
                         !.verdict = verdict, !.acted = acted]
  BY DEF Conclude, Goto, IInv, Types
<1> HIDE DEF acted
<1>2. run'.verdict = verdict /\ run'.seen = run.seen /\ run'.at = "write" /\ run'.aside = kept
  BY <1>1 DEF IInv, Types
<1>3. Judged'
  BY <1>2 DEF Judged, Fixed, StableIn, Read
<1> HIDE DEF kept
<1>4. run.note \in {"none", "real", "fixed"} /\ UNCHANGED <<world, said>>
  BY DEF IInv, Types, bug
<1> QED
  BY <1>1, <1>3, <1>4, StageKeeps DEF Stages

LEMMA JudgeBuildrootsKeeps ==
  ASSUME IInv, JudgeBuildroots
  PROVE  IInv'
<1>1. run.at = "judge" /\ UNCHANGED <<world, bug, confirmed>>
  BY DEF JudgeBuildroots
<1>2. CASE ~AllRead
  <2>1. Conclude("unchecked", {})
    BY <1>2 DEF JudgeBuildroots
  <2> QED
    BY <1>1, <2>1, ConcludeKeeps
<1>3. CASE AllRead
  <2> DEFINE answers(told) == {ByBuildroot(run.seen[r], told[r]) : r \in Release}
             verdict(told) == Verdict(answers(told), answers(told), {"stable", "never", "testing"})
  <2>1. PICK told \in [Release -> SUBSET (1..MaxUpdates)] : Conclude(verdict(told), {})
    BY <1>3 DEF JudgeBuildroots
  <2>2. ASSUME NEW r \in Release
        PROVE  /\ ByBuildroot(run.seen[r], told[r]) # "unfixed" => Fixed(r)
               /\ ByBuildroot(run.seen[r], told[r]) = "stable" => StableIn(r)
    <3>1. Read(r) /\ run.seen[r] \in Seq(Update)
      BY <1>3 DEF IInv, Types, Seen, AllRead, Read
    <3> QED
      BY <3>1, BuildrootTells DEF Fixed, StableIn
  <2>3. /\ verdict(told) \in {"stable", "never"} => "unfixed" \notin answers(told)
        /\ verdict(told) = "stable" => "stable" \in answers(told)
    <3> HIDE DEF answers
    <3> QED
      BY VerdictTells
  <2>4. verdict(told) \in {"stable", "never"} =>
          /\ \A r \in Release \ {} : Fixed(r)
          /\ verdict(told) = "stable" => \E r \in Release \ {} : StableIn(r)
    <3> HIDE DEF verdict
    <3> QED
      BY <2>2, <2>3
  <2> HIDE DEF verdict
  <2> QED
    BY <1>1, <2>1, <2>4, ConcludeKeeps
<1> QED
  BY <1>2, <1>3

LEMMA JudgeKeeps ==
  ASSUME IInv, Judge \/ JudgeNothing
  PROVE  IInv'
<1>1. run.at = "judge" /\ UNCHANGED <<world, bug, confirmed>>
  BY DEF Judge, JudgeNothing
<1>2. CASE JudgeNothing
  BY <1>1, <1>2, ConcludeKeeps DEF JudgeNothing
<1>3. CASE Judge
  <2> DEFINE Answers(rs, mismatch) == {ByVersion(run.seen[r], r \in mismatch) : r \in rs}
  <2>1. PICK collide \in SUBSET Release : \E mismatch \in SUBSET (Release \ collide) :
          IF \E r \in Release \ collide : ~Read(r) THEN Conclude("unchecked", {})
          ELSE \E ranked \in IF collide = {} THEN {Release} ELSE SUBSET (Release \ collide) :
                 Conclude(Verdict(Answers(Release \ collide, mismatch), Answers(ranked, mismatch),
                                  {"stable"}), collide \cup mismatch)
    BY <1>3 DEF Judge
  <2>2. PICK mismatch \in SUBSET (Release \ collide) :
          IF \E r \in Release \ collide : ~Read(r) THEN Conclude("unchecked", {})
          ELSE \E ranked \in IF collide = {} THEN {Release} ELSE SUBSET (Release \ collide) :
                 Conclude(Verdict(Answers(Release \ collide, mismatch), Answers(ranked, mismatch),
                                  {"stable"}), collide \cup mismatch)
    BY <2>1
  <2>3. CASE \E r \in Release \ collide : ~Read(r)
    <3>1. Conclude("unchecked", {})
      BY <2>2, <2>3
    <3> QED
      BY <1>1, <3>1, ConcludeKeeps
  <2>4. CASE \A r \in Release \ collide : Read(r)
    <3> DEFINE judged == Release \ collide
               aside  == collide \cup mismatch
    <3>1. PICK ranked \in SUBSET judged :
            Conclude(Verdict(Answers(judged, mismatch), Answers(ranked, mismatch), {"stable"}),
                     aside)
      BY <2>2, <2>4
    <3>2. PICK verdict :
            verdict = Verdict(Answers(judged, mismatch), Answers(ranked, mismatch), {"stable"})
      OBVIOUS
    <3>3. ASSUME NEW r \in judged
          PROVE  /\ ByVersion(run.seen[r], r \in mismatch) # "unfixed" => r \in mismatch \/ Fixed(r)
                 /\ ByVersion(run.seen[r], r \in mismatch) = "stable" =>
                      r \notin mismatch /\ StableIn(r)
                 /\ ByVersion(run.seen[r], r \in mismatch) # "never"
      <4>1. Read(r) /\ run.seen[r] \in Seq(Update)
        BY <2>4 DEF IInv, Types, Seen, Read
      <4>2. (r \in mismatch) \in BOOLEAN
        OBVIOUS
      <4> QED
        BY <4>1, <4>2, VersionTells DEF Fixed, StableIn
    <3>4. /\ verdict \in {"stable", "never"} => "unfixed" \notin Answers(judged, mismatch)
          /\ verdict = "stable" => "stable" \in Answers(judged, mismatch)
      <4>1. "never" \notin Answers(judged, mismatch)
        BY <3>3
      <4>2. Answers(ranked, mismatch) \subseteq Answers(judged, mismatch)
        OBVIOUS
      <4> HIDE DEF Answers
      <4> QED
        BY <3>2, <4>1, <4>2, VerdictTells
    <3>5. verdict \in {"stable", "never"} =>
            /\ \A r \in Release \ aside : Fixed(r)
            /\ verdict = "stable" => \E r \in Release \ aside : StableIn(r)
      BY <3>3, <3>4
    <3>6. Conclude(verdict, aside)
      BY <3>1, <3>2
    <3> HIDE DEF aside
    <3> QED
      BY <1>1, <3>5, <3>6, ConcludeKeeps
  <2> QED
    BY <2>3, <2>4
<1> QED
  BY <1>2, <1>3

LEMMA WriteKeeps ==
  ASSUME IInv, WriteClose \/ WriteNothing \/ WriteAsk
  PROVE  IInv'
<1>1. CASE WriteClose \/ WriteNothing
  <2>1. run' = Goto("record") /\ run.at = "write" /\ UNCHANGED <<world, said>>
    BY <1>1 DEF WriteClose, WriteNothing, bug
  <2>2. run' = [run EXCEPT !.at = "record", !.failed = {}, !.aside = {}, !.note = run.note,
                           !.verdict = run.verdict, !.acted = run.acted]
    BY <2>1 DEF Goto, IInv, Types
  <2>3. Judged'
    BY <2>2 DEF Judged, IInv, Types
  <2>4. PICK at, note, verdict, aside, acted :
          /\ at = "record" /\ note = run.note /\ verdict = run.verdict /\ aside = {}
          /\ acted = run.acted
    OBVIOUS
  <2>5. at \in Stages \ {"idle", "builds"} /\ note \in {"none", "real", "fixed"}
    BY <2>4 DEF IInv, Types, Stages
  <2>6. run' = [run EXCEPT !.at = at, !.failed = {}, !.aside = aside, !.note = note,
                           !.verdict = verdict, !.acted = acted]
    BY <2>2, <2>4
  <2>7. run.at \in {"claim", "judge", "write"} /\ (at = "record" \/ run.at # "write")
    BY <2>1, <2>4
  <2> QED
    BY <2>1, <2>3, <2>5, <2>6, <2>7, StageKeeps
<1>2. CASE WriteAsk
  <2>1. run.at = "write" /\ UNCHANGED world /\ said' = Marked("partial", BuildsRead)
    BY <1>2 DEF WriteAsk, Asking, Say
  <2>2. PICK known \in BOOLEAN : run' = [Goto("record") EXCEPT !.acted = known]
    BY <1>2 DEF WriteAsk
  <2>3. /\ run'.at = "record" /\ run'.failed = {} /\ run'.note = run.note /\ run'.seen = run.seen
        /\ run'.before = run.before /\ run'.excuse = run.excuse /\ DOMAIN run' = DOMAIN run
    BY <2>2 DEF Goto, IInv, Types
  <2>4. BuildsRead # Unknown => AllRead /\ BuildsRead = Builds(run.seen)
    BY DEF BuildsRead, BuildsKnown
  <2>5. Types' /\ ReadOrFailed'
    BY <2>1, <2>3 DEF IInv, Types, ReadOrFailed, Stages, world
  <2>6. Judged' /\ News'
    BY <2>3 DEF Judged, News
  <2>7. /\ said' = Marked("partial", said.builds)'
        /\ said'.builds # Unknown => AllRead' /\ said'.builds = Builds(run.seen)'
    BY <2>1, <2>3, <2>4 DEF AllRead, Read, Marked, Builds, world
  <2>8. Heard'
    BY <2>1, <2>3, <2>7 DEF IInv, Heard
  <2> QED
    BY <2>5, <2>6, <2>8 DEF IInv
<1> QED
  BY <1>1, <1>2

LEMMA EndKeeps ==
  ASSUME IInv, Confirm \/ Record \/ End
  PROVE  IInv'
BY IdleKeeps DEF Confirm, Record, End, IInv, Types, world

LEMMA WorldKeeps ==
  ASSUME IInv, LoseCache \/ Upgrade \/ \E r \in Release : Submit(r) \/ Push(r)
  PROVE  IInv'
<1>1. run' = run /\ said' = said /\ (run.at # "idle" => analysis' = analysis)
  BY DEF LoseCache, Upgrade, Submit, Push, bug, world
<1>2. updates' \in [Release -> Seq(Update)]
  <2>1. CASE LoseCache \/ Upgrade
    BY <2>1 DEF LoseCache, Upgrade, world, IInv, Types
  <2>2. ASSUME NEW r \in Release, Submit(r)
        PROVE  updates' \in [Release -> Seq(Update)]
    <3>1. PICK fixed \in BOOLEAN :
            updates' = [updates EXCEPT ![r] = Append(@, [fixed |-> fixed, status |-> "testing"])]
      BY <2>2 DEF Submit
    <3>2. [fixed |-> fixed, status |-> "testing"] \in Update
      BY DEF Update
    <3>3. Append(updates[r], [fixed |-> fixed, status |-> "testing"]) \in Seq(Update)
      BY <3>2 DEF IInv, Types
    <3> QED
      BY <3>1, <3>3 DEF IInv, Types
  <2>3. ASSUME NEW r \in Release, Push(r)
        PROVE  updates' \in [Release -> Seq(Update)]
    <3>1. PICK i \in DOMAIN updates[r] : updates' = [updates EXCEPT ![r][i].status = "stable"]
      BY <2>3 DEF Push
    <3>2. updates[r] \in Seq(Update) /\ updates[r][i] \in Update
      BY DEF IInv, Types
    <3>3. [updates[r][i] EXCEPT !.status = "stable"] \in Update
      BY <3>2 DEF Update
    <3>4. [updates[r] EXCEPT ![i] = [updates[r][i] EXCEPT !.status = "stable"]] \in Seq(Update)
      BY <3>2, <3>3
    <3>5. updates' = [updates EXCEPT ![r] =
                        [updates[r] EXCEPT ![i] = [updates[r][i] EXCEPT !.status = "stable"]]]
      BY <3>1
    <3> QED
      BY <3>4, <3>5 DEF IInv, Types
  <2> QED
    BY <2>1, <2>2, <2>3
<1>3. Types' /\ ReadOrFailed' /\ Judged'
  BY <1>1, <1>2 DEF IInv, Types, ReadOrFailed, Judged, AllRead, Read, Fixed, StableIn
<1>4. Heard' /\ News'
  BY <1>1 DEF IInv, Heard, News, AllRead, Read, Marked, Current, Builds
<1> QED
  BY <1>3, <1>4 DEF IInv

LEMMA InitIsSound == Init => IInv
<1> SUFFICES ASSUME Init PROVE IInv
  OBVIOUS
<1>1. /\ <<>> \in Seq(Update)
      /\ \A fixed \in BOOLEAN : <<[fixed |-> fixed, status |-> "stable"]>> \in Seq(Update)
  <2>1. \A fixed \in BOOLEAN : [fixed |-> fixed, status |-> "stable"] \in Update
    BY DEF Update
  <2> QED
    BY <2>1
<1>2. updates \in [Release -> Seq(Update)]
  BY <1>1 DEF Init
<1>3. Types
  BY <1>2, NothingSeen DEF Init, Types, Idle, Stages
<1>4. ReadOrFailed /\ Judged /\ Heard /\ News
  BY DEF Init, Idle, ReadOrFailed, Judged, Heard, News
<1> QED
  BY <1>3, <1>4 DEF IInv

LEMMA NextIsSound == IInv /\ [Next]_vars => IInv'
<1> SUFFICES ASSUME IInv, [Next]_vars PROVE IInv'
  OBVIOUS
<1>1. CASE UNCHANGED vars
  <2>1. UNCHANGED <<updates, analysis, said, run>>
    BY <1>1 DEF vars, world, bug
  <2> QED
    BY <2>1 DEF IInv, Types, ReadOrFailed, Judged, Fixed, StableIn, Heard, News, AllRead, Read, Marked,
                Current, Builds
<1>2. CASE Start \/ StartBlind \/ Skip
  BY <1>2, StartKeeps
<1>3. CASE Claim \/ ClaimedByAnother
  BY <1>3, ClaimKeeps
<1>4. CASE JudgeBuildroots \/ JudgeNothing \/ Judge
  BY <1>4, JudgeBuildrootsKeeps, JudgeKeeps
<1>5. CASE WriteClose \/ WriteNothing \/ WriteAsk
  BY <1>5, WriteKeeps
<1>6. CASE Confirm \/ Record \/ End
  BY <1>6, EndKeeps
<1>7. CASE LoseCache \/ Upgrade \/ \E r \in Release : Submit(r) \/ Push(r)
  BY <1>7, WorldKeeps
<1>8. CASE \E r \in Release : ReadRelease(r)
  BY <1>8, ReadReleaseKeeps
<1> QED
  BY <1>1, <1>2, <1>3, <1>4, <1>5, <1>6, <1>7, <1>8 DEF Next

\* What a run knows of the bug and of Bodhi is true when it uses it.
THEOREM Soundness == Spec => []IInv
BY InitIsSound, NextIsSound, PTL DEF Spec

-----------------------------------------------------------------------------
(* What is written *)

\* The check closes a bug only when every release it covers was read, but for those
\* set aside as another product, and each that ships the package has a build with the
\* fix, whatever else fails (classify_bodhi_check).
THEOREM ClosingIsAnswered == Spec => ClosedIsAnswered
<1>1. IInv /\ [Next]_vars =>
        [WriteClose =>
          /\ \A r \in Release \ run.aside :
               Read(r) /\ (run.seen[r] = <<>> \/ Fixing(run.seen[r]) # {})
          /\ status' = "ERRATA" => \E r \in Release \ run.aside : "stable" \in
               {run.seen[r][i].status : i \in Fixing(run.seen[r])}]_vars
  <2> SUFFICES ASSUME IInv, WriteClose
               PROVE  /\ \A r \in Release \ run.aside :
                           Read(r) /\ (run.seen[r] = <<>> \/ Fixing(run.seen[r]) # {})
                      /\ status' = "ERRATA" => \E r \in Release \ run.aside : "stable" \in
                           {run.seen[r][i].status : i \in Fixing(run.seen[r])}
    OBVIOUS
  <2>1. /\ run.at = "write" /\ run.verdict \in {"stable", "never"}
        /\ status' = "ERRATA" => run.verdict = "stable"
    BY DEF WriteClose
  <2> QED
    BY <2>1 DEF IInv, Judged, Fixed, StableIn
<1> QED
  BY <1>1, Soundness, PTL DEF Spec, ClosedIsAnswered

\* No finding is posted under the same finding for the same builds while the bug's
\* comments can be read, though a question was asked in between (unchanged_findings).
THEOREM NoFindingTwice == Spec => FindingsNotRepeated
<1>1. IInv /\ [Next]_vars =>
        [Record /\ "comments" \notin run.excuse =>
          ~(said'.text = said.text /\ said'.builds = said.builds)]_vars
  <2> SUFFICES ASSUME IInv, Record, "comments" \notin run.excuse
               PROVE  ~(said'.text = said.text /\ said'.builds = said.builds)
    OBVIOUS
  <2>1. /\ run.at = "record" /\ run.note \in {"real", "fixed"}
        /\ ~(run.before.text = run.note /\ run.before.builds = BuildsRead)
        /\ said' = Marked(run.note, BuildsRead)
    BY DEF Record, Recordable, Unchanged, Say, IInv, Types
  <2>2. said'.text = run.note /\ said'.builds = BuildsRead
    BY <2>1 DEF Marked
  <2>3. said = run.before \/ said.text = "partial"
    BY <2>1 DEF IInv, Heard, Marked
  <2> QED
    BY <2>1, <2>2, <2>3
<1> QED
  BY <1>1, Soundness, PTL DEF Spec, FindingsNotRepeated

\* The assignee is asked again only once something changed, for this analysis and
\* while the bug and its builds can be read (bodhi_check_bugs).
THEOREM AskedOnce == Spec => AskedOncePerChange
<1>1. IInv /\ [Next]_vars => [WriteAsk /\ run.excuse = {} => said' # said]_vars
  <2> SUFFICES ASSUME IInv, WriteAsk, run.excuse = {}, said' = said PROVE FALSE
    OBVIOUS
  <2>1. run.at = "write" /\ said = Marked("partial", BuildsRead)
    BY DEF WriteAsk, Asking, Say
  <2>2. said.analysis = analysis /\ said.builds = BuildsRead
    BY <2>1 DEF Marked
  <2>3. AllRead /\ Builds(run.seen) # said.builds
    BY <2>1, <2>2 DEF IInv, News, Current
  <2>4. run.failed = {}
    BY <2>3 DEF AllRead, Read, IInv, ReadOrFailed
  <2> QED
    BY <2>2, <2>3, <2>4 DEF BuildsRead, BuildsKnown
<1> QED
  BY <1>1, Soundness, PTL DEF Spec, AskedOncePerChange

\* What a run concludes for the builds there are is there for the next to find, in
\* the bug or in the user's record (remember_confirmed).
THEOREM ConclusionsAreKept == Spec => SaidIsRemembered
<1>1. IInv /\ [Next]_vars =>
        [/\ WriteAsk \/ Record \/ (Confirm /\ said.builds # Unknown)
         /\ AllRead /\ run.seen = updates
         => IF Current' THEN said'.builds = Builds(updates)
             ELSE confirmed' = [analysis |-> analysis, builds |-> Builds(updates)]]_vars
  <2> SUFFICES ASSUME IInv, WriteAsk \/ Record \/ (Confirm /\ said.builds # Unknown),
                      AllRead, run.seen = updates
               PROVE  IF Current' THEN said'.builds = Builds(updates)
                      ELSE confirmed' = [analysis |-> analysis, builds |-> Builds(updates)]
    OBVIOUS
  <2>1. BuildsRead = Builds(updates)
    <3>1. Release \subseteq DOMAIN run.seen
      BY DEF AllRead, Read
    <3>2. run.failed = {}
      BY <3>1 DEF IInv, ReadOrFailed
    <3> QED
      BY <3>2 DEF BuildsRead, BuildsKnown
  <2>2. CASE WriteAsk
    <3>1. said'.analysis = analysis' /\ said'.builds = Builds(updates)
      BY <2>1, <2>2 DEF WriteAsk, Say, Marked, world
    <3> QED
      BY <3>1 DEF Current
  <2>3. CASE Record
    <3>1. said'.analysis = analysis' /\ said'.builds = Builds(updates)
      BY <2>1, <2>3 DEF Record, Say, Marked, world
    <3> QED
      BY <3>1 DEF Current
  <2>4. CASE Confirm /\ said.builds # Unknown
    <3>1. /\ run.at = "record" /\ run.note \in {"real", "fixed"}
          /\ run.before.text = run.note /\ run.before.builds = Builds(updates)
          /\ UNCHANGED <<said, analysis>>
      BY <2>1, <2>4 DEF Confirm, Recordable, Unchanged, IInv, Types, bug, world
    <3>2. "comments" \notin run.excuse
      BY <3>1 DEF IInv, Heard, Nothing
    <3>3. said = run.before \/ said.builds = Builds(updates)
      BY <2>4, <3>1, <3>2 DEF IInv, Heard
    <3>4. said'.builds = Builds(updates)
      BY <3>1, <3>3
    <3>5. Builds(updates) # Unknown
      BY TriageAssumption DEF Builds, Unknown
    <3>6. confirmed' = [analysis |-> analysis, builds |-> Builds(updates)]
      BY <2>1, <2>4, <3>5 DEF Confirm, Remember
    <3> QED
      BY <3>4, <3>6
  <2> QED
    BY <2>2, <2>3, <2>4
<1> QED
  BY <1>1, Soundness, PTL DEF Spec, SaidIsRemembered
=============================================================================
