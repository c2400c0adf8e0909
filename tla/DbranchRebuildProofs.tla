------------------------ MODULE DbranchRebuildProofs ------------------------
(***************************************************************************)
(* Proofs about `dbranch rebuild`: what a changelog holds after any course *)
(* of merges, entries and resets, what a commit of the merge stage leaves  *)
(* behind, and what an upload was built from.                              *)
(***************************************************************************)
EXTENDS DbranchRebuild, SequenceTheorems, FiniteSetTheorems,
        WellFoundedInduction, TLAPS

-----------------------------------------------------------------------------
(* Types, with the maps' domains; a clone has one source package at most *)

Merge   == [theirs : 0..MaxRelease, state : {"none", "changelog", "others", "resolved"}]
Running == [step : Steps, built : {"archive", "elsewhere", "nothing"}]
UploadOf == [package : Package, dest : {"archive", "elsewhere"}, head : 0..MaxTime,
             declined : BOOLEAN]

TypeInv ==
  /\ release \in 1..MaxRelease /\ now \in 0..MaxTime
  /\ remote \in History
  /\ \A u \in sent : u \in UploadOf
  /\ branch \in [Clone -> History] /\ tree \in [Clone -> Tree]
  /\ merging \in [Clone -> Merge] /\ package \in [Clone -> SUBSET Package]
  /\ next \in [Clone -> Stage] /\ run \in [Clone -> Running]
  /\ \A c \in Clone : \A p, q \in package[c] : p = q

-----------------------------------------------------------------------------
(* Versions.  A log is Descending when its releases never rise towards the
   older stanzas and the rebuilds of a release count down to it.  Only a log
   that is Complete, with every release up to its newest, stays so: the
   releases a merge brings are then newer than all it has. *)

Descending(log) ==
  \A i, j \in DOMAIN log : i < j =>
    /\ log[i][1] >= log[j][1]
    /\ \/ log[i][1] > log[j][1]
       \/ Provisional \in {log[i][2], log[j][2]}
       \/ log[i][2] > log[j][2]

Complete(log) ==
  \A i \in DOMAIN log : \A r \in 1..log[i][1] : \E j \in DOMAIN log : log[j] = <<r, 0>>

GoodLog(log) == log \in Log /\ log # <<>> /\ Descending(log) /\ Complete(log)

GoodHistory(h) == \A i \in DOMAIN h : GoodLog(h[i].tree.log)

CloneInv(c) ==
  /\ GoodHistory(branch[c])
  /\ branch[c] # <<>> => GoodLog(tree[c].log)
  /\ branch[c] = <<>> => run[c].step \in {"idle", "merge"} /\ merging[c] = NoMerge
  /\ run[c].step = "normalize" => GoodLog(Tail(tree[c].log))

LogInv == GoodHistory(remote) /\ \A c \in Clone : CloneInv(c)

-----------------------------------------------------------------------------
(* Edits *)

\* What of a packaging file is edited is committed, but for the step between.
EditInv(c) ==
  /\ run[c].step # "commit file" => tree[c].adjusted = Head_(c).tree.adjusted
  /\ run[c].step = "commit file" => tree[c].adjusted
  /\ run[c].step \in {"dch", "normalize", "commit entry"} => Head_(c).tree.adjusted

-----------------------------------------------------------------------------
(* From the source package to the upload *)

\* The stages after the merge.
Later == {"source", "build", "push", "upload"}

\* A run is at one of its stages, or the last one stopped there.
At(c, stages) == run[c].step \in stages \/ (run[c] = NoRun /\ next[c] \in stages)

\* A clone with no branch has nothing to build or upload.
EmptyInv(c) == branch[c] = <<>> => package[c] = {} /\ ~At(c, Later)

\* After the merge stage nothing is uncommitted.
CleanInv(c) ==
  /\ tree[c].fix = Head_(c).tree.fix
  /\ run[c].step \notin {"idle", "merge", "resolve", "conclude"} => merging[c] = NoMerge
  /\ At(c, Later) => Clean(c)

\* A package built no earlier than the tip was made is of the tip.
PackageInv(c) ==
  /\ Head_(c).at <= now
  /\ \A p \in package[c] :
       /\ p.built <= now
       /\ Head_(c).at <= p.built => p.of = Head_(c).at /\ p.tree = Head_(c).tree

\* One that this run built is of the tip, for the run's destination.
BuiltInv(c) ==
  run[c].built # "nothing" =>
    /\ run[c].step \in {"build", "push", "upload"}
    /\ \A p \in package[c] : p.orig = OrigRequired(run[c].built)

FreshInv(c) ==
  run[c].built # "nothing" =>
    \A p \in package[c] : p.of = Head_(c).at /\ p.tree = Head_(c).tree

\* A branch is pushed before its package is uploaded.
PushInv(c) ==
  At(c, {"upload"}) => /\ Len(branch[c]) \in DOMAIN remote
                       /\ remote[Len(branch[c])] = Head_(c)

UploadInv ==
  /\ Tip(remote).at <= now
  /\ \A c \in Clone : /\ EditInv(c) /\ CleanInv(c) /\ EmptyInv(c)
                        /\ PackageInv(c) /\ BuiltInv(c) /\ FreshInv(c) /\ PushInv(c)
-----------------------------------------------------------------------------
(* Stages *)

LEMMA StagesAre ==
  /\ Stage = {"merge", "source", "build", "push", "upload"}
  /\ After("merge") = "source" /\ After("source") = "build" /\ After("build") = "push"
  /\ After("push") = "upload" /\ After("upload") = "merge"
<1>1. DOMAIN Stages = 1..5 /\ Len(Stages) = 5
  BY DEF Stages
<1>2. /\ Stages[1] = "merge" /\ Stages[2] = "source" /\ Stages[3] = "build"
      /\ Stages[4] = "push" /\ Stages[5] = "upload"
  BY DEF Stages
<1>3. Stage = {"merge", "source", "build", "push", "upload"}
  <2>1. ASSUME NEW s \in Stage PROVE s \in {"merge", "source", "build", "push", "upload"}
    <3>1. PICK i \in 1..5 : s = Stages[i]
      BY <1>1 DEF Stage, Range
    <3>2. i \in {1, 2, 3, 4, 5}
      OBVIOUS
    <3> QED BY <3>1, <3>2, <1>2
  <2>2. ASSUME NEW i \in 1..5 PROVE Stages[i] \in Stage
    BY <1>1 DEF Stage, Range
  <2>3. /\ Stages[1] \in Stage /\ Stages[2] \in Stage /\ Stages[3] \in Stage
        /\ Stages[4] \in Stage /\ Stages[5] \in Stage
    BY <2>2
  <2> QED BY <1>2, <2>1, <2>3
<1>4. \A i \in 1..5 : i = 1 \/ i = 2 \/ i = 3 \/ i = 4 \/ i = 5
  OBVIOUS
<1>5. \A i \in 1..5 : \A j \in 1..5 : Stages[i] = Stages[j] => i = j
  BY <1>2, <1>4
<1>6. \A i \in 1..5 : Index(Stages[i]) = i
  BY <1>1, <1>5 DEF Index
<1>7. /\ Index("merge") = 1 /\ Index("source") = 2 /\ Index("build") = 3
      /\ Index("push") = 4 /\ Index("upload") = 5
  <2>1. /\ Index(Stages[1]) = 1 /\ Index(Stages[2]) = 2 /\ Index(Stages[3]) = 3
        /\ Index(Stages[4]) = 4 /\ Index(Stages[5]) = 5
    BY <1>6
  <2> QED BY <1>2, <2>1
<1> QED BY <1>2, <1>3, <1>7 DEF After

-----------------------------------------------------------------------------
(* Changelogs *)

Less == {p \in Nat \X Nat : p[1] < p[2]}

LEMMA LessIsWellFounded == IsWellFoundedOn(Less, Nat)
<1>1. OpToRel(<, Nat) = Less
  BY Zenon DEF OpToRel, Less
<1> QED BY <1>1, NatLessThanWellFounded, Zenon

\* A set of naturals has a least element.
LEMMA LeastExists ==
  ASSUME NEW S \in SUBSET Nat, S # {}
  PROVE  \E n \in S : \A m \in S : n <= m
<1>1. PICK n \in S : \A m \in S : ~ (<<m, n>> \in Less)
  BY LessIsWellFounded, WFMin, Zenon
<1>2. ASSUME NEW m \in S PROVE n <= m
  <2>1. m \in Nat /\ n \in Nat
    OBVIOUS
  <2>2. m < n => <<m, n>> \in Less
    BY <2>1 DEF Less
  <2> QED BY <1>1, <2>1, <2>2
<1> QED BY <1>2

\* A step of the recursion of Incoming: from the first n - 1 stanzas to the first n.
Step(ours, theirs, f, n) ==
  IF n = 0 THEN <<>>
  ELSE IF Contains(ours, theirs[n]) THEN f[n - 1]
  ELSE Append(f[n - 1], theirs[n])

LEMMA IncomingExists ==
  ASSUME NEW ours, NEW theirs \in Log
  PROVE  \E f : /\ f = [n \in 0..Len(theirs) |-> Step(ours, theirs, f, n)]
                /\ Incoming(ours, theirs) = f[Len(theirs)]
<1> DEFINE L == Len(theirs)
           Solves(f, n) == f = [k \in 0..n |-> Step(ours, theirs, f, k)]
<1>0. L \in Nat
  BY DEF Log
<1>1. \E f : Solves(f, L)
  <2> SUFFICES ASSUME ~ \E f : Solves(f, L) PROVE FALSE
    OBVIOUS
  <2> DEFINE Bad == {n \in Nat : ~ \E f : Solves(f, n)}
  <2>1. PICK n \in Bad : \A m \in Bad : n <= m
    <3>1. L \in Bad BY <1>0
    <3> HIDE DEF Bad, Solves
    <3>2. Bad \in SUBSET Nat BY DEF Bad
    <3> QED BY <3>1, <3>2, LeastExists, Zenon
  <2>2. n \in Nat /\ ~ \E f : Solves(f, n)
    BY <2>1
  <2>3. n # 0
    <3> SUFFICES ASSUME n = 0 PROVE FALSE OBVIOUS
    <3> DEFINE z == [k \in 0..0 |-> <<>>]
    <3>1. \A k \in 0..0 : Step(ours, theirs, z, k) = <<>> BY DEF Step
    <3>2. Solves(z, 0) BY <3>1
    <3> QED BY <3>2, <2>2
  <2>4. n - 1 \in Nat /\ n - 1 \notin Bad
    BY <2>1, <2>2, <2>3
  <2>5. PICK f : Solves(f, n - 1)
    BY <2>4
  <2> DEFINE g == [k \in 0..n |-> IF k = n THEN Step(ours, theirs, f, n) ELSE f[k]]
  <2>6. ASSUME NEW k \in 0..n PROVE Step(ours, theirs, g, k) = Step(ours, theirs, f, k)
    <3>1. CASE k = 0 BY <3>1 DEF Step
    <3>2. CASE k # 0
      <4>1. k - 1 \in 0..n /\ k - 1 # n BY <3>2, <2>2
      <4>2. g[k - 1] = f[k - 1] BY <4>1
      <4> QED BY <4>2 DEF Step
    <3> QED BY <3>1, <3>2
  <2>7. ASSUME NEW k \in 0..n PROVE g[k] = Step(ours, theirs, f, k)
    <3>1. CASE k = n BY <3>1
    <3>2. CASE k # n
      <4>1. k \in 0..(n - 1) BY <3>2, <2>2
      <4>2. f[k] = Step(ours, theirs, f, k)
        <5> HIDE DEF Step
        <5> QED BY <2>5, <4>1
      <4> QED BY <4>2, <3>2
    <3> QED BY <3>1, <3>2
  <2>8. Solves(g, n)
    BY <2>6, <2>7
  <2> QED BY <2>8, <2>2
<1>2. PICK f : f = CHOOSE g : Solves(g, L)
  OBVIOUS
<1>3. Solves(f, L)
  <2> HIDE DEF Solves
  <2> QED BY <1>1, <1>2, Zenon
<1>4. Incoming(ours, theirs) = f[L]
  <2>1. f = CHOOSE g : g = [n \in 0..Len(theirs) |->
              IF n = 0 THEN <<>>
              ELSE IF Contains(ours, theirs[n]) THEN g[n - 1]
              ELSE Append(g[n - 1], theirs[n])]
    BY <1>2, Zenon DEF Solves, Step, L
  <2> QED BY <2>1, Zenon DEF Incoming, L
<1> QED BY <1>3, <1>4

\* A log of those of the first n stanzas of theirs that ours lacks, in their order.
Lacking(new, ours, theirs, n) ==
  /\ new \in Log
  /\ \A i \in 1..Len(new) : \E k \in 1..n :
       new[i] = theirs[k] /\ ~Contains(ours, theirs[k])
  /\ \A k \in 1..n : ~Contains(ours, theirs[k]) =>
       \E i \in 1..Len(new) : new[i] = theirs[k]
  /\ \A i, j \in 1..Len(new) : i < j => \E k, l \in 1..n :
       k < l /\ new[i] = theirs[k] /\ new[j] = theirs[l]

\* Incoming returns all of them.
LEMMA IncomingIsLacking ==
  ASSUME NEW ours \in Log, NEW theirs \in Log
  PROVE  Lacking(Incoming(ours, theirs), ours, theirs, Len(theirs))
<1> DEFINE L == Len(theirs)
<1>1. PICK f : /\ f = [n \in 0..L |-> Step(ours, theirs, f, n)]
               /\ Incoming(ours, theirs) = f[L]
  BY IncomingExists
<1>2. L \in Nat /\ DOMAIN theirs = 1..L /\ \A k \in 1..L : theirs[k] \in Stanza
  BY DEF Log
<1>3. \A n \in 0..L : f[n] = Step(ours, theirs, f, n)
  <2> HIDE DEF Step, L
  <2> QED BY <1>1
<1>4. \A n \in 0..L : Lacking(f[n], ours, theirs, n)
  <2> SUFFICES ASSUME ~ \A n \in 0..L : Lacking(f[n], ours, theirs, n) PROVE FALSE
    OBVIOUS
  <2> DEFINE Bad == {n \in 0..L : ~Lacking(f[n], ours, theirs, n)}
  <2>1. PICK n \in Bad : \A m \in Bad : n <= m
    <3>1. Bad # {} OBVIOUS
    <3>2. Bad \in SUBSET Nat BY <1>2
    <3> HIDE DEF Bad
    <3> QED BY <3>1, <3>2, LeastExists, Zenon
  <2>2. n \in 0..L /\ ~Lacking(f[n], ours, theirs, n) /\ n \in Nat
    <3> QED BY <2>1, <1>2
  <2>3. n # 0
    <3> SUFFICES ASSUME n = 0 PROVE FALSE OBVIOUS
    <3>1. f[0] = <<>>
      BY <1>3, <1>2 DEF Step
    <3>2. <<>> \in Log /\ Len(<<>>) = 0 BY DEF Log
    <3>3. Lacking(f[0], ours, theirs, 0)
      BY <3>1, <3>2 DEF Lacking
    <3> QED BY <3>3, <2>2
  <2>4. n - 1 \in 0..L /\ n \in 1..L /\ n - 1 \in Nat
    BY <2>2, <2>3, <1>2
  <2>5. Lacking(f[n - 1], ours, theirs, n - 1)
    <3>1. n - 1 \notin Bad BY <2>1, <2>2
    <3> QED BY <3>1, <2>4
  <2> DEFINE s == f[n - 1]
  <2>6. s \in Log /\ Len(s) \in Nat
    BY <2>5 DEF Lacking, Log
  <2>7. CASE Contains(ours, theirs[n])
    <3>1. f[n] = s
      BY <1>3, <2>2, <2>3, <2>7 DEF Step
    <3> HIDE DEF s
    <3>2. Lacking(s, ours, theirs, n)
      <4>1. Lacking(s, ours, theirs, n - 1) BY <2>5 DEF s
      <4>2. \A k \in 1..n : k # n => k \in 1..(n - 1) BY <2>4
      <4>3. \A k \in 1..(n - 1) : k \in 1..n BY <2>4
      <4>4. s \in Log BY <2>6
      <4>5. ASSUME NEW i \in 1..Len(s)
            PROVE  \E k \in 1..n : s[i] = theirs[k] /\ ~Contains(ours, theirs[k])
        BY <4>1, <4>3 DEF Lacking
      <4>6. ASSUME NEW k \in 1..n, ~Contains(ours, theirs[k])
            PROVE  \E i \in 1..Len(s) : s[i] = theirs[k]
        <5>1. k # n BY <4>6, <2>7
        <5> QED BY <5>1, <4>1, <4>2, <4>6 DEF Lacking
      <4>7. ASSUME NEW i \in 1..Len(s), NEW j \in 1..Len(s), i < j
            PROVE  \E k, l \in 1..n : k < l /\ s[i] = theirs[k] /\ s[j] = theirs[l]
        <5>1. PICK k \in 1..(n - 1), l \in 1..(n - 1) :
                 k < l /\ s[i] = theirs[k] /\ s[j] = theirs[l]
          BY <4>1, <4>7 DEF Lacking
        <5> QED BY <5>1, <4>3
      <4> QED BY <4>4, <4>5, <4>6, <4>7 DEF Lacking
    <3> QED BY <3>1, <3>2, <2>2
  <2>8. CASE ~Contains(ours, theirs[n])
    <3> DEFINE t == Append(s, theirs[n])
    <3>1. f[n] = t
      BY <1>3, <2>2, <2>3, <2>8 DEF Step
    <3>2. theirs[n] \in Stanza BY <1>2, <2>4
    <3>3. /\ t \in Log /\ Len(t) = Len(s) + 1 /\ t[Len(s) + 1] = theirs[n]
          /\ \A i \in 1..Len(s) : t[i] = s[i]
      <4> HIDE DEF s
      <4> QED BY <2>6, <3>2 DEF Log
    <3>4. Lacking(s, ours, theirs, n - 1) BY <2>5
    <3> HIDE DEF s, t
    <3>5. \A k \in 1..(n - 1) : k \in 1..n /\ k < n BY <2>4
    <3>6. \A k \in 1..n : k # n => k \in 1..(n - 1) BY <2>4
    <3>7. \A i \in 1..Len(t) : i # Len(t) => i \in 1..Len(s) BY <3>3, <2>6
    <3>8. Len(t) \in 1..Len(t) /\ (\A i \in 1..Len(s) : i \in 1..Len(t)) /\ n \in 1..n
      BY <3>3, <2>6, <2>4
    <3>9. t[Len(t)] = theirs[n] BY <3>3
    <3>10. ASSUME NEW i \in 1..Len(t)
           PROVE  \E k \in 1..n : t[i] = theirs[k] /\ ~Contains(ours, theirs[k])
      <4>1. CASE i = Len(t) BY <4>1, <3>9, <3>8, <2>8
      <4>2. CASE i # Len(t)
        <5>1. i \in 1..Len(s) /\ t[i] = s[i] BY <4>2, <3>7, <3>3
        <5>2. PICK k \in 1..(n - 1) : s[i] = theirs[k] /\ ~Contains(ours, theirs[k])
          BY <5>1, <3>4 DEF Lacking
        <5> QED BY <5>1, <5>2, <3>5
      <4> QED BY <4>1, <4>2
    <3>11. ASSUME NEW k \in 1..n, ~Contains(ours, theirs[k])
           PROVE  \E i \in 1..Len(t) : t[i] = theirs[k]
      <4>1. CASE k = n BY <4>1, <3>8, <3>9
      <4>2. CASE k # n
        <5>1. PICK i \in 1..Len(s) : s[i] = theirs[k] BY <4>2, <3>6, <3>4, <3>11 DEF Lacking
        <5> QED BY <5>1, <3>8, <3>3
      <4> QED BY <4>1, <4>2
    <3>12. ASSUME NEW i \in 1..Len(t), NEW j \in 1..Len(t), i < j
           PROVE  \E k, l \in 1..n : k < l /\ t[i] = theirs[k] /\ t[j] = theirs[l]
      <4>1. i # Len(t) BY <3>12, <3>3, <2>6
      <4>2. i \in 1..Len(s) /\ t[i] = s[i] BY <4>1, <3>7, <3>3
      <4>3. CASE j = Len(t)
        <5>1. PICK k \in 1..(n - 1) : s[i] = theirs[k] BY <4>2, <3>4 DEF Lacking
        <5> QED BY <5>1, <4>2, <4>3, <3>5, <3>8, <3>9
      <4>4. CASE j # Len(t)
        <5>1. j \in 1..Len(s) /\ t[j] = s[j] BY <4>4, <3>7, <3>3
        <5>2. PICK k \in 1..(n - 1), l \in 1..(n - 1) :
                 k < l /\ s[i] = theirs[k] /\ s[j] = theirs[l]
          BY <5>1, <4>2, <3>4, <3>12 DEF Lacking
        <5> QED BY <5>1, <5>2, <4>2, <3>5
      <4> QED BY <4>3, <4>4
    <3>13. Lacking(t, ours, theirs, n) BY <3>3, <3>10, <3>11, <3>12 DEF Lacking
    <3> QED BY <3>1, <3>13, <2>2
  <2> QED BY <2>7, <2>8
<1> QED BY <1>1, <1>2, <1>4

\* What the stanzas of a good log are.
LEMMA StanzaIs ==
  ASSUME NEW log \in Log
  PROVE  /\ Len(log) \in Nat /\ DOMAIN log = 1..Len(log)
         /\ \A i \in DOMAIN log :
              /\ log[i] \in Stanza /\ log[i] = <<log[i][1], log[i][2]>>
              /\ log[i][1] \in 1..MaxRelease /\ log[i][2] \in {Provisional} \cup Nat
              /\ log[i][1] \in Nat /\ log[i][2] \in Int
<1>1. Len(log) \in Nat /\ DOMAIN log = 1..Len(log)
  BY DEF Log
<1>2. ASSUME NEW i \in DOMAIN log
      PROVE  /\ log[i] \in Stanza /\ log[i] = <<log[i][1], log[i][2]>>
             /\ log[i][1] \in 1..MaxRelease /\ log[i][2] \in {Provisional} \cup Nat
  <2>1. log[i] \in Stanza BY DEF Log
  <2> QED BY <2>1 DEF Stanza
<1>3. \A i \in DOMAIN log : log[i][1] \in Nat /\ log[i][2] \in Int
  BY <1>2 DEF Provisional
<1> QED BY <1>1, <1>2, <1>3

\* The Debian branch's own log, which the branch starts from.
LEMMA DebianIs ==
  ASSUME NEW b \in 0..MaxRelease
  PROVE  /\ Debian(b) \in Log /\ DOMAIN Debian(b) = 1..b /\ Len(Debian(b)) = b
         /\ \A i \in 1..b : Debian(b)[i] = <<b + 1 - i, 0>>
         /\ \A r \in 1..b : b + 1 - r \in 1..b /\ Debian(b)[b + 1 - r] = <<r, 0>>
<1>1. \A i \in 1..b : <<b + 1 - i, 0>> \in Stanza
  BY RebuildAssumption DEF Stanza
<1>2. Debian(b) \in [1..b -> Stanza] /\ b \in Nat
  BY <1>1, RebuildAssumption DEF Debian
<1>3. Debian(b) \in Log
  BY <1>2, IsASeq DEF Log
<1>4. Len(Debian(b)) = b /\ DOMAIN Debian(b) = 1..b
  BY <1>2, <1>3 DEF Log
<1>5. \A i \in 1..b : Debian(b)[i] = <<b + 1 - i, 0>>
  BY <1>2 DEF Debian
<1>6. \A r \in 1..b : b + 1 - r \in 1..b /\ b + 1 - (b + 1 - r) = r
  BY <1>2
<1>7. \A r \in 1..b : Debian(b)[b + 1 - r] = <<r, 0>>
  BY <1>5, <1>6
<1> QED BY <1>3, <1>4, <1>5, <1>6, <1>7

LEMMA DebianIsGood ==
  ASSUME NEW b \in 1..MaxRelease
  PROVE  GoodLog(Debian(b))
<1>1. b \in 0..MaxRelease /\ b \in Nat BY RebuildAssumption
<1> DEFINE d == Debian(b)
<1>2. /\ d \in Log /\ DOMAIN d = 1..b /\ Len(d) = b
      /\ \A i \in 1..b : d[i] = <<b + 1 - i, 0>>
      /\ \A r \in 1..b : b + 1 - r \in 1..b /\ d[b + 1 - r] = <<r, 0>>
  BY <1>1, DebianIs
<1> HIDE DEF d
<1>3. d # <<>>
  BY <1>1, <1>2
<1>4. \A i \in 1..b : d[i][1] = b + 1 - i
  BY <1>2
<1>5. Descending(d)
  BY <1>1, <1>2, <1>4 DEF Descending
<1>6. Complete(d)
  <2> SUFFICES ASSUME NEW i \in 1..b, NEW r \in 1..d[i][1] PROVE \E j \in 1..b : d[j] = <<r, 0>>
    BY <1>2 DEF Complete
  <2>1. r \in 1..b BY <1>1, <1>4
  <2> QED BY <1>2, <2>1
<1> QED BY <1>2, <1>3, <1>5, <1>6 DEF GoodLog, d

\* Above the base of every stanza a log lacks is none of its own: what a merge
\* brings is newer than all there is.
LEMMA MissingIsNewer ==
  ASSUME NEW log, GoodLog(log), NEW r \in 1..MaxRelease, ~Contains(log, <<r, 0>>)
  PROVE  \A i \in DOMAIN log : log[i][1] < r
<1> SUFFICES ASSUME NEW i \in DOMAIN log, ~(log[i][1] < r) PROVE FALSE
  OBVIOUS
<1>1. log \in Log BY DEF GoodLog
<1>2. log[i][1] \in Nat /\ DOMAIN log = 1..Len(log) BY <1>1, StanzaIs
<1>3. r \in 1..log[i][1] BY <1>2
<1>4. PICK j \in DOMAIN log : log[j] = <<r, 0>> BY <1>3 DEF GoodLog, Complete
<1> QED BY <1>2, <1>4 DEF Contains

\* resolve_conflict keeps a changelog in order.
LEMMA ResolvedIsGood ==
  ASSUME NEW ours, GoodLog(ours), NEW b \in 0..MaxRelease
  PROVE  GoodLog(Resolved(ours, Debian(b)))
<1> DEFINE new == Incoming(ours, Debian(b))
           log == Resolved(ours, Debian(b))
           n == Len(new)
           m == Len(ours)
<1>1. /\ Debian(b) \in Log /\ DOMAIN Debian(b) = 1..b
      /\ \A i \in 1..b : Debian(b)[i] = <<b + 1 - i, 0>>
      /\ \A r \in 1..b : b + 1 - r \in 1..b /\ Debian(b)[b + 1 - r] = <<r, 0>>
  BY DebianIs
<1>2. ours \in Log /\ ours # <<>> /\ Descending(ours) /\ Complete(ours)
  BY DEF GoodLog
<1>3. Lacking(new, ours, Debian(b), b)
  BY <1>1, <1>2, DebianIs, IncomingIsLacking
<1>4. log = new \o ours
  BY DEF Resolved
<1> HIDE DEF new, log
<1>5. new \in Log
  BY <1>3 DEF Lacking
<1>6. /\ DOMAIN new = 1..n /\ n \in Nat /\ DOMAIN ours = 1..m /\ m \in Nat /\ m > 0
      /\ \A i \in 1..m : ours[i][1] \in 1..MaxRelease /\ ours[i][2] \in Int
      /\ b \in Nat
  BY <1>2, <1>5, StanzaIs, RebuildAssumption
<1>7. /\ log \in Log /\ Len(log) = n + m
      /\ \A i \in 1..n : log[i] = new[i]
      /\ \A i \in 1..m : log[n + i] = ours[i]
  <2>1. \A i \in 1..m : n + i > n /\ n + i \in 1..(n + m) /\ (n + i) - n = i BY <1>6
  <2> QED BY <1>2, <1>5, <1>4, <1>6, <2>1 DEF Log
<1>8. DOMAIN log = 1..(n + m)
  BY <1>7 DEF Log
<1> HIDE DEF n, m
<1>9. \A i \in 1..(n + m) : i \in 1..n \/ (i - n \in 1..m /\ n + (i - n) = i /\ i \notin 1..n)
  BY <1>6
<1>10. /\ \A i \in 1..n : \E k \in 1..b :
           new[i] = <<b + 1 - k, 0>> /\ ~Contains(ours, <<b + 1 - k, 0>>)
      /\ \A k \in 1..b : ~Contains(ours, <<b + 1 - k, 0>>) =>
           \E i \in 1..n : new[i] = <<b + 1 - k, 0>>
  <2>1. \A i \in 1..n : \E k \in 1..b :
          new[i] = Debian(b)[k] /\ ~Contains(ours, Debian(b)[k])
    BY <1>3 DEF Lacking, n
  <2>2. \A k \in 1..b : ~Contains(ours, Debian(b)[k]) =>
          \E i \in 1..n : new[i] = Debian(b)[k]
    BY <1>3 DEF Lacking, n
  <2> QED BY <1>1, <2>1, <2>2, Zenon
<1>11. \A i \in 1..n : /\ new[i][2] = 0 /\ new[i][1] \in 1..b
                      /\ ~Contains(ours, <<new[i][1], 0>>)
  <2> TAKE i \in 1..n
  <2>1. PICK k \in 1..b : new[i] = <<b + 1 - k, 0>> /\ ~Contains(ours, <<b + 1 - k, 0>>)
    BY <1>10
  <2>2. new[i][1] = b + 1 - k /\ new[i][2] = 0 BY <2>1
  <2>3. b + 1 - k \in 1..b BY <1>6
  <2> QED BY <2>1, <2>2, <2>3
<1>12. \A i \in 1..n : \A j \in 1..m : new[i][1] > ours[j][1]
  <2> TAKE i \in 1..n
  <2>1. new[i][1] \in 1..MaxRelease /\ ~Contains(ours, <<new[i][1], 0>>)
    BY <1>11, <1>6, RebuildAssumption
  <2>2. \A j \in DOMAIN ours : ours[j][1] < new[i][1]
    BY <2>1, MissingIsNewer
  <2> QED BY <2>1, <2>2, <1>6
<1>13. Descending(log)
  <2> SUFFICES ASSUME NEW i \in 1..(n + m), NEW j \in 1..(n + m), i < j
               PROVE  /\ log[i][1] >= log[j][1]
                      /\ \/ log[i][1] > log[j][1]
                         \/ Provisional \in {log[i][2], log[j][2]}
                         \/ log[i][2] > log[j][2]
    BY <1>8 DEF Descending
  <2>1. CASE i \in 1..n /\ j \in 1..n
    <3>1. PICK k \in 1..b, l \in 1..b :
             k < l /\ new[i] = <<b + 1 - k, 0>> /\ new[j] = <<b + 1 - l, 0>>
      <4>1. PICK k \in 1..b, l \in 1..b :
               k < l /\ new[i] = Debian(b)[k] /\ new[j] = Debian(b)[l]
        BY <2>1, <1>3 DEF Lacking, n
      <4> QED BY <4>1, <1>1
    <3>2. log[i][1] = b + 1 - k /\ log[j][1] = b + 1 - l BY <3>1, <2>1, <1>7
    <3>3. b + 1 - k > b + 1 - l BY <3>1, <1>6
    <3> QED BY <3>2, <3>3, <1>6
  <2>2. CASE i \in 1..n /\ j \notin 1..n
    <3>1. j - n \in 1..m /\ log[j] = ours[j - n] BY <2>2, <1>9, <1>7
    <3>2. log[i] = new[i] /\ new[i][1] > ours[j - n][1]
      BY <3>1, <2>2, <1>7, <1>12
    <3>3. new[i][1] \in Nat /\ ours[j - n][1] \in Nat
      <4>1. new[i][1] \in 1..b /\ ours[j - n][1] \in 1..MaxRelease BY <3>1, <2>2, <1>6, <1>11
      <4> QED BY <4>1
    <3> QED BY <3>1, <3>2, <3>3
  <2>3. CASE i \notin 1..n
    <3>1. j \notin 1..n BY <2>3, <1>6
    <3>2. /\ i - n \in 1..m /\ log[i] = ours[i - n]
          /\ j - n \in 1..m /\ log[j] = ours[j - n] /\ i - n < j - n
      BY <2>3, <3>1, <1>9, <1>7, <1>6
    <3> QED BY <3>2, <1>2, <1>6 DEF Descending
  <2> QED BY <2>1, <2>2, <2>3
<1>14. Complete(log)
  <2> SUFFICES ASSUME NEW i \in 1..(n + m), NEW r \in 1..log[i][1]
               PROVE  \E j \in 1..(n + m) : log[j] = <<r, 0>>
    BY <1>8 DEF Complete
  <2>1. CASE i \notin 1..n
    <3>1. i - n \in 1..m /\ log[i] = ours[i - n] BY <2>1, <1>9, <1>7
    <3>2. PICK j \in 1..m : ours[j] = <<r, 0>> BY <3>1, <1>2, <1>6 DEF Complete
    <3>3. n + j \in 1..(n + m) BY <1>6
    <3> QED BY <3>2, <3>3, <1>7
  <2>2. CASE i \in 1..n
    <3>1. log[i][1] \in 1..b BY <2>2, <1>11, <1>7
    <3>2. r \in 1..b BY <3>1, <1>6
    <3>3. CASE Contains(ours, <<r, 0>>)
      <4>1. PICK j \in 1..m : ours[j] = <<r, 0>> BY <3>3, <1>6 DEF Contains, m
      <4>2. n + j \in 1..(n + m) BY <1>6
      <4> QED BY <4>1, <4>2, <1>7
    <3>4. CASE ~Contains(ours, <<r, 0>>)
      <4>1. b + 1 - r \in 1..b /\ b + 1 - (b + 1 - r) = r BY <3>2, <1>6
      <4>2. PICK j \in 1..n : new[j] = <<r, 0>> BY <4>1, <3>4, <1>10
      <4>3. j \in 1..(n + m) BY <1>6
      <4> QED BY <4>2, <4>3, <1>7
    <3> QED BY <3>3, <3>4
  <2> QED BY <2>1, <2>2
<1>15. log # <<>>
  BY <1>6, <1>7
<1> QED BY <1>7, <1>13, <1>14, <1>15 DEF GoodLog, log

\* So does a stanza of the newest release put on top, when it is not versioned
\* yet or its rebuild is a new one.
LEMMA OnTopIsGood ==
  ASSUME NEW log, GoodLog(log), NEW s \in Stanza, s[1] = Head(log)[1],
         s[2] = Provisional \/ \A i \in DOMAIN log : log[i][1] = s[1] => log[i][2] < s[2]
  PROVE  GoodLog(<<s>> \o log) /\ Tail(<<s>> \o log) = log
<1> DEFINE new == <<s>> \o log
           n == Len(log)
<1>1. log \in Log /\ log # <<>> /\ Descending(log) /\ Complete(log)
  BY DEF GoodLog
<1>2. /\ n \in Nat /\ DOMAIN log = 1..n /\ n > 0
      /\ \A i \in 1..n : log[i][1] \in Nat /\ log[i][2] \in Int
  <2>1. n \in Nat /\ DOMAIN log = 1..n /\ \A i \in 1..n : log[i][1] \in Nat /\ log[i][2] \in Int
    BY <1>1, StanzaIs
  <2>2. n # 0 BY <1>1 DEF Log
  <2> QED BY <2>1, <2>2
<1>3. s[1] = log[1][1] /\ s[1] \in Nat /\ s[2] \in Int
  <2>1. Head(log) = log[1] BY <1>1 DEF Log
  <2>2. 1 \in 1..n BY <1>2
  <2>3. s[2] \in Int BY DEF Stanza, Provisional
  <2> QED BY <2>1, <2>2, <2>3, <1>2
<1>4. /\ new \in Log /\ new # <<>> /\ Len(new) = n + 1 /\ DOMAIN new = 1..(n + 1)
      /\ new[1] = s /\ \A i \in 1..n : new[i + 1] = log[i]
      /\ Tail(new) = log
  <2>1. <<s>> \in Log /\ Len(<<s>>) = 1 /\ <<s>>[1] = s BY DEF Log
  <2>2. new \in Log /\ Len(new) = n + 1 /\ DOMAIN new = 1..(n + 1)
    BY <1>1, <1>2, <2>1 DEF Log
  <2>3. new[1] = s /\ \A i \in 1..n : new[i + 1] = log[i]
    <3>1. \A i \in 1..n : i + 1 > 1 /\ i + 1 \in 1..(n + 1) /\ (i + 1) - 1 = i BY <1>2
    <3> QED BY <1>1, <1>2, <2>1, <3>1 DEF Log
  <2>4. new # <<>> BY <2>2, <1>2
  <2>5. Tail(new) \in Log /\ Len(Tail(new)) = n /\ \A i \in 1..n : Tail(new)[i] = new[i + 1]
    <3> HIDE DEF new
    <3> QED BY <2>2, <2>4, <1>2 DEF Log
  <2>6. Tail(new) = log
    <3> DEFINE t == Tail(new)
    <3>1. t \in Seq(Stanza) /\ log \in Seq(Stanza) /\ Len(t) = Len(log)
      BY <2>5, <1>1 DEF Log
    <3>2. \A i \in 1..Len(t) : t[i] = log[i] BY <2>5, <2>3
    <3> HIDE DEF t
    <3>3. t = log BY <3>1, <3>2, SeqEqual
    <3> QED BY <3>3 DEF t
  <2> QED BY <2>2, <2>3, <2>4, <2>6
<1> HIDE DEF new, n
<1>5. \A i \in 1..(n + 1) : i = 1 \/ (i - 1 \in 1..n /\ new[i] = log[i - 1] /\ i > 1)
  <2> TAKE i \in 1..(n + 1)
  <2>1. i # 1 => i - 1 \in 1..n /\ (i - 1) + 1 = i /\ i > 1 BY <1>2
  <2> QED BY <2>1, <1>4
<1>6. \A i \in 1..n : s[1] >= log[i][1]
  <2> TAKE i \in 1..n
  <2>1. 1 \in 1..n /\ (i = 1 \/ 1 < i) BY <1>2
  <2>2. 1 < i => log[1][1] >= log[i][1]
    BY <2>1, <1>1, <1>2 DEF Descending
  <2> QED BY <2>1, <2>2, <1>2, <1>3
<1>7. Descending(new)
  <2> SUFFICES ASSUME NEW i \in 1..(n + 1), NEW j \in 1..(n + 1), i < j
               PROVE  /\ new[i][1] >= new[j][1]
                      /\ \/ new[i][1] > new[j][1]
                         \/ Provisional \in {new[i][2], new[j][2]}
                         \/ new[i][2] > new[j][2]
    BY <1>4 DEF Descending
  <2>1. j - 1 \in 1..n /\ new[j] = log[j - 1] BY <1>2, <1>5
  <2>2. CASE i = 1
    <3>1. s[1] >= log[j - 1][1] /\ log[j - 1][1] \in Nat BY <2>1, <1>6, <1>2
    <3>2. \/ s[2] = Provisional
          \/ log[j - 1][1] = s[1] => log[j - 1][2] < s[2]
      BY <2>1, <1>2
    <3> QED BY <2>1, <2>2, <3>1, <3>2, <1>2, <1>3, <1>4
  <2>3. CASE i # 1
    <3>1. i - 1 \in 1..n /\ new[i] = log[i - 1] /\ i - 1 < j - 1 BY <2>3, <1>2, <1>5
    <3> QED BY <3>1, <2>1, <1>1, <1>2 DEF Descending
  <2> QED BY <2>2, <2>3
<1>8. Complete(new)
  <2> SUFFICES ASSUME NEW i \in 1..(n + 1), NEW r \in 1..new[i][1]
               PROVE  \E j \in 1..(n + 1) : new[j] = <<r, 0>>
    BY <1>4 DEF Complete
  <2>1. PICK k \in 1..n : new[i][1] = log[k][1]
    <3>1. CASE i = 1 BY <3>1, <1>2, <1>3, <1>4
    <3>2. CASE i # 1 BY <3>2, <1>5
    <3> QED BY <3>1, <3>2
  <2>2. PICK j \in 1..n : log[j] = <<r, 0>> BY <2>1, <1>1, <1>2 DEF Complete
  <2>3. j + 1 \in 1..(n + 1) BY <1>2
  <2> QED BY <2>2, <2>3, <1>4
<1> QED BY <1>4, <1>7, <1>8 DEF GoodLog, new

\* The rebuilds of a log are bounded.
LEMMA RebuildsAreBounded ==
  ASSUME NEW log \in Log
  PROVE  \E n \in Nat : \A i \in DOMAIN log : log[i][2] <= n
<1> DEFINE L == Len(log)
           Bounded(k) == \E n \in Nat : \A i \in 1..k : log[i][2] <= n
           Bad == {k \in 0..L : ~Bounded(k)}
<1>1. L \in Nat /\ DOMAIN log = 1..L /\ \A i \in 1..L : log[i][2] \in Int
  BY StanzaIs
<1> HIDE DEF L
<1>2. Bad = {}
  <2> SUFFICES ASSUME Bad # {} PROVE FALSE OBVIOUS
  <2>1. PICK k \in Bad : \A m \in Bad : k <= m
    <3>1. Bad \in SUBSET Nat BY <1>1
    <3> HIDE DEF Bad
    <3> QED BY <3>1, LeastExists, Zenon
  <2>2. k \in 0..L /\ ~Bounded(k) /\ k \in Nat
    <3> HIDE DEF Bounded
    <3> QED BY <2>1, <1>1
  <2>3. k # 0
    <3>1. 0 \in Nat /\ \A i \in 1..0 : log[i][2] <= 0 OBVIOUS
    <3>2. Bounded(0) BY <3>1
    <3> QED BY <3>2, <2>2
  <2>4. k - 1 \in 0..L /\ k - 1 \notin Bad
    <3> HIDE DEF Bounded
    <3> QED BY <2>1, <2>2, <2>3, <1>1
  <2>5. PICK n \in Nat : \A i \in 1..(k - 1) : log[i][2] <= n BY <2>4
  <2>6. log[k][2] \in Int BY <1>1, <2>2, <2>3
  <2> DEFINE m == IF log[k][2] > n THEN log[k][2] ELSE n
  <2>7. m \in Nat /\ n <= m /\ log[k][2] <= m BY <2>6
  <2>8. \A i \in 1..k : i = k \/ i \in 1..(k - 1) BY <2>2
  <2>9. \A i \in 1..k : log[i][2] <= m
    <3> HIDE DEF m
    <3> TAKE i \in 1..k
    <3>1. log[i][2] \in Int BY <2>2, <1>1
    <3>2. CASE i = k BY <3>2, <2>7
    <3>3. CASE i # k
      <4>1. log[i][2] <= n BY <3>3, <2>5, <2>8
      <4> QED BY <4>1, <3>1, <2>7
    <3> QED BY <3>2, <3>3
  <2> QED BY <2>2, <2>7, <2>9
<1>3. L \in 0..L BY <1>1
<1> QED BY <1>1, <1>2, <1>3

LEMMA GreatestOf ==
  ASSUME NEW n \in Nat, NEW S \in SUBSET Int, 0 \in S, \A x \in S : x <= n
  PROVE  Max(S) \in S /\ \A x \in S : Max(S) >= x
<1> DEFINE T == {n - x : x \in S}
<1>1. \A x \in S : n - x \in Nat /\ x \in Int
  OBVIOUS
<1>2. T \in SUBSET Nat /\ T # {}
  BY <1>1
<1>3. PICK t \in T : \A u \in T : t <= u
  <2> HIDE DEF T
  <2> QED BY <1>2, LeastExists, Zenon
<1>4. PICK m \in S : t = n - m
  OBVIOUS
<1>5. \A x \in S : m >= x
  <2> TAKE x \in S
  <2>1. n - x \in T OBVIOUS
  <2>2. t <= n - x BY <1>3, <2>1
  <2> HIDE DEF T
  <2>3. n - m <= n - x BY <2>2, <1>4
  <2> QED BY <2>3, <1>1
<1> QED BY <1>5 DEF Max

\* gbp dch and normalize_top_stanza keep a changelog in order.
LEMMA NextStanzaIsGood ==
  ASSUME NEW log, GoodLog(log)
  PROVE  /\ GoodLog(<<NextStanza(log)>> \o log)
         /\ GoodLog(<<<<Head(log)[1], Provisional>>>> \o log)
         /\ Tail(<<<<Head(log)[1], Provisional>>>> \o log) = log
<1> DEFINE base == Head(log)[1]
           same == {x \in Range(log) : x[1] = base}
           V == {0} \cup {s[2] : s \in same}
<1>1. log \in Log /\ log # <<>>
  BY DEF GoodLog
<1>2. Head(log) = log[1] /\ 1 \in DOMAIN log
  BY <1>1 DEF Log
<1>3. base \in 1..MaxRelease /\ base \in Nat
  BY <1>1, <1>2, StanzaIs
<1>4. \A x \in Range(log) : \E i \in DOMAIN log : x = log[i]
  BY DEF Range
<1>5. \A i \in DOMAIN log : log[i] \in Range(log)
  BY DEF Range
<1>6. PICK n \in Nat : \A i \in DOMAIN log : log[i][2] <= n
  BY <1>1, RebuildsAreBounded
<1>7. \A x \in Range(log) : x[2] \in Int /\ x[2] <= n
  BY <1>1, <1>4, <1>6, StanzaIs
<1>8. V \in SUBSET Int /\ 0 \in V /\ \A v \in V : v <= n
  BY <1>7
<1>9. Max(V) \in V /\ \A v \in V : Max(V) >= v
  <2> HIDE DEF V
  <2> QED BY <1>8, GreatestOf
<1>10. Max(V) \in Int /\ Max(V) >= 0
  <2> HIDE DEF V
  <2> QED BY <1>8, <1>9
<1> DEFINE s == NextStanza(log)
<1>11. s = <<base, Max(V) + 1>>
  BY DEF NextStanza
<1>12. s \in Stanza /\ s[1] = base /\ s[2] = Max(V) + 1
  <2> HIDE DEF s, V, base
  <2> QED BY <1>3, <1>10, <1>11 DEF Stanza
<1>13. \A i \in DOMAIN log : log[i][1] = base => log[i][2] < Max(V) + 1
  <2> TAKE i \in DOMAIN log
  <2> HAVE log[i][1] = base
  <2>1. log[i][2] \in V /\ log[i][2] \in Int BY <1>5, <1>7
  <2> HIDE DEF V, base
  <2> QED BY <2>1, <1>9, <1>10
<1>14. GoodLog(<<s>> \o log)
  <2> HIDE DEF s, V
  <2> QED BY <1>12, <1>13, OnTopIsGood
<1> DEFINE p == <<base, Provisional>>
<1>15. p \in Stanza /\ p[1] = base /\ p[2] = Provisional
  <2> HIDE DEF base
  <2> QED BY <1>3 DEF Stanza
<1>16. GoodLog(<<p>> \o log) /\ Tail(<<p>> \o log) = log
  <2> HIDE DEF p
  <2> QED BY <1>15, OnTopIsGood
<1> QED BY <1>14, <1>16

-----------------------------------------------------------------------------
(* Histories *)

\* The tip of a branch there is.
LEMMA TipIs ==
  ASSUME NEW h \in History
  PROVE  /\ Tip(h).tree \in Tree /\ Tip(h).at \in 0..MaxTime
         /\ h = <<>> => Tip(h).tree = NoTree /\ Tip(h).at = 0
         /\ h # <<>> => /\ Len(h) \in DOMAIN h /\ Tip(h) = h[Len(h)]
                        /\ Tip(h) \in [tree : Tree, at : 0..MaxTime]
<1>1. NoTree \in Tree /\ 0 \in 0..MaxTime
  BY RebuildAssumption DEF NoTree, Tree, Log
<1>2. CASE h = <<>>
  BY <1>1, <1>2 DEF Tip
<1>3. CASE h # <<>>
  <2>1. Len(h) \in DOMAIN h /\ h[Len(h)] \in [tree : Tree, at : 0..MaxTime]
    <3>1. Len(h) \in Nat /\ Len(h) # 0 /\ DOMAIN h = 1..Len(h) BY <1>3 DEF History
    <3>2. Len(h) \in DOMAIN h BY <3>1
    <3>3. h \in Seq([tree : Tree, at : 0..MaxTime]) /\ Len(h) \in 1..Len(h) BY <3>1 DEF History
    <3>4. h[Len(h)] \in [tree : Tree, at : 0..MaxTime] BY <3>3, ElementOfSeq
    <3> QED BY <3>2, <3>4
  <2>2. Tip(h) = h[Len(h)] BY <1>3 DEF Tip, Last
  <2> QED BY <2>1, <2>2, <1>3
<1> QED BY <1>2, <1>3

LEMMA AppendIs ==
  ASSUME NEW h \in History, NEW t \in Tree, NEW n \in 0..MaxTime
  PROVE  LET new == Append(h, [tree |-> t, at |-> n]) IN
         /\ new \in History /\ new # <<>>
         /\ Tip(new) = [tree |-> t, at |-> n]
         /\ GoodHistory(h) /\ GoodLog(t.log) => GoodHistory(new)
<1> DEFINE e == [tree |-> t, at |-> n]
           new == Append(h, e)
<1>1. e \in [tree : Tree, at : 0..MaxTime] /\ e.tree = t
  OBVIOUS
<1> HIDE DEF e
<1>2. /\ new \in History /\ Len(new) = Len(h) + 1 /\ new[Len(h) + 1] = e
      /\ Len(h) \in Nat /\ DOMAIN h = 1..Len(h) /\ DOMAIN new = 1..(Len(h) + 1)
      /\ \A i \in 1..Len(h) : new[i] = h[i]
  BY <1>1 DEF History
<1> HIDE DEF new
<1>3. new # <<>>
  BY <1>2
<1>4. Tip(new) = e
  BY <1>2, <1>3 DEF Tip, Last
<1>5. ASSUME GoodHistory(h), GoodLog(t.log) PROVE GoodHistory(new)
  <2> SUFFICES ASSUME NEW i \in 1..(Len(h) + 1) PROVE GoodLog(new[i].tree.log)
    BY <1>2 DEF GoodHistory
  <2>1. CASE i = Len(h) + 1 BY <2>1, <1>1, <1>2, <1>5
  <2>2. CASE i # Len(h) + 1
    <3>1. i \in 1..Len(h) BY <2>2, <1>2
    <3> QED BY <3>1, <1>2, <1>5 DEF GoodHistory
  <2> QED BY <2>1, <2>2
<1> QED BY <1>2, <1>3, <1>4, <1>5 DEF new, e

\* What Commit makes of a clone's branch.
LEMMA CommitIs ==
  ASSUME TypeInv, NEW c \in Clone, NEW contents \in Tree, Commit(c, contents)
  PROVE  /\ now' = now + 1 /\ now' \in 0..MaxTime
         /\ branch' \in [Clone -> History]
         /\ \A d \in Clone \ {c} : branch'[d] = branch[d]
         /\ branch'[c] # <<>>
         /\ Tip(branch'[c]) = [tree |-> contents, at |-> now']
         /\ GoodHistory(branch[c]) /\ GoodLog(contents.log) => GoodHistory(branch'[c])
<1>1. now' = now + 1 /\ now' \in 0..MaxTime
  BY RebuildAssumption DEF TypeInv, Commit
<1>2. branch \in [Clone -> History] /\ branch[c] \in History
  BY DEF TypeInv
<1> DEFINE new == Append(branch[c], [tree |-> contents, at |-> now'])
<1>3. /\ new \in History /\ new # <<>> /\ Tip(new) = [tree |-> contents, at |-> now']
      /\ GoodHistory(branch[c]) /\ GoodLog(contents.log) => GoodHistory(new)
  BY <1>1, <1>2, AppendIs
<1>4. branch' = [branch EXCEPT ![c] = new]
  BY DEF Commit
<1> HIDE DEF new
<1>5. /\ branch' \in [Clone -> History] /\ branch'[c] = new
      /\ \A d \in Clone \ {c} : branch'[d] = branch[d]
  BY <1>2, <1>3, <1>4
<1> QED BY <1>1, <1>3, <1>5

\* Where a step leaves its run.
LEMMA GoIs ==
  ASSUME TypeInv, NEW c \in Clone, NEW step \in Steps, Go(c, step)
  PROVE  /\ next' = next /\ run' \in [Clone -> Running]
         /\ run'[c].step = step /\ run'[c].built = run[c].built
         /\ \A d \in Clone \ {c} : run'[d] = run[d]
<1>1. run \in [Clone -> Running] /\ run[c] \in Running BY DEF TypeInv
<1>2. [run[c] EXCEPT !.step = step] \in Running BY <1>1 DEF Running
<1> QED BY <1>1, <1>2 DEF Go, Running

LEMMA DoneIs ==
  ASSUME TypeInv, NEW c \in Clone, NEW s \in Stage, Done(c, s)
  PROVE  /\ next' \in [Clone -> Stage] /\ run' \in [Clone -> Running]
         /\ next'[c] = After(s)
         /\ s = "upload" => run'[c] = NoRun
         /\ s # "upload" => run'[c].step = After(s) /\ run'[c].built = run[c].built
         /\ \A d \in Clone \ {c} : run'[d] = run[d] /\ next'[d] = next[d]
<1>1. run \in [Clone -> Running] /\ run[c] \in Running /\ next \in [Clone -> Stage]
  BY DEF TypeInv
<1>2. After(s) \in Stage /\ After(s) \in Steps
  BY StagesAre DEF Steps
<1>3. NoRun \in Running
  BY DEF NoRun, Running, Steps
<1>4. /\ [run[c] EXCEPT !.step = After(s)] \in Running
      /\ [run[c] EXCEPT !.step = After(s)].step = After(s)
      /\ [run[c] EXCEPT !.step = After(s)].built = run[c].built
  BY <1>1, <1>2 DEF Running
<1> QED BY <1>1, <1>2, <1>3, <1>4 DEF Done

LEMMA StoppedIs ==
  ASSUME TypeInv, NEW c \in Clone, Stopped(c)
  PROVE  /\ next' \in [Clone -> Stage] /\ run' \in [Clone -> Running]
         /\ next'[c] = StageOf(run[c].step) /\ run'[c] = NoRun
         /\ \A d \in Clone \ {c} : run'[d] = run[d] /\ next'[d] = next[d]
<1>1. run \in [Clone -> Running] /\ run[c] \in Running /\ next \in [Clone -> Stage]
  BY DEF TypeInv
<1>2. StageOf(run[c].step) \in Stage
  BY StagesAre DEF StageOf
<1>3. NoRun \in Running
  BY DEF NoRun, Running, Steps
<1> QED BY <1>1, <1>2, <1>3 DEF Stopped

-----------------------------------------------------------------------------
(* Types and changelogs: one lemma per group of actions *)

\* A step of one person changes nothing of another's, and only adds to the remote.
Others(c) ==
  /\ \A d \in Clone \ {c} :
       /\ branch'[d] = branch[d] /\ tree'[d] = tree[d] /\ merging'[d] = merging[d]
       /\ package'[d] = package[d] /\ next'[d] = next[d] /\ run'[d] = run[d]
  /\ now <= now'
  /\ remote' = remote \/ (remote' = branch[c] /\ IsPrefix(remote, branch[c]))

LEMMA SourceTreeIs ==
  ASSUME NEW b \in 1..MaxRelease
  PROVE  /\ SourceTree(b) \in Tree /\ GoodLog(SourceTree(b).log)
         /\ <<SourceCommit(b)>> \in History /\ <<SourceCommit(b)>> # <<>>
         /\ GoodHistory(<<SourceCommit(b)>>)
         /\ Tip(<<SourceCommit(b)>>) = [tree |-> SourceTree(b), at |-> 0]
<1>1. SourceTree(b) \in Tree /\ GoodLog(SourceTree(b).log)
  BY DebianIsGood DEF SourceTree, Tree, GoodLog
<1> DEFINE h == <<SourceCommit(b)>>
<1>2. SourceCommit(b) = [tree |-> SourceTree(b), at |-> 0] /\ 0 \in 0..MaxTime
  BY RebuildAssumption DEF SourceCommit
<1>3. SourceCommit(b) \in [tree : Tree, at : 0..MaxTime] /\ SourceCommit(b).tree = SourceTree(b)
  BY <1>1, <1>2
<1>4. h \in History /\ h # <<>> /\ Len(h) = 1 /\ h[1] = SourceCommit(b) /\ DOMAIN h = 1..1
  BY <1>3 DEF History
<1>5. Tip(h) = SourceCommit(b)
  BY <1>4 DEF Tip, Last
<1>6. GoodHistory(h)
  BY <1>1, <1>3, <1>4 DEF GoodHistory
<1> QED BY <1>1, <1>2, <1>4, <1>5, <1>6

\* A tree with another log, or with an edit, is one.
LEMMA TreeEdits ==
  ASSUME NEW t \in Tree, NEW log \in Log, NEW bool \in BOOLEAN
  PROVE  /\ t = [log |-> t.log, adjusted |-> t.adjusted, fix |-> t.fix]
         /\ [t EXCEPT !.log = log] \in Tree
         /\ [t EXCEPT !.log = log] = [log |-> log, adjusted |-> t.adjusted, fix |-> t.fix]
         /\ [t EXCEPT !.adjusted = bool] \in Tree
         /\ [t EXCEPT !.adjusted = bool] = [log |-> t.log, adjusted |-> bool, fix |-> t.fix]
         /\ [t EXCEPT !.fix = bool] \in Tree
         /\ [t EXCEPT !.fix = bool] = [log |-> t.log, adjusted |-> t.adjusted, fix |-> bool]
  BY DEF Tree

\* What the clone holds, with its types.
LEMMA CloneHas ==
  ASSUME TypeInv, LogInv, NEW c \in Clone
  PROVE  /\ branch[c] \in History /\ GoodHistory(branch[c])
         /\ tree[c] \in Tree /\ tree[c].log \in Log
         /\ Head_(c).tree \in Tree /\ Head_(c).at \in 0..MaxTime
         /\ branch[c] # <<>> => GoodLog(tree[c].log) /\ GoodLog(Head_(c).tree.log)
         /\ merging[c] \in Merge /\ package[c] \in SUBSET Package
         /\ next[c] \in Stage /\ run[c] \in Running
         /\ CloneInv(c) /\ (run[c].step \notin {"idle", "merge"} => branch[c] # <<>>)
<1>1. /\ branch[c] \in History /\ tree[c] \in Tree /\ merging[c] \in Merge
      /\ package[c] \in SUBSET Package /\ next[c] \in Stage /\ run[c] \in Running
  BY DEF TypeInv
<1>2. CloneInv(c)
  BY DEF LogInv
<1>3. tree[c].log \in Log
  BY <1>1 DEF Tree
<1>4. Head_(c).tree \in Tree /\ Head_(c).at \in 0..MaxTime
  BY <1>1, TipIs DEF Head_
<1>5. branch[c] # <<>> => GoodLog(Head_(c).tree.log)
  BY <1>1, <1>2, TipIs DEF Head_, CloneInv, GoodHistory
<1> QED BY <1>1, <1>2, <1>3, <1>4, <1>5 DEF CloneInv

\* Init.
LEMMA InitTypes == Init => TypeInv /\ LogInv
<1> SUFFICES ASSUME Init PROVE TypeInv /\ LogInv
  OBVIOUS
<1>1. <<>> \in History /\ DOMAIN <<>> = {} /\ <<>> \in Log
  BY DEF History, Log
<1>2. NoTree \in Tree
  BY <1>1 DEF NoTree, Tree
<1>3. NoMerge \in Merge
  BY RebuildAssumption DEF NoMerge, Merge
<1>4. NoRun \in Running /\ NoRun.step = "idle" /\ "merge" \in Stage
  BY StagesAre DEF NoRun, Running, Steps
<1>5. 1 \in 1..MaxRelease /\ 0 \in 0..MaxTime
  BY RebuildAssumption
<1>6. TypeInv
  BY <1>1, <1>2, <1>3, <1>4, <1>5 DEF Init, TypeInv
<1>7. GoodHistory(<<>>)
  BY <1>1 DEF GoodHistory
<1>8. ASSUME NEW c \in Clone PROVE CloneInv(c)
  BY <1>4, <1>7 DEF Init, CloneInv
<1> QED BY <1>6, <1>7, <1>8 DEF Init, LogInv

LEMMA BeginTypes ==
  ASSUME TypeInv, LogInv, NEW c \in Clone, NEW first \in {"merge", next[c]},
         NEW fetched \in Fetched(c), Begin(c, first, fetched)
  PROVE  TypeInv' /\ GoodHistory(remote') /\ CloneInv(c)' /\ Others(c)
<1>1. /\ branch[c] \in History /\ GoodHistory(branch[c]) /\ tree[c] \in Tree
      /\ branch[c] # <<>> => GoodLog(tree[c].log)
      /\ next[c] \in Stage /\ run[c] \in Running
  BY CloneHas
<1>2. fetched \in History /\ GoodHistory(fetched)
  <2>1. <<>> \in History /\ DOMAIN <<>> = {} BY DEF History
  <2>2. fetched = <<>> \/ fetched = remote BY DEF Fetched
  <2> QED BY <2>1, <2>2 DEF TypeInv, LogInv, GoodHistory
<1>3. first \in Stage /\ first \in Steps /\ first \notin {"idle", "normalize"}
  BY <1>1, StagesAre DEF Steps
<1>4. /\ run' \in [Clone -> Running] /\ run'[c].step = first
      /\ next' \in [Clone -> Stage]
      /\ \A d \in Clone \ {c} : run'[d] = run[d] /\ next'[d] = next[d]
  <2>1. [run[c] EXCEPT !.step = first] \in Running /\ [run[c] EXCEPT !.step = first].step = first
    BY <1>1, <1>3 DEF Running
  <2> QED BY <1>3, <2>1 DEF Begin, TypeInv
<1>5. Tip(fetched).tree \in Tree /\ (fetched # <<>> => GoodLog(Tip(fetched).tree.log))
  BY <1>2, TipIs DEF GoodHistory
<1>6. /\ branch' \in [Clone -> History] /\ tree' \in [Clone -> Tree]
      /\ \A d \in Clone \ {c} : branch'[d] = branch[d] /\ tree'[d] = tree[d]
      /\ GoodHistory(branch'[c])
      /\ branch'[c] # <<>> => GoodLog(tree'[c].log)
      /\ branch'[c] = <<>> => branch[c] = <<>> /\ first = "merge"
  <2>1. CASE branch[c] # <<>> \/ fetched = <<>>
    BY <2>1, <1>1 DEF Begin, TypeInv
  <2>2. CASE ~(branch[c] # <<>> \/ fetched = <<>>)
    <3>1. /\ branch' = [branch EXCEPT ![c] = fetched]
          /\ tree' = [tree EXCEPT ![c] = Tip(fetched).tree]
      BY <2>2 DEF Begin
    <3> QED BY <3>1, <2>2, <1>2, <1>5 DEF TypeInv
  <2> QED BY <2>1, <2>2
<1>7. UNCHANGED <<world, now, merging, package>> /\ sent' = {}
  BY DEF Begin, Turn
<1>8. TypeInv'
  BY <1>4, <1>6, <1>7 DEF TypeInv, world
<1>9. CloneInv(c)'
  BY <1>3, <1>4, <1>6, <1>7 DEF LogInv, CloneInv
<1>10. GoodHistory(remote')
  BY <1>7 DEF LogInv, world
<1>11. now \in Nat BY RebuildAssumption DEF TypeInv
<1>12. Others(c)
  BY <1>4, <1>6, <1>7, <1>11 DEF Others, world
<1> QED BY <1>8, <1>9, <1>10, <1>12

\* A step that changes nothing of the clone but where its run is.
LEMMA StillTypes ==
  ASSUME TypeInv, LogInv, NEW c \in Clone, UNCHANGED <<world, now, branch, tree, merging>>,
         package' \in [Clone -> SUBSET Package], \A p, q \in package'[c] : p = q,
         next' \in [Clone -> Stage], run' \in [Clone -> Running],
         \A d \in Clone \ {c} : run'[d] = run[d] /\ next'[d] = next[d] /\ package'[d] = package[d],
         run'[c].step \in {"idle", "merge"} \/ branch[c] # <<>>,
         run'[c].step # "normalize", \A u \in sent' : u \in UploadOf
  PROVE  TypeInv' /\ GoodHistory(remote') /\ CloneInv(c)' /\ Others(c)
<1>1. now \in Nat BY RebuildAssumption DEF TypeInv
<1>2. CloneInv(c) BY DEF LogInv
<1>3. TypeInv'
  BY DEF TypeInv, world
<1>4. CloneInv(c)'
  BY <1>2 DEF CloneInv
<1>5. GoodHistory(remote') /\ Others(c)
  BY <1>1 DEF LogInv, world, Others
<1> QED BY <1>3, <1>4, <1>5

\* A step that ends with the clone's branch and tree as given.
LEMMA MovedTypes ==
  ASSUME TypeInv, LogInv, NEW c \in Clone, UNCHANGED world, now <= now', now' \in 0..MaxTime,
         branch' \in [Clone -> History], tree' \in [Clone -> Tree],
         merging' \in [Clone -> Merge], package' \in [Clone -> SUBSET Package],
         \A p, q \in package'[c] : p = q,
         next' \in [Clone -> Stage], run' \in [Clone -> Running],
         \A d \in Clone \ {c} :
           /\ branch'[d] = branch[d] /\ tree'[d] = tree[d] /\ merging'[d] = merging[d]
           /\ package'[d] = package[d] /\ next'[d] = next[d] /\ run'[d] = run[d],
         GoodHistory(branch'[c]), branch'[c] # <<>>, GoodLog(tree'[c].log),
         run'[c].step = "normalize" => GoodLog(Tail(tree'[c].log)), sent' = {}
  PROVE  TypeInv' /\ GoodHistory(remote') /\ CloneInv(c)' /\ Others(c)
<1>1. TypeInv'
  BY DEF TypeInv, world
<1>2. CloneInv(c)'
  BY DEF CloneInv
<1>3. GoodHistory(remote') /\ Others(c)
  BY DEF LogInv, world, Others
<1> QED BY <1>1, <1>2, <1>3

LEMMA MergeTypes ==
  ASSUME TypeInv, LogInv, NEW c \in Clone,
         Create(c) \/ MergeClean(c) \/ MergeConflict(c) \/ Refuse(c) \/ Resolve(c) \/ Conclude(c)
  PROVE  TypeInv' /\ GoodHistory(remote') /\ CloneInv(c)' /\ Others(c)
<1>1. /\ branch[c] \in History /\ GoodHistory(branch[c])
      /\ tree[c] \in Tree /\ tree[c].log \in Log
      /\ Head_(c).tree \in Tree
      /\ branch[c] # <<>> => GoodLog(tree[c].log) /\ GoodLog(Head_(c).tree.log)
      /\ merging[c] \in Merge /\ next[c] \in Stage /\ run[c] \in Running
      /\ run[c].step \notin {"idle", "merge"} => branch[c] # <<>>
  BY CloneHas
<1>2. /\ now \in Nat /\ now <= now /\ now \in 0..MaxTime /\ release \in 1..MaxRelease
      /\ release \in 0..MaxRelease
  BY RebuildAssumption DEF TypeInv
<1>3. /\ branch \in [Clone -> History] /\ tree \in [Clone -> Tree]
      /\ merging \in [Clone -> Merge] /\ package \in [Clone -> SUBSET Package]
      /\ next \in [Clone -> Stage] /\ run \in [Clone -> Running]
      /\ \A p, q \in package[c] : p = q
  BY DEF TypeInv
<1>4. {"adjust", "resolve", "conclude"} \subseteq Steps
  BY DEF Steps
<1>5. CASE Create(c)
  <2>1. /\ SourceTree(release) \in Tree /\ GoodLog(SourceTree(release).log)
        /\ <<SourceCommit(release)>> \in History /\ <<SourceCommit(release)>> # <<>>
        /\ GoodHistory(<<SourceCommit(release)>>)
    BY <1>2, SourceTreeIs
  <2>2. /\ branch' = [branch EXCEPT ![c] = <<SourceCommit(release)>>]
        /\ tree' = [tree EXCEPT ![c] = SourceTree(release)]
        /\ Go(c, "adjust") /\ UNCHANGED <<world, now, merging, package>> /\ sent' = {}
    BY <1>5 DEF Create, Turn
  <2>3. /\ branch' \in [Clone -> History] /\ tree' \in [Clone -> Tree]
        /\ branch'[c] = <<SourceCommit(release)>> /\ tree'[c] = SourceTree(release)
        /\ \A d \in Clone \ {c} : branch'[d] = branch[d] /\ tree'[d] = tree[d]
    BY <1>3, <2>1, <2>2
  <2>4. /\ next' = next /\ run' \in [Clone -> Running] /\ run'[c].step = "adjust"
        /\ \A d \in Clone \ {c} : run'[d] = run[d]
    BY <1>4, <2>2, GoIs
  <2> QED BY <1>2, <1>3, <2>1, <2>2, <2>3, <2>4, MovedTypes
<1>6. CASE MergeClean(c)
  <2>1. branch[c] # <<>> /\ Go(c, "adjust") /\ UNCHANGED <<world, merging, package>> /\ sent' = {}
    BY <1>6 DEF MergeClean, Turn
  <2>2. /\ next' = next /\ run' \in [Clone -> Running] /\ run'[c].step = "adjust"
        /\ \A d \in Clone \ {c} : run'[d] = run[d]
    BY <1>4, <2>1, GoIs
  <2>3. CASE Merged(c) /\ UNCHANGED <<now, branch, tree>>
    BY <1>1, <1>2, <1>3, <2>1, <2>2, <2>3, MovedTypes
  <2>4. CASE ~(Merged(c) /\ UNCHANGED <<now, branch, tree>>)
    <3> DEFINE log == Resolved(tree[c].log, Debian(release))
               contents == [Head_(c).tree EXCEPT !.log = log]
    <3>1. /\ Commit(c, contents) /\ tree' = [tree EXCEPT ![c] = [tree[c] EXCEPT !.log = log]]
      BY <1>6, <2>4 DEF MergeClean
    <3>2. GoodLog(log) /\ log \in Log
      BY <1>1, <1>2, <2>1, ResolvedIsGood DEF GoodLog
    <3> HIDE DEF log
    <3>3. contents \in Tree /\ contents.log = log
      BY <1>1, <3>2, TreeEdits
    <3>4. [tree[c] EXCEPT !.log = log] \in Tree /\ [tree[c] EXCEPT !.log = log].log = log
      BY <1>1, <3>2, TreeEdits
    <3> HIDE DEF contents
    <3>5. /\ now' = now + 1 /\ now' \in 0..MaxTime /\ branch' \in [Clone -> History]
          /\ \A d \in Clone \ {c} : branch'[d] = branch[d]
          /\ branch'[c] # <<>> /\ GoodHistory(branch'[c])
      BY <1>1, <3>1, <3>2, <3>3, CommitIs
    <3>6. /\ tree' \in [Clone -> Tree] /\ GoodLog(tree'[c].log)
          /\ \A d \in Clone \ {c} : tree'[d] = tree[d]
      BY <1>3, <3>1, <3>2, <3>4
    <3>7. now <= now' BY <1>2, <3>5
    <3> QED BY <1>3, <2>1, <2>2, <3>5, <3>6, <3>7, MovedTypes
  <2> QED BY <2>3, <2>4
<1>7. CASE MergeConflict(c)
  <2>1. /\ branch[c] # <<>> /\ Go(c, "resolve") /\ UNCHANGED <<world, now, branch, tree, package>>
        /\ sent' = {}
    BY <1>7 DEF MergeConflict, Turn
  <2>2. /\ next' = next /\ run' \in [Clone -> Running] /\ run'[c].step = "resolve"
        /\ \A d \in Clone \ {c} : run'[d] = run[d]
    BY <1>4, <2>1, GoIs
  <2>3. merging' \in [Clone -> Merge] /\ \A d \in Clone \ {c} : merging'[d] = merging[d]
    <3>1. CASE merging[c] # NoMerge
      BY <3>1, <1>7, <1>3 DEF MergeConflict
    <3>2. CASE merging[c] = NoMerge
      <4>1. PICK state \in {"changelog", "others"} :
              merging' = [merging EXCEPT ![c] = [theirs |-> release, state |-> state]]
        BY <3>2, <1>7 DEF MergeConflict
      <4>2. [theirs |-> release, state |-> state] \in Merge BY <1>2 DEF Merge
      <4> QED BY <4>1, <4>2, <1>3
    <3> QED BY <3>1, <3>2
  <2> QED BY <1>1, <1>2, <1>3, <2>1, <2>2, <2>3, MovedTypes
<1>8. CASE Refuse(c)
  <2>1. Stopped(c) /\ UNCHANGED <<world, now, local>> /\ sent' = {}
    BY <1>8 DEF Refuse, Turn
  <2>2. NoRun.step = "idle" BY DEF NoRun
  <2> QED BY <1>3, <2>1, <2>2, StoppedIs, StillTypes DEF local
<1>9. CASE Resolve(c)
  <2> DEFINE log == Resolved(tree[c].log, Debian(merging[c].theirs))
  <2>1. /\ tree' = [tree EXCEPT ![c] = [tree[c] EXCEPT !.log = log]]
        /\ merging' = [merging EXCEPT ![c] = [merging[c] EXCEPT !.state = "resolved"]]
        /\ Go(c, "conclude") /\ UNCHANGED <<world, now, branch, package>> /\ sent' = {}
        /\ run[c].step = "resolve"
    BY <1>9 DEF Resolve, Turn
  <2>2. branch[c] # <<>> BY <1>1, <2>1
  <2>3. merging[c].theirs \in 0..MaxRelease BY <1>1 DEF Merge
  <2>4. GoodLog(log) /\ log \in Log
    BY <1>1, <2>2, <2>3, ResolvedIsGood DEF GoodLog
  <2> HIDE DEF log
  <2>5. [tree[c] EXCEPT !.log = log] \in Tree /\ [tree[c] EXCEPT !.log = log].log = log
    BY <1>1, <2>4, TreeEdits
  <2>6. [merging[c] EXCEPT !.state = "resolved"] \in Merge
    BY <1>1 DEF Merge
  <2>7. /\ tree' \in [Clone -> Tree] /\ merging' \in [Clone -> Merge] /\ GoodLog(tree'[c].log)
        /\ \A d \in Clone \ {c} : tree'[d] = tree[d] /\ merging'[d] = merging[d]
    BY <1>3, <2>1, <2>4, <2>5, <2>6
  <2>8. /\ next' = next /\ run' \in [Clone -> Running] /\ run'[c].step = "conclude"
        /\ \A d \in Clone \ {c} : run'[d] = run[d]
    BY <1>4, <2>1, GoIs
  <2> QED BY <1>1, <1>2, <1>3, <2>1, <2>2, <2>7, <2>8, MovedTypes
<1>10. CASE Conclude(c)
  <2> DEFINE contents == [Head_(c).tree EXCEPT !.log = tree[c].log]
  <2>1. /\ Commit(c, contents) /\ merging' = [merging EXCEPT ![c] = NoMerge]
        /\ Go(c, "adjust") /\ UNCHANGED <<world, tree, package>> /\ sent' = {}
        /\ run[c].step = "conclude"
    BY <1>10 DEF Conclude, Turn
  <2>2. branch[c] # <<>> BY <1>1, <2>1
  <2>3. contents \in Tree /\ contents.log = tree[c].log
    BY <1>1, TreeEdits
  <2> HIDE DEF contents
  <2>4. /\ now' = now + 1 /\ now' \in 0..MaxTime /\ branch' \in [Clone -> History]
        /\ \A d \in Clone \ {c} : branch'[d] = branch[d]
        /\ branch'[c] # <<>> /\ GoodHistory(branch'[c])
    BY <1>1, <2>1, <2>2, <2>3, CommitIs
  <2>5. NoMerge \in Merge BY RebuildAssumption DEF NoMerge, Merge
  <2>6. merging' \in [Clone -> Merge] /\ \A d \in Clone \ {c} : merging'[d] = merging[d]
    BY <1>3, <2>1, <2>5
  <2>7. /\ next' = next /\ run' \in [Clone -> Running] /\ run'[c].step = "adjust"
        /\ \A d \in Clone \ {c} : run'[d] = run[d]
    BY <1>4, <2>1, GoIs
  <2>8. now <= now' BY <1>2, <2>4
  <2> QED BY <1>1, <1>3, <2>1, <2>2, <2>4, <2>6, <2>7, <2>8, MovedTypes
<1> QED BY <1>5, <1>6, <1>7, <1>8, <1>9, <1>10

LEMMA EntryTypes ==
  ASSUME TypeInv, LogInv, NEW c \in Clone,
         Adjust(c) \/ CommitFile(c) \/ Dch(c) \/ Normalize(c) \/ CommitEntry(c)
  PROVE  TypeInv' /\ GoodHistory(remote') /\ CloneInv(c)' /\ Others(c)
<1>1. /\ branch[c] \in History /\ GoodHistory(branch[c])
      /\ tree[c] \in Tree /\ tree[c].log \in Log
      /\ Head_(c).tree \in Tree /\ CloneInv(c)
      /\ branch[c] # <<>> => GoodLog(tree[c].log) /\ GoodLog(Head_(c).tree.log)
      /\ next[c] \in Stage /\ run[c] \in Running
      /\ run[c].step \notin {"idle", "merge"} => branch[c] # <<>>
  BY CloneHas
<1>2. branch[c] # <<>> /\ GoodLog(tree[c].log) /\ GoodLog(Head_(c).tree.log)
  BY <1>1 DEF Adjust, CommitFile, Dch, Normalize, CommitEntry
<1>3. now \in Nat /\ now <= now /\ now \in 0..MaxTime
  BY RebuildAssumption DEF TypeInv
<1>4. /\ branch \in [Clone -> History] /\ tree \in [Clone -> Tree]
      /\ merging \in [Clone -> Merge] /\ package \in [Clone -> SUBSET Package]
      /\ next \in [Clone -> Stage] /\ run \in [Clone -> Running]
      /\ \A p, q \in package[c] : p = q
  BY DEF TypeInv
<1>5. {"dch", "commit file", "normalize", "commit entry"} \subseteq Steps
  BY DEF Steps
<1>6. CASE Adjust(c)
  <2>1. /\ tree' = [tree EXCEPT ![c] = [tree[c] EXCEPT !.adjusted = TRUE]]
        /\ Go(c, IF tree'[c] = tree[c] THEN "dch" ELSE "commit file")
        /\ UNCHANGED <<world, now, branch, merging, package>> /\ sent' = {}
    BY <1>6 DEF Adjust, Turn
  <2>2. /\ [tree[c] EXCEPT !.adjusted = TRUE] \in Tree
        /\ [tree[c] EXCEPT !.adjusted = TRUE].log = tree[c].log
    BY <1>1, TreeEdits
  <2>3. /\ tree' \in [Clone -> Tree] /\ GoodLog(tree'[c].log)
        /\ \A d \in Clone \ {c} : tree'[d] = tree[d]
    BY <1>2, <1>4, <2>1, <2>2
  <2> DEFINE step == IF tree'[c] = tree[c] THEN "dch" ELSE "commit file"
  <2>4. step \in Steps /\ step # "normalize"
    BY <1>5
  <2>5. Go(c, step) BY <2>1
  <2> HIDE DEF step
  <2>6. /\ next' = next /\ run' \in [Clone -> Running] /\ run'[c].step = step
        /\ \A d \in Clone \ {c} : run'[d] = run[d]
    BY <2>4, <2>5, GoIs
  <2> QED BY <1>1, <1>2, <1>3, <1>4, <2>1, <2>3, <2>4, <2>6, MovedTypes
<1>7. CASE CommitFile(c)
  <2> DEFINE contents == [Head_(c).tree EXCEPT !.adjusted = TRUE]
  <2>1. /\ Commit(c, contents) /\ Go(c, "dch") /\ UNCHANGED <<world, tree, merging, package>>
        /\ sent' = {}
    BY <1>7 DEF CommitFile, Turn
  <2>2. contents \in Tree /\ GoodLog(contents.log)
    BY <1>1, <1>2, TreeEdits
  <2> HIDE DEF contents
  <2>3. /\ now' = now + 1 /\ now' \in 0..MaxTime /\ branch' \in [Clone -> History]
        /\ \A d \in Clone \ {c} : branch'[d] = branch[d]
        /\ branch'[c] # <<>> /\ GoodHistory(branch'[c])
    BY <1>1, <2>1, <2>2, CommitIs
  <2>4. /\ next' = next /\ run' \in [Clone -> Running] /\ run'[c].step = "dch"
        /\ \A d \in Clone \ {c} : run'[d] = run[d]
    BY <1>5, <2>1, GoIs
  <2>5. now <= now' BY <1>3, <2>3
  <2> QED BY <1>2, <1>4, <2>1, <2>3, <2>4, <2>5, MovedTypes
<1>8. CASE Dch(c)
  <2> DEFINE log == <<<<Head(tree[c].log)[1], Provisional>>>> \o tree[c].log
  <2>1. /\ tree' = [tree EXCEPT ![c] = [tree[c] EXCEPT !.log = log]]
        /\ Go(c, "normalize") /\ UNCHANGED <<world, now, branch, merging, package>> /\ sent' = {}
    BY <1>8 DEF Dch, Turn
  <2>2. GoodLog(log) /\ Tail(log) = tree[c].log /\ log \in Log
    BY <1>2, NextStanzaIsGood DEF GoodLog
  <2> HIDE DEF log
  <2>3. [tree[c] EXCEPT !.log = log] \in Tree /\ [tree[c] EXCEPT !.log = log].log = log
    BY <1>1, <2>2, TreeEdits
  <2>4. /\ tree' \in [Clone -> Tree] /\ tree'[c].log = log
        /\ \A d \in Clone \ {c} : tree'[d] = tree[d]
    BY <1>4, <2>1, <2>3
  <2>5. /\ next' = next /\ run' \in [Clone -> Running] /\ run'[c].step = "normalize"
        /\ \A d \in Clone \ {c} : run'[d] = run[d]
    BY <1>5, <2>1, GoIs
  <2>6. GoodLog(tree'[c].log) /\ GoodLog(Tail(tree'[c].log))
    BY <1>2, <2>2, <2>4
  <2> QED BY <1>1, <1>2, <1>3, <1>4, <2>1, <2>4, <2>5, <2>6, MovedTypes
<1>9. CASE Normalize(c)
  <2> DEFINE rest == Tail(tree[c].log)
             log == <<NextStanza(rest)>> \o rest
  <2>1. /\ tree' = [tree EXCEPT ![c] = [tree[c] EXCEPT !.log = log]]
        /\ Go(c, "commit entry") /\ UNCHANGED <<world, now, branch, merging, package>> /\ sent' = {}
        /\ run[c].step = "normalize"
    BY <1>9 DEF Normalize, Turn
  <2>2. GoodLog(rest)
    BY <1>1, <2>1 DEF CloneInv
  <2>3. GoodLog(log) /\ log \in Log
    <3> HIDE DEF rest
    <3> QED BY <2>2, NextStanzaIsGood DEF GoodLog
  <2> HIDE DEF log
  <2>4. [tree[c] EXCEPT !.log = log] \in Tree /\ [tree[c] EXCEPT !.log = log].log = log
    BY <1>1, <2>3, TreeEdits
  <2>5. /\ tree' \in [Clone -> Tree] /\ tree'[c].log = log
        /\ \A d \in Clone \ {c} : tree'[d] = tree[d]
    BY <1>4, <2>1, <2>4
  <2>6. /\ next' = next /\ run' \in [Clone -> Running] /\ run'[c].step = "commit entry"
        /\ \A d \in Clone \ {c} : run'[d] = run[d]
    BY <1>5, <2>1, GoIs
  <2>7. GoodLog(tree'[c].log)
    BY <2>3, <2>5
  <2> QED BY <1>1, <1>2, <1>3, <1>4, <2>1, <2>5, <2>6, <2>7, MovedTypes
<1>10. CASE CommitEntry(c)
  <2> DEFINE contents == [Head_(c).tree EXCEPT !.log = tree[c].log]
  <2>1. /\ Commit(c, contents) /\ Done(c, "merge") /\ UNCHANGED <<world, tree, merging, package>>
        /\ sent' = {}
    BY <1>10 DEF CommitEntry, Turn
  <2>2. contents \in Tree /\ GoodLog(contents.log)
    BY <1>1, <1>2, TreeEdits
  <2> HIDE DEF contents
  <2>3. /\ now' = now + 1 /\ now' \in 0..MaxTime /\ branch' \in [Clone -> History]
        /\ \A d \in Clone \ {c} : branch'[d] = branch[d]
        /\ branch'[c] # <<>> /\ GoodHistory(branch'[c])
    BY <1>1, <2>1, <2>2, CommitIs
  <2>4. /\ next' \in [Clone -> Stage] /\ run' \in [Clone -> Running] /\ run'[c].step = "source"
        /\ \A d \in Clone \ {c} : run'[d] = run[d] /\ next'[d] = next[d]
    BY <2>1, DoneIs, StagesAre
  <2>5. now <= now' BY <1>3, <2>3
  <2> QED BY <1>2, <1>4, <2>1, <2>3, <2>4, <2>5, MovedTypes
<1> QED BY <1>6, <1>7, <1>8, <1>9, <1>10

\* A source package just built.
LEMMA DebuildIs ==
  ASSUME TypeInv, LogInv, NEW c \in Clone, NEW dest \in {"archive", "elsewhere"}, Debuild(c, dest),
         branch[c] # <<>>
  PROVE  LET p == [version |-> Top(c), tree |-> tree[c], of |-> Head_(c).at,
                   orig |-> OrigRequired(dest), built |-> now]
         IN  /\ package' \in [Clone -> SUBSET Package] /\ package'[c] = {p} /\ p \in Package
             /\ \A d \in Clone \ {c} : package'[d] = package[d]
<1>1. /\ tree[c] \in Tree /\ GoodLog(tree[c].log) /\ Head_(c).at \in 0..MaxTime
  BY CloneHas
<1>2. Top(c) \in Stanza
  <2>1. tree[c].log \in Seq(Stanza) /\ tree[c].log # <<>> BY <1>1 DEF GoodLog, Log
  <2> QED BY <2>1 DEF Top
<1>3. now \in 0..MaxTime /\ OrigRequired(dest) \in BOOLEAN
  BY DEF TypeInv, OrigRequired
<1> DEFINE p == [version |-> Top(c), tree |-> tree[c], of |-> Head_(c).at,
                 orig |-> OrigRequired(dest), built |-> now]
<1>4. p \in Package
  BY <1>1, <1>2, <1>3 DEF Package
<1>5. package' = [package EXCEPT ![c] = {p}]
  BY DEF Debuild
<1> HIDE DEF p
<1>6. /\ package' \in [Clone -> SUBSET Package] /\ package'[c] = {p}
      /\ \A d \in Clone \ {c} : package'[d] = package[d]
  BY <1>4, <1>5 DEF TypeInv
<1> QED BY <1>4, <1>6 DEF p

LEMMA PackageTypes ==
  ASSUME TypeInv, LogInv, NEW c \in Clone, NEW dest \in Destination[c],
         Source(c, dest) \/ Refresh(c, dest) \/ Upload(c, dest)
  PROVE  TypeInv' /\ GoodHistory(remote') /\ CloneInv(c)' /\ Others(c)
<1>1. /\ branch[c] \in History /\ next[c] \in Stage /\ run[c] \in Running
      /\ Head_(c).at \in 0..MaxTime /\ package[c] \in SUBSET Package
      /\ run[c].step \notin {"idle", "merge"} => branch[c] # <<>>
      /\ GoodHistory(branch[c])
  BY CloneHas
<1>2. dest \in {"archive", "elsewhere"}
  BY RebuildAssumption
<1>3. /\ branch \in [Clone -> History] /\ tree \in [Clone -> Tree]
      /\ merging \in [Clone -> Merge] /\ package \in [Clone -> SUBSET Package]
      /\ next \in [Clone -> Stage] /\ run \in [Clone -> Running]
      /\ \A p, q \in package[c] : p = q
  BY DEF TypeInv
<1>4. NoRun.step = "idle" BY DEF NoRun
<1>5. CASE Source(c, dest)
  <2>1. /\ Debuild(c, dest) /\ next' = [next EXCEPT ![c] = "build"] /\ run[c].step = "source"
        /\ run' = [run EXCEPT ![c] = [step |-> "build", built |-> dest]]
        /\ UNCHANGED <<world, now, branch, tree, merging>> /\ sent' = {}
    BY <1>5 DEF Source, Turn
  <2>2. branch[c] # <<>> BY <1>1, <2>1
  <2>3. /\ package' \in [Clone -> SUBSET Package] /\ \A p, q \in package'[c] : p = q
        /\ \A d \in Clone \ {c} : package'[d] = package[d]
    BY <1>2, <2>1, <2>2, DebuildIs
  <2>4. "build" \in Stage /\ [step |-> "build", built |-> dest] \in Running
    BY <1>2, StagesAre DEF Running, Steps
  <2>5. /\ next' \in [Clone -> Stage] /\ run' \in [Clone -> Running] /\ run'[c].step = "build"
        /\ \A d \in Clone \ {c} : run'[d] = run[d] /\ next'[d] = next[d]
    BY <1>3, <2>1, <2>4
  <2> QED BY <2>1, <2>2, <2>3, <2>5, StillTypes
<1>6. CASE Refresh(c, dest)
  <2>1. /\ Debuild(c, dest) /\ run[c].step \in {"build", "upload"}
        /\ run' = [run EXCEPT ![c] = [run[c] EXCEPT !.built = dest]]
        /\ UNCHANGED <<world, now, branch, tree, merging, next>> /\ sent' = {}
    BY <1>6 DEF Refresh, Turn
  <2>2. branch[c] # <<>> BY <1>1, <2>1
  <2>3. /\ package' \in [Clone -> SUBSET Package] /\ \A p, q \in package'[c] : p = q
        /\ \A d \in Clone \ {c} : package'[d] = package[d]
    BY <1>2, <2>1, <2>2, DebuildIs
  <2>4. /\ [run[c] EXCEPT !.built = dest] \in Running
        /\ [run[c] EXCEPT !.built = dest].step = run[c].step
    BY <1>1, <1>2 DEF Running
  <2>5. /\ run' \in [Clone -> Running] /\ run'[c].step # "normalize"
        /\ \A d \in Clone \ {c} : run'[d] = run[d]
    BY <1>3, <2>1, <2>4
  <2> QED BY <1>3, <2>1, <2>2, <2>3, <2>5, StillTypes
<1>7. CASE Upload(c, dest)
  <2>1. /\ run[c].step = "upload" /\ Done(c, "upload") /\ UNCHANGED <<world, now, local>>
        /\ sent' = {[package |-> p, dest |-> dest, head |-> Head_(c).at,
                     declined |-> ~Usable(c, dest)] : p \in Packages(c, Top(c))}
    BY <1>7 DEF Upload, Turn
  <2>2. /\ next' \in [Clone -> Stage] /\ run' \in [Clone -> Running] /\ run'[c] = NoRun
        /\ \A d \in Clone \ {c} : run'[d] = run[d] /\ next'[d] = next[d]
    BY <2>1, DoneIs, StagesAre
  <2>3. \A u \in sent' : u \in UploadOf
    <3>1. \A p \in Packages(c, Top(c)) : p \in Package BY <1>1 DEF Packages
    <3> DEFINE declined == ~Usable(c, dest)
    <3>2. declined \in BOOLEAN OBVIOUS
    <3>3. sent' = {[package |-> p, dest |-> dest, head |-> Head_(c).at, declined |-> declined] :
                     p \in Packages(c, Top(c))}
      BY <2>1
    <3> HIDE DEF declined
    <3> QED BY <1>1, <1>2, <3>1, <3>2, <3>3 DEF UploadOf
  <2> QED BY <1>3, <1>4, <2>1, <2>2, <2>3, StillTypes DEF local
<1> QED BY <1>5, <1>6, <1>7

LEMMA PipelineTypes ==
  ASSUME TypeInv, LogInv, NEW c \in Clone,
         NoSource(c) \/ Build(c) \/ Push(c) \/ Rejected(c) \/ Stop(c)
  PROVE  TypeInv' /\ GoodHistory(remote') /\ CloneInv(c)' /\ Others(c)
<1>1. /\ branch[c] \in History /\ next[c] \in Stage /\ run[c] \in Running
      /\ Head_(c).at \in 0..MaxTime /\ package[c] \in SUBSET Package
      /\ run[c].step \notin {"idle", "merge"} => branch[c] # <<>>
      /\ GoodHistory(branch[c])
  BY CloneHas
<1>3. /\ branch \in [Clone -> History] /\ tree \in [Clone -> Tree]
      /\ merging \in [Clone -> Merge] /\ package \in [Clone -> SUBSET Package]
      /\ next \in [Clone -> Stage] /\ run \in [Clone -> Running]
      /\ \A p, q \in package[c] : p = q
  BY DEF TypeInv
<1>4. NoRun.step = "idle" BY DEF NoRun
<1>8. CASE NoSource(c) \/ Rejected(c) \/ Stop(c)
  <2>1. Stopped(c) /\ UNCHANGED <<world, now, local>> /\ sent' = {}
    BY <1>8 DEF NoSource, Rejected, Stop, Turn
  <2> QED BY <1>3, <1>4, <2>1, StoppedIs, StillTypes DEF local
<1>9. CASE Build(c)
  <2>1. /\ run[c].step = "build" /\ Done(c, "build")
        /\ UNCHANGED <<world, now, local>> /\ sent' = {}
    BY <1>9 DEF Build, Turn
  <2>2. /\ next' \in [Clone -> Stage] /\ run' \in [Clone -> Running] /\ run'[c].step = "push"
        /\ \A d \in Clone \ {c} : run'[d] = run[d] /\ next'[d] = next[d]
    BY <2>1, DoneIs, StagesAre
  <2>3. branch[c] # <<>> BY <1>1, <2>1
  <2> QED BY <1>3, <2>1, <2>2, <2>3, StillTypes DEF local
<1>10. CASE Push(c)
  <2>1. /\ run[c].step = "push" /\ IsPrefix(remote, branch[c]) /\ remote' = branch[c]
        /\ Done(c, "push") \/ Stopped(c)
        /\ UNCHANGED <<release, now, local>> /\ sent' = {}
    BY <1>10 DEF Push, Turn
  <2>2. /\ next' \in [Clone -> Stage] /\ run' \in [Clone -> Running]
        /\ run'[c].step \in {"upload", "idle"}
        /\ \A d \in Clone \ {c} : run'[d] = run[d] /\ next'[d] = next[d]
    BY <1>4, <2>1, DoneIs, StoppedIs, StagesAre
  <2>3. branch[c] # <<>> BY <1>1, <2>1
  <2>4. now <= now BY RebuildAssumption DEF TypeInv
  <2>5. TypeInv'
    BY <1>1, <2>1, <2>2 DEF TypeInv, local
  <2>6. CloneInv(c)'
    BY <2>1, <2>2, <2>3 DEF LogInv, CloneInv, local
  <2> QED BY <1>1, <2>1, <2>2, <2>4, <2>5, <2>6 DEF Others, local
<1> QED BY <1>8, <1>9, <1>10

LEMMA ByHandTypes ==
  ASSUME TypeInv, LogInv, NEW c \in Clone, ByHand(c)
  PROVE  TypeInv' /\ GoodHistory(remote') /\ CloneInv(c)' /\ Others(c)
<1>1. /\ branch[c] \in History /\ GoodHistory(branch[c])
      /\ tree[c] \in Tree /\ tree[c].log \in Log
      /\ Head_(c).tree \in Tree
      /\ branch[c] # <<>> => GoodLog(tree[c].log) /\ GoodLog(Head_(c).tree.log)
      /\ merging[c] \in Merge /\ next[c] \in Stage /\ run[c] \in Running /\ CloneInv(c)
  BY CloneHas
<1>2. now \in Nat /\ now <= now /\ now \in 0..MaxTime
  BY RebuildAssumption DEF TypeInv
<1>3. /\ branch \in [Clone -> History] /\ tree \in [Clone -> Tree]
      /\ merging \in [Clone -> Merge] /\ package \in [Clone -> SUBSET Package]
      /\ next \in [Clone -> Stage] /\ run \in [Clone -> Running]
      /\ \A p, q \in package[c] : p = q
  BY DEF TypeInv
<1>4. NoMerge \in Merge /\ NoRun.step = "idle"
  BY RebuildAssumption DEF NoMerge, Merge, NoRun
<1>5. CASE FixByHand(c)
  <2> DEFINE contents == [tree[c] EXCEPT !.fix = TRUE]
  <2>1. /\ branch[c] # <<>> /\ Commit(c, contents)
        /\ tree' = [tree EXCEPT ![c] = contents]
        /\ next' = [next EXCEPT ![c] = IF next[c] = "upload" THEN "push" ELSE next[c]]
        /\ UNCHANGED <<world, merging, package, run>> /\ sent' = {} /\ run[c] = NoRun
    BY <1>5 DEF FixByHand, Turn
  <2>2. contents \in Tree /\ contents.log = tree[c].log
    BY <1>1, TreeEdits
  <2> HIDE DEF contents
  <2>3. /\ now' = now + 1 /\ now' \in 0..MaxTime /\ branch' \in [Clone -> History]
        /\ \A d \in Clone \ {c} : branch'[d] = branch[d]
        /\ branch'[c] # <<>> /\ GoodHistory(branch'[c])
    BY <1>1, <2>1, <2>2, CommitIs
  <2>4. /\ tree' \in [Clone -> Tree] /\ GoodLog(tree'[c].log)
        /\ \A d \in Clone \ {c} : tree'[d] = tree[d]
    BY <1>1, <1>3, <2>1, <2>2
  <2>5. next' \in [Clone -> Stage] /\ \A d \in Clone \ {c} : next'[d] = next[d]
    BY <1>1, <1>3, <2>1, StagesAre
  <2>6. now <= now' BY <1>2, <2>3
  <2> QED BY <1>3, <1>4, <2>1, <2>3, <2>4, <2>5, <2>6, MovedTypes
<1>6. CASE ConcludeByHand(c)
  <2> DEFINE log == IF merging[c].state = "resolved" THEN tree[c].log
                    ELSE Resolved(tree[c].log, Debian(merging[c].theirs))
             contents == [Head_(c).tree EXCEPT !.log = log]
  <2>1. /\ Commit(c, contents) /\ tree' = [tree EXCEPT ![c] = [tree[c] EXCEPT !.log = log]]
        /\ merging' = [merging EXCEPT ![c] = NoMerge]
        /\ UNCHANGED <<world, package, next, run>> /\ sent' = {} /\ run[c] = NoRun
        /\ merging[c] # NoMerge
    BY <1>6 DEF ConcludeByHand, Turn
  <2>2. branch[c] # <<>>
    BY <1>1, <2>1 DEF CloneInv
  <2>3. merging[c].theirs \in 0..MaxRelease BY <1>1 DEF Merge
  <2>4. GoodLog(log) /\ log \in Log
    BY <1>1, <2>2, <2>3, ResolvedIsGood DEF GoodLog
  <2> HIDE DEF log
  <2>5. /\ contents \in Tree /\ contents.log = log
        /\ [tree[c] EXCEPT !.log = log] \in Tree /\ [tree[c] EXCEPT !.log = log].log = log
    BY <1>1, <2>4, TreeEdits
  <2> HIDE DEF contents
  <2>6. /\ now' = now + 1 /\ now' \in 0..MaxTime /\ branch' \in [Clone -> History]
        /\ \A d \in Clone \ {c} : branch'[d] = branch[d]
        /\ branch'[c] # <<>> /\ GoodHistory(branch'[c])
    BY <1>1, <2>1, <2>4, <2>5, CommitIs
  <2>7. /\ tree' \in [Clone -> Tree] /\ GoodLog(tree'[c].log)
        /\ \A d \in Clone \ {c} : tree'[d] = tree[d]
    BY <1>3, <2>1, <2>4, <2>5
  <2>8. merging' \in [Clone -> Merge] /\ \A d \in Clone \ {c} : merging'[d] = merging[d]
    BY <1>3, <1>4, <2>1
  <2>9. now <= now' BY <1>2, <2>6
  <2> QED BY <1>3, <1>4, <2>1, <2>6, <2>7, <2>8, <2>9, MovedTypes
<1>7. CASE Discard(c)
  <2>1. /\ tree' = [tree EXCEPT ![c] = Head_(c).tree]
        /\ merging' = [merging EXCEPT ![c] = NoMerge]
        /\ UNCHANGED <<world, now, branch, package, next, run>> /\ sent' = {} /\ run[c] = NoRun
    BY <1>7 DEF Discard, Turn
  <2>2. /\ tree' \in [Clone -> Tree] /\ tree'[c] = Head_(c).tree /\ merging' \in [Clone -> Merge]
        /\ \A d \in Clone \ {c} : tree'[d] = tree[d] /\ merging'[d] = merging[d]
    BY <1>1, <1>3, <1>4, <2>1
  <2>3. CASE branch[c] # <<>>
    BY <1>1, <1>2, <1>3, <1>4, <2>1, <2>2, <2>3, MovedTypes
  <2>4. CASE branch[c] = <<>>
    <3>1. TypeInv' BY <2>1, <2>2 DEF TypeInv, world
    <3>2. CloneInv(c)' BY <2>1, <2>2, <2>4, <1>1, <1>3, <1>4 DEF CloneInv
    <3> QED BY <3>1, <3>2, <2>1, <2>2, <1>2 DEF Others, LogInv, world
  <2> QED BY <2>3, <2>4
<1>8. CASE Reset(c)
  <2>1. /\ branch' = [branch EXCEPT ![c] = remote] /\ remote # <<>>
        /\ tree' = [tree EXCEPT ![c] = Tip(remote).tree]
        /\ merging' = [merging EXCEPT ![c] = NoMerge]
        /\ package' = [package EXCEPT ![c] = IF KeepsPackages THEN package[c] ELSE {}]
        /\ next' = [next EXCEPT ![c] = "push"]
        /\ UNCHANGED <<world, now, run>> /\ sent' = {} /\ run[c] = NoRun
    BY <1>8 DEF Reset, Turn
  <2>2. remote \in History /\ GoodHistory(remote)
    BY DEF TypeInv, LogInv
  <2>3. Tip(remote).tree \in Tree /\ GoodLog(Tip(remote).tree.log)
    BY <2>1, <2>2, TipIs DEF GoodHistory
  <2>4. /\ branch' \in [Clone -> History] /\ branch'[c] = remote
        /\ tree' \in [Clone -> Tree] /\ GoodLog(tree'[c].log)
        /\ merging' \in [Clone -> Merge] /\ next' \in [Clone -> Stage]
        /\ \A d \in Clone \ {c} : /\ branch'[d] = branch[d] /\ tree'[d] = tree[d]
                                  /\ merging'[d] = merging[d] /\ next'[d] = next[d]
    BY <1>3, <1>4, <2>1, <2>2, <2>3, StagesAre
  <2>5. /\ package' \in [Clone -> SUBSET Package] /\ \A p, q \in package'[c] : p = q
        /\ \A d \in Clone \ {c} : package'[d] = package[d]
    BY <1>3, <2>1
  <2> QED BY <1>2, <1>3, <1>4, <2>1, <2>2, <2>4, <2>5, MovedTypes
<1> QED BY <1>5, <1>6, <1>7, <1>8 DEF ByHand

-----------------------------------------------------------------------------
(* Any step *)

\* A step of one person.
Acts(c) ==
  \/ \E first \in {"merge", next[c]}, fetched \in Fetched(c) : Begin(c, first, fetched)
  \/ MergeStage(c) \/ Pipeline(c) \/ Stop(c) \/ ByHand(c)

LEMMA NextIs == Next <=> (\E c \in Clone : Acts(c)) \/ Release
  BY Zenon DEF Next, Acts

LEMMA ActTypes ==
  ASSUME TypeInv, LogInv, NEW c \in Clone, Acts(c)
  PROVE  TypeInv' /\ LogInv' /\ CloneInv(c)' /\ Others(c)
<1>1. TypeInv' /\ GoodHistory(remote') /\ CloneInv(c)' /\ Others(c)
  <2>1. CASE \E first \in {"merge", next[c]}, fetched \in Fetched(c) : Begin(c, first, fetched)
    BY <2>1, BeginTypes
  <2>2. CASE MergeStage(c)
    BY <2>2, MergeTypes, EntryTypes DEF MergeStage
  <2>3. CASE Pipeline(c)
    BY <2>3, PackageTypes, PipelineTypes DEF Pipeline
  <2>4. CASE Stop(c)
    BY <2>4, PipelineTypes
  <2>5. CASE ByHand(c)
    BY <2>5, ByHandTypes
  <2> QED BY <2>1, <2>2, <2>3, <2>4, <2>5 DEF Acts
<1>2. ASSUME NEW d \in Clone \ {c} PROVE CloneInv(d)'
  <2>1. /\ branch'[d] = branch[d] /\ tree'[d] = tree[d] /\ run'[d] = run[d]
        /\ merging'[d] = merging[d]
    BY <1>1 DEF Others
  <2> QED BY <2>1 DEF LogInv, CloneInv
<1>3. LogInv'
  BY <1>1, <1>2 DEF LogInv
<1> QED BY <1>1, <1>3

LEMMA NextTypes == TypeInv /\ LogInv /\ [Next]_vars => TypeInv' /\ LogInv'
<1> SUFFICES ASSUME TypeInv, LogInv, [Next]_vars PROVE TypeInv' /\ LogInv'
  OBVIOUS
<1>1. CASE \E c \in Clone : Acts(c)
  BY <1>1, ActTypes
<1>2. CASE Release
  <2>1. release' \in 1..MaxRelease
    BY <1>2, RebuildAssumption DEF Release, TypeInv
  <2>2. TypeInv'
    BY <1>2, <2>1 DEF Release, TypeInv, local
  <2>3. ASSUME NEW c \in Clone PROVE CloneInv(c)'
    BY <1>2 DEF LogInv, CloneInv, Release, local
  <2> QED BY <1>2, <2>2, <2>3 DEF LogInv, Release
<1>3. CASE UNCHANGED vars
  <2>1. ASSUME NEW c \in Clone PROVE CloneInv(c)'
    BY <1>3 DEF LogInv, CloneInv, vars, local
  <2>2. TypeInv'
    BY <1>3 DEF TypeInv, vars, local, world
  <2> QED BY <1>3, <2>1, <2>2 DEF LogInv, vars, world
<1> QED BY <1>1, <1>2, <1>3, NextIs

LEMMA TypesHold == Spec => [](TypeInv /\ LogInv)
<1>1. Init => TypeInv /\ LogInv BY InitTypes
<1>2. TypeInv /\ LogInv /\ [Next]_vars => TypeInv' /\ LogInv' BY NextTypes
<1> QED BY <1>1, <1>2, PTL DEF Spec

\* The type invariant: every clone's branch is a history of packaging trees,
\* and no clone has two source packages of one version.
THEOREM TypeCorrect == Spec => []TypeOK
<1>1. TypeInv => TypeOK
  <2> SUFFICES ASSUME TypeInv PROVE TypeOK OBVIOUS
  <2>1. ASSUME NEW c \in Clone, NEW p \in package[c]
        PROVE  p \in Package /\ Packages(c, p.version) = {p}
    <3>1. p \in Package /\ \A q \in package[c] : q = p BY DEF TypeInv
    <3> QED BY <3>1 DEF Packages
  <2>2. ASSUME NEW c \in Clone
        PROVE  /\ branch[c] \in History /\ tree[c] \in Tree /\ merging[c] \in Merge
               /\ next[c] \in Stage /\ run[c] \in Running
    BY DEF TypeInv
  <2>3. ASSUME NEW u \in sent
        PROVE  /\ u.package \in Package /\ u.dest \in {"archive", "elsewhere"}
               /\ u.head \in 0..MaxTime /\ u.declined \in BOOLEAN
    <3>1. u \in UploadOf BY DEF TypeInv
    <3> QED BY <3>1 DEF UploadOf
  <2> QED BY <2>1, <2>2, <2>3 DEF TypeOK, TypeInv, Merge, Running
<1> QED BY <1>1, TypesHold, PTL

\* resolve_conflict, gbp dch and normalize_top_stanza keep every branch, the
\* remote's too, a version-descending changelog, however runs are cut short.
THEOREM VersionsDescend == Spec => []ChangelogDescends
<1>1. TypeInv /\ LogInv => ChangelogDescends
  <2> SUFFICES ASSUME TypeInv, LogInv, NEW h \in {remote} \cup Range(branch),
                      NEW i \in DOMAIN Tip(h).tree.log, NEW j \in DOMAIN Tip(h).tree.log,
                      Tip(h).tree.log[i][2] # Provisional, Tip(h).tree.log[j][2] # Provisional,
                      i < j
               PROVE  LET log == Tip(h).tree.log IN
                      \/ log[i][1] > log[j][1]
                      \/ log[i][1] = log[j][1] /\ log[i][2] > log[j][2]
    BY DEF ChangelogDescends
  <2>1. h \in History /\ GoodHistory(h)
    <3>1. CASE h = remote BY <3>1 DEF TypeInv, LogInv
    <3>2. CASE h # remote
      <4>1. PICK c \in Clone : h = branch[c] BY <3>2 DEF Range, TypeInv
      <4> QED BY <4>1, CloneHas
    <3> QED BY <3>1, <3>2
  <2>2. h # <<>>
    <3> SUFFICES ASSUME h = <<>> PROVE FALSE OBVIOUS
    <3>1. Tip(h).tree.log = <<>> BY DEF Tip, NoTree
    <3> QED BY <3>1
  <2> DEFINE log == Tip(h).tree.log
  <2>3. GoodLog(log)
    BY <2>1, <2>2, TipIs DEF GoodHistory
  <2>4. log \in Log /\ Descending(log) /\ i \in DOMAIN log /\ j \in DOMAIN log
        /\ log[i][2] # Provisional /\ log[j][2] # Provisional
    BY <2>3 DEF GoodLog
  <2> HIDE DEF log
  <2>5. /\ log[i][1] \in Nat /\ log[j][1] \in Nat /\ log[i][2] \in Int /\ log[j][2] \in Int
    BY <2>4, StanzaIs
  <2>6. /\ log[i][1] >= log[j][1]
        /\ log[i][1] > log[j][1] \/ log[i][2] > log[j][2]
    BY <2>4 DEF Descending
  <2>7. \/ log[i][1] > log[j][1]
        \/ log[i][1] = log[j][1] /\ log[i][2] > log[j][2]
    BY <2>5, <2>6
  <2> QED BY <2>7 DEF log
<1> QED BY <1>1, TypesHold, PTL

-----------------------------------------------------------------------------
(* The tarball *)

\* Where a step of the merge stage leaves its run.
LEMMA MergeStageRun ==
  ASSUME TypeInv, NEW c \in Clone, MergeStage(c)
  PROVE  /\ run[c].step \in {"merge", "resolve", "conclude", "adjust", "commit file", "dch",
                             "normalize", "commit entry"}
         /\ \/ run'[c] = NoRun /\ next'[c] = "merge" /\ run[c].step \in {"merge", "resolve"}
            \/ run'[c].built = run[c].built /\ next' = next
                 /\ run'[c].step \in {"resolve", "conclude", "adjust", "commit file", "dch",
                                      "normalize", "commit entry"}
            \/ run'[c].built = run[c].built /\ next'[c] = "source" /\ run'[c].step = "source"
                 /\ run[c].step = "commit entry"
         /\ package' = package
<1>1. {"resolve", "conclude", "adjust", "commit file", "dch", "normalize", "commit entry"}
        \subseteq Steps
  BY DEF Steps
<1>2. CASE Create(c) BY <1>1, <1>2, GoIs DEF Create
<1>3. CASE MergeClean(c) BY <1>1, <1>3, GoIs DEF MergeClean
<1>4. CASE MergeConflict(c) BY <1>1, <1>4, GoIs DEF MergeConflict
<1>5. CASE Refuse(c) BY <1>5, StoppedIs, StagesAre DEF Refuse, StageOf, local
<1>6. CASE Resolve(c) BY <1>1, <1>6, GoIs DEF Resolve
<1>7. CASE Conclude(c) BY <1>1, <1>7, GoIs DEF Conclude
<1>8. CASE Adjust(c)
  <2> DEFINE step == IF tree'[c] = tree[c] THEN "dch" ELSE "commit file"
  <2>1. Go(c, step) /\ run[c].step = "adjust" /\ package' = package
    BY <1>8 DEF Adjust
  <2>2. step \in Steps /\ step \in {"dch", "commit file"} BY <1>1
  <2> HIDE DEF step
  <2> QED BY <2>1, <2>2, GoIs
<1>9. CASE CommitFile(c) BY <1>1, <1>9, GoIs DEF CommitFile
<1>10. CASE Dch(c) BY <1>1, <1>10, GoIs DEF Dch
<1>11. CASE Normalize(c) BY <1>1, <1>11, GoIs DEF Normalize
<1>12. CASE CommitEntry(c) BY <1>12, DoneIs, StagesAre DEF CommitEntry
<1> QED BY <1>2, <1>3, <1>4, <1>5, <1>6, <1>7, <1>8, <1>9, <1>10, <1>11, <1>12 DEF MergeStage

LEMMA BeginIs ==
  ASSUME TypeInv, NEW c \in Clone, NEW first \in {"merge", next[c]}, NEW fetched,
         Begin(c, first, fetched)
  PROVE  /\ run[c] = NoRun /\ run'[c].step = first /\ run'[c].built = "nothing"
         /\ next'[c] = first /\ UNCHANGED <<world, now, merging, package>>
<1>1. run \in [Clone -> Running] /\ next \in [Clone -> Stage]
  BY DEF TypeInv
<1>2. run[c] = NoRun /\ run' = [run EXCEPT ![c] = [run[c] EXCEPT !.step = first]]
      /\ next' = [next EXCEPT ![c] = first] /\ UNCHANGED <<world, now, merging, package>>
  BY DEF Begin
<1>3. [run[c] EXCEPT !.step = first] = [step |-> first, built |-> "nothing"]
  BY <1>2 DEF NoRun
<1> QED BY <1>1, <1>2, <1>3

LEMMA BuiltStep ==
  ASSUME TypeInv, LogInv, \A c \in Clone : BuiltInv(c), NEW c \in Clone, Acts(c)
  PROVE  \A d \in Clone : BuiltInv(d)'
<1>0. NoRun.built = "nothing" /\ NoRun.step = "idle"
  BY DEF NoRun
<1>1. ASSUME NEW d \in Clone \ {c} PROVE BuiltInv(d)'
  <2>1. run'[d] = run[d] /\ package'[d] = package[d] BY ActTypes DEF Others
  <2> QED BY <2>1 DEF BuiltInv
<1>2. BuiltInv(c)'
  <2>1. CASE \E first \in {"merge", next[c]}, fetched \in Fetched(c) : Begin(c, first, fetched)
    <3>1. run'[c].built = "nothing" BY <2>1, BeginIs
    <3> QED BY <3>1 DEF BuiltInv
  <2>2. CASE MergeStage(c)
    <3>1. run'[c].built = run[c].built \/ run'[c].built = "nothing"
      <4>1. \/ run'[c] = NoRun \/ run'[c].built = run[c].built
        BY <2>2, MergeStageRun
      <4> QED BY <4>1, <1>0
    <3>2. run[c].built = "nothing"
      <4>1. run[c].step \notin {"build", "push", "upload"}
        BY <2>2, MergeStageRun
      <4> QED BY <4>1 DEF BuiltInv
    <3> QED BY <3>1, <3>2 DEF BuiltInv
  <2>3. ASSUME NEW dest \in Destination[c], Source(c, dest) \/ Refresh(c, dest) PROVE BuiltInv(c)'
    <3>1. dest \in {"archive", "elsewhere"} BY RebuildAssumption
    <3>2. branch[c] # <<>> /\ run \in [Clone -> Running] /\ run[c] \in Running
      BY <2>3, CloneHas DEF TypeInv, Source, Refresh
    <3>3. \A p \in package'[c] : p.orig = OrigRequired(dest)
      <4>1. Debuild(c, dest) BY <2>3 DEF Source, Refresh
      <4>2. package'[c] = {[version |-> Top(c), tree |-> tree[c], of |-> Head_(c).at,
                            orig |-> OrigRequired(dest), built |-> now]}
        BY <4>1, <3>1, <3>2, DebuildIs, Zenon
      <4> QED BY <4>2
    <3>4. /\ run'[c].built = dest
          /\ \/ run'[c].step = "build"
             \/ run'[c].step = run[c].step /\ run[c].step \in {"build", "upload"}
      BY <2>3, <3>2 DEF Source, Refresh, Running
    <3> QED BY <3>3, <3>4 DEF BuiltInv
  <2>4. ASSUME NoSource(c) \/ Rejected(c) \/ Stop(c) \/ (Push(c) /\ Stopped(c)) PROVE BuiltInv(c)'
    <3>1. run'[c].built = "nothing"
      <4>1. Stopped(c) BY <2>4 DEF NoSource, Rejected, Stop
      <4> QED BY <4>1, <1>0, StoppedIs
    <3> QED BY <3>1 DEF BuiltInv
  <2>5. ASSUME Build(c) \/ (Push(c) /\ ~Stopped(c)) PROVE BuiltInv(c)'
    <3>1. /\ run'[c].built = run[c].built /\ run'[c].step \in {"push", "upload"}
          /\ package' = package
      BY <2>5, DoneIs, StagesAre DEF Build, Push, local
    <3> QED BY <3>1 DEF BuiltInv
  <2>6. ASSUME NEW dest, Upload(c, dest) PROVE BuiltInv(c)'
    <3>1. run'[c].built = "nothing" BY <2>6, DoneIs, StagesAre DEF Upload, NoRun
    <3> QED BY <3>1 DEF BuiltInv
  <2>7. CASE Pipeline(c)
    <3>1. CASE \E dest \in Destination[c] : Source(c, dest) \/ Refresh(c, dest) \/ Upload(c, dest)
      BY <3>1, <2>3, <2>6
    <3>2. CASE NoSource(c) \/ Build(c) \/ Push(c) \/ Rejected(c)
      BY <3>2, <2>4, <2>5
    <3> QED BY <2>7, <3>1, <3>2, Zenon DEF Pipeline
  <2>8. CASE ByHand(c)
    <3>1. run'[c].built = "nothing"
      BY <2>8 DEF ByHand, FixByHand, ConcludeByHand, Discard, Reset, NoRun
    <3> QED BY <3>1 DEF BuiltInv
  <2> QED BY <2>1, <2>2, <2>4, <2>7, <2>8 DEF Acts
<1> QED BY <1>1, <1>2

\* An upload offered to where no pool has the tarball, and not declined, has it.
LEMMA UploadHasOrig ==
  ASSUME TypeInv, NEW c \in Clone, BuiltInv(c), NEW dest \in Destination[c], Upload(c, dest)
  PROVE  OrigIsOffered'
<1> SUFFICES ASSUME NEW u \in sent', u.dest = "elsewhere", ~u.declined PROVE u.package.orig
  BY DEF OrigIsOffered
<1>1. PICK p \in Packages(c, Top(c)) :
        u = [package |-> p, dest |-> dest, head |-> Head_(c).at, declined |-> ~Usable(c, dest)]
  BY DEF Upload, Turn
<1>2. dest = "elsewhere" /\ Usable(c, dest) /\ u.package = p
  BY <1>1
<1>3. p \in package[c] /\ (\A q \in package[c] : q = p) /\ p \in Package
  BY DEF TypeInv, Packages
<1>4. OrigRequired(dest)
  BY <1>2 DEF OrigRequired
<1>5. CASE run[c].built # "nothing"
  <2>1. run[c].built = dest BY <1>5 DEF Upload, For
  <2>2. p.orig = OrigRequired(dest) BY <2>1, <1>3, <1>5 DEF BuiltInv
  <2> QED BY <2>2, <1>2, <1>4
<1>6. CASE run[c].built = "nothing"
  <2>1. SourceState(c, run[c].step = "upload" /\ OrigRequired(dest)) = "ready"
    BY <1>2, <1>6 DEF Usable
  <2>2. run[c].step = "upload" BY DEF Upload
  <2>3. ~ \A q \in Packages(c, Top(c)) : ~q.orig
    BY <2>1, <2>2, <1>4 DEF SourceState
  <2> QED BY <2>3, <1>2, <1>3 DEF Packages
<1> QED BY <1>5, <1>6

\* Only an upload sends anything.
LEMMA OnlyUploadsSend ==
  ASSUME NEW c \in Clone, Acts(c), ~ \E dest \in Destination[c] : Upload(c, dest)
  PROVE  sent' = {}
<1>1. CASE \E first \in {"merge", next[c]}, fetched \in Fetched(c) : Begin(c, first, fetched)
  BY <1>1 DEF Begin, Turn
<1>2. CASE MergeStage(c)
  BY <1>2 DEF MergeStage, Create, MergeClean, MergeConflict, Refuse, Resolve, Conclude, Adjust,
              CommitFile, Dch, Normalize, CommitEntry, Turn
<1>3. CASE Pipeline(c)
  BY <1>3 DEF Pipeline, Source, Refresh, NoSource, Build, Push, Rejected, Turn
<1>4. CASE Stop(c)
  BY <1>4 DEF Stop, Turn
<1>5. CASE ByHand(c)
  BY <1>5 DEF ByHand, FixByHand, ConcludeByHand, Discard, Reset, Turn
<1> QED BY <1>1, <1>2, <1>3, <1>4, <1>5 DEF Acts

\* Whatever destination a source package was first built for, it is uploaded to
\* where no pool can supply the tarball with it, or the refresh was declined.
THEOREM OrigIsSupplied == Spec => []OrigIsOffered
<1> DEFINE Inv == TypeInv /\ LogInv /\ (\A c \in Clone : BuiltInv(c)) /\ OrigIsOffered
<1>1. Init => Inv
  <2> SUFFICES ASSUME Init PROVE Inv OBVIOUS
  <2>1. \A c \in Clone : BuiltInv(c) BY DEF Init, BuiltInv, NoRun
  <2>2. OrigIsOffered BY DEF Init, OrigIsOffered
  <2> QED BY <2>1, <2>2, InitTypes
<1>2. Inv /\ [Next]_vars => Inv'
  <2> SUFFICES ASSUME Inv, [Next]_vars PROVE Inv' OBVIOUS
  <2>1. TypeInv' /\ LogInv' BY NextTypes
  <2>2. CASE \E c \in Clone : Acts(c)
    <3>1. PICK c \in Clone : Acts(c) BY <2>2
    <3>2. \A d \in Clone : BuiltInv(d)' BY <3>1, BuiltStep
    <3>3. OrigIsOffered'
      <4>1. CASE \E dest \in Destination[c] : Upload(c, dest) BY <4>1, UploadHasOrig
      <4>2. CASE ~ \E dest \in Destination[c] : Upload(c, dest)
        BY <3>1, <4>2, OnlyUploadsSend DEF OrigIsOffered
      <4> QED BY <4>1, <4>2
    <3> QED BY <2>1, <3>2, <3>3
  <2>3. CASE Release \/ UNCHANGED vars
    <3>1. run' = run /\ package' = package /\ (sent' = {} \/ sent' = sent)
      BY <2>3 DEF Release, vars, local
    <3>2. \A c \in Clone : BuiltInv(c)' BY <3>1 DEF BuiltInv
    <3>3. OrigIsOffered' BY <3>1 DEF OrigIsOffered
    <3> QED BY <2>1, <3>2, <3>3
  <2> QED BY <2>2, <2>3, NextIs
<1>3. Inv => OrigIsOffered OBVIOUS
<1> QED BY <1>1, <1>2, <1>3, PTL DEF Spec

-----------------------------------------------------------------------------
(* What is committed *)

LEMMA NoRunIs == NoRun.step = "idle" /\ NoRun.built = "nothing"
  BY DEF NoRun

\* The steps that leave a clone's branch, tree and merge alone.
LEMMA LocalStays ==
  ASSUME TypeInv, LogInv, NEW c \in Clone, EditInv(c), CleanInv(c),
         branch'[c] = branch[c], tree'[c] = tree[c], merging'[c] = merging[c],
         run[c].step # "commit file",
         run'[c].step \in {"idle", "merge", "resolve"} \cup Later,
         At(c, Later)' => At(c, Later)
  PROVE  EditInv(c)' /\ CleanInv(c)'
<1>1. Head_(c)' = Head_(c)
  BY DEF Head_
<1>2. EditInv(c)'
  BY <1>1 DEF EditInv, Later
<1>3. Clean(c)' <=> Clean(c)
  BY <1>1 DEF Clean
<1>4. run'[c].step \in Later => At(c, Later)'
  BY DEF At
<1>5. CleanInv(c)'
  BY <1>1, <1>3, <1>4 DEF CleanInv, Clean
<1> QED BY <1>2, <1>5

\* The steps that leave it clean.
LEMMA LocalCleans ==
  ASSUME NEW c \in Clone, tree'[c] = Tip(branch'[c]).tree, merging'[c] = NoMerge,
         run'[c].step \notin {"commit file", "dch", "normalize", "commit entry"}
  PROVE  EditInv(c)' /\ CleanInv(c)'
<1>1. tree'[c] = Head_(c)'.tree
  BY DEF Head_
<1>2. EditInv(c)'
  BY <1>1 DEF EditInv
<1>3. CleanInv(c)'
  BY <1>1 DEF CleanInv, Clean
<1> QED BY <1>2, <1>3

LEMMA MergeEdits ==
  ASSUME TypeInv, LogInv, NEW c \in Clone, EditInv(c), CleanInv(c), MergeStage(c)
  PROVE  EditInv(c)' /\ CleanInv(c)'
<1> DEFINE h == Head_(c).tree
<1>1. /\ tree[c] \in Tree /\ tree[c].log \in Log /\ h \in Tree /\ CloneInv(c)
      /\ branch[c] # <<>> => GoodLog(tree[c].log)
      /\ run[c].step \notin {"idle", "merge"} => branch[c] # <<>>
      /\ merging[c] \in Merge
  BY CloneHas
<1>2. /\ tree \in [Clone -> Tree] /\ branch \in [Clone -> History]
      /\ merging \in [Clone -> Merge] /\ release \in 0..MaxRelease
      /\ release \in 1..MaxRelease
  BY RebuildAssumption DEF TypeInv
<1>3. {"resolve", "conclude", "adjust", "commit file", "dch", "normalize", "commit entry"}
        \subseteq Steps
  BY DEF Steps
<1>4. /\ tree[c].fix = h.fix
      /\ run[c].step # "commit file" => tree[c].adjusted = h.adjusted
      /\ run[c].step = "commit file" => tree[c].adjusted
      /\ run[c].step \in {"dch", "normalize", "commit entry"} => h.adjusted
      /\ run[c].step \notin {"idle", "merge", "resolve", "conclude"} => merging[c] = NoMerge
  BY DEF EditInv, CleanInv
\* What is left to show of a step that goes on in the stage.
<1>5. ASSUME NEW step, run'[c].step = step,
             step \in {"resolve", "conclude", "adjust", "commit file", "dch", "normalize",
                       "commit entry"},
             tree'[c].fix = Tip(branch'[c]).tree.fix,
             step # "commit file" => tree'[c].adjusted = Tip(branch'[c]).tree.adjusted,
             step = "commit file" => tree'[c].adjusted,
             step \in {"dch", "normalize", "commit entry"} => Tip(branch'[c]).tree.adjusted,
             step \notin {"resolve", "conclude"} => merging'[c] = NoMerge
      PROVE  EditInv(c)' /\ CleanInv(c)'
  <2>1. EditInv(c)' BY <1>5 DEF EditInv, Head_
  <2>2. ~At(c, Later)' BY <1>5, NoRunIs DEF At, Later
  <2>3. CleanInv(c)' BY <1>5, <2>2 DEF CleanInv, Head_
  <2> QED BY <2>1, <2>3
<1>6. Tip(branch[c]).tree = h
  BY DEF Head_
<1>7. CASE Create(c)
  <2>1. /\ branch' = [branch EXCEPT ![c] = <<SourceCommit(release)>>]
        /\ tree' = [tree EXCEPT ![c] = SourceTree(release)] /\ merging' = merging
        /\ branch[c] = <<>> /\ Go(c, "adjust")
    BY <1>7 DEF Create
  <2>2. branch'[c] = <<SourceCommit(release)>> /\ tree'[c] = SourceTree(release)
    BY <1>2, <2>1
  <2>3. Tip(<<SourceCommit(release)>>).tree = SourceTree(release)
    <3>1. Tip(<<SourceCommit(release)>>) = [tree |-> SourceTree(release), at |-> 0]
      BY <1>2, SourceTreeIs
    <3> QED BY <3>1
  <2>4. merging'[c] = NoMerge BY <1>1, <2>1 DEF CloneInv
  <2>5. run'[c].step = "adjust" BY <1>3, <2>1, GoIs
  <2> QED BY <2>2, <2>3, <2>4, <2>5, LocalCleans
<1>8. CASE MergeClean(c)
  <2>1. branch[c] # <<>> /\ Go(c, "adjust") /\ merging' = merging /\ merging[c] = NoMerge
        /\ run[c].step = "merge"
    BY <1>8 DEF MergeClean
  <2>2. run'[c].step = "adjust" BY <1>3, <2>1, GoIs
  <2>3. CASE Merged(c) /\ UNCHANGED <<now, branch, tree>>
    BY <1>4, <1>5, <1>6, <2>1, <2>2, <2>3
  <2>4. CASE ~(Merged(c) /\ UNCHANGED <<now, branch, tree>>)
    <3> DEFINE log == Resolved(tree[c].log, Debian(release))
               contents == [h EXCEPT !.log = log]
    <3>1. /\ Commit(c, contents) /\ tree' = [tree EXCEPT ![c] = [tree[c] EXCEPT !.log = log]]
      BY <1>8, <2>4 DEF MergeClean
    <3>2. log \in Log
      BY <1>1, <1>2, <2>1, ResolvedIsGood DEF GoodLog
    <3> HIDE DEF log
    <3>3. contents \in Tree /\ contents.adjusted = h.adjusted /\ contents.fix = h.fix
      BY <1>1, <3>2, TreeEdits
    <3>4. tree'[c].adjusted = tree[c].adjusted /\ tree'[c].fix = tree[c].fix
      BY <1>1, <1>2, <3>1, <3>2, TreeEdits
    <3> HIDE DEF contents
    <3>5. Tip(branch'[c]) = [tree |-> contents, at |-> now']
      BY <3>1, <3>3, CommitIs
    <3>6. Tip(branch'[c]).tree = contents BY <3>5
    <3> HIDE DEF h
    <3> QED BY <1>4, <1>5, <2>1, <2>2, <3>3, <3>4, <3>6
  <2> QED BY <2>3, <2>4
<1>9. CASE MergeConflict(c)
  <2>1. Go(c, "resolve") /\ UNCHANGED <<branch, tree>> /\ run[c].step = "merge"
    BY <1>9 DEF MergeConflict
  <2>2. run'[c].step = "resolve" BY <1>3, <2>1, GoIs
  <2> HIDE DEF h
  <2> QED BY <1>4, <1>5, <1>6, <2>1, <2>2
<1>10. CASE Refuse(c)
  <2>1. Stopped(c) /\ UNCHANGED local /\ run[c].step \in {"merge", "resolve"}
    BY <1>10 DEF Refuse
  <2>2. run'[c] = NoRun /\ next'[c] = "merge" BY <2>1, StoppedIs, StagesAre DEF StageOf
  <2>3. ~At(c, Later)' BY <2>2, NoRunIs DEF At, Later
  <2> QED BY <2>1, <2>2, <2>3, NoRunIs, LocalStays DEF local
<1>11. CASE Resolve(c)
  <2> DEFINE log == Resolved(tree[c].log, Debian(merging[c].theirs))
  <2>1. /\ tree' = [tree EXCEPT ![c] = [tree[c] EXCEPT !.log = log]]
        /\ Go(c, "conclude") /\ UNCHANGED branch /\ run[c].step = "resolve"
    BY <1>11 DEF Resolve
  <2>2. merging[c].theirs \in 0..MaxRelease BY <1>1 DEF Merge
  <2>3. log \in Log
    BY <1>1, <2>1, <2>2, ResolvedIsGood DEF GoodLog
  <2> HIDE DEF log
  <2>4. tree'[c].adjusted = tree[c].adjusted /\ tree'[c].fix = tree[c].fix
    BY <1>1, <1>2, <2>1, <2>3, TreeEdits
  <2>5. run'[c].step = "conclude" BY <1>3, <2>1, GoIs
  <2> HIDE DEF h
  <2> QED BY <1>4, <1>5, <1>6, <2>1, <2>4, <2>5
<1>12. CASE Conclude(c)
  <2> DEFINE contents == [h EXCEPT !.log = tree[c].log]
  <2>1. /\ Commit(c, contents) /\ merging' = [merging EXCEPT ![c] = NoMerge]
        /\ Go(c, "adjust") /\ UNCHANGED tree /\ run[c].step = "conclude"
    BY <1>12 DEF Conclude
  <2>2. contents \in Tree /\ contents.adjusted = h.adjusted /\ contents.fix = h.fix
    BY <1>1, TreeEdits
  <2> HIDE DEF contents
  <2>3. Tip(branch'[c]) = [tree |-> contents, at |-> now'] BY <2>1, <2>2, CommitIs
  <2>4. Tip(branch'[c]).tree = contents BY <2>3
  <2>5. run'[c].step = "adjust" BY <1>3, <2>1, GoIs
  <2>6. merging'[c] = NoMerge BY <1>2, <2>1
  <2> HIDE DEF h
  <2> QED BY <1>4, <1>5, <2>1, <2>2, <2>4, <2>5, <2>6
<1>13. CASE Adjust(c)
  <2> DEFINE step == IF tree'[c] = tree[c] THEN "dch" ELSE "commit file"
  <2>1. /\ tree' = [tree EXCEPT ![c] = [tree[c] EXCEPT !.adjusted = TRUE]]
        /\ Go(c, step) /\ UNCHANGED <<branch, merging>> /\ run[c].step = "adjust"
    BY <1>13 DEF Adjust
  <2>2. tree'[c].adjusted = TRUE /\ tree'[c].fix = tree[c].fix
    BY <1>1, <1>2, <2>1, TreeEdits
  <2>3. tree'[c] = tree[c] => tree[c].adjusted
    BY <2>2
  <2>4. step \in Steps /\ step \in {"dch", "commit file"} BY <1>3
  <2>5. run'[c].step = step
    <3> HIDE DEF step
    <3> QED BY <2>1, <2>4, GoIs
  <2>6. step = "dch" => tree'[c] = tree[c] OBVIOUS
  <2> HIDE DEF step, h
  <2> QED BY <1>4, <1>5, <1>6, <2>1, <2>2, <2>3, <2>4, <2>5, <2>6
<1>14. CASE CommitFile(c)
  <2> DEFINE contents == [h EXCEPT !.adjusted = TRUE]
  <2>1. /\ Commit(c, contents) /\ Go(c, "dch") /\ UNCHANGED <<tree, merging>>
        /\ run[c].step = "commit file"
    BY <1>14 DEF CommitFile
  <2>2. contents \in Tree /\ contents.adjusted = TRUE /\ contents.fix = h.fix
    BY <1>1, TreeEdits
  <2> HIDE DEF contents
  <2>3. Tip(branch'[c]) = [tree |-> contents, at |-> now'] BY <2>1, <2>2, CommitIs
  <2>4. Tip(branch'[c]).tree = contents BY <2>3
  <2>5. run'[c].step = "dch" BY <1>3, <2>1, GoIs
  <2>6. tree[c].adjusted = TRUE BY <1>1, <1>4, <2>1 DEF Tree
  <2> HIDE DEF h
  <2> QED BY <1>4, <1>5, <2>1, <2>2, <2>4, <2>5, <2>6
<1>15. CASE Dch(c) \/ Normalize(c)
  <2>1. PICK log : tree' = [tree EXCEPT ![c] = [tree[c] EXCEPT !.log = log]]
    BY <1>15 DEF Dch, Normalize
  <2>2. /\ UNCHANGED <<branch, merging>> /\ run[c].step \in {"dch", "normalize"}
        /\ Go(c, "normalize") \/ Go(c, "commit entry")
    BY <1>15 DEF Dch, Normalize
  <2>3. tree'[c].adjusted = tree[c].adjusted /\ tree'[c].fix = tree[c].fix
    <3>1. tree'[c] = [tree[c] EXCEPT !.log = log] BY <1>2, <2>1
    <3>2. tree[c] = [log |-> tree[c].log, adjusted |-> tree[c].adjusted, fix |-> tree[c].fix]
      BY <1>1, TreeEdits
    <3> QED BY <3>1, <3>2
  <2>4. run'[c].step \in {"normalize", "commit entry"} BY <1>3, <2>2, GoIs
  <2> HIDE DEF h
  <2> QED BY <1>4, <1>5, <1>6, <2>2, <2>3, <2>4
<1>16. CASE CommitEntry(c)
  <2> DEFINE contents == [h EXCEPT !.log = tree[c].log]
  <2>1. /\ Commit(c, contents) /\ Done(c, "merge") /\ UNCHANGED <<tree, merging>>
        /\ run[c].step = "commit entry"
    BY <1>16 DEF CommitEntry
  <2>2. /\ contents \in Tree
        /\ contents = [log |-> tree[c].log, adjusted |-> h.adjusted, fix |-> h.fix]
    BY <1>1, TreeEdits
  <2>3. tree[c] = [log |-> tree[c].log, adjusted |-> tree[c].adjusted, fix |-> tree[c].fix]
    BY <1>1, TreeEdits
  <2>4. contents = tree[c]
    <3> HIDE DEF contents, h
    <3>1. tree[c].adjusted = h.adjusted /\ tree[c].fix = h.fix BY <1>4, <2>1
    <3> QED BY <3>1, <2>2, <2>3
  <2> HIDE DEF contents
  <2>5. Tip(branch'[c]) = [tree |-> contents, at |-> now'] BY <2>1, <2>2, CommitIs
  <2>6. Tip(branch'[c]).tree = contents BY <2>5
  <2>7. run'[c].step = "source" BY <2>1, DoneIs, StagesAre
  <2>8. merging'[c] = NoMerge BY <1>4, <2>1
  <2> QED BY <2>1, <2>4, <2>6, <2>7, <2>8, LocalCleans
<1> QED BY <1>7, <1>8, <1>9, <1>10, <1>11, <1>12, <1>13, <1>14, <1>15, <1>16 DEF MergeStage

LEMMA EditStep ==
  ASSUME TypeInv, LogInv, ~EditsFail, NEW c \in Clone, EditInv(c), CleanInv(c), Acts(c)
  PROVE  EditInv(c)' /\ CleanInv(c)'
<1>1. /\ tree[c] \in Tree /\ Head_(c).tree \in Tree /\ CloneInv(c) /\ run[c] \in Running
      /\ next[c] \in Stage
  BY CloneHas
<1>2. /\ tree \in [Clone -> Tree] /\ branch \in [Clone -> History]
      /\ merging \in [Clone -> Merge] /\ next \in [Clone -> Stage]
  BY DEF TypeInv
<1>3. ASSUME NEW first \in {"merge", next[c]}, NEW fetched \in Fetched(c), Begin(c, first, fetched)
      PROVE  EditInv(c)' /\ CleanInv(c)'
  <2>1. /\ run[c] = NoRun /\ run'[c].step = first /\ merging'[c] = merging[c]
    BY <1>3, BeginIs
  <2>2. first \in {"merge"} \cup Later /\ first # "idle"
    BY <1>1, StagesAre DEF Later
  <2>3. CASE branch[c] # <<>> \/ fetched = <<>>
    <3>1. UNCHANGED <<branch, tree>> BY <1>3, <2>3 DEF Begin
    <3>2. At(c, Later)' => At(c, Later)
      BY <2>1, <2>2, NoRunIs DEF At, Later
    <3> QED BY <2>1, <2>2, <3>1, <3>2, NoRunIs, LocalStays
  <2>4. CASE ~(branch[c] # <<>> \/ fetched = <<>>)
    <3>1. /\ branch' = [branch EXCEPT ![c] = fetched]
          /\ tree' = [tree EXCEPT ![c] = Tip(fetched).tree]
      BY <1>3, <2>4 DEF Begin
    <3>2. tree'[c] = Tip(branch'[c]).tree BY <1>2, <3>1
    <3>3. merging'[c] = NoMerge BY <1>1, <2>1, <2>4 DEF CloneInv
    <3>4. run'[c].step \notin {"commit file", "dch", "normalize", "commit entry"}
      BY <2>1, <2>2 DEF Later
    <3> QED BY <3>2, <3>3, <3>4, LocalCleans
  <2> QED BY <2>3, <2>4
<1>4. CASE Pipeline(c)
  <2>1. run[c].step \in Later /\ UNCHANGED <<branch, tree, merging>>
    BY <1>4 DEF Pipeline, Source, Refresh, Upload, NoSource, Build, Push, Rejected, Later, local
  <2>2. run[c].step # "commit file" /\ At(c, Later)
    BY <2>1 DEF At, Later
  <2>3. run'[c].step \in {"idle", "merge"} \cup Later
    <3>1. ASSUME NEW dest, Source(c, dest) PROVE run'[c].step = "build"
      BY <3>1 DEF Source, TypeInv
    <3>2. ASSUME NEW dest, Refresh(c, dest) PROVE run'[c].step = run[c].step
      BY <3>2, <1>1 DEF Refresh, TypeInv, Running
    <3>3. ASSUME NEW dest, Upload(c, dest) PROVE run'[c].step = "idle"
      BY <3>3, DoneIs, StagesAre, NoRunIs DEF Upload
    <3>4. ASSUME NoSource(c) \/ Rejected(c) PROVE run'[c].step = "idle"
      BY <3>4, StoppedIs, NoRunIs DEF NoSource, Rejected
    <3>5. ASSUME Build(c) PROVE run'[c].step = "push"
      BY <3>5, DoneIs, StagesAre DEF Build
    <3>6. ASSUME Push(c) PROVE run'[c].step \in {"upload", "idle"}
      BY <3>6, DoneIs, StoppedIs, StagesAre, NoRunIs DEF Push
    <3> QED BY <1>4, <2>1, <3>1, <3>2, <3>3, <3>4, <3>5, <3>6 DEF Pipeline, Later
  <2> QED BY <2>1, <2>2, <2>3, LocalStays
<1>5. CASE Stop(c)
  <2>1. Stopped(c) /\ UNCHANGED local /\ run[c].step # "commit file" /\ run[c].step # "idle"
    BY <1>5 DEF Stop
  <2>2. run'[c] = NoRun /\ next'[c] = StageOf(run[c].step) BY <2>1, StoppedIs
  <2>3. At(c, Later)' => At(c, Later)
    BY <2>1, <2>2, NoRunIs, StagesAre DEF At, Later, StageOf
  <2> QED BY <2>1, <2>2, <2>3, NoRunIs, LocalStays DEF local
<1>6. CASE ByHand(c)
  <2>0. run' = run /\ run[c] = NoRun
    BY <1>6 DEF ByHand, FixByHand, ConcludeByHand, Discard, Reset
  <2>1. CASE FixByHand(c)
    <3> DEFINE contents == [tree[c] EXCEPT !.fix = TRUE]
    <3>1. /\ Commit(c, contents) /\ tree' = [tree EXCEPT ![c] = contents]
          /\ merging' = merging /\ Clean(c)
      BY <2>1 DEF FixByHand
    <3>2. contents \in Tree
      BY <1>1, TreeEdits DEF Tree
    <3> HIDE DEF contents
    <3>3. Tip(branch'[c]) = [tree |-> contents, at |-> now'] BY <3>1, <3>2, CommitIs
    <3>4. Tip(branch'[c]).tree = contents BY <3>3
    <3>5. tree'[c] = contents BY <1>2, <3>1
    <3>6. merging'[c] = NoMerge BY <3>1 DEF Clean
    <3> QED BY <2>0, <3>4, <3>5, <3>6, NoRunIs, LocalCleans
  <2>2. CASE ConcludeByHand(c)
    <3> DEFINE log == IF merging[c].state = "resolved" THEN tree[c].log
                      ELSE Resolved(tree[c].log, Debian(merging[c].theirs))
               contents == [Head_(c).tree EXCEPT !.log = log]
    <3>1. /\ Commit(c, contents) /\ tree' = [tree EXCEPT ![c] = [tree[c] EXCEPT !.log = log]]
          /\ merging' = [merging EXCEPT ![c] = NoMerge] /\ merging[c] # NoMerge /\ next' = next
      BY <2>2 DEF ConcludeByHand
    <3>2. branch[c] # <<>> /\ GoodLog(tree[c].log) /\ tree[c].log \in Log
          /\ merging[c].theirs \in 0..MaxRelease
      BY <1>1, <3>1, CloneHas DEF CloneInv, Merge
    <3>3. log \in Log
      BY <3>2, ResolvedIsGood DEF GoodLog
    <3> HIDE DEF log
    <3>4. /\ contents \in Tree /\ contents.adjusted = Head_(c).tree.adjusted
          /\ contents.fix = Head_(c).tree.fix
      BY <1>1, <3>3, TreeEdits
    <3>5. tree'[c].adjusted = tree[c].adjusted /\ tree'[c].fix = tree[c].fix
      BY <1>1, <1>2, <3>1, <3>3, TreeEdits
    <3> HIDE DEF contents
    <3>6. Tip(branch'[c]) = [tree |-> contents, at |-> now'] BY <3>1, <3>4, CommitIs
    <3>7. Tip(branch'[c]).tree = contents BY <3>6
    <3>8. /\ tree[c].adjusted = Head_(c).tree.adjusted /\ tree[c].fix = Head_(c).tree.fix
      BY <2>0, NoRunIs DEF EditInv, CleanInv
    <3>9. EditInv(c)'
      BY <2>0, <3>4, <3>5, <3>7, <3>8, NoRunIs DEF EditInv, Head_
    <3>10. ~At(c, Later)
      BY <3>1 DEF CleanInv, Clean
    <3>11. ~At(c, Later)'
      BY <2>0, <3>1, <3>10 DEF At
    <3>12. CleanInv(c)'
      BY <2>0, <3>4, <3>5, <3>7, <3>8, <3>11, NoRunIs DEF CleanInv, Head_
    <3> QED BY <3>9, <3>12
  <2>3. CASE Discard(c)
    <3>1. /\ branch' = branch /\ tree'[c] = Head_(c).tree /\ merging'[c] = NoMerge
      BY <1>2, <2>3 DEF Discard
    <3>2. tree'[c] = Tip(branch'[c]).tree BY <3>1 DEF Head_
    <3> QED BY <2>0, <3>1, <3>2, NoRunIs, LocalCleans
  <2>4. CASE Reset(c)
    <3>1. /\ branch'[c] = remote /\ tree'[c] = Tip(remote).tree /\ merging'[c] = NoMerge
      BY <1>2, <2>4 DEF Reset
    <3> QED BY <2>0, <3>1, NoRunIs, LocalCleans
  <2> QED BY <1>6, <2>1, <2>2, <2>3, <2>4 DEF ByHand
<1> QED BY <1>3, <1>4, <1>5, <1>6, MergeEdits DEF Acts

-----------------------------------------------------------------------------
(* What is uploaded *)

LEMMA PrefixKeeps ==
  ASSUME NEW s \in History, NEW t \in History, IsPrefix(s, t), NEW i \in DOMAIN s
  PROVE  i \in DOMAIN t /\ t[i] = s[i]
<1>1. /\ Len(s) \in Nat /\ Len(t) \in Nat /\ DOMAIN s = 1..Len(s) /\ DOMAIN t = 1..Len(t)
  BY DEF History
<1>2. Len(s) <= Len(t) /\ SubSeq(s, 1, Len(s)) = SubSeq(t, 1, Len(s))
  BY DEF IsPrefix
<1>3. i \in 1..Len(s) /\ i \in 1..Len(t)
  BY <1>1, <1>2
<1>4. SubSeq(s, 1, Len(s))[i] = s[i] /\ SubSeq(t, 1, Len(s))[i] = t[i]
  BY <1>1, <1>2, <1>3 DEF History
<1> QED BY <1>1, <1>2, <1>3, <1>4

\* The tip of a clone after a step, and what it has built: either there is a new
\* commit or both are as they were, but where the branch begins or is reset.
Same(c) == branch'[c] = branch[c] /\ package'[c] = package[c]
NewTip(c) == /\ now' = now + 1 /\ Head_(c)'.at = now' /\ package'[c] = package[c]
             /\ branch'[c] # <<>>

LEMMA NotBefore ==
  ASSUME TypeInv, LogInv, NEW c \in Clone, PackageInv(c), NewTip(c)
  PROVE  PackageInv(c)'
<1>1. now \in Nat /\ now' = now + 1 BY RebuildAssumption DEF TypeInv, NewTip
<1>2. Head_(c)'.at = now' /\ package'[c] = package[c] BY DEF NewTip
<1>3. ASSUME NEW p \in package'[c]
      PROVE  p.built <= now' /\ ~(now' <= p.built)
  <2>1. p \in package[c] /\ p \in Package BY <1>2, <1>3 DEF TypeInv
  <2>2. p.built \in 0..MaxTime /\ p.built <= now BY <2>1 DEF Package, PackageInv
  <2>3. p.built \in Int BY <2>2
  <2> QED BY <1>1, <2>2, <2>3
<1> QED BY <1>1, <1>2, <1>3 DEF PackageInv

LEMMA StillOf ==
  ASSUME TypeInv, LogInv, NEW c \in Clone, PackageInv(c), Same(c), now <= now', now' \in Nat
  PROVE  PackageInv(c)'
<1>1. now \in Nat /\ Head_(c).at \in Nat
  BY CloneHas, RebuildAssumption DEF TypeInv
<1>2. Head_(c)' = Head_(c) /\ package'[c] = package[c]
  BY DEF Same, Head_
<1>3. ASSUME NEW p \in package[c] PROVE p.built <= now'
  <2>1. p \in Package BY <1>3 DEF TypeInv
  <2>2. p.built \in 0..MaxTime /\ p.built <= now BY <2>1 DEF Package, PackageInv
  <2>3. p.built \in Int BY <2>2
  <2> QED BY <1>1, <2>2, <2>3
<1>4. Head_(c).at <= now' BY <1>1 DEF PackageInv
<1> QED BY <1>2, <1>3, <1>4 DEF PackageInv

\* What a step makes of the tip and of the package.
LEMMA TipsAre ==
  ASSUME TypeInv, LogInv, UploadInv, ~KeepsPackages, NEW c \in Clone, Acts(c)
  PROVE  /\ branch'[c] = <<>> => branch[c] = <<>>
         /\ \/ Same(c)
            \/ NewTip(c)
            \/ package'[c] = {} /\ Head_(c)'.at <= now' /\ run'[c].step # "upload"
            \/ \E dest \in {"archive", "elsewhere"} :
                 Debuild(c, dest) /\ branch' = branch /\ now' = now /\ Clean(c)
                   /\ run'[c].built # "nothing" /\ branch[c] # <<>>
<1>1. /\ branch[c] \in History /\ tree[c] \in Tree /\ tree[c].log \in Log
      /\ Head_(c).tree \in Tree /\ CloneInv(c) /\ run[c] \in Running
      /\ branch[c] # <<>> => GoodLog(tree[c].log)
      /\ run[c].step \notin {"idle", "merge"} => branch[c] # <<>>
      /\ merging[c] \in Merge
  BY CloneHas
<1>2. /\ branch \in [Clone -> History] /\ package \in [Clone -> SUBSET Package]
      /\ run \in [Clone -> Running] /\ remote \in History /\ now \in Nat
      /\ release \in 1..MaxRelease /\ release \in 0..MaxRelease
  BY RebuildAssumption DEF TypeInv
<1>3. ASSUME NEW contents \in Tree, Commit(c, contents), package' = package
      PROVE  NewTip(c)
  <2>1. now' = now + 1 /\ branch'[c] # <<>> /\ Tip(branch'[c]) = [tree |-> contents, at |-> now']
    BY <1>3, CommitIs
  <2>2. Head_(c)'.at = now' BY <2>1 DEF Head_
  <2> QED BY <1>3, <2>1, <2>2 DEF NewTip
<1>4. NewTip(c) => branch'[c] # <<>>
  BY DEF NewTip
<1>5. CASE \E first \in {"merge", next[c]}, fetched \in Fetched(c) : Begin(c, first, fetched)
  <2>1. PICK first \in {"merge", next[c]}, fetched \in Fetched(c) : Begin(c, first, fetched)
    BY <1>5
  <2>2. /\ run[c] = NoRun /\ run'[c].step = first /\ UNCHANGED <<now, package>>
    BY <2>1, BeginIs
  <2>3. CASE branch[c] # <<>> \/ fetched = <<>>
    BY <2>1, <2>2, <2>3 DEF Begin, Same
  <2>4. CASE ~(branch[c] # <<>> \/ fetched = <<>>)
    <3>1. branch' = [branch EXCEPT ![c] = fetched]
      BY <2>1, <2>4 DEF Begin
    <3>2. fetched = remote BY <2>4 DEF Fetched
    <3>3. branch'[c] = remote BY <1>2, <3>1, <3>2
    <3>4. package[c] = {} /\ ~At(c, Later) BY <2>4 DEF UploadInv, EmptyInv
    <3>5. first # "upload" BY <2>2, <3>4 DEF At, Later
    <3>6. Head_(c)'.at <= now' BY <2>2, <3>3 DEF Head_, UploadInv
    <3> QED BY <2>2, <2>4, <3>4, <3>5, <3>6
  <2> QED BY <2>3, <2>4
<1>6. CASE MergeStage(c)
  <2>1. CASE Create(c)
    <3>1. /\ branch' = [branch EXCEPT ![c] = <<SourceCommit(release)>>]
          /\ package' = package /\ now' = now /\ branch[c] = <<>>
      BY <2>1 DEF Create
    <3>2. branch'[c] = <<SourceCommit(release)>> BY <1>2, <3>1
    <3>3. Tip(<<SourceCommit(release)>>) = [tree |-> SourceTree(release), at |-> 0]
      BY <1>2, SourceTreeIs
    <3>4. Head_(c)'.at = 0 BY <3>2, <3>3 DEF Head_
    <3>5. package'[c] = {} BY <3>1 DEF UploadInv, EmptyInv
    <3>6. run'[c].step # "upload" BY <1>6, MergeStageRun, NoRunIs
    <3> QED BY <1>2, <3>1, <3>4, <3>5, <3>6
  <2>2. CASE MergeClean(c)
    <3>1. CASE Merged(c) /\ UNCHANGED <<now, branch, tree>>
      BY <2>2, <3>1 DEF MergeClean, Same
    <3>2. CASE ~(Merged(c) /\ UNCHANGED <<now, branch, tree>>)
      <4> DEFINE log == Resolved(tree[c].log, Debian(release))
      <4>1. Commit(c, [Head_(c).tree EXCEPT !.log = log]) /\ package' = package /\ branch[c] # <<>>
        BY <2>2, <3>2 DEF MergeClean
      <4>2. log \in Log BY <1>1, <1>2, <4>1, ResolvedIsGood DEF GoodLog
      <4> HIDE DEF log
      <4>3. [Head_(c).tree EXCEPT !.log = log] \in Tree BY <1>1, <4>2, TreeEdits
      <4> QED BY <1>3, <1>4, <4>1, <4>3
    <3> QED BY <3>1, <3>2
  <2>3. CASE MergeConflict(c) \/ Refuse(c) \/ Resolve(c) \/ Adjust(c) \/ Dch(c) \/ Normalize(c)
    <3>1. branch' = branch /\ package' = package
      BY <2>3 DEF MergeConflict, Refuse, Resolve, Adjust, Dch, Normalize, local
    <3> QED BY <3>1 DEF Same
  <2>4. CASE Conclude(c) \/ CommitEntry(c)
    <3>1. Commit(c, [Head_(c).tree EXCEPT !.log = tree[c].log]) /\ package' = package
      BY <2>4 DEF Conclude, CommitEntry
    <3>2. [Head_(c).tree EXCEPT !.log = tree[c].log] \in Tree BY <1>1, TreeEdits
    <3> QED BY <1>3, <1>4, <3>1, <3>2
  <2>5. CASE CommitFile(c)
    <3>1. Commit(c, [Head_(c).tree EXCEPT !.adjusted = TRUE]) /\ package' = package
      BY <2>5 DEF CommitFile
    <3>2. [Head_(c).tree EXCEPT !.adjusted = TRUE] \in Tree BY <1>1, TreeEdits
    <3> QED BY <1>3, <1>4, <3>1, <3>2
  <2> QED BY <1>6, <2>1, <2>2, <2>3, <2>4, <2>5 DEF MergeStage
<1>7. CASE Pipeline(c)
  <2>1. ASSUME NEW dest \in Destination[c], Source(c, dest) \/ Refresh(c, dest)
        PROVE  /\ dest \in {"archive", "elsewhere"} /\ Debuild(c, dest) /\ branch' = branch
               /\ now' = now /\ Clean(c) /\ run'[c].built # "nothing" /\ branch[c] # <<>>
    <3>1. dest \in {"archive", "elsewhere"} BY RebuildAssumption
    <3>2. /\ Debuild(c, dest) /\ branch' = branch /\ now' = now
          /\ run[c].step \in {"source", "build", "upload"}
      BY <2>1 DEF Source, Refresh
    <3>3. Clean(c)
      <4>1. At(c, Later) BY <3>2 DEF At, Later
      <4> QED BY <4>1 DEF UploadInv, CleanInv
    <3>4. run'[c].built = dest BY <1>1, <1>2, <2>1 DEF Source, Refresh, Running
    <3> QED BY <1>1, <3>1, <3>2, <3>3, <3>4
  <2>2. CASE \E dest \in Destination[c] : Upload(c, dest)
    BY <2>2 DEF Upload, local, Same
  <2>3. CASE NoSource(c) \/ Build(c) \/ Push(c) \/ Rejected(c)
    BY <2>3 DEF NoSource, Build, Push, Rejected, local, Same
  <2>4. CASE \E dest \in Destination[c] : Source(c, dest) \/ Refresh(c, dest)
    BY <2>1, <2>4
  <2> QED BY <1>7, <2>2, <2>3, <2>4 DEF Pipeline
<1>8. CASE Stop(c)
  BY <1>8 DEF Stop, local, Same
<1>9. CASE ByHand(c)
  <2>1. CASE FixByHand(c)
    <3>1. Commit(c, [tree[c] EXCEPT !.fix = TRUE]) /\ package' = package
      BY <2>1 DEF FixByHand
    <3>2. [tree[c] EXCEPT !.fix = TRUE] \in Tree BY <1>1, TreeEdits
    <3> QED BY <1>3, <1>4, <3>1, <3>2
  <2>2. CASE ConcludeByHand(c)
    <3> DEFINE log == IF merging[c].state = "resolved" THEN tree[c].log
                      ELSE Resolved(tree[c].log, Debian(merging[c].theirs))
    <3>1. /\ Commit(c, [Head_(c).tree EXCEPT !.log = log]) /\ package' = package
          /\ merging[c] # NoMerge
      BY <2>2 DEF ConcludeByHand
    <3>2. branch[c] # <<>> /\ merging[c].theirs \in 0..MaxRelease
      BY <1>1, <3>1 DEF CloneInv, Merge
    <3>3. log \in Log
      BY <1>1, <3>2, ResolvedIsGood DEF GoodLog
    <3> HIDE DEF log
    <3>4. [Head_(c).tree EXCEPT !.log = log] \in Tree BY <1>1, <3>3, TreeEdits
    <3> QED BY <1>3, <1>4, <3>1, <3>4
  <2>3. CASE Discard(c)
    BY <2>3 DEF Discard, Same
  <2>4. CASE Reset(c)
    <3>1. /\ branch' = [branch EXCEPT ![c] = remote] /\ remote # <<>> /\ run' = run /\ now' = now
          /\ package' = [package EXCEPT ![c] = {}] /\ run[c] = NoRun
      BY <2>4 DEF Reset
    <3>2. branch'[c] = remote /\ package'[c] = {} BY <1>2, <3>1
    <3>3. Head_(c)'.at <= now' BY <3>1, <3>2 DEF Head_, UploadInv
    <3> QED BY <3>1, <3>2, <3>3, NoRunIs
  <2> QED BY <1>9, <2>1, <2>2, <2>3, <2>4 DEF ByHand
<1> QED BY <1>5, <1>6, <1>7, <1>8, <1>9 DEF Acts

\* A run that has built its source package has just done so, or goes on.
LEMMA StillBuilt ==
  ASSUME TypeInv, LogInv, NEW c \in Clone, BuiltInv(c), Acts(c), run'[c].built # "nothing"
  PROVE  \/ \E dest \in Destination[c] : Source(c, dest) \/ Refresh(c, dest)
         \/ run'[c].built = run[c].built /\ UNCHANGED local
<1>1. CASE \E first \in {"merge", next[c]}, fetched \in Fetched(c) : Begin(c, first, fetched)
  BY <1>1, BeginIs
<1>2. CASE MergeStage(c)
  <2>1. run'[c] = NoRun \/ run'[c].built = run[c].built
    BY <1>2, MergeStageRun
  <2>2. run[c].step \notin {"build", "push", "upload"}
    BY <1>2, MergeStageRun
  <2>3. run[c].built = "nothing" BY <2>2 DEF BuiltInv
  <2> QED BY <2>1, <2>3, NoRunIs
<1>3. CASE Pipeline(c)
  <2>1. CASE NoSource(c) \/ Rejected(c) \/ (Push(c) /\ Stopped(c))
    <3>1. Stopped(c) BY <2>1 DEF NoSource, Rejected
    <3> QED BY <3>1, StoppedIs, NoRunIs
  <2>2. CASE Build(c) \/ (Push(c) /\ ~Stopped(c))
    <3>1. UNCHANGED local /\ (Done(c, "build") \/ Done(c, "push"))
      BY <2>2 DEF Build, Push
    <3> QED BY <3>1, DoneIs, StagesAre
  <2>3. CASE \E dest \in Destination[c] : Upload(c, dest)
    <3>1. Done(c, "upload") BY <2>3 DEF Upload
    <3> QED BY <3>1, DoneIs, StagesAre, NoRunIs
  <2>4. CASE \E dest \in Destination[c] : Source(c, dest) \/ Refresh(c, dest)
    BY <2>4
  <2> QED BY <1>3, <2>1, <2>2, <2>3, <2>4 DEF Pipeline
<1>4. CASE Stop(c)
  <2>1. Stopped(c) BY <1>4 DEF Stop
  <2> QED BY <2>1, StoppedIs, NoRunIs
<1>5. CASE ByHand(c)
  <2>1. run' = run /\ run[c] = NoRun
    BY <1>5 DEF ByHand, FixByHand, ConcludeByHand, Discard, Reset
  <2> QED BY <2>1, NoRunIs
<1> QED BY <1>1, <1>2, <1>3, <1>4, <1>5 DEF Acts

\* The package a run builds is of the tip it is at.
LEMMA BuiltOfTip ==
  ASSUME TypeInv, LogInv, NEW c \in Clone, NEW dest \in {"archive", "elsewhere"},
         Debuild(c, dest), branch' = branch, now' = now, Clean(c), branch[c] # <<>>,
         Head_(c).at <= now
  PROVE  /\ Head_(c)' = Head_(c)
         /\ \A p \in package'[c] : p.of = Head_(c).at /\ p.tree = Head_(c).tree
         /\ PackageInv(c)'
<1>1. Head_(c)' = Head_(c) BY DEF Head_
<1>2. package'[c] = {[version |-> Top(c), tree |-> tree[c], of |-> Head_(c).at,
                      orig |-> OrigRequired(dest), built |-> now]}
  BY DebuildIs, Zenon
<1>3. \A p \in package'[c] : p.of = Head_(c).at /\ p.tree = tree[c] /\ p.built = now
  BY <1>2
<1>4. tree[c] = Head_(c).tree BY DEF Clean
<1>5. now <= now BY RebuildAssumption DEF TypeInv
<1> QED BY <1>1, <1>3, <1>4, <1>5 DEF PackageInv

LEMMA PackageStep ==
  ASSUME TypeInv, LogInv, UploadInv, ~KeepsPackages, NEW c \in Clone, Acts(c)
  PROVE  PackageInv(c)' /\ FreshInv(c)'
<1>1. now \in Nat /\ now' \in Nat /\ now <= now'
  <2>1. TypeInv' /\ Others(c) BY ActTypes
  <2> QED BY <2>1, RebuildAssumption DEF TypeInv, Others
<1>2. PackageInv(c) /\ FreshInv(c) /\ BuiltInv(c) /\ Head_(c).at <= now
  BY DEF UploadInv, PackageInv
<1>3. PackageInv(c)'
  <2>1. CASE Same(c) BY <1>1, <1>2, <2>1, StillOf
  <2>2. CASE NewTip(c) BY <1>2, <2>2, NotBefore
  <2>3. CASE package'[c] = {} /\ Head_(c)'.at <= now' BY <2>3 DEF PackageInv
  <2>4. CASE \E dest \in {"archive", "elsewhere"} :
               Debuild(c, dest) /\ branch' = branch /\ now' = now /\ Clean(c) /\ branch[c] # <<>>
    BY <1>2, <2>4, BuiltOfTip
  <2> QED BY <2>1, <2>2, <2>3, <2>4, TipsAre
<1>4. FreshInv(c)'
  <2> SUFFICES ASSUME run'[c].built # "nothing" PROVE FreshInv(c)'
    BY DEF FreshInv
  <2>1. CASE \E dest \in Destination[c] : Source(c, dest) \/ Refresh(c, dest)
    <3>1. PICK dest \in Destination[c] : Source(c, dest) \/ Refresh(c, dest) BY <2>1
    <3>2. /\ Debuild(c, dest) /\ branch' = branch /\ now' = now
          /\ run[c].step \in {"source", "build", "upload"}
      BY <3>1 DEF Source, Refresh
    <3>3. Clean(c)
      <4>1. At(c, Later) BY <3>2 DEF At, Later
      <4> QED BY <4>1 DEF UploadInv, CleanInv
    <3>4. branch[c] # <<>> /\ dest \in {"archive", "elsewhere"}
      BY <3>2, CloneHas, RebuildAssumption
    <3>5. /\ Head_(c)' = Head_(c)
          /\ \A p \in package'[c] : p.of = Head_(c).at /\ p.tree = Head_(c).tree
      BY <1>2, <3>2, <3>3, <3>4, BuiltOfTip
    <3> QED BY <3>5 DEF FreshInv
  <2>2. CASE run'[c].built = run[c].built /\ UNCHANGED local
    <3>1. Head_(c)' = Head_(c) /\ package'[c] = package[c] BY <2>2 DEF Head_, local
    <3> QED BY <1>2, <2>2, <3>1 DEF FreshInv
  <2> QED BY <1>2, <2>1, <2>2, StillBuilt
<1> QED BY <1>3, <1>4

LEMMA PushStep ==
  ASSUME TypeInv, LogInv, UploadInv, NEW c \in Clone, Acts(c)
  PROVE  PushInv(c)' /\ (branch[c] = <<>> => ~At(c, Later)' \/ branch'[c] # <<>>)
<1>1. /\ branch[c] \in History /\ run[c] \in Running /\ CloneInv(c)
      /\ run[c].step \notin {"idle", "merge"} => branch[c] # <<>>
  BY CloneHas
<1>2. PushInv(c) /\ EmptyInv(c) /\ CleanInv(c)
  BY DEF UploadInv
<1>3. next \in [Clone -> Stage] /\ run \in [Clone -> Running]
  BY DEF TypeInv
\* The run is at the upload only where it was, or where the push was taken.
<1>4. CASE \E first \in {"merge", next[c]}, fetched \in Fetched(c) : Begin(c, first, fetched)
  <2>1. PICK first \in {"merge", next[c]}, fetched \in Fetched(c) : Begin(c, first, fetched)
    BY <1>4
  <2>2. /\ run[c] = NoRun /\ run'[c].step = first /\ next'[c] = first /\ remote' = remote
    BY <2>1, BeginIs DEF world
  <2>3. ASSUME NEW stages \in SUBSET Later, At(c, stages)' PROVE At(c, stages)
    BY <2>2, <2>3 DEF At, Later
  <2>4. branch[c] = <<>> => ~At(c, Later)' BY <1>2, <2>3 DEF EmptyInv
  <2>5. PushInv(c)'
    <3> SUFFICES ASSUME At(c, {"upload"})' PROVE PushInv(c)' BY DEF PushInv
    <3>1. {"upload"} \in SUBSET Later BY DEF Later
    <3>2. At(c, {"upload"}) BY <3>1, <2>3
    <3>3. branch[c] # <<>> BY <1>2, <3>2 DEF EmptyInv, At, Later
    <3>4. branch' = branch BY <2>1, <3>3 DEF Begin
    <3> QED BY <1>2, <2>2, <3>2, <3>4 DEF PushInv, Head_
  <2> QED BY <2>4, <2>5
<1>5. CASE MergeStage(c)
  <2>1. CASE CommitEntry(c)
    <3>1. run'[c].step = "source" /\ run[c].step = "commit entry"
      BY <2>1, DoneIs, StagesAre DEF CommitEntry
    <3>2. ~At(c, {"upload"})' BY <3>1, NoRunIs DEF At
    <3> QED BY <1>1, <3>1, <3>2 DEF PushInv
  <2>2. CASE ~CommitEntry(c)
    <3>1. \/ run'[c] = NoRun /\ next'[c] = "merge"
          \/ run'[c].step \in {"resolve", "conclude", "adjust", "commit file", "dch",
                               "normalize", "commit entry"}
      <4>1. run[c].step = "commit entry" => CommitEntry(c)
        BY <1>5 DEF MergeStage, Create, MergeClean, MergeConflict, Refuse, Resolve, Conclude,
                    Adjust, CommitFile, Dch, Normalize
      <4> QED BY <1>5, <2>2, <4>1, MergeStageRun
    <3>2. ~At(c, Later)' BY <3>1, NoRunIs DEF At, Later
    <3>3. ~At(c, {"upload"})' BY <3>2 DEF At, Later
    <3> QED BY <3>2, <3>3 DEF PushInv
  <2> QED BY <2>1, <2>2
<1>6. CASE Pipeline(c)
  <2>1. run[c].step \in Later /\ branch' = branch
    BY <1>6 DEF Pipeline, Source, Refresh, Upload, NoSource, Build, Push, Rejected, Later, local
  <2>2. branch[c] # <<>> BY <1>1, <2>1 DEF Later
  <2>3. CASE Push(c)
    <3>1. remote' = branch[c] BY <2>3 DEF Push
    <3>2. Len(branch[c]) \in DOMAIN branch[c] /\ branch[c][Len(branch[c])] = Head_(c)
      BY <1>1, <2>2, TipIs DEF Head_
    <3> QED BY <2>1, <2>2, <3>1, <3>2 DEF PushInv, Head_
  <2>4. CASE ~Push(c)
    <3>1. remote' = remote
      BY <1>6, <2>4 DEF Pipeline, Source, Refresh, Upload, NoSource, Build, Rejected, world
    <3>2. At(c, {"upload"})' => At(c, {"upload"})
      <4>1. ASSUME NEW dest, Source(c, dest) PROVE run'[c].step = "build"
        BY <4>1, <1>3 DEF Source
      <4>2. ASSUME NEW dest, Refresh(c, dest)
            PROVE  run'[c].step = run[c].step /\ run[c].step # "idle"
        BY <4>2, <1>1, <1>3 DEF Refresh, Running
      <4>3. ASSUME NEW dest, Upload(c, dest) PROVE run[c].step = "upload"
        BY <4>3 DEF Upload
      <4>4. ASSUME NoSource(c) \/ Rejected(c)
            PROVE  run'[c] = NoRun /\ next'[c] = run[c].step
        <5>1. Stopped(c) /\ run[c].step \in {"build", "upload", "push"}
          BY <4>4 DEF NoSource, Rejected
        <5> QED BY <5>1, StoppedIs, StagesAre DEF StageOf
      <4>5. ASSUME Build(c) PROVE run'[c].step = "push"
        <5>1. Done(c, "build") BY <4>5 DEF Build
        <5> QED BY <5>1, DoneIs, StagesAre
      <4> QED BY <1>6, <2>4, <4>1, <4>2, <4>3, <4>4, <4>5, NoRunIs DEF Pipeline, At
    <3> QED BY <1>2, <2>1, <2>2, <3>1, <3>2 DEF PushInv, Head_
  <2> QED BY <2>3, <2>4
<1>7. CASE Stop(c)
  <2>1. Stopped(c) /\ UNCHANGED <<world, local>> /\ run[c].step # "idle"
    BY <1>7 DEF Stop
  <2>2. run'[c] = NoRun /\ next'[c] = StageOf(run[c].step) BY <2>1, StoppedIs
  <2>3. ASSUME NEW stages \in SUBSET Later, At(c, stages)' PROVE At(c, stages)
    BY <2>1, <2>2, <2>3, NoRunIs, StagesAre DEF At, Later, StageOf
  <2>4. {"upload"} \in SUBSET Later /\ Later \in SUBSET Later BY DEF Later
  <2>5. remote' = remote /\ branch' = branch BY <2>1 DEF world, local
  <2>6. PushInv(c)'
    <3> SUFFICES ASSUME At(c, {"upload"})' PROVE PushInv(c)' BY DEF PushInv
    <3>1. At(c, {"upload"}) BY <2>3, <2>4
    <3> QED BY <1>2, <2>5, <3>1 DEF PushInv, Head_
  <2>7. branch[c] = <<>> => ~At(c, Later)' BY <1>2, <2>3, <2>4 DEF EmptyInv
  <2> QED BY <2>6, <2>7
<1>8. CASE ByHand(c)
  <2>0. run' = run /\ run[c] = NoRun
    BY <1>8 DEF ByHand, FixByHand, ConcludeByHand, Discard, Reset
  <2>1. CASE FixByHand(c)
    <3>1. next'[c] # "upload" /\ branch[c] # <<>>
      BY <1>3, <2>1 DEF FixByHand
    <3> QED BY <2>0, <3>1, NoRunIs DEF PushInv, At
  <2>2. CASE ConcludeByHand(c) \/ Discard(c)
    <3>1. ~Clean(c) /\ next' = next
      BY <2>2 DEF ConcludeByHand, Discard, Clean
    <3>2. ~At(c, Later) BY <1>2, <3>1 DEF CleanInv
    <3>3. ~At(c, Later)' BY <2>0, <3>1, <3>2 DEF At
    <3>4. ~At(c, {"upload"})' BY <3>3 DEF At, Later
    <3> QED BY <3>3, <3>4 DEF PushInv
  <2>3. CASE Reset(c)
    <3>1. next'[c] = "push" BY <1>3, <2>3 DEF Reset
    <3>2. ~At(c, {"upload"})' BY <2>0, <3>1, NoRunIs DEF At
    <3>3. branch'[c] # <<>> BY <2>3 DEF Reset, TypeInv
    <3> QED BY <3>2, <3>3 DEF PushInv
  <2> QED BY <1>8, <2>1, <2>2, <2>3 DEF ByHand
<1> QED BY <1>4, <1>5, <1>6, <1>7, <1>8 DEF Acts

\* An upload whose package was up to date, or just built, is of the pushed tip.
LEMMA UploadIsOfTip ==
  ASSUME TypeInv, LogInv, UploadInv, NEW c \in Clone, NEW dest \in Destination[c], Upload(c, dest)
  PROVE  UploadedWasPushed'
<1> SUFFICES ASSUME NEW u \in sent', ~u.declined
             PROVE  /\ u.package.of = u.head
                    /\ \E i \in DOMAIN remote' :
                         remote'[i] = [tree |-> u.package.tree, at |-> u.head]
  BY DEF UploadedWasPushed
<1>1. PICK p \in Packages(c, Top(c)) :
        u = [package |-> p, dest |-> dest, head |-> Head_(c).at, declined |-> ~Usable(c, dest)]
  BY DEF Upload, Turn
<1>2. Usable(c, dest) /\ u.package = p /\ u.head = Head_(c).at
  BY <1>1
<1>3. p \in package[c] /\ (\A q \in package[c] : q = p) /\ p \in Package
  BY DEF TypeInv, Packages
<1>4. PackageInv(c) /\ FreshInv(c) /\ PushInv(c)
  BY DEF UploadInv
<1>5. p.of = Head_(c).at /\ p.tree = Head_(c).tree
  <2>1. CASE run[c].built # "nothing"
    BY <1>3, <1>4, <2>1 DEF FreshInv
  <2>2. CASE run[c].built = "nothing"
    <3>1. SourceState(c, run[c].step = "upload" /\ OrigRequired(dest)) = "ready"
      BY <1>2, <2>2 DEF Usable
    <3>2. ~ \A q \in Packages(c, Top(c)) : q.built < Head_(c).at
      BY <3>1 DEF SourceState
    <3>3. ~(p.built < Head_(c).at)
      BY <1>3, <3>2 DEF Packages
    <3>4. p.built \in Nat /\ Head_(c).at \in Nat
      BY <1>3, CloneHas DEF Package
    <3>5. Head_(c).at <= p.built BY <3>3, <3>4
    <3> QED BY <1>3, <1>4, <3>5 DEF PackageInv
  <2> QED BY <2>1, <2>2
<1>6. branch[c] # <<>> /\ branch[c] \in History
  BY CloneHas DEF Upload
<1>7. Head_(c) = [tree |-> Head_(c).tree, at |-> Head_(c).at]
  BY <1>6, TipIs DEF Head_
<1>8. Len(branch[c]) \in DOMAIN remote /\ remote[Len(branch[c])] = Head_(c)
  <2>1. At(c, {"upload"}) BY DEF At, Upload
  <2> QED BY <1>4, <2>1 DEF PushInv
<1>9. remote' = remote BY DEF Upload, world
<1> QED BY <1>2, <1>5, <1>7, <1>8, <1>9

LEMMA UploadStep ==
  ASSUME TypeInv, LogInv, UploadInv, UploadedWasPushed, ~EditsFail, ~KeepsPackages, [Next]_vars
  PROVE  UploadInv' /\ UploadedWasPushed'
<1>1. CASE \E c \in Clone : Acts(c)
  <2>1. PICK c \in Clone : Acts(c) BY <1>1
  <2>2. TypeInv' /\ Others(c) BY <2>1, ActTypes
  <2>3. now \in Nat /\ now' \in Nat /\ now <= now'
    BY <2>2, RebuildAssumption DEF TypeInv, Others
  <2>4. Tip(remote').at <= now'
    <3>1. CASE remote' = remote
      <4>1. Tip(remote).at \in Nat BY TipIs DEF TypeInv
      <4> QED BY <2>3, <3>1, <4>1 DEF UploadInv
    <3>2. CASE remote' = branch[c]
      <4>1. Head_(c).at \in Nat /\ Head_(c).at <= now BY CloneHas DEF UploadInv, PackageInv
      <4> QED BY <2>3, <3>2, <4>1 DEF Head_
    <3> QED BY <2>2, <3>1, <3>2 DEF Others
  <2>5. /\ EditInv(c)' /\ CleanInv(c)' /\ EmptyInv(c)' /\ PackageInv(c)'
        /\ BuiltInv(c)' /\ FreshInv(c)' /\ PushInv(c)'
    <3>1. EditInv(c)' /\ CleanInv(c)' BY <2>1, EditStep DEF UploadInv
    <3>2. BuiltInv(c)' BY <2>1, BuiltStep DEF UploadInv
    <3>3. PackageInv(c)' /\ FreshInv(c)' BY <2>1, PackageStep
    <3>4. PushInv(c)' /\ (branch[c] = <<>> => ~At(c, Later)' \/ branch'[c] # <<>>)
      BY <2>1, PushStep
    <3>5. EmptyInv(c)'
      <4> SUFFICES ASSUME branch'[c] = <<>> PROVE package'[c] = {} /\ ~At(c, Later)'
        BY DEF EmptyInv
      <4>1. branch[c] = <<>> BY <2>1, TipsAre
      <4>2. package[c] = {} BY <4>1 DEF UploadInv, EmptyInv
      <4>3. package'[c] = {}
        BY <2>1, <4>1, <4>2, TipsAre DEF Same, NewTip
      <4> QED BY <3>4, <4>1, <4>3
    <3> QED BY <3>1, <3>2, <3>3, <3>4, <3>5
  <2>6. ASSUME NEW d \in Clone \ {c}
        PROVE  /\ EditInv(d)' /\ CleanInv(d)' /\ EmptyInv(d)' /\ PackageInv(d)'
               /\ BuiltInv(d)' /\ FreshInv(d)' /\ PushInv(d)'
    <3>1. /\ branch'[d] = branch[d] /\ tree'[d] = tree[d] /\ merging'[d] = merging[d]
          /\ package'[d] = package[d] /\ next'[d] = next[d] /\ run'[d] = run[d]
      BY <2>2 DEF Others
    <3>2. /\ EditInv(d) /\ CleanInv(d) /\ EmptyInv(d) /\ PackageInv(d)
          /\ BuiltInv(d) /\ FreshInv(d) /\ PushInv(d)
      BY DEF UploadInv
    <3>3. Head_(d)' = Head_(d) BY <3>1 DEF Head_
    <3>4. EditInv(d)' /\ CleanInv(d)'
      BY <3>1, <3>2, <3>3 DEF EditInv, CleanInv, Clean, At
    <3>5. EmptyInv(d)' /\ BuiltInv(d)' /\ FreshInv(d)'
      BY <3>1, <3>2, <3>3 DEF EmptyInv, BuiltInv, FreshInv, At
    <3>6. PackageInv(d)' BY <2>3, <3>1, <3>2, StillOf DEF Same
    <3>7. PushInv(d)'
      <4> SUFFICES ASSUME At(d, {"upload"})'
                   PROVE  /\ Len(branch[d]) \in DOMAIN remote'
                          /\ remote'[Len(branch[d])] = Head_(d)
        BY <3>1, <3>3 DEF PushInv
      <4>1. At(d, {"upload"}) BY <3>1 DEF At
      <4>2. Len(branch[d]) \in DOMAIN remote /\ remote[Len(branch[d])] = Head_(d)
        BY <3>2, <4>1 DEF PushInv
      <4>3. CASE remote' = remote BY <4>2, <4>3
      <4>4. CASE remote' = branch[c] /\ IsPrefix(remote, branch[c])
        <5>1. remote \in History /\ branch[c] \in History BY DEF TypeInv
        <5> QED BY <4>2, <4>4, <5>1, PrefixKeeps
      <4> QED BY <2>2, <4>3, <4>4 DEF Others
    <3> QED BY <3>2, <3>4, <3>5, <3>6, <3>7
  <2>7. UploadInv' BY <2>4, <2>5, <2>6 DEF UploadInv
  <2>8. UploadedWasPushed'
    <3>1. CASE \E dest \in Destination[c] : Upload(c, dest) BY <3>1, UploadIsOfTip
    <3>2. CASE ~ \E dest \in Destination[c] : Upload(c, dest)
      BY <2>1, <3>2, OnlyUploadsSend DEF UploadedWasPushed
    <3> QED BY <3>1, <3>2
  <2> QED BY <2>7, <2>8
<1>2. CASE Release \/ UNCHANGED vars
  <2>1. /\ UNCHANGED <<remote, branch, tree, merging, package, now, next, run>>
        /\ sent' = {} \/ sent' = sent
    BY <1>2 DEF Release, vars, local, world
  <2>2. ASSUME NEW c \in Clone
        PROVE  /\ EditInv(c)' /\ CleanInv(c)' /\ EmptyInv(c)' /\ PackageInv(c)'
               /\ BuiltInv(c)' /\ FreshInv(c)' /\ PushInv(c)'
    <3>1. /\ EditInv(c) /\ CleanInv(c) /\ EmptyInv(c) /\ PackageInv(c)
          /\ BuiltInv(c) /\ FreshInv(c) /\ PushInv(c)
      BY DEF UploadInv
    <3>2. Head_(c)' = Head_(c) /\ (Clean(c)' <=> Clean(c))
      BY <2>1 DEF Head_, Clean
    <3>3. \A stages : At(c, stages)' <=> At(c, stages)
      BY <2>1 DEF At
    <3>4. EditInv(c)' /\ CleanInv(c)' BY <2>1, <3>1, <3>2, <3>3 DEF EditInv, CleanInv
    <3>5. EmptyInv(c)' /\ PackageInv(c)' BY <2>1, <3>1, <3>2, <3>3 DEF EmptyInv, PackageInv
    <3>6. BuiltInv(c)' /\ FreshInv(c)' /\ PushInv(c)'
      BY <2>1, <3>1, <3>2, <3>3 DEF BuiltInv, FreshInv, PushInv
    <3> QED BY <3>4, <3>5, <3>6
  <2>3. UploadInv' BY <2>1, <2>2 DEF UploadInv
  <2>4. UploadedWasPushed' BY <2>1 DEF UploadedWasPushed
  <2> QED BY <2>3, <2>4
<1> QED BY <1>1, <1>2, NextIs

\* Nobody uploads what the remote branch does not have: the package that goes up
\* was built from the commit at the tip, and that commit was pushed.
THEOREM UploadsArePushed ==
  ASSUME ~EditsFail, ~KeepsPackages
  PROVE  Spec => []UploadedWasPushed
<1> DEFINE Inv == TypeInv /\ LogInv /\ UploadInv /\ UploadedWasPushed
<1>1. Init => Inv
  <2> SUFFICES ASSUME Init PROVE Inv OBVIOUS
  <2>1. Tip(remote).at <= now BY DEF Init, Tip
  <2>2. ASSUME NEW c \in Clone
        PROVE  /\ EditInv(c) /\ CleanInv(c) /\ EmptyInv(c) /\ PackageInv(c)
               /\ BuiltInv(c) /\ FreshInv(c) /\ PushInv(c)
    <3>1. /\ Head_(c).tree = NoTree /\ Head_(c).at = 0 /\ tree[c] = NoTree /\ merging[c] = NoMerge
          /\ run[c] = NoRun /\ next[c] = "merge" /\ package[c] = {} /\ now = 0
      BY DEF Init, Head_, Tip
    <3>2. ~At(c, Later) /\ ~At(c, {"upload"}) BY <3>1, NoRunIs DEF At, Later
    <3>3. EditInv(c) /\ CleanInv(c) BY <3>1, <3>2, NoRunIs DEF EditInv, CleanInv
    <3>4. EmptyInv(c) /\ PackageInv(c) BY <3>1, <3>2 DEF EmptyInv, PackageInv
    <3>5. BuiltInv(c) /\ FreshInv(c) /\ PushInv(c)
      BY <3>1, <3>2, NoRunIs DEF BuiltInv, FreshInv, PushInv
    <3> QED BY <3>3, <3>4, <3>5
  <2>3. UploadedWasPushed BY DEF Init, UploadedWasPushed
  <2> QED BY <2>1, <2>2, <2>3, InitTypes DEF UploadInv
<1>2. Inv /\ [Next]_vars => Inv'
  BY NextTypes, UploadStep
<1>3. Inv => UploadedWasPushed OBVIOUS
<1> QED BY <1>1, <1>2, <1>3, PTL DEF Spec

=============================================================================
