------------------------ MODULE BranchRequestsProofs ------------------------
(***************************************************************************)
(* What BranchRequests promises, proved for any packages, branches,        *)
(* people, waits and numbers of bugs and of what people do.                *)
(***************************************************************************)
EXTENDS BranchRequests, WellFoundedInduction, TLAPS

FlagType == [of : Person, on : Nat, by : {"ebranch", "hand"}]
BugType ==
  [pkg : Pkg, branch : Branch, status : {"NEW", "ASSIGNED", "CLOSED"}, dupe : Nat,
   born : Nat, assignee : Person, flags : SUBSET FlagType, since : Nat \cup {Never},
   byhand : BOOLEAN, closed : {"no", "ebranch", "hand"}]
TicketType == [pkg : Pkg, of : Nat, open : BOOLEAN]

View == UNION {[S -> Entry] : S \in SUBSET Pkg}

\* Whom a command is about to ask, of which package, and what a close has to write.
AskType == [pkg : Pkg, of : Person]
CloseType == [bug : Nat, act : {"close", "tidy"}, flags : SUBSET FlagType]

Filing == {"search", "sort", "file"}
Asking == {"ping", "ticket", "create"}
Closing == {"decide", "write"}

RunType ==
  [at : {"idle", "refresh", "standing", "look"} \cup Filing \cup Asking \cup Closing,
   view : View, changed : BOOLEAN, todo : SUBSET Pkg, seen : SUBSET Pkg, may : SUBSET Pkg,
   found : Seq(AskType) \cup Seq(CloseType), known : SUBSET Nat]

Types ==
  /\ today \in Nat /\ bug \in Seq(BugType) /\ ticket \in Seq(TicketType)
  /\ landed \in [Branch -> [Pkg -> {"never", "there", "withdrawn"}]] /\ access \subseteq Pkg
  /\ report \in [Branch -> View] /\ run \in [Branch -> RunType]

\* A duplicate is of the package and the branch of what it duplicates, and what a
\* report records for a package is a request for it in the report's branch.
Names(view, b) ==
  \A p \in DOMAIN view :
    /\ view[p].rhbz \in DOMAIN bug
    /\ bug[view[p].rhbz].pkg = p /\ bug[view[p].rhbz].branch = b

Named ==
  /\ \A n \in DOMAIN bug : bug[n].dupe # 0 =>
       /\ bug[n].dupe \in DOMAIN bug
       /\ bug[bug[n].dupe].pkg = bug[n].pkg /\ bug[bug[n].dupe].branch = bug[n].branch
  /\ \A b \in Branch : Names(report[b], b) /\ Names(run[b].view, b)

\* A flag on anybody but the asker is no older than the first of them, which comes
\* after the first wait if nobody but ebranch asked; and what is closed in ebranch's
\* name has come to its branch and has none of ebranch's questions.
Sound(x) ==
  /\ x.since # Never => x.since <= today /\ (~x.byhand => x.since >= x.born + PingMin)
  /\ \A f \in x.flags : f.of # Asker => x.since # Never /\ x.since <= f.on
  /\ x.closed = "ebranch" =>
       /\ x.status = "CLOSED" /\ landed[x.branch][x.pkg] # "never"
       /\ \A f \in x.flags : f.by = "hand"

Asked == \A n \in DOMAIN bug : Sound(bug[n])

\* What a command at work relies on: which bug it is about to ask about, whom, and
\* whether it may; and of each bug it is about to close, that every question of
\* ebranch's is among those it has read.
Subject(b, s) == s.pkg \in DOMAIN run[b].view /\ run[b].found = <<s>>

MayBeAsked(x, q) ==
  /\ x.closed # "ebranch" /\ q # Asker /\ today >= x.born + PingMin
  /\ \A f \in x.flags : f.of = q => f.by = "hand"

MayBeTold(x) ==
  /\ x.since # Never /\ today >= x.since + RelengMin
  /\ ~x.byhand => today >= x.born + PingMin + RelengMin

Wanted(x, b) ==
  /\ x \in CloseType /\ x.bug \in DOMAIN bug /\ bug[x.bug].branch = b
  /\ \A f \in bug[x.bug].flags : f \notin x.flags => f.by = "hand"
  /\ x.act = "close" => bug[x.bug].pkg \in run[b].seen

Relies(b) ==
  /\ run[b].at \in {"sort", "file"} =>
       /\ run[b].known \subseteq DOMAIN bug
       /\ \A p \in run[b].todo : \A n \in run[b].known : ~ (bug[n].pkg = p /\ bug[n].branch = b)
  /\ run[b].at \in {"standing", "look"} \cup Closing \cup Asking => run[b].todo \subseteq DOMAIN run[b].view
  /\ run[b].at \in Asking => \E s \in AskType : Subject(b, s)
  /\ run[b].at = "ping" => \A s \in AskType : Subject(b, s) =>
       MayBeAsked(bug[run[b].view[s.pkg].rhbz], s.of)
  /\ run[b].at \in {"ticket", "create"} => \A s \in AskType : Subject(b, s) =>
       MayBeTold(bug[run[b].view[s.pkg].rhbz])
  /\ run[b].at \in Closing =>
       /\ \A p \in run[b].seen : landed[b][p] # "never"
       /\ run[b].found \in Seq(CloseType)
       /\ \A i \in DOMAIN run[b].found : Wanted(run[b].found[i], b)

IInv == Types /\ Named /\ Asked /\ \A b \in Branch : Relies(b)

-----------------------------------------------------------------------------
(* Operators *)

LEMMA LeastExists ==
  ASSUME NEW S, S \subseteq Nat, S # {}
  PROVE  \E n \in S : \A m \in S : n <= m
<1> DEFINE Less == {p \in Nat \X Nat : p[1] < p[2]}
<1>1. IsWellFoundedOn(Less, Nat)
  BY NatLessThanWellFounded DEF OpToRel
<1>2. \A m, n \in Nat : m < n => <<m, n>> \in Less
  OBVIOUS
<1> HIDE DEF Less
<1>3. PICK n \in S : \A m \in S : ~ <<m, n>> \in Less
  BY Zenon, <1>1, WFMin
<1>4. ASSUME NEW m \in S PROVE n <= m
  <2>1. m \in Nat /\ n \in Nat
    OBVIOUS
  <2>2. ~ (m < n)
    BY Zenon, <1>2, <1>3, <2>1
  <2> QED
    BY <2>1, <2>2
<1> QED
  BY <1>4

LEMMA OldestIsOne ==
  ASSUME NEW S, S \subseteq Nat, S # {}
  PROVE  Oldest(S) \in S
BY Zenon, LeastExists DEF Oldest

LEMMA ViewFields ==
  ASSUME NEW v \in View
  PROVE  /\ DOMAIN v \subseteq Pkg /\ v \in [DOMAIN v -> Entry]
         /\ \A p \in DOMAIN v : v[p].rhbz \in Nat
BY DEF View, Entry

LEMMA ViewIs ==
  ASSUME NEW S \in SUBSET Pkg, NEW v \in [S -> Entry]
  PROVE  v \in View
BY DEF View

LEMMA IdleIsRun == Idle \in RunType
<1>1. NoRequests \in [{} -> Entry]
  BY DEF NoRequests
<1>2. NoRequests \in View
  BY Zenon, <1>1, ViewIs, {} \in SUBSET Pkg
<1> QED
  BY <1>2 DEF Idle, RunType

-----------------------------------------------------------------------------
(* What others do to the requests of a branch *)

\* What stays of a bug whatever is done to it, and what only a command at work on
\* its branch's report does: ask or close in ebranch's name.
Remains(x, y) ==
  /\ y.pkg = x.pkg /\ y.branch = x.branch /\ y.born = x.born
  /\ x.since # Never => y.since = x.since
  /\ x.byhand => y.byhand

NotByEbranch(x, y) ==
  /\ \A f \in y.flags : f \notin x.flags => f.by = "hand"
  /\ y.closed = "ebranch" => x.closed = "ebranch"

Calm(c) ==
  /\ today <= today' /\ Len(bug) <= Len(bug')
  /\ \A p \in Pkg : landed[c][p] # "never" => landed'[c][p] # "never"
  /\ \A n \in DOMAIN bug :
       Remains(bug[n], bug'[n]) /\ (bug[n].branch = c => NotByEbranch(bug[n], bug'[n]))

LEMMA MayBeAskedLasts ==
  ASSUME NEW x \in BugType, NEW y \in BugType, NEW q, Remains(x, y), NotByEbranch(x, y),
         today \in Nat, today' \in Nat, today <= today', PingMin \in Nat, MayBeAsked(x, q)
  PROVE  MayBeAsked(y, q)'
<1>1. /\ x.closed # "ebranch" /\ q # Asker /\ today >= x.born + PingMin
      /\ \A f \in x.flags : f.of = q => f.by = "hand"
  BY DEF MayBeAsked
<1>2. y.born = x.born /\ x.born \in Nat
  BY DEF Remains, BugType
<1>3. today' >= y.born + PingMin
  BY <1>1, <1>2
<1>4. y.closed # "ebranch" /\ \A f \in y.flags : f.of = q => f.by = "hand"
  BY <1>1 DEF NotByEbranch
<1> QED
  BY <1>1, <1>3, <1>4 DEF MayBeAsked

LEMMA MayBeToldLasts ==
  ASSUME NEW x \in BugType, NEW y \in BugType, Remains(x, y), MayBeTold(x),
         today \in Nat, today' \in Nat, today <= today', PingMin \in Nat, RelengMin \in Nat
  PROVE  MayBeTold(y)'
<1>1. /\ x.since # Never /\ today >= x.since + RelengMin
      /\ ~x.byhand => today >= x.born + PingMin + RelengMin
  BY DEF MayBeTold
<1>2. y.born = x.born /\ y.since = x.since /\ (x.byhand => y.byhand)
  BY <1>1 DEF Remains
<1>3. x.born \in Nat /\ x.since \in Nat /\ x.byhand \in BOOLEAN /\ y.byhand \in BOOLEAN
  BY <1>1 DEF BugType
<1>4. today' >= y.since + RelengMin
  BY <1>1, <1>2, <1>3
<1>5. ~y.byhand => today' >= y.born + PingMin + RelengMin
  <2>1. ~y.byhand => today >= x.born + PingMin + RelengMin
    BY Zenon, <1>1, <1>2
  <2> QED
    BY <1>2, <1>3, <2>1
<1> QED
  BY <1>1, <1>2, <1>4, <1>5 DEF MayBeTold

LEMMA CalmKeeps ==
  ASSUME Types, Types', Named, NEW c \in Branch, Relies(c), Calm(c), run'[c] = run[c]
  PROVE  Relies(c)'
<1>1. /\ today \in Nat /\ today' \in Nat /\ PingMin \in Nat /\ RelengMin \in Nat
      /\ bug \in Seq(BugType) /\ bug' \in Seq(BugType) /\ run[c] \in RunType
      /\ DOMAIN bug = 1..Len(bug) /\ DOMAIN bug' = 1..Len(bug')
      /\ Len(bug) \in Nat /\ Len(bug') \in Nat
      /\ \A n \in DOMAIN bug : bug[n] \in BugType
      /\ \A n \in DOMAIN bug' : bug'[n] \in BugType
      /\ DOMAIN bug \subseteq DOMAIN bug'
  BY RequestAssumption DEF Types, Calm
<1>2. ASSUME NEW n \in DOMAIN bug
      PROVE  /\ bug[n] \in BugType /\ bug'[n] \in BugType /\ Remains(bug[n], bug'[n])
             /\ bug[n].branch = c => NotByEbranch(bug[n], bug'[n])
             /\ bug'[n].pkg = bug[n].pkg /\ bug'[n].branch = bug[n].branch
  BY <1>1 DEF Calm, Remains
<1>3. ASSUME NEW s \in AskType, Subject(c, s)
      PROVE  LET n == run[c].view[s.pkg].rhbz IN n \in DOMAIN bug /\ bug[n].branch = c
  BY <1>3 DEF Subject, Named, Names
<1>4. \A s : Subject(c, s)' <=> Subject(c, s)
  BY DEF Subject
<1>5. (run[c].at \in {"sort", "file"} =>
        /\ run[c].known \subseteq DOMAIN bug
        /\ \A p \in run[c].todo : \A n \in run[c].known : ~ (bug[n].pkg = p /\ bug[n].branch = c))'
  <2> SUFFICES ASSUME run[c].at \in {"sort", "file"}
               PROVE  /\ run[c].known \subseteq DOMAIN bug'
                      /\ \A p \in run[c].todo : \A n \in run[c].known :
                           ~ (bug'[n].pkg = p /\ bug'[n].branch = c)
    OBVIOUS
  <2>1. /\ run[c].known \subseteq DOMAIN bug
        /\ \A p \in run[c].todo : \A n \in run[c].known : ~ (bug[n].pkg = p /\ bug[n].branch = c)
    BY DEF Relies
  <2> QED
    BY <1>1, <1>2, <2>1
<1>6. (run[c].at = "ping" => \A s \in AskType : Subject(c, s) =>
        MayBeAsked(bug[run[c].view[s.pkg].rhbz], s.of))'
  <2> SUFFICES ASSUME run[c].at = "ping", NEW s \in AskType, Subject(c, s)
               PROVE  MayBeAsked(bug[run[c].view[s.pkg].rhbz], s.of)'
    BY Zenon, <1>4
  <2>1. PICK n : n = run[c].view[s.pkg].rhbz
    OBVIOUS
  <2>2. n \in DOMAIN bug /\ bug[n].branch = c /\ MayBeAsked(bug[n], s.of)
    BY <1>3, <2>1 DEF Relies
  <2>3. /\ bug[n] \in BugType /\ bug'[n] \in BugType
        /\ Remains(bug[n], bug'[n]) /\ NotByEbranch(bug[n], bug'[n]) /\ today <= today'
    BY <1>2, <2>2 DEF Calm
  <2>4. \A x, y \in BugType : Remains(x, y) /\ NotByEbranch(x, y) /\ MayBeAsked(x, s.of)
          => MayBeAsked(y, s.of)'
    BY <1>1, <2>3, MayBeAskedLasts
  <2>5. MayBeAsked(bug[n], s.of)'
    BY Zenon, <2>2, <2>3, <2>4
  <2>6. n = run'[c].view[s.pkg].rhbz
    BY <2>1
  <2> QED
    BY Zenon, <2>5, <2>6
<1>7. (run[c].at \in {"ticket", "create"} => \A s \in AskType : Subject(c, s) =>
        MayBeTold(bug[run[c].view[s.pkg].rhbz]))'
  <2> SUFFICES ASSUME run[c].at \in {"ticket", "create"}, NEW s \in AskType, Subject(c, s)
               PROVE  MayBeTold(bug[run[c].view[s.pkg].rhbz])'
    BY Zenon, <1>4
  <2>1. PICK n : n = run[c].view[s.pkg].rhbz
    OBVIOUS
  <2>2. n \in DOMAIN bug /\ MayBeTold(bug[n])
    BY <1>3, <2>1 DEF Relies
  <2>3. bug[n] \in BugType /\ bug'[n] \in BugType /\ Remains(bug[n], bug'[n]) /\ today <= today'
    BY <1>2, <2>2 DEF Calm
  <2>4. \A x, y \in BugType : Remains(x, y) /\ MayBeTold(x) => MayBeTold(y)'
    BY <1>1, <2>3, MayBeToldLasts
  <2>5. MayBeTold(bug[n])'
    BY Zenon, <2>2, <2>3, <2>4
  <2>6. n = run'[c].view[s.pkg].rhbz
    BY <2>1
  <2> QED
    BY Zenon, <2>5, <2>6
<1>8. (run[c].at \in Closing =>
        /\ \A p \in run[c].seen : landed[c][p] # "never"
        /\ run[c].found \in Seq(CloseType)
        /\ \A i \in DOMAIN run[c].found : Wanted(run[c].found[i], c))'
  <2> SUFFICES ASSUME run[c].at \in Closing
               PROVE  /\ \A p \in run[c].seen : landed'[c][p] # "never"
                      /\ run[c].found \in Seq(CloseType)
                      /\ \A i \in DOMAIN run[c].found : Wanted(run[c].found[i], c)'
    BY SMTT(20)
  <2>1. /\ \A p \in run[c].seen : landed[c][p] # "never"
        /\ run[c].found \in Seq(CloseType)
        /\ \A i \in DOMAIN run[c].found : Wanted(run[c].found[i], c)
    BY DEF Relies
  <2>2. \A p \in run[c].seen : landed'[c][p] # "never"
    BY <1>1, <2>1 DEF Calm, RunType
  <2>3. ASSUME NEW x, Wanted(x, c) PROVE Wanted(x, c)'
    <3>1. PICK n : n = x.bug
      OBVIOUS
    <3>2. /\ x \in CloseType /\ n \in DOMAIN bug /\ bug[n].branch = c
          /\ \A f \in bug[n].flags : f \notin x.flags => f.by = "hand"
          /\ x.act = "close" => bug[n].pkg \in run[c].seen
      BY <2>3, <3>1 DEF Wanted
    <3>3. bug'[n].pkg = bug[n].pkg /\ bug'[n].branch = c /\ n \in DOMAIN bug'
      BY <1>1, <1>2, <3>2
    <3>4. \A f \in bug'[n].flags : f \notin x.flags => f.by = "hand"
      BY <1>2, <3>2 DEF NotByEbranch
    <3> QED
      BY <3>1, <3>2, <3>3, <3>4 DEF Wanted
  <2> QED
    BY <2>1, <2>2, <2>3
<1>9. (run[c].at \in Asking => \E s \in AskType : Subject(c, s))'
  BY <1>4 DEF Relies
<1> QED
  BY Zenon, <1>5, <1>6, <1>7, <1>8, <1>9 DEF Relies

-----------------------------------------------------------------------------
(* A step keeps what the other branches' commands rely on *)

LEMMA OthersKeep ==
  ASSUME IInv, Types', Named', Asked', run' = run, \A c \in Branch : Calm(c)
  PROVE  IInv'
BY CalmKeeps DEF IInv

\* What a step of a branch's command may do to the bugs.
Kept(b) ==
  /\ bug' \in Seq(BugType) /\ Len(bug) <= Len(bug')
  /\ \A n \in DOMAIN bug' \ DOMAIN bug : bug'[n].dupe = 0
  /\ \A n \in DOMAIN bug : /\ bug'[n].pkg = bug[n].pkg /\ bug'[n].branch = bug[n].branch
                           /\ bug'[n].dupe = bug[n].dupe
  /\ \A c \in Branch \ {b} : Calm(c)
  /\ Asked'

LEMMA StepKeeps ==
  ASSUME IInv, NEW b \in Branch, NEW r \in RunType,
         run' = [run EXCEPT ![b] = r],
         report' = report \/ report' = [report EXCEPT ![b] = run[b].view],
         today' = today, landed' = landed, access' = access,
         ticket' \in Seq(TicketType), Kept(b),
         \A p \in DOMAIN r.view : /\ r.view[p].rhbz \in DOMAIN bug'
                                  /\ bug'[r.view[p].rhbz].pkg = p
                                  /\ bug'[r.view[p].rhbz].branch = b,
         Relies(b)'
  PROVE  IInv'
<1>1. DOMAIN bug \subseteq DOMAIN bug'
  BY DEF IInv, Types, Kept
<1>2. run'[b] = r /\ \A c \in Branch \ {b} : run'[c] = run[c]
  BY DEF IInv, Types
<1>3. run[b].view \in View
  BY DEF IInv, Types, RunType
<1>4. Types'
  BY Zenon, <1>3 DEF IInv, Types, Kept
<1>5. Named'
  <2>1. \A n \in DOMAIN bug' : bug'[n].dupe # 0 =>
          /\ bug'[n].dupe \in DOMAIN bug'
          /\ bug'[bug'[n].dupe].pkg = bug'[n].pkg /\ bug'[bug'[n].dupe].branch = bug'[n].branch
    BY <1>1, SMTT(20) DEF IInv, Named, Kept
  <2>2. ASSUME NEW c \in Branch, NEW v, NEW w, Names(v, c), w = v
        PROVE  \A p \in DOMAIN w : /\ w[p].rhbz \in DOMAIN bug'
                                   /\ bug'[w[p].rhbz].pkg = p /\ bug'[w[p].rhbz].branch = c
    BY <1>1, <2>2 DEF Names, Kept
  <2>3. ASSUME NEW c \in Branch PROVE Names(report[c], c)'
    <3>1. Names(report[c], c) /\ Names(run[c].view, c)
      BY DEF IInv, Named
    <3>2. report'[c] = report[c] \/ report'[c] = run[c].view
      BY DEF IInv, Types
    <3>3. \A p \in DOMAIN report'[c] : /\ report'[c][p].rhbz \in DOMAIN bug'
            /\ bug'[report'[c][p].rhbz].pkg = p /\ bug'[report'[c][p].rhbz].branch = c
      BY <2>2, <3>1, <3>2
    <3> QED
      BY <3>3 DEF Names
  <2>4. ASSUME NEW c \in Branch PROVE Names(run[c].view, c)'
    <3>1. CASE c = b
      BY <1>2, <3>1 DEF Names
    <3>2. CASE c # b
      <4>1. Names(run[c].view, c) /\ run'[c].view = run[c].view
        BY <1>2, <3>2 DEF IInv, Named
      <4>2. \A p \in DOMAIN run'[c].view : /\ run'[c].view[p].rhbz \in DOMAIN bug'
              /\ bug'[run'[c].view[p].rhbz].pkg = p /\ bug'[run'[c].view[p].rhbz].branch = c
        BY <2>2, <4>1
      <4> QED
        BY <4>2 DEF Names
    <3> QED
      BY <3>1, <3>2
  <2> QED
    BY <2>1, <2>3, <2>4 DEF Named
<1>6. ASSUME NEW c \in Branch PROVE Relies(c)'
  <2>1. CASE c # b
    BY <1>2, <1>4, <2>1, CalmKeeps DEF IInv, Kept
  <2> QED
    BY <2>1
<1> QED
  BY <1>4, <1>5, <1>6 DEF IInv, Kept

\* Most steps leave the bugs alone.
LEMMA RunKeeps ==
  ASSUME IInv, NEW b \in Branch, NEW r \in RunType,
         run' = [run EXCEPT ![b] = r],
         report' = report \/ report' = [report EXCEPT ![b] = run[b].view],
         today' = today, landed' = landed, access' = access, bug' = bug,
         ticket' \in Seq(TicketType), Names(r.view, b), Relies(b)'
  PROVE  IInv'
<1>1. \A c \in Branch : Calm(c)
  <2>1. today \in Nat /\ bug \in Seq(BugType)
    BY DEF IInv, Types
  <2> QED
    BY <2>1 DEF Calm, Remains, NotByEbranch
<1>2. Asked'
  BY DEF IInv, Asked, Sound
<1>3. bug \in Seq(BugType) /\ Len(bug) <= Len(bug')
  BY DEF IInv, Types
<1>4. \A n \in DOMAIN bug' \ DOMAIN bug : bug'[n].dupe = 0
  OBVIOUS
<1>5. Kept(b)
  BY <1>1, <1>2, <1>3, <1>4 DEF Kept
<1> QED
  BY Zenon, <1>5, StepKeeps DEF Names

\* A command that ends relies on nothing.
LEMMA IdleKeeps ==
  ASSUME NEW b \in Branch, run'[b] = Idle
  PROVE  Relies(b)'
BY DEF Idle, Relies, Filing, Asking, Closing

\* What the steps below take from the invariant.
LEMMA Facts ==
  ASSUME IInv, NEW b \in Branch
  PROVE  /\ run[b] \in RunType /\ run[b].view \in View /\ report[b] \in View
         /\ Names(run[b].view, b) /\ Names(report[b], b) /\ Relies(b)
         /\ run[b].todo \subseteq Pkg
         /\ bug \in Seq(BugType) /\ Len(bug) \in Nat /\ DOMAIN bug = 1..Len(bug)
         /\ \A n \in DOMAIN bug : bug[n] \in BugType
         /\ ticket \in Seq(TicketType) /\ today \in Nat
BY DEF IInv, Types, Named, RunType

LEMMA EndKeeps ==
  ASSUME IInv, NEW b \in Branch, GiveUp(b) \/ Save(b), UNCHANGED world
  PROVE  IInv'
<1>1. run' = [run EXCEPT ![b] = Idle]
  BY DEF GiveUp, Save
<1>2. report' = report \/ report' = [report EXCEPT ![b] = run[b].view]
  BY DEF GiveUp, Save
<1>3. Names(Idle.view, b)
  BY DEF Names, Idle, NoRequests
<1>4. Relies(b)'
  BY <1>1, IdleKeeps DEF IInv, Types
<1> QED
  BY Zenon, <1>1, <1>2, <1>3, <1>4, IdleIsRun, RunKeeps, Facts DEF world

LEMMA LiveRequestIs ==
  ASSUME IInv, NEW n \in DOMAIN bug
  PROVE  /\ LiveRequest(n) \in DOMAIN bug
         /\ bug[LiveRequest(n)].pkg = bug[n].pkg /\ bug[LiveRequest(n)].branch = bug[n].branch
<1>1. ASSUME NEW m \in DOMAIN bug
      PROVE  Hop(m) \in DOMAIN bug /\ bug[Hop(m)].pkg = bug[m].pkg /\ bug[Hop(m)].branch = bug[m].branch
  BY DEF Hop, IInv, Named
<1>2. PICK h1 : h1 = Hop(n)
  OBVIOUS
<1>3. PICK h2 : h2 = Hop(h1)
  OBVIOUS
<1>4. PICK h3 : h3 = Hop(h2)
  OBVIOUS
<1>5. PICK h4 : h4 = Hop(h3)
  OBVIOUS
<1>6. h1 \in DOMAIN bug /\ bug[h1].pkg = bug[n].pkg /\ bug[h1].branch = bug[n].branch
  BY <1>1, <1>2
<1>7. h2 \in DOMAIN bug /\ bug[h2].pkg = bug[n].pkg /\ bug[h2].branch = bug[n].branch
  BY <1>1, <1>3, <1>6
<1>8. h3 \in DOMAIN bug /\ bug[h3].pkg = bug[n].pkg /\ bug[h3].branch = bug[n].branch
  BY <1>1, <1>4, <1>7
<1>9. h4 \in DOMAIN bug /\ bug[h4].pkg = bug[n].pkg /\ bug[h4].branch = bug[n].branch
  BY <1>1, <1>5, <1>8
<1>10. LiveRequest(n) = h4
  BY <1>2, <1>3, <1>4, <1>5 DEF LiveRequest
<1> QED
  BY <1>9, <1>10

LEMMA RequestsAre ==
  ASSUME IInv, NEW p, NEW b, Requests(p, b) # {}
  PROVE  LET n == Oldest(Requests(p, b)) IN
         n \in DOMAIN bug /\ n \in Nat /\ bug[n].pkg = p /\ bug[n].branch = b
<1>1. Requests(p, b) \subseteq Nat
  BY DEF IInv, Types, Requests
<1>2. Oldest(Requests(p, b)) \in Requests(p, b)
  BY <1>1, OldestIsOne
<1> QED
  BY <1>1, <1>2 DEF Requests

-----------------------------------------------------------------------------
(* file-requests *)

LEMMA FileRequestsKeeps ==
  ASSUME IInv, NEW b \in Branch, FileRequests(b)
  PROVE  IInv'
<1> DEFINE r == [Idle EXCEPT !.at = "refresh", !.view = report[b], !.todo = Pkg]
<1>1. run' = [run EXCEPT ![b] = r] /\ UNCHANGED <<world, report>>
  BY DEF FileRequests, Command
<1>2. r \in RunType /\ Names(r.view, b)
  BY Zenon, IdleIsRun, Facts DEF RunType, Idle
<1>3. run'[b] = r
  BY <1>1 DEF IInv, Types
<1>4. Relies(b)'
  BY <1>3 DEF Relies, Idle, Asking, Closing
<1> HIDE DEF r
<1> QED
  BY Zenon, <1>1, <1>2, <1>4, RunKeeps, Facts DEF world

LEMMA RefreshKeeps ==
  ASSUME IInv, NEW b \in Branch, Refresh(b)
  PROVE  IInv'
<1> DEFINE view == run[b].view
           live == [p \in DOMAIN view |->
                      IF LiveRequest(view[p].rhbz) = view[p].rhbz THEN view[p]
                      ELSE [view[p] EXCEPT !.rhbz = LiveRequest(view[p].rhbz), !.pinged = FALSE]]
           r == [run[b] EXCEPT !.at = "search", !.view = live, !.changed = live # view,
                               !.todo = Pkg \ DOMAIN view]
<1>1. run' = [run EXCEPT ![b] = r] /\ UNCHANGED <<world, report>>
  BY Zenon DEF Refresh
<1>2. /\ view \in View /\ Names(view, b) /\ run[b] \in RunType
      /\ DOMAIN view \subseteq Pkg /\ view \in [DOMAIN view -> Entry]
  BY Facts, ViewFields
<1>3. ASSUME NEW p \in DOMAIN view
      PROVE  /\ live[p] \in Entry /\ live[p].rhbz \in DOMAIN bug
             /\ bug[live[p].rhbz].pkg = p /\ bug[live[p].rhbz].branch = b
  <2>1. PICK n : n = view[p].rhbz
    OBVIOUS
  <2>2. n \in DOMAIN bug /\ bug[n].pkg = p /\ bug[n].branch = b
    BY <1>2, <2>1 DEF Names
  <2>3. /\ LiveRequest(n) \in DOMAIN bug
        /\ bug[LiveRequest(n)].pkg = p /\ bug[LiveRequest(n)].branch = b
    BY <2>2, LiveRequestIs
  <2>4. LiveRequest(n) \in Nat
    BY <2>3, Facts
  <2>5. view[p] \in Entry
    BY <1>2
  <2>6. live[p] = IF LiveRequest(n) = n THEN view[p]
                  ELSE [view[p] EXCEPT !.rhbz = LiveRequest(n), !.pinged = FALSE]
    BY Zenon, <2>1
  <2> HIDE DEF live, view
  <2>7. live[p] \in Entry
    BY Zenon, <2>4, <2>5, <2>6 DEF Entry
  <2>8. live[p].rhbz = LiveRequest(n)
    BY <2>1, <2>5, <2>6 DEF Entry
  <2> QED
    BY <2>3, <2>7, <2>8
<1>4. DOMAIN live = DOMAIN view /\ live \in [DOMAIN view -> Entry]
  BY Zenon, <1>3
<1> HIDE DEF live
<1>5. live \in View
  BY <1>2, <1>4, ViewIs
<1>6. r \in RunType /\ r.view = live /\ r.at = "search"
  BY Zenon, <1>2, <1>5 DEF RunType, Filing
<1>7. Names(r.view, b)
  BY <1>3, <1>4, <1>6 DEF Names
<1>8. run'[b] = r
  BY <1>1 DEF IInv, Types
<1>9. Relies(b)'
  BY <1>6, <1>8 DEF Relies, Asking, Closing
<1> HIDE DEF r
<1> QED
  BY Zenon, <1>1, <1>6, <1>7, <1>9, RunKeeps, Facts DEF world

LEMMA SearchKeeps ==
  ASSUME IInv, NEW b \in Branch, Search(b)
  PROVE  IInv'
<1>0. PICK answered \in BOOLEAN :
        LET took == {p \in run[b].todo : answered /\ Requests(p, b) # {}} IN
        /\ run' = [run EXCEPT ![b].at = "sort", ![b].todo = @ \ took, ![b].seen = Has(b),
                     ![b].known = IF answered THEN {n \in DOMAIN bug : Open(n)} ELSE {},
                     ![b].changed = @ \/ took # {},
                     ![b].view = [p \in DOMAIN @ \cup took |->
                        IF p \in took THEN Recorded(Oldest(Requests(p, b))) ELSE @[p]]]
        /\ UNCHANGED <<world, report>>
  BY Zenon DEF Search, Adopted
<1> DEFINE took == {p \in run[b].todo : answered /\ Requests(p, b) # {}}
           open == IF answered THEN {n \in DOMAIN bug : Open(n)} ELSE {}
<1>1. /\ took = {p \in run[b].todo : answered /\ Requests(p, b) # {}}
      /\ open = IF answered THEN {n \in DOMAIN bug : Open(n)} ELSE {}
  OBVIOUS
<1>14. /\ run' = [run EXCEPT ![b].at = "sort", ![b].todo = @ \ took, ![b].seen = Has(b),
                    ![b].known = open, ![b].changed = @ \/ took # {},
                    ![b].view = [p \in DOMAIN @ \cup took |->
                       IF p \in took THEN Recorded(Oldest(Requests(p, b))) ELSE @[p]]]
       /\ UNCHANGED <<world, report>>
  BY Zenon, <1>0
<1> HIDE DEF took, open
<1> DEFINE view == run[b].view
           found == [p \in DOMAIN view \cup took |->
                       IF p \in took THEN Recorded(Oldest(Requests(p, b))) ELSE view[p]]
           r == [run[b] EXCEPT !.at = "sort", !.todo = @ \ took, !.seen = Has(b),
                   !.known = open,
                   !.changed = @ \/ took # {},
                   !.view = found]
<1>2. run' = [run EXCEPT ![b] = r] /\ UNCHANGED <<world, report>>
  BY ZenonT(40), <1>14
<1>3. /\ view \in View /\ Names(view, b) /\ run[b] \in RunType /\ run[b].todo \subseteq Pkg
      /\ DOMAIN view \subseteq Pkg /\ view \in [DOMAIN view -> Entry] /\ Len(bug) \in Nat
  BY Facts, ViewFields
<1>4. ASSUME NEW p \in DOMAIN view \cup took
      PROVE  /\ found[p] \in Entry /\ found[p].rhbz \in DOMAIN bug
             /\ bug[found[p].rhbz].pkg = p /\ bug[found[p].rhbz].branch = b
  <2>1. CASE p \in took
    <3>1. PICK n : n = Oldest(Requests(p, b))
      OBVIOUS
    <3>2. n \in DOMAIN bug /\ n \in Nat /\ bug[n].pkg = p /\ bug[n].branch = b
      <4>1. Requests(p, b) # {}
        BY Zenon, <1>1, <2>1
      <4> QED
        BY <3>1, <4>1, RequestsAre
    <3>3. found[p] = Recorded(n)
      BY <2>1, <3>1
    <3> HIDE DEF found
    <3>4. found[p] \in Entry
      BY <3>2, <3>3 DEF Recorded, Entry
    <3>5. found[p].rhbz = n
      BY <3>3, SMTT(20) DEF Recorded
    <3> QED
      BY <3>2, <3>4, <3>5
  <2>2. CASE p \notin took
    BY <1>3, <2>2 DEF Names
  <2> QED
    BY <2>1, <2>2
<1> took \subseteq Pkg
  BY Zenon, <1>1, <1>3
<1>5. DOMAIN found = DOMAIN view \cup took /\ found \in [DOMAIN view \cup took -> Entry]
  BY Zenon, <1>4
<1> HIDE DEF found
<1>6. found \in View
  BY <1>3, <1>5, ViewIs
<1>7. Has(b) \subseteq Pkg /\ open \subseteq DOMAIN bug /\ open \subseteq Nat
  <2>1. Has(b) \subseteq Pkg
    BY DEF Has
  <2>2. open \subseteq DOMAIN bug
    BY Zenon, <1>1
  <2>3. DOMAIN bug \subseteq Nat
    BY Facts
  <2> QED
    BY Zenon, <2>1, <2>2, <2>3
<1>8. /\ r \in RunType /\ r.view = found /\ r.at = "sort" /\ r.todo = run[b].todo \ took
      /\ r.known = open
  BY Zenon, <1>3, <1>6, <1>7 DEF RunType, Filing
<1>9. Names(r.view, b)
  BY <1>4, <1>5, <1>8 DEF Names
<1>10. run'[b] = r
  BY <1>2 DEF IInv, Types
<1>11. r.known \subseteq DOMAIN bug
  BY Zenon, <1>7, <1>8
<1>12. ASSUME NEW p \in r.todo, NEW n \in r.known PROVE ~ (bug[n].pkg = p /\ bug[n].branch = b)
  <2>0. p \in run[b].todo \ took /\ n \in open
    BY Zenon, <1>8, <1>12
  <2>1. answered /\ n \in DOMAIN bug /\ Open(n)
    BY Zenon, <1>1, <2>0
  <2>2. Requests(p, b) = {}
    BY Zenon, <1>1, <2>0, <2>1
  <2> QED
    BY Zenon, <2>1, <2>2 DEF Requests
<1> HIDE DEF r
<1>13. Relies(b)'
  BY <1>2, <1>8, <1>10, <1>11, <1>12 DEF Relies, Asking, Closing, world
<1> QED
  BY Zenon, <1>2, <1>8, <1>9, <1>13, RunKeeps, Facts DEF world

LEMMA SortKeeps ==
  ASSUME IInv, NEW b \in Branch, Sort(b)
  PROVE  IInv'
<1>1. PICK barred \in SUBSET Pkg :
        run' = [run EXCEPT ![b].at = "file", ![b].todo = @ \ (barred \cup run[b].seen),
                           ![b].may = access]
  BY Zenon DEF Sort
<1> DEFINE r == [run[b] EXCEPT !.at = "file", !.todo = @ \ (barred \cup run[b].seen), !.may = access]
<1>2. run' = [run EXCEPT ![b] = r]
  BY Zenon, <1>1
<1>3. run[b] \in RunType /\ Names(run[b].view, b) /\ Relies(b) /\ access \subseteq Pkg
  BY Facts DEF IInv, Types
<1>4. /\ r \in RunType /\ r.view = run[b].view /\ r.at = "file" /\ r.todo \subseteq run[b].todo
      /\ r.known = run[b].known
  BY Zenon, <1>3 DEF RunType, Filing
<1> HIDE DEF r
<1>5. UNCHANGED <<world, report>> /\ run[b].at = "sort"
  BY DEF Sort, At
<1>6. run'[b] = r
  BY <1>2 DEF IInv, Types
<1>7. Relies(b)'
  BY <1>3, <1>4, <1>5, <1>6 DEF Relies, Asking, Closing, world
<1> QED
  BY Zenon, <1>2, <1>3, <1>4, <1>5, <1>7, RunKeeps, Facts DEF world

\* A new bug disturbs nobody.
LEMMA AppendIsCalm ==
  ASSUME IInv, NEW x \in BugType, x.dupe = 0, x.flags = {}, x.since = Never, x.closed = "no",
         bug' = Append(bug, x), today' = today, landed' = landed
  PROVE  /\ bug' \in Seq(BugType) /\ Len(bug') = Len(bug) + 1
         /\ DOMAIN bug' = DOMAIN bug \cup {Len(bug')}
         /\ Len(bug') \in Nat /\ Len(bug') \notin DOMAIN bug
         /\ bug'[Len(bug')] = x /\ \A n \in DOMAIN bug : bug'[n] = bug[n]
         /\ \A c \in Branch : Calm(c) /\ Kept(c)
<1>1. bug \in Seq(BugType) /\ Len(bug) \in Nat /\ DOMAIN bug = 1..Len(bug) /\ today \in Nat
  BY DEF IInv, Types
<1>2. /\ bug' \in Seq(BugType) /\ Len(bug') = Len(bug) + 1
      /\ DOMAIN bug' = 1..Len(bug')
      /\ bug'[Len(bug) + 1] = x /\ \A n \in DOMAIN bug : bug'[n] = bug[n]
  BY <1>1
<1>3. /\ DOMAIN bug' = DOMAIN bug \cup {Len(bug')}
      /\ Len(bug') \in Nat /\ Len(bug') \notin DOMAIN bug /\ bug'[Len(bug')] = x
  BY <1>1, <1>2
<1>4. \A c \in Branch : Calm(c)
  BY <1>1, <1>2, <1>3 DEF Calm, Remains, NotByEbranch
<1>5. Asked'
  <2> SUFFICES ASSUME NEW n \in DOMAIN bug'
               PROVE  Sound(bug[n])'
    BY Zenon DEF Asked
  <2>1. CASE n \in DOMAIN bug
    BY <1>2, <2>1 DEF IInv, Asked, Sound
  <2>2. CASE n = Len(bug')
    BY <1>3, <2>2 DEF Sound
  <2> QED
    BY <1>3, <2>1, <2>2
<1>6. Len(bug) <= Len(bug') /\ \A n \in DOMAIN bug' \ DOMAIN bug : bug'[n].dupe = 0
  BY <1>1, <1>2, <1>3
<1> QED
  BY <1>2, <1>3, <1>4, <1>5, <1>6 DEF Kept

LEMMA NewBugIs ==
  ASSUME IInv, NEW b \in Branch, NEW p \in Pkg
  PROVE  /\ NewBug(p, b) \in BugType /\ NewBug(p, b).pkg = p /\ NewBug(p, b).branch = b
         /\ NewBug(p, b).dupe = 0 /\ NewBug(p, b).flags = {} /\ NewBug(p, b).since = Never
         /\ NewBug(p, b).closed = "no"
<1>1. today \in Nat /\ (IF p \in run[b].may THEN Asker ELSE Maintainer) \in Person
  BY RequestAssumption DEF IInv, Types
<1> QED
  BY <1>1 DEF NewBug, BugType

LEMMA FileOneKeeps ==
  ASSUME IInv, NEW b \in Branch, NEW p \in Pkg, FileOne(b, p)
  PROVE  IInv'
<1>1. /\ run[b] \in RunType /\ run[b].view \in View /\ Names(run[b].view, b) /\ Relies(b)
      /\ ticket \in Seq(TicketType) /\ DOMAIN run[b].view \subseteq Pkg
      /\ run[b].view \in [DOMAIN run[b].view -> Entry] /\ run[b].todo \subseteq Pkg
      /\ bug \in Seq(BugType)
  BY Facts, ViewFields
<1>2. /\ run[b].at = "file" /\ p \in run[b].todo
      /\ UNCHANGED <<today, ticket, landed, access, acts>>
  BY DEF FileOne, At
<1>3. /\ run[b].known \subseteq DOMAIN bug
      /\ \A q \in run[b].todo : \A n \in run[b].known : ~ (bug[n].pkg = q /\ bug[n].branch = b)
  BY <1>1, <1>2 DEF Relies
<1> DEFINE n0 == Len(bug')
           filed == [q \in DOMAIN run[b].view \cup {p} |->
                       IF q = p THEN Recorded(n0) ELSE run[b].view[q]]
           r == [run[b] EXCEPT !.todo = @ \ {p}, !.changed = TRUE, !.view = filed]
<1>4. CASE bug' = Append(bug, NewBug(p, b)) /\ report' = report /\ run' = [run EXCEPT ![b] = r]
  <2>1. /\ bug' \in Seq(BugType) /\ Len(bug') = Len(bug) + 1
        /\ DOMAIN bug' = DOMAIN bug \cup {Len(bug')}
        /\ Len(bug') \in Nat /\ Len(bug') \notin DOMAIN bug
        /\ bug'[Len(bug')] = NewBug(p, b) /\ \A n \in DOMAIN bug : bug'[n] = bug[n]
        /\ Kept(b)
    BY <1>2, <1>4, AppendIsCalm, NewBugIs, SMTT(20)
  <2>2. ASSUME NEW q \in DOMAIN run[b].view \cup {p}
        PROVE  /\ filed[q] \in Entry /\ filed[q].rhbz \in DOMAIN bug'
               /\ bug'[filed[q].rhbz].pkg = q /\ bug'[filed[q].rhbz].branch = b
    <3>1. CASE q = p
      <4>1. filed[q] = Recorded(n0)
        BY <3>1
      <4>2. filed[q] \in Entry /\ filed[q].rhbz = n0
        <5>1. n0 \in Nat
          BY <2>1
        <5> HIDE DEF n0
        <5>2. Recorded(n0) \in Entry /\ Recorded(n0).rhbz = n0
          BY <5>1 DEF Recorded, Entry
        <5> HIDE DEF filed
        <5> QED
          BY <4>1, <5>2
      <4>3. bug'[n0].pkg = p /\ bug'[n0].branch = b /\ n0 \in DOMAIN bug'
        BY <2>1, NewBugIs
      <4> QED
        BY <3>1, <4>2, <4>3
    <3>2. CASE q # p
      <4>1. filed[q] = run[b].view[q] /\ q \in DOMAIN run[b].view
        BY <3>2
      <4>2. PICK n : n = run[b].view[q].rhbz
        OBVIOUS
      <4>3. n \in DOMAIN bug /\ bug[n].pkg = q /\ bug[n].branch = b /\ run[b].view[q] \in Entry
        BY <1>1, <4>1, <4>2 DEF Names
      <4>4. n \in DOMAIN bug' /\ bug'[n].pkg = q /\ bug'[n].branch = b
        BY <2>1, <4>3
      <4> QED
        BY <4>1, <4>2, <4>3, <4>4
    <3> QED
      BY <3>1, <3>2
  <2>3. DOMAIN filed = DOMAIN run[b].view \cup {p} /\ filed \in [DOMAIN run[b].view \cup {p} -> Entry]
    BY Zenon, <2>2
  <2> HIDE DEF filed
  <2>4. filed \in View
    BY <1>1, <2>3, ViewIs
  <2>5. /\ r \in RunType /\ r.view = filed /\ r.at = "file" /\ r.todo = run[b].todo \ {p}
        /\ r.known = run[b].known
    BY Zenon, <1>1, <1>2, <2>4 DEF RunType
  <2> HIDE DEF r
  <2>6. run'[b] = r
    BY <1>4 DEF IInv, Types
  <2>7. /\ r.known \subseteq DOMAIN bug'
        /\ \A q \in r.todo : \A n \in r.known : ~ (bug'[n].pkg = q /\ bug'[n].branch = b)
    BY <1>3, <2>1, <2>5
  <2>9. Relies(b)'
    BY <2>5, <2>6, <2>7 DEF Relies, Asking, Closing
  <2>10. \A q \in DOMAIN r.view : /\ r.view[q].rhbz \in DOMAIN bug'
                                  /\ bug'[r.view[q].rhbz].pkg = q
                                  /\ bug'[r.view[q].rhbz].branch = b
    BY <2>2, <2>3, <2>5
  <2> HIDE DEF n0
  <2> QED
    BY Zenon, <1>1, <1>2, <1>4, <2>1, <2>5, <2>9, <2>10, StepKeeps
<1>5. CASE bug' = Append(bug, NewBug(p, b)) /\ GiveUp(b)
  <2>1. Kept(b)
    BY <1>2, <1>5, AppendIsCalm, NewBugIs
  <2>2. run' = [run EXCEPT ![b] = Idle] /\ report' = report
    BY <1>5 DEF GiveUp
  <2>3. Relies(b)'
    BY <2>2, IdleKeeps DEF IInv, Types
  <2>4. DOMAIN Idle.view = {}
    BY DEF Idle, NoRequests
  <2> QED
    BY Zenon, <1>1, <1>2, <2>1, <2>2, <2>3, <2>4, IdleIsRun, StepKeeps
<1>6. CASE run' = [run EXCEPT ![b].todo = @ \ {p}] /\ report' = report /\ bug' = bug
  <2> DEFINE s == [run[b] EXCEPT !.todo = @ \ {p}]
  <2>1. run' = [run EXCEPT ![b] = s]
    BY <1>6
  <2>2. /\ s \in RunType /\ s.view = run[b].view /\ s.at = "file" /\ s.todo \subseteq run[b].todo
        /\ s.known = run[b].known
    BY Zenon, <1>1, <1>2 DEF RunType
  <2> HIDE DEF s
  <2>3. run'[b] = s
    BY <2>1 DEF IInv, Types
  <2>4. Relies(b)'
    BY <1>3, <1>6, <2>2, <2>3 DEF Relies, Asking, Closing
  <2> QED
    BY Zenon, <1>1, <1>2, <1>6, <2>1, <2>2, <2>4, RunKeeps
<1>7. CASE bug' = bug /\ GiveUp(b)
  BY <1>2, <1>7, EndKeeps DEF world
<1> QED
  <2>1. \/ bug' = Append(bug, NewBug(p, b)) /\ report' = report /\ run' = [run EXCEPT ![b] = r]
        \/ bug' = Append(bug, NewBug(p, b)) /\ GiveUp(b)
        \/ run' = [run EXCEPT ![b].todo = @ \ {p}] /\ report' = report /\ bug' = bug
        \/ bug' = bug /\ GiveUp(b)
    BY Zenon DEF FileOne
  <2> QED
    BY <1>4, <1>5, <1>6, <1>7, <2>1

LEMMA FiledKeeps ==
  ASSUME IInv, NEW b \in Branch, Filed(b) \/ Escalated(b) \/ Closed(b) \/ Interrupt(b)
  PROVE  IInv'
BY EndKeeps DEF Filed, Escalated, Closed, Interrupt

-----------------------------------------------------------------------------
(* escalate *)

LEMMA EscalateKeeps ==
  ASSUME IInv, NEW b \in Branch, Escalate(b)
  PROVE  IInv'
<1> DEFINE r == [Idle EXCEPT !.at = "standing", !.view = report[b], !.todo = DOMAIN report[b]]
<1>1. run' = [run EXCEPT ![b] = r] /\ UNCHANGED <<world, report>>
  BY DEF Escalate, Command
<1>2. report[b] \in View /\ Names(report[b], b) /\ DOMAIN report[b] \subseteq Pkg
  BY Facts, ViewFields
<1>3. /\ r \in RunType /\ r.view = report[b] /\ r.todo = DOMAIN report[b] /\ r.at = "standing"
  BY Zenon, <1>2, IdleIsRun DEF RunType, Idle
<1> HIDE DEF r
<1>4. run'[b] = r
  BY <1>1 DEF IInv, Types
<1>5. Relies(b)'
  BY <1>3, <1>4 DEF Relies, Asking, Closing
<1> QED
  BY Zenon, <1>1, <1>2, <1>3, <1>5, RunKeeps, Facts DEF world

LEMMA StandingKeeps ==
  ASSUME IInv, NEW b \in Branch, Standing(b)
  PROVE  IInv'
<1>1. PICK may \in {access, {}} :
        run' = [run EXCEPT ![b].at = "look", ![b].may = may]
  BY Zenon DEF Standing
<1> DEFINE r == [run[b] EXCEPT !.at = "look", !.may = may]
<1>2. run' = [run EXCEPT ![b] = r]
  BY Zenon, <1>1
<1>3. run[b] \in RunType /\ Names(run[b].view, b) /\ Relies(b) /\ may \subseteq Pkg
  BY Facts DEF IInv, Types
<1>4. r \in RunType /\ r.view = run[b].view /\ r.todo = run[b].todo /\ r.at = "look"
  BY Zenon, <1>3 DEF RunType
<1> HIDE DEF r
<1>5. UNCHANGED <<world, report>> /\ run[b].at = "standing"
  BY DEF Standing, At
<1>6. run'[b] = r
  BY <1>2 DEF IInv, Types
<1>7. Relies(b)'
  BY <1>3, <1>4, <1>5, <1>6 DEF Relies, Asking, Closing
<1> QED
  BY Zenon, <1>2, <1>3, <1>4, <1>5, <1>7, RunKeeps, Facts DEF world

LEMMA LookKeeps ==
  ASSUME IInv, NEW b \in Branch, NEW p \in Pkg, Look(b, p)
  PROVE  IInv'
<1> DEFINE e == run[b].view[p]
           n == LiveRequest(e.rhbz)
           moved == [rhbz |-> n, pinged |-> e.pinged /\ n = e.rhbz, releng |-> e.releng]
           seen == [moved EXCEPT !.pinged = Pinged(n, moved)]
           next == IF MayPing(b, p, n, seen.pinged) THEN "ping"
                   ELSE IF MayFile(b, p, n, seen.pinged, seen.releng) THEN "ticket"
                   ELSE "look"
<1>1. /\ run' = [run EXCEPT ![b].at = next, ![b].view[p] = seen, ![b].changed = @ \/ seen # e,
                            ![b].todo = @ \ {p}, ![b].found = IF next = "look" THEN <<>>
                                                   ELSE <<[pkg |-> p, of |-> bug[n].assignee]>>]
      /\ UNCHANGED <<world, report>>
  BY Zenon DEF Look
<1> HIDE DEF e, n, moved, seen, next
<1> DEFINE subject == [pkg |-> p, of |-> bug[n].assignee]
           found == IF next = "look" THEN <<>> ELSE <<subject>>
           view == [run[b].view EXCEPT ![p] = seen]
           r == [run[b] EXCEPT !.at = next, !.view = view, !.changed = @ \/ seen # e,
                   !.todo = @ \ {p}, !.found = found]
<1>0. run' = [run EXCEPT ![b] = r]
  BY Zenon, <1>1
<1>2. /\ run[b] \in RunType /\ run[b].view \in View /\ Names(run[b].view, b) /\ Relies(b)
      /\ run[b].at = "look" /\ p \in run[b].todo /\ DOMAIN run[b].view \subseteq Pkg
      /\ run[b].view \in [DOMAIN run[b].view -> Entry]
      /\ bug \in Seq(BugType) /\ today \in Nat /\ PingMin \in Nat /\ RelengMin \in Nat
  BY Zenon, Facts, ViewFields, RequestAssumption DEF Look, At
<1>3. run[b].todo \subseteq DOMAIN run[b].view
  BY <1>2 DEF Relies
<1>4. e \in Entry /\ e.rhbz \in DOMAIN bug /\ bug[e.rhbz].pkg = p /\ bug[e.rhbz].branch = b
  BY <1>2, <1>3 DEF Names, e
<1>5. n \in DOMAIN bug /\ bug[n].pkg = p /\ bug[n].branch = b /\ n \in Nat /\ bug[n] \in BugType
  BY <1>4, LiveRequestIs, Facts DEF n
<1>6. moved \in Entry
  BY <1>4, <1>5 DEF Entry, moved
<1>7. moved.rhbz = n
  BY DEF moved
<1>8. Pinged(n, moved) \in BOOLEAN
  BY <1>6 DEF Pinged, Entry
<1>9. /\ seen \in Entry /\ seen.rhbz = n /\ seen.pinged = Pinged(n, moved)
  BY <1>6, <1>7, <1>8 DEF Entry, seen
<1>10. next = "ping" => MayBeAsked(bug[n], bug[n].assignee)
  <2> SUFFICES ASSUME MayPing(b, p, n, seen.pinged)
               PROVE  MayBeAsked(bug[n], bug[n].assignee)
    BY DEF next
  <2>1. /\ Open(n) /\ ~AssignedToAsker(n) /\ ~Pinged(n, moved)
        /\ today - bug[n].born >= PingMin
    BY <1>9 DEF MayPing
  <2>2. \A f \in bug[n].flags : f.of # bug[n].assignee
    BY <2>1 DEF Pinged, Waiting
  <2>3. bug[n].closed # "ebranch"
    BY <1>5, <2>1 DEF IInv, Asked, Sound, Open
  <2>4. today >= bug[n].born + PingMin
    BY <1>2, <1>5, <2>1 DEF BugType
  <2> QED
    BY <2>1, <2>2, <2>3, <2>4 DEF MayBeAsked, AssignedToAsker
<1>11. next = "ticket" => MayBeTold(bug[n])
  <2> SUFFICES ASSUME MayFile(b, p, n, seen.pinged, seen.releng)
               PROVE  MayBeTold(bug[n])
    BY DEF next
  <2>1. /\ bug[n].assignee # Asker
        /\ \E f \in bug[n].flags : f.of = bug[n].assignee /\ today - f.on >= RelengMin
    BY DEF MayFile, Waiting, AssignedToAsker
  <2>2. PICK f \in bug[n].flags : f.of # Asker /\ today - f.on >= RelengMin
    BY <2>1
  <2>3. /\ bug[n].since # Never /\ bug[n].since <= f.on
        /\ ~bug[n].byhand => bug[n].since >= bug[n].born + PingMin
    BY <1>5, <2>2 DEF IInv, Asked, Sound
  <2>4. f.on \in Nat /\ bug[n].born \in Nat /\ bug[n].since \in Nat
    BY <1>5, <2>2, <2>3 DEF BugType, FlagType
  <2>5. today >= bug[n].since + RelengMin
    <3> DEFINE on == f.on  since == bug[n].since
    <3> HIDE DEF on, since
    <3>1. on \in Nat /\ since \in Nat /\ since <= on /\ today - on >= RelengMin
      BY <2>2, <2>3, <2>4 DEF on, since
    <3>2. today >= since + RelengMin
      BY <1>2, <3>1
    <3> QED
      BY <3>2 DEF since
  <2>6. ~bug[n].byhand => today >= bug[n].born + PingMin + RelengMin
    BY <1>2, <2>3, <2>4, <2>5
  <2> QED
    BY <2>3, <2>5, <2>6 DEF MayBeTold
<1>12. next \in {"ping", "ticket", "look"}
  BY DEF next
<1>13. DOMAIN view = DOMAIN run[b].view /\ view \in [DOMAIN run[b].view -> Entry] /\ view[p] = seen
  BY <1>2, <1>3, <1>9
<1>14. view \in View
  BY Zenon, <1>2, <1>13, ViewIs
<1>15. ASSUME NEW q \in DOMAIN view
       PROVE  /\ view[q].rhbz \in DOMAIN bug
              /\ bug[view[q].rhbz].pkg = q /\ bug[view[q].rhbz].branch = b
  <2>1. CASE q = p
    BY <1>5, <1>9, <1>13, <2>1
  <2>2. CASE q # p
    BY <1>2, <2>2 DEF Names
  <2> QED
    BY <2>1, <2>2
<1> HIDE DEF view
<1> subject \in AskType /\ subject.pkg = p /\ subject.of = bug[n].assignee
  BY <1>2, <1>5 DEF BugType, AskType
<1> HIDE DEF subject
<1>16. /\ r \in RunType /\ r.view = view /\ r.at = next /\ r.todo \subseteq run[b].todo
       /\ r.found = IF next = "look" THEN <<>> ELSE <<subject>>
  <2>1. found \in Seq(AskType)
    OBVIOUS
  <2> HIDE DEF found
  <2>2. r \in RunType /\ r.view = view /\ r.at = next /\ r.todo \subseteq run[b].todo /\ r.found = found
    BY ZenonT(40), <1>2, <1>12, <1>14, <2>1 DEF RunType, Asking
  <2> QED
    BY <2>2 DEF found
<1> HIDE DEF r
<1>17. run'[b] = r
  BY <1>0 DEF IInv, Types
<1>24. PICK s0 \in AskType : s0 = subject
  OBVIOUS
<1>18. \A s \in AskType : Subject(b, s)' /\ next # "look" => s = subject
  BY <1>16, <1>17 DEF Subject
<1>19. next # "look" => Subject(b, s0)'
  <2>1. p \in DOMAIN run'[b].view
    BY <1>2, <1>3, <1>13, <1>16, <1>17
  <2>2. next # "look" => run'[b].found = <<subject>>
    BY Zenon, <1>16, <1>17
  <2> QED
    BY Zenon, <1>24, <2>1, <2>2 DEF Subject
<1>20. /\ run'[b].at = next /\ run'[b].view[p].rhbz = n /\ bug' = bug /\ today' = today
       /\ run'[b].todo \subseteq DOMAIN run'[b].view
  BY Zenon, <1>1, <1>3, <1>9, <1>13, <1>16, <1>17 DEF world
<1>21. Relies(b)'
  <2>1. ASSUME NEW s \in AskType, Subject(b, s)', next # "look"
        PROVE  s = subject /\ run'[b].view[s.pkg].rhbz = n /\ s.of = bug[n].assignee
    BY <1>18, <1>20, <2>1
  <2>2. ASSUME NEW s \in AskType, Subject(b, s)', next = "ping"
        PROVE  MayBeAsked(bug[run[b].view[s.pkg].rhbz], s.of)'
    BY <1>10, <1>20, <2>1, <2>2 DEF MayBeAsked
  <2>3. ASSUME NEW s \in AskType, Subject(b, s)', next = "ticket"
        PROVE  MayBeTold(bug[run[b].view[s.pkg].rhbz])'
    BY <1>11, <1>20, <2>1, <2>3 DEF MayBeTold
  <2>4. next # "look" => (\E s \in AskType : Subject(b, s))'
    BY Zenon, <1>19
  <2> QED
    BY <1>12, <1>20, <2>2, <2>3, <2>4 DEF Relies, Asking, Closing
<1>22. Names(r.view, b)
  BY <1>15, <1>16 DEF Names
<1> QED
  BY Zenon, <1>0, <1>1, <1>16, <1>21, <1>22, RunKeeps, Facts DEF world

\* The request that a command has gone to ask about, and whom.
LEMMA SubjectIs ==
  ASSUME IInv, NEW b \in Branch, run[b].at \in Asking
  PROVE  LET s == Head(run[b].found)  n == run[b].view[s.pkg].rhbz IN
         /\ s \in AskType /\ s.pkg \in Pkg /\ s.of \in Person /\ Subject(b, s)
         /\ s.pkg \in DOMAIN run[b].view
         /\ n \in DOMAIN bug /\ bug[n].pkg = s.pkg /\ bug[n].branch = b
<1>1. PICK s \in AskType : Subject(b, s)
  BY Facts DEF Relies
<1>2. Head(run[b].found) = s /\ s.pkg \in DOMAIN run[b].view
  BY <1>1 DEF Subject
<1>3. PICK n : n = run[b].view[s.pkg].rhbz
  OBVIOUS
<1>4. n \in DOMAIN bug /\ bug[n].pkg = s.pkg /\ bug[n].branch = b
  BY <1>2, <1>3, Facts DEF Names
<1>5. s.pkg \in Pkg /\ s.of \in Person
  BY DEF AskType
<1> QED
  BY <1>1, <1>2, <1>3, <1>4, <1>5

\* One bug is edited.
LEMMA ExceptIs ==
  ASSUME IInv, NEW k \in DOMAIN bug, NEW x \in BugType, bug' = [bug EXCEPT ![k] = x]
  PROVE  /\ bug' \in Seq(BugType) /\ Len(bug') = Len(bug) /\ DOMAIN bug' = DOMAIN bug
         /\ bug'[k] = x /\ \A n \in DOMAIN bug \ {k} : bug'[n] = bug[n]
BY DEF IInv, Types

\* Bugs stay sound while the branches have what they had and time goes on.
LEMMA StillSound ==
  ASSUME today \in Nat, today' \in Nat, today <= today', bug' \in Seq(BugType),
         \A m \in DOMAIN bug' :
           /\ Sound(bug'[m])
           /\ landed[bug'[m].branch][bug'[m].pkg] # "never"
                => landed'[bug'[m].branch][bug'[m].pkg] # "never"
  PROVE  Asked'
<1>1. ASSUME NEW m \in DOMAIN bug' PROVE Sound(bug[m])'
  <2>1. PICK y \in BugType : y = bug'[m]
    OBVIOUS
  <2>2. Sound(y) /\ (landed[y.branch][y.pkg] # "never" => landed'[y.branch][y.pkg] # "never")
    BY <2>1
  <2>3. y.since # Never => y.since \in Nat
    BY DEF BugType
  <2>4. Sound(y)'
    BY <2>2, <2>3 DEF Sound
  <2> QED
    BY Zenon, <2>1, <2>4
<1> QED
  BY Zenon, <1>1 DEF Asked

\* A needinfo, by ebranch or by hand, sets no sound bug wrong.
LEMMA FlaggedIs ==
  ASSUME IInv, NEW x \in BugType, Sound(x), NEW q \in Person, NEW by \in {"ebranch", "hand"},
         by = "ebranch" => x.closed # "ebranch" /\ today >= x.born + PingMin
  PROVE  LET y == Flagged(x, q, by) IN
         /\ y \in BugType /\ Sound(y) /\ Remains(x, y)
         /\ y.flags = x.flags \cup {[of |-> q, on |-> today, by |-> by]}
         /\ y.dupe = x.dupe /\ y.closed = x.closed /\ y.status = x.status
<1> DEFINE f0 == [of |-> q, on |-> today, by |-> by]
           since == IF x.since = Never /\ q # Asker THEN today ELSE x.since
           y == [x EXCEPT !.flags = @ \cup {f0}, !.since = since, !.byhand = @ \/ by = "hand"]
<1>1. Flagged(x, q, by) = y
  BY DEF Flagged
<1>2. today \in Nat /\ f0 \in FlagType /\ f0.of = q /\ f0.on = today /\ f0.by = by
  BY DEF IInv, Types, FlagType
<1>3. x.since \in Nat \cup {Never} /\ x.flags \in SUBSET FlagType /\ x.byhand \in BOOLEAN
  BY DEF BugType
<1>4. since \in Nat \cup {Never}
  BY <1>2, <1>3
<1> HIDE DEF f0, since
<1>5. x.flags \cup {f0} \in SUBSET FlagType /\ (x.byhand \/ by = "hand") \in BOOLEAN
  BY Zenon, <1>2, <1>3
<1>6. /\ y \in BugType /\ y.flags = x.flags \cup {f0} /\ y.since = since
      /\ y.byhand = (x.byhand \/ by = "hand") /\ y.born = x.born
      /\ y.pkg = x.pkg /\ y.branch = x.branch /\ y.dupe = x.dupe /\ y.closed = x.closed
      /\ y.status = x.status
  BY Zenon, <1>4, <1>5 DEF BugType
<1> HIDE DEF y
<1>7. Remains(x, y)
  BY <1>6 DEF Remains, since
<1>8. y.since # Never => y.since <= today /\ (~y.byhand => y.since >= y.born + PingMin)
  <2> SUFFICES ASSUME since # Never
               PROVE  since <= today /\ (~y.byhand => since >= x.born + PingMin)
    BY <1>6
  <2>1. CASE x.since # Never
    BY <1>6, <2>1 DEF Sound, since
  <2>2. CASE x.since = Never
    <3>1. since = today
      BY <2>2 DEF since
    <3>2. ~y.byhand => by = "ebranch"
      BY <1>6
    <3> QED
      BY <1>2, <3>1, <3>2
  <2> QED
    BY <2>1, <2>2
<1>9. ASSUME NEW f \in y.flags, f.of # Asker PROVE y.since # Never /\ y.since <= f.on
  <2>1. CASE f \in x.flags
    <3>1. x.since # Never /\ x.since <= f.on
      BY <1>9, <2>1 DEF Sound
    <3> QED
      BY <1>6, <3>1 DEF since
  <2>2. CASE f = f0
    <3>1. CASE x.since = Never
      <4>1. since = today
        BY <1>2, <1>9, <2>2, <3>1 DEF since
      <4> QED
        BY <1>2, <1>6, <2>2, <4>1 DEF Never
    <3>2. CASE x.since # Never
      <4>1. x.since <= today
        BY <3>2 DEF Sound
      <4> QED
        BY <1>2, <1>6, <2>2, <3>2, <4>1 DEF since
    <3> QED
      BY <3>1, <3>2
  <2> QED
    BY <1>6, <2>1, <2>2
<1>10. y.closed = "ebranch" =>
         /\ y.status = "CLOSED" /\ landed[y.branch][y.pkg] # "never"
         /\ \A f \in y.flags : f.by = "hand"
  BY <1>2, <1>6 DEF Sound
<1>11. Sound(y)
  BY <1>8, <1>9, <1>10 DEF Sound
<1> QED
  BY <1>1, <1>6, <1>7, <1>11 DEF f0

LEMMA PingKeeps ==
  ASSUME IInv, NEW b \in Branch, Ping(b)
  PROVE  IInv'
<1> DEFINE s == Head(run[b].found)
           p == s.pkg
           n == run[b].view[p].rhbz
           view == [run[b].view EXCEPT ![p].pinged = TRUE]
           r == [run[b] EXCEPT !.at = "look", !.view = view, !.changed = TRUE]
           x == Flagged(bug[n], s.of, "ebranch")
<1>1. run[b].at = "ping" /\ UNCHANGED <<today, ticket, landed, access, acts>>
  BY Zenon DEF Ping, At
<1>2. /\ s \in AskType /\ p \in Pkg /\ s.of \in Person /\ Subject(b, s) /\ p \in DOMAIN run[b].view
      /\ n \in DOMAIN bug /\ bug[n].pkg = p /\ bug[n].branch = b
  BY <1>1, SubjectIs DEF Asking
<1>3. \/ bug' = [bug EXCEPT ![n] = x] /\ GiveUp(b)
      \/ /\ bug' = [bug EXCEPT ![n] = x]
         /\ run' = [run EXCEPT ![b].at = "look", ![b].view[p].pinged = TRUE, ![b].changed = TRUE]
         /\ report' = report
      \/ GiveUp(b) /\ bug' = bug
  BY Zenon DEF Ping
<1>4. /\ run[b] \in RunType /\ run[b].view \in View /\ Names(run[b].view, b) /\ Relies(b)
      /\ run[b].view \in [DOMAIN run[b].view -> Entry] /\ DOMAIN run[b].view \subseteq Pkg
      /\ bug[n] \in BugType /\ today \in Nat /\ ticket \in Seq(TicketType) /\ Len(bug) \in Nat
  BY <1>2, Facts, ViewFields
<1>5. MayBeAsked(bug[n], s.of)
  BY Zenon, <1>1, <1>2, <1>4 DEF Relies
<1>6. run[b].todo \subseteq DOMAIN run[b].view
  BY <1>1, <1>4 DEF Relies, Asking
<1> HIDE DEF n, p, s
<1>7. /\ x \in BugType /\ Sound(x) /\ Remains(bug[n], x)
      /\ x.dupe = bug[n].dupe /\ x.pkg = bug[n].pkg /\ x.branch = bug[n].branch
  <2>1. Sound(bug[n]) /\ bug[n].closed # "ebranch" /\ today >= bug[n].born + PingMin
    BY <1>2, <1>5 DEF IInv, Asked, MayBeAsked
  <2>2. x \in BugType /\ Sound(x) /\ Remains(bug[n], x) /\ x.dupe = bug[n].dupe
    BY Zenon, <1>2, <1>4, <2>1, FlaggedIs
  <2> QED
    BY <2>2 DEF Remains
<1> HIDE DEF x
<1>8. ASSUME bug' = [bug EXCEPT ![n] = x]
      PROVE  Kept(b) /\ DOMAIN bug' = DOMAIN bug
  <2>1. /\ bug' \in Seq(BugType) /\ Len(bug') = Len(bug) /\ DOMAIN bug' = DOMAIN bug
        /\ bug'[n] = x /\ \A m \in DOMAIN bug \ {n} : bug'[m] = bug[m]
    BY Zenon, <1>2, <1>7, <1>8, ExceptIs
  <2>2. \A m \in DOMAIN bug : /\ bug'[m].pkg = bug[m].pkg /\ bug'[m].branch = bug[m].branch
                              /\ bug'[m].dupe = bug[m].dupe
    BY <1>7, <2>1
  <2>3. ASSUME NEW c \in Branch \ {b}, NEW m \in DOMAIN bug
        PROVE  Remains(bug[m], bug'[m]) /\ (bug[m].branch = c => NotByEbranch(bug[m], bug'[m]))
    <3>1. CASE m = n
      BY <1>2, <1>7, <2>1, <3>1
    <3>2. CASE m # n
      BY <2>1, <3>2 DEF Remains, NotByEbranch
    <3> QED
      BY <3>1, <3>2
  <2>4. \A c \in Branch \ {b} : Calm(c)
    BY <1>1, <1>4, <2>1, <2>3 DEF Calm
  <2>5. Asked'
    <3>1. \A m \in DOMAIN bug' : Sound(bug'[m])
      BY <1>7, <2>1 DEF IInv, Asked
    <3> QED
      BY <1>1, <1>4, <2>1, <3>1, StillSound
  <2> QED
    BY <1>4, <2>1, <2>2, <2>4, <2>5 DEF Kept
<1>9. CASE bug' = [bug EXCEPT ![n] = x] /\ GiveUp(b)
  <2>1. run' = [run EXCEPT ![b] = Idle] /\ report' = report
    BY <1>9 DEF GiveUp
  <2>2. Relies(b)'
    BY <2>1, IdleKeeps DEF IInv, Types
  <2>3. DOMAIN Idle.view = {}
    BY DEF Idle, NoRequests
  <2>4. Kept(b)
    BY <1>8, <1>9
  <2> QED
    BY Zenon, <1>1, <1>4, <2>1, <2>2, <2>3, <2>4, IdleIsRun, StepKeeps
<1>10. CASE /\ bug' = [bug EXCEPT ![n] = x]
            /\ run' = [run EXCEPT ![b].at = "look", ![b].view[p].pinged = TRUE, ![b].changed = TRUE]
            /\ report' = report
  <2>1. run' = [run EXCEPT ![b] = r]
    BY Zenon, <1>10
  <2>2. /\ view \in [DOMAIN run[b].view -> Entry] /\ DOMAIN view = DOMAIN run[b].view
        /\ \A q \in DOMAIN view : view[q].rhbz = run[b].view[q].rhbz
    <3>1. [run[b].view[p] EXCEPT !.pinged = TRUE] \in Entry
      BY Zenon, <1>2, <1>4 DEF Entry
    <3> QED
      BY <1>2, <1>4, <3>1
  <2> HIDE DEF view
  <2>3. view \in View
    BY Zenon, <1>4, <2>2, ViewIs
  <2>4. r \in RunType /\ r.view = view /\ r.at = "look" /\ r.todo = run[b].todo
    BY Zenon, <1>4, <2>3 DEF RunType
  <2> HIDE DEF r
  <2>5. run'[b] = r
    BY <2>1 DEF IInv, Types
  <2>6. Relies(b)'
    BY <1>6, <2>2, <2>4, <2>5 DEF Relies, Asking, Closing
  <2>7. \A q \in DOMAIN r.view : /\ r.view[q].rhbz \in DOMAIN bug'
                                 /\ bug'[r.view[q].rhbz].pkg = q
                                 /\ bug'[r.view[q].rhbz].branch = b
    <3> SUFFICES ASSUME NEW q \in DOMAIN run[b].view, NEW m, m = run[b].view[q].rhbz
                 PROVE  m \in DOMAIN bug' /\ bug'[m].pkg = q /\ bug'[m].branch = b
      BY <2>2, <2>4
    <3>1. m \in DOMAIN bug /\ bug[m].pkg = q /\ bug[m].branch = b
      BY <1>4 DEF Names
    <3> QED
      BY <1>8, <1>10, <3>1 DEF Kept
  <2>8. Kept(b) /\ report' = report
    BY <1>8, <1>10
  <2> QED
    BY Zenon, <1>1, <1>4, <2>1, <2>4, <2>6, <2>7, <2>8, StepKeeps
<1>11. CASE GiveUp(b) /\ bug' = bug
  BY <1>1, <1>11, EndKeeps DEF world
<1> QED
  BY <1>3, <1>9, <1>10, <1>11, SMTT(20)

\* A command turns to its next stage.
LEMMA GotoKeeps ==
  ASSUME IInv, NEW b \in Branch, Goto(b, "look") \/ Goto(b, "create"),
         run[b].at \in {"ticket", "create"}, UNCHANGED <<world, report>>
  PROVE  IInv'
<1>1. PICK at \in {"look", "create"} : run' = [run EXCEPT ![b].at = at]
  BY DEF Goto
<1> DEFINE r == [run[b] EXCEPT !.at = at]
<1>2. run' = [run EXCEPT ![b] = r]
  BY <1>1
<1>3. run[b] \in RunType /\ Names(run[b].view, b) /\ Relies(b)
  BY Facts
<1>4. r \in RunType /\ r.view = run[b].view /\ r.todo = run[b].todo /\ r.at = at /\ r.found = run[b].found
  BY <1>3 DEF RunType, Asking
<1> HIDE DEF r
<1>5. run'[b] = r
  BY <1>2 DEF IInv, Types
<1>6. \A s : Subject(b, s)' <=> Subject(b, s)
  BY Zenon, <1>4, <1>5 DEF Subject
<1>7. /\ run[b].todo \subseteq DOMAIN run[b].view /\ \E s \in AskType : Subject(b, s)
      /\ \A s \in AskType : Subject(b, s) => MayBeTold(bug[run[b].view[s.pkg].rhbz])
  BY <1>3 DEF Relies, Asking
<1>8. bug' = bug /\ today' = today /\ run'[b].view = run[b].view
  BY <1>4, <1>5 DEF world
<1>9. ASSUME NEW s \in AskType, Subject(b, s)'
      PROVE  MayBeTold(bug[run[b].view[s.pkg].rhbz])'
  BY Zenon, <1>6, <1>7, <1>8, <1>9 DEF MayBeTold
<1>10. Relies(b)'
  BY <1>1, <1>4, <1>5, <1>6, <1>7, <1>9 DEF Relies, Asking, Closing
<1> QED
  BY Zenon, <1>2, <1>3, <1>4, <1>10, RunKeeps, Facts DEF world

\* It learns of a ticket.
LEMMA TicketKeeps ==
  ASSUME IInv, NEW b \in Branch, NEW p, NEW t \in Nat, p = Head(run[b].found).pkg,
         run[b].at \in Asking,
         run' = [run EXCEPT ![b].at = "look", ![b].changed = TRUE, ![b].view[p].releng = t],
         ticket' \in Seq(TicketType),
         UNCHANGED <<today, bug, landed, access, acts, report>>
  PROVE  IInv'
<1> DEFINE view == [run[b].view EXCEPT ![p].releng = t]
           r == [run[b] EXCEPT !.at = "look", !.changed = TRUE, !.view = view]
<1>1. run' = [run EXCEPT ![b] = r]
  BY Zenon
<1>2. /\ run[b] \in RunType /\ run[b].view \in View /\ Names(run[b].view, b) /\ Relies(b)
      /\ run[b].view \in [DOMAIN run[b].view -> Entry] /\ DOMAIN run[b].view \subseteq Pkg
  BY Facts, ViewFields
<1>3. p \in DOMAIN run[b].view
  BY Zenon, SubjectIs
<1>4. run[b].todo \subseteq DOMAIN run[b].view
  BY Zenon, <1>2 DEF Relies
<1>5. /\ view \in [DOMAIN run[b].view -> Entry] /\ DOMAIN view = DOMAIN run[b].view
      /\ \A q \in DOMAIN view : view[q].rhbz = run[b].view[q].rhbz
  <2>1. PICK e : e = [run[b].view[p] EXCEPT !.releng = t]
    OBVIOUS
  <2>2. run[b].view[p] \in Entry
    BY Zenon, <1>2, <1>3
  <2>3. e \in Entry /\ e.rhbz = run[b].view[p].rhbz
    BY Zenon, <2>1, <2>2 DEF Entry
  <2>4. view = [run[b].view EXCEPT ![p] = e]
    BY <2>1
  <2> HIDE DEF view
  <2> QED
    BY <1>2, <1>3, <2>3, <2>4
<1> HIDE DEF view
<1>6. view \in View
  BY Zenon, <1>2, <1>5, ViewIs
<1>7. r \in RunType /\ r.view = view /\ r.at = "look" /\ r.todo = run[b].todo
  BY Zenon, <1>2, <1>6 DEF RunType
<1> HIDE DEF r
<1>8. run'[b] = r
  BY Zenon, <1>1 DEF IInv, Types
<1>9. Relies(b)'
  BY Zenon, <1>4, <1>5, <1>7, <1>8 DEF Relies, Asking, Closing
<1>10. Names(r.view, b)
  BY Zenon, <1>2, <1>5, <1>7 DEF Names
<1> QED
  BY Zenon, <1>1, <1>7, <1>9, <1>10, RunKeeps

LEMMA SearchTicketsKeeps ==
  ASSUME IInv, NEW b \in Branch, SearchTickets(b)
  PROVE  IInv'
<1> DEFINE p == Head(run[b].found).pkg
<1>1. run[b].at = "ticket" /\ UNCHANGED <<world, report>>
  BY DEF SearchTickets, At
<1>2. CASE Goto(b, "look") \/ Goto(b, "create")
  BY <1>1, <1>2, GotoKeeps
<1>3. CASE /\ OpenTicket(p) # {}
           /\ run' = [run EXCEPT ![b].at = "look", ![b].changed = TRUE,
                                 ![b].view[p].releng = Oldest(OpenTicket(p))]
  <2>1. OpenTicket(p) \subseteq Nat
    BY DEF OpenTicket, IInv, Types
  <2>2. Oldest(OpenTicket(p)) \in Nat
    BY <1>3, <2>1, OldestIsOne
  <2>3. run[b].at \in Asking /\ ticket' \in Seq(TicketType)
    BY <1>1, Facts DEF Asking, world
  <2> QED
    BY Zenon, <1>1, <1>3, <2>2, <2>3, TicketKeeps DEF world
<1> QED
  BY <1>2, <1>3 DEF SearchTickets

LEMMA CreateTicketKeeps ==
  ASSUME IInv, NEW b \in Branch, CreateTicket(b)
  PROVE  IInv'
<1> DEFINE p == Head(run[b].found).pkg
           new == [pkg |-> p, of |-> run[b].view[p].rhbz, open |-> TRUE]
<1>1. run[b].at = "create" /\ UNCHANGED <<today, bug, landed, access, acts>>
  BY DEF CreateTicket, At
<1>2. p \in Pkg /\ run[b].view[p].rhbz \in Nat
  <2>1. p \in Pkg /\ run[b].view[p].rhbz \in DOMAIN bug
    BY Zenon, <1>1, SubjectIs DEF Asking
  <2> QED
    BY <2>1, Facts
<1>3. new \in TicketType
  BY <1>2 DEF TicketType
<1> HIDE DEF p
<1>4. ASSUME ticket' = Append(ticket, new)
      PROVE  ticket' \in Seq(TicketType) /\ Len(ticket') \in Nat
  BY <1>3, <1>4, Facts
<1>5. CASE /\ ticket' = Append(ticket, new) /\ report' = report
           /\ run' = [run EXCEPT ![b].at = "look", ![b].changed = TRUE,
                                 ![b].view[p].releng = Len(ticket')]
  BY Zenon, <1>1, <1>4, <1>5, TicketKeeps DEF Asking, p
<1>6. CASE ticket' = Append(ticket, new) /\ GiveUp(b)
  <2>1. run' = [run EXCEPT ![b] = Idle] /\ report' = report
    BY <1>6 DEF GiveUp
  <2>2. Relies(b)'
    BY <2>1, IdleKeeps DEF IInv, Types
  <2>3. Names(Idle.view, b)
    BY DEF Idle, NoRequests, Names
  <2> QED
    BY Zenon, <1>1, <1>4, <1>6, <2>1, <2>2, <2>3, IdleIsRun, RunKeeps
<1>7. CASE Goto(b, "look") /\ UNCHANGED <<ticket, report>>
  BY <1>1, <1>7, GotoKeeps DEF world
<1> QED
  BY <1>5, <1>6, <1>7 DEF CreateTicket, p

-----------------------------------------------------------------------------
(* close *)

LEMMA CloseKeeps ==
  ASSUME IInv, NEW b \in Branch, Close(b)
  PROVE  IInv'
<1> DEFINE r == [Idle EXCEPT !.at = "decide", !.view = report[b], !.todo = DOMAIN report[b],
                             !.seen = Has(b)]
<1>1. run' = [run EXCEPT ![b] = r] /\ UNCHANGED <<world, report>>
  BY DEF Close
<1>2. /\ report[b] \in View /\ Names(report[b], b) /\ DOMAIN report[b] \subseteq Pkg
      /\ Has(b) \subseteq Pkg
  BY Facts, ViewFields DEF Has
<1>3. /\ r \in RunType /\ r.view = report[b] /\ r.todo = DOMAIN report[b] /\ r.at = "decide"
      /\ r.seen = Has(b) /\ r.found = <<>>
  BY Zenon, <1>2, IdleIsRun DEF RunType, Idle, Closing
<1> HIDE DEF r
<1>4. run'[b] = r /\ landed' = landed
  BY <1>1 DEF IInv, Types, world
<1>5. <<>> \in Seq(CloseType) /\ DOMAIN <<>> = {}
  OBVIOUS
<1>6. \A p \in run'[b].seen : landed'[b][p] # "never"
  BY <1>3, <1>4 DEF Has
<1>7. Relies(b)'
  BY Zenon, <1>3, <1>4, <1>5, <1>6 DEF Relies, Asking, Closing
<1> QED
  BY Zenon, <1>1, <1>2, <1>3, <1>7, RunKeeps, Facts DEF world

LEMMA WantedIs ==
  ASSUME IInv, NEW b \in Branch, run[b].at \in Closing
  PROVE  /\ \A p \in run[b].seen : landed[b][p] # "never"
         /\ run[b].found \in Seq(CloseType)
         /\ \A i \in DOMAIN run[b].found : Wanted(run[b].found[i], b)
BY Facts DEF Relies

LEMMA FirstOfAll ==
  ASSUME NEW S, NEW s \in Seq(S), NEW x \in S
  PROVE  LET t == <<x>> \o s IN
         /\ t \in Seq(S) /\ DOMAIN t = 1..(Len(s) + 1)
         /\ Len(s) \in Nat /\ DOMAIN s = 1..Len(s)
         /\ t[1] = x /\ \A i \in DOMAIN s : t[i + 1] = s[i]
<1> DEFINE t == <<x>> \o s
<1>1. <<x>> \in Seq(S) /\ Len(<<x>>) = 1 /\ <<x>>[1] = x
  OBVIOUS
<1>2. t \in Seq(S)
  BY <1>1
<1>3. Len(t) = Len(s) + 1
  BY <1>1
<1>4. Len(s) \in Nat /\ DOMAIN s = 1..Len(s)
  OBVIOUS
<1>5. t[1] = x
  BY <1>1, <1>4
<1>6. ASSUME NEW i \in DOMAIN s PROVE t[i + 1] = s[i]
  BY <1>1, <1>4
<1>7. DOMAIN t = 1..(Len(s) + 1)
  BY <1>2, <1>3
<1> QED
  BY <1>2, <1>4, <1>5, <1>6, <1>7

LEMMA DecideKeeps ==
  ASSUME IInv, NEW b \in Branch, NEW p \in Pkg, Decide(b, p)
  PROVE  IInv'
<1> DEFINE n == run[b].view[p].rhbz
           x == [bug |-> n, act |-> CloseDecision(b, p, n), flags |-> bug[n].flags]
           found == IF x.act = "leave" THEN run[b].found
                    ELSE IF x.act = "tidy" THEN <<x>> \o run[b].found ELSE Append(run[b].found, x)
           r == [run[b] EXCEPT !.todo = @ \ {p}, !.found = found]
<1>1. /\ run' = [run EXCEPT ![b].todo = @ \ {p},
                    ![b].found = IF x.act = "leave" THEN @
                                 ELSE IF x.act = "tidy" THEN <<x>> \o @ ELSE Append(@, x)]
      /\ UNCHANGED <<world, report>> /\ run[b].at = "decide" /\ p \in run[b].todo
  BY DEF Decide, At
<1>2. /\ run[b] \in RunType /\ Names(run[b].view, b) /\ Relies(b)
      /\ run[b].todo \subseteq DOMAIN run[b].view
      /\ \A q \in run[b].seen : landed[b][q] # "never"
      /\ run[b].found \in Seq(CloseType)
      /\ \A i \in DOMAIN run[b].found : Wanted(run[b].found[i], b)
  BY Zenon, <1>1, WantedIs, Facts DEF Relies, Closing
<1>3. n \in DOMAIN bug /\ bug[n].pkg = p /\ bug[n].branch = b /\ n \in Nat
  <2>1. p \in DOMAIN run[b].view
    BY <1>1, <1>2
  <2>2. n \in DOMAIN bug /\ bug[n].pkg = p /\ bug[n].branch = b
    BY <1>2, <2>1 DEF Names
  <2> QED
    BY <2>2, Facts
<1> HIDE DEF n
<1>4. x.act # "leave" => Wanted(x, b)
  <2>1. x.act \in {"leave", "tidy", "close"} /\ (x.act = "close" => p \in run[b].seen)
    BY DEF CloseDecision
  <2>2. x.bug = n /\ x.flags = bug[n].flags
    BY Zenon
  <2>3. x.act # "leave" => x \in CloseType
    <3>1. bug[n].flags \in SUBSET FlagType
      BY <1>3, Facts DEF BugType
    <3> QED
      BY <1>3, <2>1, <3>1 DEF CloseType
  <2> HIDE DEF x
  <2> QED
    BY <1>3, <2>1, <2>2, <2>3 DEF Wanted
<1> HIDE DEF x
<1>5. run' = [run EXCEPT ![b] = r]
  BY Zenon, <1>1
<1>6. found \in Seq(CloseType) /\ \A i \in DOMAIN found : Wanted(found[i], b)
  <2>1. CASE x.act = "leave"
    BY <1>2, <2>1
  <2>2. CASE x.act = "tidy"
    <3>1. x \in CloseType
      BY <1>4, <2>2 DEF Wanted
    <3>2. found = <<x>> \o run[b].found
      BY <2>2
    <3> HIDE DEF found
    <3>3. /\ found \in Seq(CloseType) /\ DOMAIN found = 1..(Len(run[b].found) + 1)
          /\ Len(run[b].found) \in Nat /\ DOMAIN run[b].found = 1..Len(run[b].found)
          /\ found[1] = x /\ \A i \in DOMAIN run[b].found : found[i + 1] = run[b].found[i]
      <4>1. PICK old \in Seq(CloseType) : old = run[b].found
        BY <1>2
      <4>2. found = <<x>> \o old
        BY <3>2, <4>1
      <4> QED
        BY <3>1, <4>1, <4>2, FirstOfAll
    <3>4. ASSUME NEW i \in DOMAIN found PROVE Wanted(found[i], b)
      <4>1. CASE i = 1
        BY <1>4, <2>2, <3>3, <4>1
      <4>2. CASE i # 1
        <5>1. i - 1 \in DOMAIN run[b].found /\ (i - 1) + 1 = i
          BY <3>3, <4>2
        <5>2. found[i] = run[b].found[i - 1]
          BY <3>3, <5>1
        <5> QED
          BY <1>2, <5>1, <5>2
      <4> QED
        BY <4>1, <4>2
    <3> QED
      BY <3>3, <3>4
  <2>3. CASE x.act # "leave" /\ x.act # "tidy"
    <3>1. x \in CloseType
      BY <1>4, <2>3 DEF Wanted
    <3>2. found = Append(run[b].found, x)
      BY <2>3
    <3>3. /\ found \in Seq(CloseType) /\ DOMAIN found = DOMAIN run[b].found \cup {Len(run[b].found) + 1}
          /\ found[Len(run[b].found) + 1] = x
          /\ \A i \in DOMAIN run[b].found : found[i] = run[b].found[i]
      BY <1>2, <3>1, <3>2, SMTT(20)
    <3> HIDE DEF found
    <3> QED
      BY <1>2, <1>4, <2>3, <3>3
  <2> QED
    BY Zenon, <2>1, <2>2, <2>3
<1> HIDE DEF found
<1>7. /\ r \in RunType /\ r.view = run[b].view /\ r.at = "decide" /\ r.todo \subseteq run[b].todo
      /\ r.found = found /\ r.seen = run[b].seen
  BY Zenon, <1>1, <1>2, <1>6 DEF RunType
<1> HIDE DEF r
<1>8. run'[b] = r
  BY <1>5 DEF IInv, Types
<1>9. bug' = bug /\ landed' = landed
  BY <1>1 DEF world
<1>10. ASSUME NEW i \in DOMAIN r.found PROVE Wanted(run[b].found[i], b)'
  BY <1>6, <1>7, <1>8, <1>9 DEF Wanted
<1>11. Relies(b)'
  BY <1>2, <1>6, <1>7, <1>8, <1>9, <1>10 DEF Relies, Asking, Closing
<1> QED
  BY Zenon, <1>1, <1>2, <1>5, <1>7, <1>11, RunKeeps, Facts DEF world

LEMMA DecidedKeeps ==
  ASSUME IInv, NEW b \in Branch, Decided(b)
  PROVE  IInv'
<1> DEFINE r == [run[b] EXCEPT !.at = "write"]
<1>1. /\ run' = [run EXCEPT ![b] = r] /\ UNCHANGED <<world, report>> /\ run[b].at = "decide"
  BY DEF Decided, Goto, At
<1>2. run[b] \in RunType /\ Names(run[b].view, b) /\ Relies(b)
  BY Facts
<1>3. /\ r \in RunType /\ r.view = run[b].view /\ r.at = "write" /\ r.todo = run[b].todo
      /\ r.found = run[b].found /\ r.seen = run[b].seen
  BY <1>2 DEF RunType, Closing
<1> HIDE DEF r
<1>4. run'[b] = r /\ bug' = bug /\ landed' = landed
  BY <1>1, SMTT(20) DEF IInv, Types, world
<1>5. Relies(b)'
  <2>1. \A i \in DOMAIN run[b].found : Wanted(run[b].found[i], b)
    BY <1>1, WantedIs DEF Closing
  <2>2. ASSUME NEW i \in DOMAIN run'[b].found PROVE Wanted(run[b].found[i], b)'
    BY <1>3, <1>4, <2>1 DEF Wanted
  <2> QED
    BY <1>1, <1>2, <1>3, <1>4, <2>2 DEF Relies, Asking, Closing
<1> QED
  BY Zenon, <1>1, <1>2, <1>3, <1>5, RunKeeps, Facts DEF world

\* A write of close: flags cleared, or the bug closed with those it was read with
\* cleared.
LEMMA WriteIsKept ==
  ASSUME IInv, NEW b \in Branch, run[b].at = "write", NEW x, Wanted(x, b),
         \A p \in run[b].seen : landed[b][p] # "never", today' = today, landed' = landed,
         \/ bug' = [bug EXCEPT ![x.bug].flags = @ \ x.flags]
         \/ bug' = bug
         \/ x.act = "close" /\ bug' = CloseBug(x)
  PROVE  /\ Kept(b) /\ DOMAIN bug' = DOMAIN bug
         /\ \A m \in DOMAIN bug : bug'[m].flags \subseteq bug[m].flags
<1> DEFINE k == x.bug
           y == [bug[k] EXCEPT !.flags = @ \ x.flags]
           z == [bug[k] EXCEPT !.flags = @ \ x.flags, !.status = "CLOSED", !.closed = "ebranch"]
<1>1. /\ k \in DOMAIN bug /\ bug[k].branch = b /\ bug[k] \in BugType /\ Sound(bug[k])
      /\ \A f \in bug[k].flags \ x.flags : f.by = "hand"
      /\ x.act = "close" => landed[b][bug[k].pkg] # "never"
  BY Facts DEF Wanted, IInv, Asked
<1>2. PICK w \in {bug[k], y} \cup (IF x.act = "close" THEN {z} ELSE {}) : bug' = [bug EXCEPT ![k] = w]
  <2>1. CASE bug' = bug
    <3>1. bug' = [bug EXCEPT ![k] = bug[k]]
      BY <1>1, <2>1, Facts
    <3> QED
      BY Zenon, <3>1
  <2>2. CASE bug' = [bug EXCEPT ![x.bug].flags = @ \ x.flags]
    <3>1. bug' = [bug EXCEPT ![k] = y]
      BY <2>2
    <3> QED
      BY Zenon, <3>1
  <2>3. CASE x.act = "close" /\ bug' = CloseBug(x)
    <3>1. bug' = [bug EXCEPT ![k] = z]
      BY Zenon, <2>3 DEF CloseBug
    <3> QED
      BY <2>3, <3>1
  <2> QED
    BY <2>1, <2>2, <2>3
<1>3. /\ w \in BugType /\ Remains(bug[k], w) /\ w.dupe = bug[k].dupe /\ w.flags \subseteq bug[k].flags
      /\ Sound(w)
  <2>1. bug[k].flags \ x.flags \in SUBSET FlagType
    BY <1>1 DEF BugType
  <2>2. CASE w = bug[k]
    BY <1>1, <2>2 DEF Remains
  <2>3. CASE w = y
    <3>1. /\ y \in BugType /\ y.flags = bug[k].flags \ x.flags /\ y.dupe = bug[k].dupe
          /\ y.pkg = bug[k].pkg /\ y.branch = bug[k].branch /\ y.born = bug[k].born
          /\ y.since = bug[k].since /\ y.byhand = bug[k].byhand
          /\ y.status = bug[k].status /\ y.closed = bug[k].closed
      BY Zenon, <1>1, <2>1 DEF BugType
    <3> HIDE DEF y
    <3> QED
      BY <1>1, <2>3, <3>1 DEF Remains, Sound
  <2>4. CASE x.act = "close" /\ w = z
    <3>1. /\ z \in BugType /\ z.flags = bug[k].flags \ x.flags /\ z.dupe = bug[k].dupe
          /\ z.pkg = bug[k].pkg /\ z.branch = bug[k].branch /\ z.born = bug[k].born
          /\ z.since = bug[k].since /\ z.byhand = bug[k].byhand
          /\ z.status = "CLOSED" /\ z.closed = "ebranch"
      BY Zenon, <1>1, <2>1 DEF BugType
    <3> HIDE DEF z
    <3> QED
      BY <1>1, <2>4, <3>1 DEF Remains, Sound
  <2> QED
    BY <1>2, <2>2, <2>3, <2>4
<1> HIDE DEF k, y, z
<1>4. /\ bug' \in Seq(BugType) /\ Len(bug') = Len(bug) /\ DOMAIN bug' = DOMAIN bug
      /\ bug'[k] = w /\ \A n \in DOMAIN bug \ {k} : bug'[n] = bug[n]
  BY Zenon, <1>1, <1>2, <1>3, ExceptIs
<1>5. \A n \in DOMAIN bug : /\ bug'[n].pkg = bug[n].pkg /\ bug'[n].branch = bug[n].branch
                            /\ bug'[n].dupe = bug[n].dupe
                            /\ bug'[n].flags \subseteq bug[n].flags
  BY <1>1, <1>3, <1>4 DEF Remains
<1>6. today \in Nat /\ Len(bug) \in Nat
  BY Facts
<1>7. ASSUME NEW c \in Branch \ {b}, NEW m \in DOMAIN bug
      PROVE  Remains(bug[m], bug'[m]) /\ (bug[m].branch = c => NotByEbranch(bug[m], bug'[m]))
  <2>1. CASE m = k
    BY <1>1, <1>3, <1>4, <2>1
  <2>2. CASE m # k
    BY <1>4, <2>2 DEF Remains, NotByEbranch
  <2> QED
    BY <2>1, <2>2
<1>8. \A c \in Branch \ {b} : Calm(c)
  BY <1>4, <1>6, <1>7 DEF Calm
<1>9. Asked'
  <2>1. \A m \in DOMAIN bug' : Sound(bug'[m])
    BY <1>3, <1>4 DEF IInv, Asked
  <2> QED
    BY <1>4, <1>6, <2>1, StillSound
<1>10. Len(bug) <= Len(bug')
  BY <1>4, <1>6
<1> QED
  BY <1>4, <1>5, <1>8, <1>9, <1>10 DEF Kept

LEMMA WriteCloseKeeps ==
  ASSUME IInv, NEW b \in Branch, WriteClose(b)
  PROVE  IInv'
<1> DEFINE x == Head(run[b].found)
           r == [run[b] EXCEPT !.found = Tail(@)]
<1>1. /\ run[b].at = "write" /\ run[b].found # <<>>
      /\ UNCHANGED <<today, ticket, landed, access, acts>>
  BY DEF WriteClose, At
<1>2. /\ run[b] \in RunType /\ Names(run[b].view, b) /\ Relies(b)
      /\ run[b].todo \subseteq DOMAIN run[b].view /\ ticket \in Seq(TicketType)
      /\ \A q \in run[b].seen : landed[b][q] # "never"
      /\ run[b].found \in Seq(CloseType)
      /\ \A i \in DOMAIN run[b].found : Wanted(run[b].found[i], b)
  BY <1>1, WantedIs, Facts DEF Relies, Closing
<1>3. Wanted(x, b)
  <2>1. x = run[b].found[1] /\ 1 \in DOMAIN run[b].found
    BY <1>1, <1>2
  <2> QED
    BY <1>2, <2>1
<1>4. /\ \/ bug' = [bug EXCEPT ![x.bug].flags = @ \ x.flags]
         \/ bug' = bug
         \/ x.act = "close" /\ bug' = CloseBug(x)
      /\ report' = report
      /\ \/ run' = [run EXCEPT ![b].found = Tail(@)]
         \/ run' = [run EXCEPT ![b] = Idle]
  <2>1. x.act \in {"close", "tidy"}
    BY <1>3 DEF Wanted, CloseType
  <2> QED
    BY <2>1 DEF WriteClose, GiveUp
<1> HIDE DEF x
<1>5. /\ Kept(b) /\ DOMAIN bug' = DOMAIN bug
      /\ \A m \in DOMAIN bug : bug'[m].flags \subseteq bug[m].flags
  BY Zenon, <1>1, <1>2, <1>3, <1>4, WriteIsKept
<1>6. CASE run' = [run EXCEPT ![b] = Idle]
  <2>1. Relies(b)'
    BY <1>6, IdleKeeps DEF IInv, Types
  <2>2. DOMAIN Idle.view = {}
    BY DEF Idle, NoRequests
  <2> QED
    BY Zenon, <1>1, <1>2, <1>4, <1>5, <1>6, <2>1, <2>2, IdleIsRun, StepKeeps
<1>7. CASE run' = [run EXCEPT ![b].found = Tail(@)]
  <2>1. run' = [run EXCEPT ![b] = r]
    BY <1>7
  <2>2. /\ Tail(run[b].found) \in Seq(CloseType)
        /\ \A i \in DOMAIN Tail(run[b].found) : Wanted(Tail(run[b].found)[i], b)
    <3>1. /\ Tail(run[b].found) \in Seq(CloseType)
          /\ \A i \in DOMAIN Tail(run[b].found) :
               /\ i + 1 \in DOMAIN run[b].found /\ Tail(run[b].found)[i] = run[b].found[i + 1]
      BY <1>1, <1>2
    <3> QED
      BY <1>2, <3>1
  <2>3. /\ r \in RunType /\ r.view = run[b].view /\ r.at = "write" /\ r.todo = run[b].todo
        /\ r.found = Tail(run[b].found) /\ r.seen = run[b].seen
    BY ZenonT(40), <1>1, <1>2, <2>2 DEF RunType
  <2> HIDE DEF r
  <2>4. run'[b] = r
    BY <2>1 DEF IInv, Types
  <2>5. ASSUME NEW i \in DOMAIN r.found PROVE Wanted(run[b].found[i], b)'
    <3>1. PICK y : y = r.found[i] /\ y = run'[b].found[i]
      BY <2>4
    <3>2. PICK m : m = y.bug
      OBVIOUS
    <3>3. /\ y \in CloseType /\ m \in DOMAIN bug /\ bug[m].branch = b
          /\ \A f \in bug[m].flags : f \notin y.flags => f.by = "hand"
          /\ y.act = "close" => bug[m].pkg \in run[b].seen
      BY <2>2, <2>3, <3>1, <3>2 DEF Wanted
    <3>4. bug'[m].pkg = bug[m].pkg /\ bug'[m].branch = bug[m].branch
      BY <1>5, <3>3 DEF Kept
    <3>5. /\ m \in DOMAIN bug' /\ bug'[m].branch = b
          /\ \A f \in bug'[m].flags : f \notin y.flags => f.by = "hand"
          /\ y.act = "close" => bug'[m].pkg \in run'[b].seen
      BY <1>5, <2>3, <2>4, <3>3, <3>4
    <3>6. Wanted(y, b)'
      BY <3>2, <3>3, <3>5 DEF Wanted
    <3> QED
      BY Zenon, <3>1, <3>6
  <2>6. Relies(b)'
    BY Zenon, <1>1, <1>2, <2>2, <2>3, <2>4, <2>5 DEF Relies, Asking, Closing
  <2>7. \A q \in DOMAIN r.view : /\ r.view[q].rhbz \in DOMAIN bug'
                                 /\ bug'[r.view[q].rhbz].pkg = q
                                 /\ bug'[r.view[q].rhbz].branch = b
    <3> SUFFICES ASSUME NEW q \in DOMAIN run[b].view, NEW m, m = run[b].view[q].rhbz
                 PROVE  m \in DOMAIN bug' /\ bug'[m].pkg = q /\ bug'[m].branch = b
      BY <2>3
    <3>1. m \in DOMAIN bug /\ bug[m].pkg = q /\ bug[m].branch = b
      BY <1>2 DEF Names
    <3> QED
      BY <1>5, <3>1 DEF Kept
  <2> QED
    BY Zenon, <1>1, <1>2, <1>4, <1>5, <2>1, <2>3, <2>6, <2>7, StepKeeps
<1> QED
  BY <1>4, <1>6, <1>7

-----------------------------------------------------------------------------
(* Everybody else *)

\* What people may do to one bug.
LEMMA EditKeeps ==
  ASSUME IInv, NEW k \in DOMAIN bug, NEW x \in BugType, Edit(k, x),
         Remains(bug[k], x), NotByEbranch(bug[k], x), Sound(x),
         \/ x.dupe \in {bug[k].dupe, 0}
         \/ /\ x.dupe \in DOMAIN bug
            /\ bug[x.dupe].pkg = bug[k].pkg /\ bug[x.dupe].branch = bug[k].branch
  PROVE  IInv'
<1>1. /\ bug' = [bug EXCEPT ![k] = x] /\ today' = today /\ ticket' = ticket
      /\ landed' = landed /\ access' = access /\ report' = report /\ run' = run
  BY DEF Edit
<1>2. /\ bug' \in Seq(BugType) /\ Len(bug') = Len(bug) /\ DOMAIN bug' = DOMAIN bug
      /\ bug'[k] = x /\ \A n \in DOMAIN bug \ {k} : bug'[n] = bug[n]
  BY Zenon, <1>1, ExceptIs
<1>3. Types'
  BY <1>1, <1>2 DEF IInv, Types
<1>4. today \in Nat /\ Len(bug) \in Nat
  BY DEF IInv, Types
<1>5. \A c \in Branch : Calm(c)
  <2>1. ASSUME NEW m \in DOMAIN bug
        PROVE  Remains(bug[m], bug'[m]) /\ NotByEbranch(bug[m], bug'[m])
    <3>1. CASE m = k
      BY <1>2, <3>1
    <3>2. CASE m # k
      BY <1>2, <3>2 DEF Remains, NotByEbranch
    <3> QED
      BY <3>1, <3>2
  <2> QED
    BY <1>1, <1>2, <1>4, <2>1 DEF Calm
<1>6. \A n \in DOMAIN bug : bug'[n].pkg = bug[n].pkg /\ bug'[n].branch = bug[n].branch
  BY <1>2 DEF Remains
<1>7. Named'
  <2>1. ASSUME NEW n \in DOMAIN bug', bug'[n].dupe # 0
        PROVE  /\ bug'[n].dupe \in DOMAIN bug'
               /\ bug'[bug'[n].dupe].pkg = bug'[n].pkg
               /\ bug'[bug'[n].dupe].branch = bug'[n].branch
    <3>1. PICK d : d = bug'[n].dupe
      OBVIOUS
    <3>2. d \in DOMAIN bug /\ bug[d].pkg = bug[n].pkg /\ bug[d].branch = bug[n].branch
      <4>1. \A m \in DOMAIN bug : bug[m].dupe # 0 =>
              /\ bug[m].dupe \in DOMAIN bug
              /\ bug[bug[m].dupe].pkg = bug[m].pkg /\ bug[bug[m].dupe].branch = bug[m].branch
        BY DEF IInv, Named
      <4>2. CASE n # k
        BY <1>2, <2>1, <3>1, <4>1, <4>2
      <4>3. CASE n = k
        BY <1>2, <2>1, <3>1, <4>1, <4>3, SMTT(20)
      <4> QED
        BY <4>2, <4>3
    <3> QED
      BY <1>2, <1>6, <2>1, <3>1, <3>2
  <2>2. ASSUME NEW c \in Branch PROVE Names(report[c], c)' /\ Names(run[c].view, c)'
    <3>1. Names(report[c], c) /\ Names(run[c].view, c)
      BY DEF IInv, Named
    <3> QED
      BY <1>1, <1>2, <1>6, <3>1 DEF Names
  <2> QED
    BY <2>1, <2>2 DEF Named
<1>8. Asked'
  <2>1. \A m \in DOMAIN bug' : Sound(bug'[m])
    BY <1>2 DEF IInv, Asked
  <2> QED
    BY <1>1, <1>2, <1>4, <2>1, StillSound
<1> QED
  BY <1>1, <1>3, <1>5, <1>7, <1>8, OthersKeep

LEMMA PeopleKeep ==
  ASSUME IInv, NEW n \in DOMAIN bug,
         \/ Take(n) \/ Refuse(n) \/ \E status \in {"NEW", "ASSIGNED"} : Reopen(n, status)
         \/ \E q \in Person : HandOver(n, q) \/ AskByHand(n, q)
         \/ \E f \in bug[n].flags : Answer(n, f)
         \/ \E m \in DOMAIN bug : MarkDuplicate(n, m)
  PROVE  IInv'
<1>1. bug[n] \in BugType /\ DOMAIN bug \subseteq Nat /\ Sound(bug[n])
  BY DEF IInv, Types, Asked
\* An edit that leaves the flags as they are, or takes some away, and does not close
\* the bug in ebranch's name.
<1>2. ASSUME NEW x \in BugType, Edit(n, x), x.flags \subseteq bug[n].flags,
             x.pkg = bug[n].pkg, x.branch = bug[n].branch, x.born = bug[n].born,
             x.since = bug[n].since, x.byhand = bug[n].byhand,
             x.closed = "ebranch" => bug[n].closed = "ebranch" /\ x.status = bug[n].status,
             \/ x.dupe \in {bug[n].dupe, 0}
             \/ /\ x.dupe \in DOMAIN bug
                /\ bug[x.dupe].pkg = bug[n].pkg /\ bug[x.dupe].branch = bug[n].branch
      PROVE  IInv'
  <2>1. Remains(bug[n], x) /\ NotByEbranch(bug[n], x)
    BY <1>2 DEF Remains, NotByEbranch
  <2>2. Sound(x)
    BY <1>1, <1>2 DEF Sound
  <2> QED
    BY <1>2, <2>1, <2>2, EditKeeps
<1>3. ASSUME NEW q \in Person, HandOver(n, q)
      PROVE  IInv'
  <2> DEFINE x == [bug[n] EXCEPT !.assignee = q]
  <2>1. /\ x \in BugType /\ x.pkg = bug[n].pkg /\ x.branch = bug[n].branch /\ x.born = bug[n].born
        /\ x.flags = bug[n].flags /\ x.since = bug[n].since /\ x.byhand = bug[n].byhand
        /\ x.status = bug[n].status /\ x.closed = bug[n].closed /\ x.dupe = bug[n].dupe
    BY Zenon, <1>1 DEF BugType
  <2>2. Edit(n, x)
    BY <1>3 DEF HandOver
  <2> HIDE DEF x
  <2> QED
    BY <1>2, <2>1, <2>2
<1>4. ASSUME NEW q \in Person, AskByHand(n, q)
      PROVE  IInv'
  <2> DEFINE x == Flagged(bug[n], q, "hand")
  <2>1. /\ x \in BugType /\ Sound(x) /\ Remains(bug[n], x)
        /\ x.flags = bug[n].flags \cup {[of |-> q, on |-> today, by |-> "hand"]}
        /\ x.dupe = bug[n].dupe /\ x.closed = bug[n].closed
    BY <1>1, FlaggedIs
  <2>2. Edit(n, x)
    BY <1>4 DEF AskByHand
  <2> HIDE DEF x
  <2>3. NotByEbranch(bug[n], x)
    BY <2>1 DEF NotByEbranch
  <2> QED
    BY <2>1, <2>2, <2>3, EditKeeps
<1>5. ASSUME NEW f \in bug[n].flags, Answer(n, f)
      PROVE  IInv'
  <2> DEFINE x == [bug[n] EXCEPT !.flags = @ \ {f}]
  <2>1. bug[n].flags \ {f} \in SUBSET FlagType
    BY <1>1 DEF BugType
  <2>2. /\ x \in BugType /\ x.pkg = bug[n].pkg /\ x.branch = bug[n].branch /\ x.born = bug[n].born
        /\ x.flags = bug[n].flags \ {f} /\ x.since = bug[n].since /\ x.byhand = bug[n].byhand
        /\ x.status = bug[n].status /\ x.closed = bug[n].closed /\ x.dupe = bug[n].dupe
    BY Zenon, <1>1, <2>1 DEF BugType
  <2>3. Edit(n, x)
    BY <1>5 DEF Answer
  <2> HIDE DEF x
  <2> QED
    BY <1>2, <2>2, <2>3
<1>6. CASE Take(n)
  <2> DEFINE x == [bug[n] EXCEPT !.status = "ASSIGNED"]
  <2>1. /\ x \in BugType /\ x.pkg = bug[n].pkg /\ x.branch = bug[n].branch /\ x.born = bug[n].born
        /\ x.flags = bug[n].flags /\ x.since = bug[n].since /\ x.byhand = bug[n].byhand
        /\ x.closed = bug[n].closed /\ x.dupe = bug[n].dupe
    BY Zenon, <1>1 DEF BugType
  <2>2. Edit(n, x) /\ bug[n].closed # "ebranch"
    BY <1>1, <1>6 DEF Take, Sound
  <2> HIDE DEF x
  <2> QED
    BY <1>2, <2>1, <2>2
<1>7. CASE Refuse(n)
  <2> DEFINE x == [bug[n] EXCEPT !.status = "CLOSED", !.closed = "hand"]
  <2>1. /\ x \in BugType /\ x.pkg = bug[n].pkg /\ x.branch = bug[n].branch /\ x.born = bug[n].born
        /\ x.flags = bug[n].flags /\ x.since = bug[n].since /\ x.byhand = bug[n].byhand
        /\ x.closed = "hand" /\ x.dupe = bug[n].dupe
    BY Zenon, <1>1 DEF BugType
  <2>2. Edit(n, x)
    BY <1>7 DEF Refuse
  <2> HIDE DEF x
  <2> QED
    BY <1>2, <2>1, <2>2
<1>8. ASSUME NEW m \in DOMAIN bug, MarkDuplicate(n, m)
      PROVE  IInv'
  <2> DEFINE x == [bug[n] EXCEPT !.status = "CLOSED", !.closed = "hand", !.dupe = m]
  <2>1. m \in Nat /\ bug[m].pkg = bug[n].pkg /\ bug[m].branch = bug[n].branch
    BY Zenon, <1>1, <1>8 DEF MarkDuplicate
  <2>2. /\ x \in BugType /\ x.pkg = bug[n].pkg /\ x.branch = bug[n].branch /\ x.born = bug[n].born
        /\ x.flags = bug[n].flags /\ x.since = bug[n].since /\ x.byhand = bug[n].byhand
        /\ x.closed = "hand" /\ x.dupe = m
    BY Zenon, <1>1, <2>1 DEF BugType
  <2>3. Edit(n, x)
    BY Zenon, <1>8 DEF MarkDuplicate
  <2> HIDE DEF x
  <2> QED
    BY <1>2, <2>1, <2>2, <2>3
<1>9. ASSUME NEW status \in {"NEW", "ASSIGNED"}, Reopen(n, status)
      PROVE  IInv'
  <2> DEFINE x == [bug[n] EXCEPT !.status = status, !.closed = "no", !.dupe = 0]
  <2>1. /\ x \in BugType /\ x.pkg = bug[n].pkg /\ x.branch = bug[n].branch /\ x.born = bug[n].born
        /\ x.flags = bug[n].flags /\ x.since = bug[n].since /\ x.byhand = bug[n].byhand
        /\ x.closed = "no" /\ x.dupe = 0
    <3>1. 0 \in Nat
      OBVIOUS
    <3> QED
      BY Zenon, <1>1, <3>1 DEF BugType
  <2>2. Edit(n, x)
    BY <1>9 DEF Reopen
  <2> HIDE DEF x
  <2> QED
    BY <1>2, <2>1, <2>2
<1> QED
  BY <1>3, <1>4, <1>5, <1>6, <1>7, <1>8, <1>9

LEMMA FileByHandKeeps ==
  ASSUME IInv, NEW p \in Pkg, NEW b \in Branch, FileByHand(p, b)
  PROVE  IInv'
<1> DEFINE x == [NewBug(p, b) EXCEPT !.assignee = Maintainer]
<1>1. /\ bug' = Append(bug, x) /\ today' = today /\ ticket' = ticket /\ landed' = landed
      /\ access' = access /\ report' = report /\ run' = run
  BY DEF FileByHand
<1>2. x \in BugType /\ x.dupe = 0 /\ x.flags = {} /\ x.since = Never /\ x.closed = "no"
  <2>1. NewBug(p, b) \in BugType /\ Maintainer \in Person
    BY NewBugIs, RequestAssumption
  <2> QED
    BY Zenon, <2>1, NewBugIs DEF BugType
<1> HIDE DEF x
<1>3. Kept(b) /\ \A c \in Branch : Calm(c)
  BY <1>1, <1>2, AppendIsCalm
<1>4. Types' /\ Asked'
  BY <1>1, <1>3 DEF Kept, IInv, Types
<1>5. Named'
  <2>1. /\ DOMAIN bug \subseteq DOMAIN bug'
        /\ \A n \in DOMAIN bug' \ DOMAIN bug : bug'[n].dupe = 0
        /\ \A n \in DOMAIN bug : /\ bug'[n].pkg = bug[n].pkg /\ bug'[n].branch = bug[n].branch
                                 /\ bug'[n].dupe = bug[n].dupe
    BY <1>3 DEF Kept, IInv, Types
  <2>2. \A n \in DOMAIN bug' : bug'[n].dupe # 0 =>
          /\ bug'[n].dupe \in DOMAIN bug'
          /\ bug'[bug'[n].dupe].pkg = bug'[n].pkg /\ bug'[bug'[n].dupe].branch = bug'[n].branch
    BY <2>1 DEF IInv, Named
  <2>3. ASSUME NEW c \in Branch PROVE Names(report[c], c)' /\ Names(run[c].view, c)'
    <3>1. Names(report[c], c) /\ Names(run[c].view, c)
      BY DEF IInv, Named
    <3> QED
      BY <1>1, <2>1, <3>1 DEF Names
  <2> QED
    BY <2>2, <2>3 DEF Named
<1> QED
  BY <1>1, <1>3, <1>4, <1>5, OthersKeep

LEMMA RestKeep ==
  ASSUME IInv,
         \/ Day
         \/ \E p \in Pkg : Grant(p) \/ \E b \in Branch : Land(p, b) \/ Withdraw(p, b)
         \/ \E t \in DOMAIN ticket : CloseTicket(t)
  PROVE  IInv'
<1> DEFINE Places == [Branch -> [Pkg -> {"never", "there", "withdrawn"}]]
<1>1. /\ ticket \in Seq(TicketType) /\ landed \in Places /\ today \in Nat /\ access \subseteq Pkg
      /\ bug \in Seq(BugType) /\ \A n \in DOMAIN bug : bug[n] \in BugType
  BY DEF IInv, Types
<1>2. /\ bug' = bug /\ report' = report /\ run' = run /\ access' \subseteq Pkg
      /\ ticket' \in Seq(TicketType) /\ landed' \in Places
      /\ today' \in Nat /\ today <= today'
      /\ \A c \in Branch : \A q \in Pkg : landed[c][q] # "never" => landed'[c][q] # "never"
  <2>1. CASE Day
    BY <1>1, <2>1 DEF Day
  <2>2. ASSUME NEW p \in Pkg, Grant(p)
        PROVE  /\ bug' = bug /\ report' = report /\ run' = run /\ ticket' = ticket
               /\ landed' = landed /\ today' = today /\ access' \subseteq Pkg
    BY <1>1, <2>2 DEF Grant
  <2>3. ASSUME NEW p \in Pkg, NEW b \in Branch, Land(p, b) \/ Withdraw(p, b)
        PROVE  /\ bug' = bug /\ report' = report /\ run' = run /\ ticket' = ticket
               /\ access' = access /\ today' = today /\ landed' \in Places
               /\ \A c \in Branch : \A q \in Pkg : landed[c][q] # "never" => landed'[c][q] # "never"
    <3>1. PICK new \in {"there", "withdrawn"} : landed' = [landed EXCEPT ![b][p] = new]
      BY <2>3 DEF Land, Withdraw
    <3>2. landed' \in Places
      BY <1>1, <3>1
    <3>3. \A c \in Branch : \A q \in Pkg : landed[c][q] # "never" => landed'[c][q] # "never"
      BY <1>1, <3>1
    <3> QED
      BY <2>3, <3>2, <3>3 DEF Land, Withdraw
  <2>4. ASSUME NEW t \in DOMAIN ticket, CloseTicket(t)
        PROVE  /\ bug' = bug /\ report' = report /\ run' = run /\ access' = access
               /\ ticket' \in Seq(TicketType) /\ landed' = landed /\ today' = today
    <3>1. [ticket[t] EXCEPT !.open = FALSE] \in TicketType
      <4>1. ticket[t] \in TicketType
        BY <1>1
      <4> QED
        BY Zenon, <4>1 DEF TicketType
    <3>2. ticket' = [ticket EXCEPT ![t] = [ticket[t] EXCEPT !.open = FALSE]]
      BY <2>4 DEF CloseTicket
    <3>3. ticket' \in Seq(TicketType)
      BY <1>1, <3>1, <3>2
    <3> QED
      BY <2>4, <3>3 DEF CloseTicket
  <2> HIDE DEF Places
  <2> QED
    BY <1>1, <2>1, <2>2, <2>3, <2>4
<1>3. Types' /\ Named'
  BY <1>2 DEF IInv, Types, Named, Names
<1>4. \A c \in Branch : Calm(c)
  BY <1>1, <1>2 DEF Calm, Remains, NotByEbranch
<1>5. Asked'
  <2>1. \A m \in DOMAIN bug : Sound(bug[m]) /\ bug[m].branch \in Branch /\ bug[m].pkg \in Pkg
    BY <1>1 DEF IInv, Asked, BugType
  <2> QED
    BY <1>1, <1>2, <2>1, StillSound
<1> QED
  BY <1>2, <1>3, <1>4, <1>5, OthersKeep

-----------------------------------------------------------------------------
(* Theorems *)

THEOREM InitIsSound == Init => IInv
<1> SUFFICES ASSUME Init PROVE IInv
  OBVIOUS
<1>1. NoRequests \in View /\ DOMAIN NoRequests = {} /\ Idle \in RunType
  <2>1. NoRequests \in [{} -> Entry]
    BY DEF NoRequests
  <2> QED
    BY Zenon, <2>1, ViewIs, IdleIsRun, {} \in SUBSET Pkg
<1>2. Types
  BY <1>1 DEF Init, Types
<1>3. DOMAIN bug = {}
  BY DEF Init
<1>4. Named
  BY <1>1, <1>3 DEF Init, Named, Names, Idle
<1>5. Asked
  BY <1>3 DEF Asked
<1>6. \A b \in Branch : Relies(b)
  BY DEF Init, Idle, Relies, Filing, Asking, Closing
<1> QED
  BY <1>2, <1>4, <1>5, <1>6 DEF IInv

THEOREM NextIsSound == IInv /\ [Next]_vars => IInv'
<1> SUFFICES ASSUME IInv, [Next]_vars PROVE IInv'
  OBVIOUS
<1>1. ASSUME NEW b \in Branch, Step(b) PROVE IInv'
  <2>1. CASE FileRequests(b) \/ Refresh(b) \/ Search(b) \/ Sort(b)
    BY <2>1, FileRequestsKeeps, RefreshKeeps, SearchKeeps, SortKeeps
  <2>2. CASE Escalate(b) \/ Standing(b) \/ Ping(b) \/ SearchTickets(b) \/ CreateTicket(b)
    BY <2>2, EscalateKeeps, StandingKeeps, PingKeeps, SearchTicketsKeeps, CreateTicketKeeps
  <2>3. CASE Close(b) \/ Decided(b) \/ WriteClose(b)
    BY <2>3, CloseKeeps, DecidedKeeps, WriteCloseKeeps
  <2>4. CASE Filed(b) \/ Escalated(b) \/ Closed(b) \/ Interrupt(b)
    BY <2>4, FiledKeeps
  <2>5. CASE \E p \in Pkg : FileOne(b, p) \/ Look(b, p) \/ Decide(b, p)
    BY <2>5, FileOneKeeps, LookKeeps, DecideKeeps
  <2> QED
    BY <1>1, <2>1, <2>2, <2>3, <2>4, <2>5 DEF Step
<1>2. CASE Others
  BY <1>2, PeopleKeep, FileByHandKeeps, RestKeep DEF Others
<1>3. CASE UNCHANGED vars
  <2>1. Types' /\ Named' /\ Asked' /\ \A c \in Branch : Calm(c)
    <3>1. Types' /\ Named' /\ Asked'
      BY <1>3 DEF vars, world, IInv, Types, Named, Names, Asked, Sound
    <3>2. today \in Nat /\ Len(bug) \in Nat
      BY DEF IInv, Types
    <3> QED
      BY <1>3, <3>1, <3>2 DEF vars, world, Calm, Remains, NotByEbranch
  <2> QED
    BY <1>3, <2>1, OthersKeep DEF vars
<1> QED
  BY <1>1, <1>2, <1>3 DEF Next

\* The strengthening holds from start to end.
THEOREM Soundness == Spec => []IInv
BY InitIsSound, NextIsSound, PTL DEF Spec

\* What ebranch closes has come to its branch, and is no question of ebranch's any more.
THEOREM ClosedAreSettled == Spec => []ClosedIsSettled
<1>1. IInv => ClosedIsSettled
  BY DEF IInv, Asked, Sound, ClosedIsSettled
<1> QED
  BY <1>1, Soundness, PTL

\* A request is filed beside another only if the search did not see that one.
THEOREM OneRequestEach == Spec => NoSecondRequest
<1>1. ASSUME IInv, NEW b \in Branch, NEW p \in Pkg, FileOne(b, p)
      PROVE  Requests(p, b) \cap run[b].known = {}
  <2>1. run[b].at = "file" /\ p \in run[b].todo
    BY <1>1 DEF FileOne, At
  <2>2. \A n \in run[b].known : ~ (bug[n].pkg = p /\ bug[n].branch = b)
    BY <1>1, <2>1 DEF IInv, Relies
  <2> QED
    BY <2>2 DEF Requests
<1>2. IInv /\ [Next]_vars =>
        [\A b \in Branch : \A p \in Pkg :
           FileOne(b, p) /\ Len(bug') > Len(bug) => Requests(p, b) \cap run[b].known = {}]_vars
  BY Zenon, <1>1
<1> QED
  BY <1>2, Soundness, PTL DEF Spec, NoSecondRequest

\* Nobody is asked by ebranch who has not answered what it asked before.
THEOREM AskedOnceAtATime == Spec => NeverAskedTwiceOver
<1>1. ASSUME IInv, NEW b \in Branch, Ping(b)
      PROVE  LET x == Head(run[b].found) IN
             \A f \in bug[run[b].view[x.pkg].rhbz].flags : f.of = x.of => f.by = "hand"
  <2>1. run[b].at = "ping"
    BY Zenon, <1>1 DEF Ping, At
  <2>2. PICK s : s = Head(run[b].found)
    OBVIOUS
  <2>3. s \in AskType /\ Subject(b, s)
    BY <1>1, <2>1, <2>2, SubjectIs DEF Asking
  <2>4. MayBeAsked(bug[run[b].view[s.pkg].rhbz], s.of)
    BY Zenon, <1>1, <2>1, <2>3 DEF IInv, Relies
  <2> QED
    BY Zenon, <2>2, <2>4 DEF MayBeAsked
<1>2. IInv /\ [Next]_vars =>
        [\A b \in Branch : Ping(b) =>
           LET x == Head(run[b].found) IN
           \A f \in bug[run[b].view[x.pkg].rhbz].flags : f.of = x.of => f.by = "hand"]_vars
  BY Zenon, <1>1
<1> QED
  BY <1>2, Soundness, PTL DEF Spec, NeverAskedTwiceOver

\* One step of a command writes to releng.
LEMMA WhoWrites ==
  ASSUME NEW b \in Branch, Step(b)
  PROVE  ticket' = ticket \/ CreateTicket(b)
<1>1. CASE FileRequests(b) \/ Refresh(b) \/ Search(b) \/ Sort(b) \/ Filed(b)
  BY Zenon, <1>1 DEF FileRequests, Command, Refresh, Search, Sort, Filed, world
<1>2. CASE Escalate(b) \/ Standing(b) \/ SearchTickets(b) \/ Escalated(b)
  BY <1>2 DEF Escalate, Command, Standing, SearchTickets, Escalated, world
<1>3. CASE Close(b) \/ Decided(b) \/ Closed(b) \/ Interrupt(b)
  BY <1>3 DEF Close, Decided, Closed, Interrupt, world
<1>4. CASE Ping(b) \/ WriteClose(b)
  BY Zenon, <1>4 DEF Ping, WriteClose
<1>5. CASE CreateTicket(b)
  BY <1>5 DEF CreateTicket
<1>6. ASSUME NEW p \in Pkg, FileOne(b, p) PROVE ticket' = ticket
  BY <1>6 DEF FileOne
<1>7. ASSUME NEW p \in Pkg, Look(b, p) PROVE ticket' = ticket
  BY Zenon, <1>7 DEF Look, world
<1>8. ASSUME NEW p \in Pkg, Decide(b, p) PROVE ticket' = ticket
  BY <1>8 DEF Decide, world
<1> QED
  BY <1>1, <1>2, <1>3, <1>4, <1>5, <1>6, <1>7, <1>8 DEF Step

\* Releng is told of a request only after somebody was asked in it and given both
\* waits, or somebody was asked by hand and given the second.
THEOREM RelengComesLast == Spec => TicketFollowsItsPing
<1>1. ASSUME IInv, [Next]_vars, Len(ticket') > Len(ticket)
      PROVE  LET n == Last(ticket').of IN
             /\ bug[n].since # Never /\ today - bug[n].since >= RelengMin
             /\ ~bug[n].byhand => today - bug[n].born >= PingMin + RelengMin
  <2>1. ticket \in Seq(TicketType) /\ Len(ticket) \in Nat
    BY <1>1 DEF IInv, Types
  <2>2. ASSUME NEW b \in Branch, CreateTicket(b)
        PROVE  LET n == Last(ticket').of IN
               /\ bug[n].since # Never /\ today - bug[n].since >= RelengMin
               /\ ~bug[n].byhand => today - bug[n].born >= PingMin + RelengMin
    <3>1. PICK s : s = Head(run[b].found)
      OBVIOUS
    <3>2. PICK n : n = run[b].view[s.pkg].rhbz
      OBVIOUS
    <3> DEFINE new == [pkg |-> s.pkg, of |-> n, open |-> TRUE]
    <3>3. run[b].at = "create"
      BY <2>2 DEF CreateTicket, At
    <3>4. s \in AskType /\ s.pkg \in Pkg /\ Subject(b, s) /\ n \in DOMAIN bug
      BY <1>1, <3>1, <3>2, <3>3, SubjectIs DEF Asking
    <3>5. MayBeTold(bug[n])
      BY <1>1, <3>2, <3>3, <3>4, Facts DEF Relies
    <3>6. bug[n] \in BugType /\ today \in Nat /\ n \in Nat
      BY <1>1, <3>4, Facts
    <3>7. ticket' = Append(ticket, new)
      <4>1. ticket' # ticket
        BY <1>1, <2>1
      <4> QED
        BY Zenon, <2>2, <3>1, <3>2, <4>1 DEF CreateTicket
    <3>8. new \in TicketType
      BY <3>4, <3>6 DEF TicketType
    <3>9. Last(ticket').of = n
      <4>1. ticket'[Len(ticket')] = new
        BY <2>1, <3>7, <3>8
      <4> QED
        BY <4>1 DEF Last
    <3>10. bug[n].since # Never /\ bug[n].since \in Nat /\ bug[n].born \in Nat
      BY <3>5, <3>6 DEF MayBeTold, BugType
    <3>11. today - bug[n].since >= RelengMin
      BY <3>5, <3>6, <3>10, RequestAssumption DEF MayBeTold
    <3>12. ~bug[n].byhand => today - bug[n].born >= PingMin + RelengMin
      BY <3>5, <3>6, <3>10, RequestAssumption DEF MayBeTold
    <3> QED
      BY <3>9, <3>10, <3>11, <3>12
  <2>3. ASSUME NEW t \in DOMAIN ticket, CloseTicket(t)
        PROVE  Len(ticket') = Len(ticket)
    BY <2>1, <2>3 DEF CloseTicket
  <2>4. \/ ticket' = ticket \/ (\E b \in Branch : CreateTicket(b))
        \/ \E t \in DOMAIN ticket : CloseTicket(t)
    <3>1. ASSUME NEW b \in Branch, Step(b)
          PROVE  ticket' = ticket \/ CreateTicket(b)
      BY <3>1, WhoWrites
    <3>2. CASE Others
      BY Zenon, <3>2 DEF Others, Day, Grant, Land, Withdraw, FileByHand, HandOver, AskByHand,
                  Answer, Take, Refuse, MarkDuplicate, Reopen, Edit
    <3>3. CASE UNCHANGED vars
      BY <3>3 DEF vars, world
    <3> QED
      BY <1>1, <3>1, <3>2, <3>3 DEF Next
  <2> QED
    BY <1>1, <2>1, <2>2, <2>3, <2>4
<1>2. IInv /\ [Next]_vars =>
        [Len(ticket') > Len(ticket) =>
           LET n == Last(ticket').of IN
           /\ bug[n].since # Never /\ today - bug[n].since >= RelengMin
           /\ ~bug[n].byhand => today - bug[n].born >= PingMin + RelengMin]_vars
  BY <1>1
<1> QED
  BY <1>2, Soundness, PTL DEF Spec, TicketFollowsItsPing
=============================================================================
