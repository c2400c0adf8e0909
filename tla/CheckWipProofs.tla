--------------------------- MODULE CheckWipProofs ---------------------------
(***************************************************************************)
(* Proofs about `ebranch check-wip`: the ledger of packages (WipLedger) and*)
(* what it records of one package branch by branch (WipBranches).          *)
(***************************************************************************)
EXTENDS WipLedger, WipBranches, WellFoundedInduction, TLAPS

PackageMaps == UNION {[tracked -> Entry] : tracked \in SUBSET Package}

LEMMA PackageMap ==
  ASSUME NEW tracked \in SUBSET Package, NEW map \in [tracked -> Entry]
  PROVE  map \in PackageMaps /\ DOMAIN map = tracked
  BY DEF PackageMaps

\* A value of Ledgers, field by field.
LEMMA LedgerFields ==
  ASSUME NEW l \in Ledgers
  PROVE  /\ l.packages \in [Tracked(l) -> Entry] /\ Tracked(l) \subseteq Package
         /\ l.packages \in PackageMaps
         /\ l.ignored \subseteq Package /\ l.coprs \subseteq Copr
         /\ l.side_tags \subseteq Tag
  BY SMTT(30) DEF Ledgers, Tracked, PackageMaps

LEMMA EntryFresh == Fresh \in Entry
  BY LedgerAssumption DEF Fresh, Entry, Routes

LEMMA EmptyType == Empty \in Ledgers /\ Tracked(Empty) = {} /\ Empty.ignored = {}
<1>1. [p \in {} |-> Fresh] \in [{} -> Entry]
  BY EntryFresh
<1>2. [p \in {} |-> Fresh] \in PackageMaps /\ DOMAIN [p \in {} |-> Fresh] = {}
  BY <1>1, PackageMap
<1> QED BY <1>2 DEF Empty, Ledgers, PackageMaps, Tracked

\* A ledger is not the file a torn write leaves.
LEMMA ReadableIsNot == Unreadable \notin Ledgers
<1>1. SUFFICES ASSUME Unreadable \in Ledgers PROVE FALSE OBVIOUS
<1>2. DOMAIN Unreadable = {"damaged"} BY DEF Unreadable
<1>3. DOMAIN Unreadable = {"packages", "ignored", "coprs", "side_tags"}
  BY <1>1 DEF Ledgers
<1> QED BY <1>2, <1>3

\* What each step of a run makes of the ledger in hand: its fields.
LEMMA ForgetLedger ==
  ASSUME NEW l \in Ledgers, NEW names \in SUBSET Package
  PROVE  /\ Forget(l, names) \in Ledgers
         /\ Tracked(Forget(l, names)) = Tracked(l) \ names
         /\ Forget(l, names).ignored = l.ignored \cup names
         /\ Forget(l, names).coprs = l.coprs
         /\ Forget(l, names).side_tags = l.side_tags
         /\ \A p \in Tracked(l) \ names : Forget(l, names).packages[p] = l.packages[p]
<1>1. Without(l, names) \in [Tracked(l) \ names -> Entry]
  BY LedgerFields DEF Without
<1>2. Without(l, names) \in PackageMaps /\ DOMAIN Without(l, names) = Tracked(l) \ names
  BY <1>1, LedgerFields, PackageMap
<1>3. /\ Forget(l, names).packages = Without(l, names)
      /\ Forget(l, names).ignored = l.ignored \cup names
      /\ Forget(l, names).coprs = l.coprs
      /\ Forget(l, names).side_tags = l.side_tags
      /\ Forget(l, names) \in Ledgers
  BY <1>2 DEF Forget, Ledgers, PackageMaps
<1>4. \A p \in Tracked(l) \ names : Without(l, names)[p] = l.packages[p]
  BY DEF Without
<1> QED BY <1>2, <1>3, <1>4 DEF Tracked

LEMMA AddLedger ==
  ASSUME NEW l \in Ledgers, NEW names \in SUBSET Package
  PROVE  /\ Add(l, names) \in Ledgers
         /\ Tracked(Add(l, names)) = Tracked(l) \cup names
         /\ Add(l, names).ignored = l.ignored \ names
         /\ Add(l, names).coprs = l.coprs
         /\ Add(l, names).side_tags = l.side_tags
         /\ \A p \in Tracked(l) : Add(l, names).packages[p] = l.packages[p]
         /\ \A p \in names \ Tracked(l) : Add(l, names).packages[p] = Fresh
<1>1. With(l, names) \in [Tracked(l) \cup names -> Entry]
  BY LedgerFields, EntryFresh DEF With
<1>2. With(l, names) \in PackageMaps /\ DOMAIN With(l, names) = Tracked(l) \cup names
  BY <1>1, LedgerFields, PackageMap
<1>3. /\ Add(l, names).packages = With(l, names)
      /\ Add(l, names).ignored = l.ignored \ names
      /\ Add(l, names).coprs = l.coprs
      /\ Add(l, names).side_tags = l.side_tags
      /\ Add(l, names) \in Ledgers
  BY <1>2 DEF Add, Ledgers, PackageMaps
<1>4. /\ \A p \in Tracked(l) : With(l, names)[p] = l.packages[p]
      /\ \A p \in names \ Tracked(l) : With(l, names)[p] = Fresh
  BY DEF With
<1> QED BY <1>2, <1>3, <1>4 DEF Tracked

LEMMA AssignLedger ==
  ASSUME NEW l \in Ledgers, NEW set \in SUBSET (Package \X Routes)
  PROVE  /\ Assign(l, set) \in Ledgers
         /\ Tracked(Assign(l, set)) = Tracked(l)
         /\ Assign(l, set).ignored = l.ignored
         /\ Assign(l, set).coprs = l.coprs
         /\ Assign(l, set).side_tags = l.side_tags
         /\ \A p \in Tracked(l) :
              /\ Assign(l, set).packages[p].staged = l.packages[p].staged
              /\ Assign(l, set).packages[p].seen_in_copr = l.packages[p].seen_in_copr
              /\ \/ Assign(l, set).packages[p].route = l.packages[p].route
                 \/ \E s \in set : s[1] = p
<1> DEFINE Chosen(p) == IF \E r \in Routes : <<p, r>> \in set
                        THEN [l.packages[p] EXCEPT !.route = CHOOSE r \in Routes : <<p, r>> \in set]
                        ELSE l.packages[p]
           map == [p \in Tracked(l) |-> Chosen(p)]
<1>1. ASSUME NEW p \in Tracked(l)
      PROVE  /\ Chosen(p) \in Entry
             /\ Chosen(p).staged = l.packages[p].staged
             /\ Chosen(p).seen_in_copr = l.packages[p].seen_in_copr
             /\ Chosen(p).route = l.packages[p].route \/ \E s \in set : s[1] = p
  <2>1. l.packages[p] \in Entry BY LedgerFields
  <2>2. CASE \E r \in Routes : <<p, r>> \in set
    <3>1. PICK r \in Routes : r = (CHOOSE q \in Routes : <<p, q>> \in set) /\ <<p, r>> \in set
      BY <2>2
    <3>2. Chosen(p) = [l.packages[p] EXCEPT !.route = r] BY <2>2, <3>1
    <3>3. Chosen(p) \in Entry /\ Chosen(p).staged = l.packages[p].staged
          /\ Chosen(p).seen_in_copr = l.packages[p].seen_in_copr
      BY <3>2, <2>1 DEF Entry
    <3>4. <<p, r>>[1] = p OBVIOUS
    <3> QED BY <3>1, <3>3, <3>4
  <2>3. CASE ~\E r \in Routes : <<p, r>> \in set
    BY <2>1, <2>3
  <2> QED BY <2>2, <2>3
<1>2. Assign(l, set) = [l EXCEPT !.packages = map]
  BY DEF Assign
<1> HIDE DEF Chosen
<1>3. map \in [Tracked(l) -> Entry] /\ \A p \in Tracked(l) : map[p] = Chosen(p)
  BY <1>1
<1> HIDE DEF map
<1>4. map \in PackageMaps /\ DOMAIN map = Tracked(l)
  BY <1>3, LedgerFields, PackageMap
<1>5. /\ Assign(l, set).packages = map
      /\ Assign(l, set).ignored = l.ignored
      /\ Assign(l, set).coprs = l.coprs
      /\ Assign(l, set).side_tags = l.side_tags
      /\ Assign(l, set) \in Ledgers
  BY <1>2, <1>4 DEF Ledgers, PackageMaps
<1>6. Tracked(Assign(l, set)) = Tracked(l)
  BY <1>4, <1>5 DEF Tracked
<1> QED BY <1>1, <1>3, <1>5, <1>6

\* The decisions of a command line: what is tracked and refused afterwards.
LEMMA DecideLedger ==
  ASSUME NEW l \in Ledgers, NEW o \in Options
  PROVE  /\ Decide(l, o) \in Ledgers
         /\ Tracked(Decide(l, o)) = (Tracked(l) \ o.forget) \cup o.add
         /\ Decide(l, o).ignored = (l.ignored \cup o.forget) \ o.add
         /\ Decide(l, o).coprs = l.coprs
         /\ Decide(l, o).side_tags = l.side_tags \cup o.side_tags
         /\ \A p \in Tracked(l) \ o.forget :
              /\ Decide(l, o).packages[p].staged = l.packages[p].staged
              /\ Decide(l, o).packages[p].seen_in_copr = l.packages[p].seen_in_copr
              /\ \/ Decide(l, o).packages[p].route = l.packages[p].route
                 \/ \E s \in o.set : s[1] = p
         /\ \A p \in o.add \ (Tracked(l) \ o.forget) :
              /\ Decide(l, o).packages[p].staged = None
              /\ ~Decide(l, o).packages[p].seen_in_copr
<1> DEFINE withTags == [l EXCEPT !.side_tags = @ \cup o.side_tags]
           kept == Forget(withTags, o.forget)
           added == Add(kept, o.add)
<1>1. /\ o.forget \in SUBSET Package /\ o.add \in SUBSET Package
      /\ o.set \in SUBSET (Package \X Routes) /\ o.side_tags \in SUBSET Tag
  BY DEF Options
<1>2. /\ withTags.packages = l.packages /\ withTags.ignored = l.ignored
      /\ withTags.coprs = l.coprs /\ withTags.side_tags = l.side_tags \cup o.side_tags
      /\ withTags \in Ledgers /\ Tracked(withTags) = Tracked(l)
  BY <1>1 DEF Ledgers, Tracked
<1> HIDE DEF withTags
<1>3. /\ kept \in Ledgers /\ Tracked(kept) = Tracked(l) \ o.forget
      /\ kept.ignored = l.ignored \cup o.forget
      /\ kept.coprs = l.coprs /\ kept.side_tags = l.side_tags \cup o.side_tags
      /\ \A p \in Tracked(l) \ o.forget : kept.packages[p] = l.packages[p]
  BY <1>1, <1>2, ForgetLedger
<1> HIDE DEF kept
<1>4. /\ added \in Ledgers /\ Tracked(added) = (Tracked(l) \ o.forget) \cup o.add
      /\ added.ignored = (l.ignored \cup o.forget) \ o.add
      /\ added.coprs = l.coprs /\ added.side_tags = l.side_tags \cup o.side_tags
      /\ \A p \in Tracked(l) \ o.forget : added.packages[p] = l.packages[p]
      /\ \A p \in o.add \ (Tracked(l) \ o.forget) : added.packages[p] = Fresh
  BY <1>1, <1>3, AddLedger
<1> HIDE DEF added
<1>5. Decide(l, o) = Assign(added, o.set)
  BY DEF Decide, added, kept, withTags
<1>6. Fresh.staged = None /\ ~Fresh.seen_in_copr
  BY DEF Fresh
<1> QED BY <1>1, <1>4, <1>5, <1>6, AssignLedger

\* A COPR's answer, folded in.
LEMMA ReconcileLedger ==
  ASSUME NEW l \in Ledgers, NEW copr \in Copr, NEW answer \in SUBSET Package
  PROVE  LET new == Reconcile(l, copr, answer) IN
         /\ new \in Ledgers
         /\ Tracked(new) = Tracked(l) \cup (answer \ l.ignored)
         /\ new.ignored = l.ignored
         /\ new.coprs = l.coprs \cup {copr}
         /\ new.side_tags = l.side_tags
         /\ \A p \in Tracked(new) \cap answer :
              new.packages[p].seen_in_copr /\ new.packages[p].staged = copr
         /\ \A p \in Tracked(l) \ answer :
              /\ new.packages[p].seen_in_copr = l.packages[p].seen_in_copr
              /\ new.packages[p].staged =
                   IF l.packages[p].staged = copr THEN None ELSE l.packages[p].staged
         /\ \A p \in Tracked(l) : new.packages[p].route = l.packages[p].route
<1> DEFINE tracked == Tracked(l) \cup (answer \ l.ignored)
           Folded(p) ==
             IF p \in answer
             THEN [With(l, answer)[p] EXCEPT !.seen_in_copr = TRUE, !.staged = copr]
             ELSE IF l.packages[p].staged = copr
             THEN [l.packages[p] EXCEPT !.staged = None]
             ELSE l.packages[p]
           map == [p \in tracked |-> Folded(p)]
           new == Reconcile(l, copr, answer)
<1>1. ASSUME NEW p \in tracked \cap answer
      PROVE  /\ Folded(p) \in Entry
             /\ Folded(p).seen_in_copr /\ Folded(p).staged = copr
             /\ p \in Tracked(l) => Folded(p).route = l.packages[p].route
  <2>1. With(l, answer) \in [Tracked(l) \cup answer -> Entry]
    BY LedgerFields, EntryFresh DEF With
  <2>2. p \in Tracked(l) => With(l, answer)[p] = l.packages[p]
    BY DEF With
  <2> DEFINE e == With(l, answer)[p]
  <2>3. e \in Entry BY <2>1
  <2>4. Folded(p) = [e EXCEPT !.seen_in_copr = TRUE, !.staged = copr] OBVIOUS
  <2> HIDE DEF e
  <2>5. Folded(p) \in Entry /\ Folded(p).seen_in_copr /\ Folded(p).staged = copr
        /\ Folded(p).route = e.route
    BY <2>3, <2>4 DEF Entry
  <2> QED BY <2>2, <2>5 DEF e
<1>2. ASSUME NEW p \in Tracked(l) \ answer
      PROVE  /\ Folded(p) \in Entry
             /\ Folded(p).seen_in_copr = l.packages[p].seen_in_copr
             /\ Folded(p).staged =
                  IF l.packages[p].staged = copr THEN None ELSE l.packages[p].staged
             /\ Folded(p).route = l.packages[p].route
  <2>1. l.packages[p] \in Entry BY LedgerFields
  <2>2. CASE l.packages[p].staged = copr
    BY <2>1, <2>2 DEF Entry
  <2>3. CASE l.packages[p].staged # copr
    BY <2>1, <2>3
  <2> QED BY <2>2, <2>3
<1>3. new = [l EXCEPT !.packages = map, !.coprs = @ \cup {copr}]
  BY DEF Reconcile
<1> HIDE DEF Folded
<1>4. map \in [tracked -> Entry] /\ \A p \in tracked : map[p] = Folded(p)
  BY <1>1, <1>2
<1> HIDE DEF map
<1>5. map \in PackageMaps /\ DOMAIN map = tracked
  BY <1>4, LedgerFields, PackageMap
<1>6. /\ new.packages = map /\ new.ignored = l.ignored
      /\ new.coprs = l.coprs \cup {copr} /\ new.side_tags = l.side_tags
      /\ new \in Ledgers
  BY <1>3, <1>5 DEF Ledgers, PackageMaps
<1>7. Tracked(new) = tracked
  BY <1>5, <1>6 DEF Tracked
<1> HIDE DEF new
<1>8. /\ \A p \in tracked \cap answer : map[p].seen_in_copr /\ map[p].staged = copr
      /\ \A p \in Tracked(l) \ answer :
              /\ map[p].seen_in_copr = l.packages[p].seen_in_copr
              /\ map[p].staged =
                   IF l.packages[p].staged = copr THEN None ELSE l.packages[p].staged
      /\ \A p \in Tracked(l) : map[p].route = l.packages[p].route
  BY <1>1, <1>2, <1>4
<1> QED BY <1>6, <1>7, <1>8 DEF new

\* What the side tags hold, taken up.
LEMMA AdoptLedger ==
  ASSUME NEW l \in Ledgers, NEW found \in SUBSET Package
  PROVE  /\ Adopt(l, found) \in Ledgers
         /\ Tracked(Adopt(l, found)) = Tracked(l) \cup (found \ l.ignored)
         /\ Adopt(l, found).ignored = l.ignored
         /\ Adopt(l, found).coprs = l.coprs
         /\ Adopt(l, found).side_tags = l.side_tags
         /\ \A p \in Tracked(l) : Adopt(l, found).packages[p] = l.packages[p]
         /\ \A p \in found \ (l.ignored \cup Tracked(l)) :
              Adopt(l, found).packages[p] = Fresh
<1> DEFINE new == found \ l.ignored
<1>1. With(l, new) \in [Tracked(l) \cup new -> Entry]
  BY LedgerFields, EntryFresh DEF With
<1>2. With(l, new) \in PackageMaps /\ DOMAIN With(l, new) = Tracked(l) \cup new
  BY <1>1, LedgerFields, PackageMap
<1>3. /\ Adopt(l, found).packages = With(l, new)
      /\ Adopt(l, found).ignored = l.ignored
      /\ Adopt(l, found).coprs = l.coprs
      /\ Adopt(l, found).side_tags = l.side_tags
      /\ Adopt(l, found) \in Ledgers
  BY <1>2 DEF Adopt, Ledgers, PackageMaps
<1>4. /\ \A p \in Tracked(l) : With(l, new)[p] = l.packages[p]
      /\ \A p \in new \ Tracked(l) : With(l, new)[p] = Fresh
  BY DEF With
<1> QED BY <1>2, <1>3, <1>4 DEF Tracked

\* What a run that is done asking may forget.
LEMMA PrunedLedger ==
  ASSUME NEW r \in Run, ledger[r] \in Ledgers
  PROVE  /\ Pruned(r) \in Ledgers
         /\ Tracked(Pruned(r)) =
              IF "packages" \in opts[r].prune /\ established[r]
              THEN Tracked(ledger[r]) \ Gone(ledger[r]) ELSE Tracked(ledger[r])
         /\ Pruned(r).ignored = ledger[r].ignored
         /\ Pruned(r).coprs = ledger[r].coprs
         /\ Pruned(r).side_tags =
              IF "side-tags" \in opts[r].prune /\ scan[r].definite
              THEN ledger[r].side_tags \ scan[r].missing ELSE ledger[r].side_tags
         /\ \A p \in Tracked(Pruned(r)) : Pruned(r).packages[p] = ledger[r].packages[p]
<1> DEFINE before == ledger[r]
           kept == IF "packages" \in opts[r].prune /\ established[r]
                   THEN PrunePackages(before) ELSE before
           gone == IF "packages" \in opts[r].prune /\ established[r]
                   THEN Gone(before) ELSE {}
<1>1. /\ kept \in Ledgers /\ Tracked(kept) = Tracked(before) \ gone
      /\ kept.ignored = before.ignored /\ kept.coprs = before.coprs
      /\ kept.side_tags = before.side_tags
      /\ \A p \in Tracked(kept) : kept.packages[p] = before.packages[p]
  <2>1. CASE "packages" \in opts[r].prune /\ established[r]
    <3>1. Without(before, gone) \in [Tracked(before) \ gone -> Entry]
      BY LedgerFields DEF Without
    <3>2. Without(before, gone) \in PackageMaps
          /\ DOMAIN Without(before, gone) = Tracked(before) \ gone
      BY <3>1, LedgerFields, PackageMap
    <3>3. kept = [before EXCEPT !.packages = Without(before, gone)]
      BY <2>1 DEF PrunePackages
    <3>4. /\ kept.packages = Without(before, gone)
          /\ kept.ignored = before.ignored /\ kept.coprs = before.coprs
          /\ kept.side_tags = before.side_tags
          /\ kept \in Ledgers
      BY <3>2, <3>3 DEF Ledgers, PackageMaps
    <3>5. \A p \in Tracked(before) \ gone :
             Without(before, gone)[p] = before.packages[p]
      BY DEF Without
    <3> HIDE DEF kept
    <3> QED BY <3>2, <3>4, <3>5 DEF Tracked
  <2>2. CASE ~("packages" \in opts[r].prune /\ established[r])
    BY <2>2
  <2> QED BY <2>1, <2>2
<1>2. Pruned(r) = IF "side-tags" \in opts[r].prune /\ scan[r].definite
                  THEN [kept EXCEPT !.side_tags = @ \ scan[r].missing] ELSE kept
  BY DEF Pruned, PruneSideTags
<1> HIDE DEF kept
<1>3. CASE "side-tags" \in opts[r].prune /\ scan[r].definite
  <2>1. /\ Pruned(r).packages = kept.packages /\ Pruned(r).ignored = kept.ignored
        /\ Pruned(r).coprs = kept.coprs
        /\ Pruned(r).side_tags = kept.side_tags \ scan[r].missing
        /\ Pruned(r) \in Ledgers
    BY <1>1, <1>2, <1>3 DEF Ledgers
  <2> QED BY <1>1, <1>3, <2>1 DEF Tracked
<1>4. CASE ~("side-tags" \in opts[r].prune /\ scan[r].definite)
  BY <1>1, <1>2, <1>4
<1> QED BY <1>3, <1>4

-----------------------------------------------------------------------------
\* Any number of runs at once, dying anywhere: TypeOK and NeverTrackedAndIgnored
\* are inductive together.

LEMMA IdleTypes == NoOptions \in Options /\ Unasked \in [missing : SUBSET Tag, definite : BOOLEAN]
  BY DEF NoOptions, Options, Unasked

\* A run that ends forgets what it knew.
LEMMA IdleType ==
  ASSUME TypeOK, NEW r \in Run, Idle(r)
  PROVE  /\ stage' \in [Run -> Stages] /\ opts' \in [Run -> Options]
         /\ ledger' \in [Run -> Ledgers]
         /\ todo' \in [Run -> SUBSET Copr] /\ unheard' \in [Run -> SUBSET Copr]
         /\ established' \in [Run -> BOOLEAN] /\ dirty' \in [Run -> BOOLEAN]
         /\ scan' \in [Run -> [missing : SUBSET Tag, definite : BOOLEAN]]
         /\ named' \in [Run -> SUBSET Package]
         /\ ledger' = [ledger EXCEPT ![r] = Empty]
<1>1. "idle" \in Stages BY DEF Stages
<1> QED BY <1>1, IdleTypes, EmptyType DEF TypeOK, Idle

LEMMA InitType == Init => TypeOK /\ NeverTrackedAndIgnored
<1> SUFFICES ASSUME Init PROVE TypeOK /\ NeverTrackedAndIgnored OBVIOUS
<1>1. TypeOK
  BY IdleTypes, EmptyType DEF Init, TypeOK, Stages
<1>2. NeverTrackedAndIgnored
  BY EmptyType DEF Init, NeverTrackedAndIgnored
<1> QED BY <1>1, <1>2

\* One step of a run on the ledger it holds.
LEMMA HeldLedger ==
  ASSUME TypeOK, NeverTrackedAndIgnored, NEW r \in Run, NEW new \in Ledgers,
         ledger' = [ledger EXCEPT ![r] = new], Tracked(new) \cap new.ignored = {}
  PROVE  /\ ledger' \in [Run -> Ledgers]
         /\ \A s \in Run : Tracked(ledger'[s]) \cap ledger'[s].ignored = {}
<1>1. ledger \in [Run -> Ledgers] BY DEF TypeOK
<1>2. ASSUME NEW s \in Run PROVE Tracked(ledger'[s]) \cap ledger'[s].ignored = {}
  <2>1. CASE s = r
    <3>1. ledger'[s] = new BY <1>1, <2>1
    <3> QED BY <3>1
  <2>2. CASE s # r
    <3>1. ledger'[s] = ledger[s] BY <1>1, <2>2
    <3> QED BY <3>1 DEF NeverTrackedAndIgnored
  <2> QED BY <2>1, <2>2
<1> QED BY <1>1, <1>2

LEMMA NextType == TypeOK /\ NeverTrackedAndIgnored /\ [Next]_vars
                    => TypeOK' /\ NeverTrackedAndIgnored'
<1> SUFFICES ASSUME TypeOK, NeverTrackedAndIgnored, [Next]_vars
             PROVE  TypeOK' /\ NeverTrackedAndIgnored'
  OBVIOUS
<1> USE DEF Stages
<1>1. ASSUME NEW r \in Run, NEW o \in CommandLines, Start(r, o)
      PROVE  TypeOK' /\ NeverTrackedAndIgnored'
  <2>1. o \in Options /\ file \in Ledgers
    BY <1>1, LedgerAssumption DEF Start, TypeOK
  <2>2. o.coprs \subseteq Copr /\ file.coprs \subseteq Copr
    BY <2>1, LedgerFields DEF Options
  <2> DEFINE new == Decide(file, o)
  <2>3. new \in Ledgers /\ Tracked(new) \cap new.ignored = {}
    <3>1. Tracked(file) \cap file.ignored = {}
      BY <2>1, ReadableIsNot DEF NeverTrackedAndIgnored
    <3> QED BY <2>1, <3>1, DecideLedger
  <2>4. ledger' = [ledger EXCEPT ![r] = new] BY <1>1 DEF Start
  <2> HIDE DEF new
  <2>5. /\ ledger' \in [Run -> Ledgers]
        /\ \A s \in Run : Tracked(ledger'[s]) \cap ledger'[s].ignored = {}
    BY <2>3, <2>4, HeldLedger
  <2>6. dirty' \in [Run -> BOOLEAN] /\ established' \in [Run -> BOOLEAN]
    <3>1. (Decisions(file, o) \/ ~o.offline) \in BOOLEAN
          /\ (~o.offline /\ file.coprs \cup o.coprs # {}) \in BOOLEAN
      OBVIOUS
    <3> QED BY <1>1, <3>1, Zenon DEF Start, TypeOK
  <2>7. TypeOK'
    BY <1>1, <2>1, <2>2, <2>5, <2>6 DEF TypeOK, Start
  <2>8. NeverTrackedAndIgnored'
    BY <1>1, <2>5 DEF NeverTrackedAndIgnored, Start
  <2> QED BY <2>7, <2>8
<1>2. ASSUME NEW r \in Run, NEW copr \in Copr, NEW answer \in SUBSET Package,
             CoprAnswers(r, copr, answer)
      PROVE  TypeOK' /\ NeverTrackedAndIgnored'
  <2> DEFINE new == Reconcile(ledger[r], copr, answer)
  <2>1. ledger[r] \in Ledgers /\ Tracked(ledger[r]) \cap ledger[r].ignored = {}
    BY DEF TypeOK, NeverTrackedAndIgnored
  <2>2. new \in Ledgers /\ Tracked(new) \cap new.ignored = {}
    BY <2>1, ReconcileLedger
  <2>3. ledger' = [ledger EXCEPT ![r] = new] BY <1>2 DEF CoprAnswers
  <2> HIDE DEF new
  <2>4. /\ ledger' \in [Run -> Ledgers]
        /\ \A s \in Run : Tracked(ledger'[s]) \cap ledger'[s].ignored = {}
    BY <2>2, <2>3, HeldLedger
  <2>5. TypeOK'
    BY <1>2, <2>4 DEF TypeOK, CoprAnswers
  <2>6. NeverTrackedAndIgnored'
    BY <1>2, <2>4 DEF NeverTrackedAndIgnored, CoprAnswers
  <2> QED BY <2>5, <2>6
<1>3. ASSUME NEW r \in Run, NEW copr \in Copr, CoprFails(r, copr)
      PROVE  TypeOK' /\ NeverTrackedAndIgnored'
  <2>1. TypeOK' BY <1>3 DEF TypeOK, CoprFails
  <2>2. NeverTrackedAndIgnored' BY <1>3 DEF NeverTrackedAndIgnored, CoprFails
  <2> QED BY <2>1, <2>2
<1>4. ASSUME NEW r \in Run, ScanSideTags(r)
      PROVE  TypeOK' /\ NeverTrackedAndIgnored'
  <2>1. PICK silent \in SUBSET ledger[r].side_tags, found \in SUBSET Package :
          LET answering == ledger[r].side_tags \ silent IN
          /\ ledger' = [ledger EXCEPT ![r] = Adopt(@, found)]
          /\ scan' = [scan EXCEPT ![r] = [missing |-> answering \ live,
                                          definite |-> silent = {}]]
    BY <1>4 DEF ScanSideTags
  <2> DEFINE new == Adopt(ledger[r], found)
             answer == [missing |-> (ledger[r].side_tags \ silent) \ live,
                        definite |-> silent = {}]
  <2>2. ledger[r] \in Ledgers /\ Tracked(ledger[r]) \cap ledger[r].ignored = {}
    BY DEF TypeOK, NeverTrackedAndIgnored
  <2>3. new \in Ledgers /\ Tracked(new) \cap new.ignored = {}
    BY <2>2, AdoptLedger
  <2>4. ledger' = [ledger EXCEPT ![r] = new] BY <2>1
  <2>5. answer \in [missing : SUBSET Tag, definite : BOOLEAN]
    <3>1. (silent = {}) \in BOOLEAN /\ (ledger[r].side_tags \ silent) \ live \in SUBSET Tag
      BY <2>2, LedgerFields
    <3> QED BY <3>1, Zenon
  <2>6. scan' = [scan EXCEPT ![r] = answer] BY <2>1
  <2> HIDE DEF new, answer
  <2>7. /\ ledger' \in [Run -> Ledgers]
        /\ \A s \in Run : Tracked(ledger'[s]) \cap ledger'[s].ignored = {}
    BY <2>3, <2>4, HeldLedger
  <2>8. TypeOK'
    BY <1>4, <2>5, <2>6, <2>7 DEF TypeOK, ScanSideTags
  <2>9. NeverTrackedAndIgnored'
    BY <1>4, <2>7 DEF NeverTrackedAndIgnored, ScanSideTags
  <2> QED BY <2>8, <2>9
<1>5. ASSUME NEW r \in Run, NoKoji(r)
      PROVE  TypeOK' /\ NeverTrackedAndIgnored'
  <2>1. TypeOK' BY <1>5 DEF TypeOK, NoKoji
  <2>2. NeverTrackedAndIgnored' BY <1>5 DEF NeverTrackedAndIgnored, NoKoji
  <2> QED BY <2>1, <2>2
<1>6. ASSUME NEW r \in Run, Prune(r)
      PROVE  TypeOK' /\ NeverTrackedAndIgnored'
  <2>1. ledger[r] \in Ledgers /\ Tracked(ledger[r]) \cap ledger[r].ignored = {}
    BY DEF TypeOK, NeverTrackedAndIgnored
  <2>2. CASE dirty[r]
    <3>1. Pruned(r) \in Ledgers /\ Tracked(Pruned(r)) \cap Pruned(r).ignored = {}
      BY <2>1, PrunedLedger
    <3>2. ledger' = [ledger EXCEPT ![r] = Pruned(r)] BY <1>6, <2>2 DEF Prune
    <3>3. /\ ledger' \in [Run -> Ledgers]
          /\ \A s \in Run : Tracked(ledger'[s]) \cap ledger'[s].ignored = {}
      BY <3>1, <3>2, HeldLedger
    <3>4. TypeOK' BY <1>6, <2>2, <3>3 DEF TypeOK, Prune
    <3>5. NeverTrackedAndIgnored' BY <1>6, <2>2, <3>3 DEF NeverTrackedAndIgnored, Prune
    <3> QED BY <3>4, <3>5
  <2>3. CASE ~dirty[r]
    <3>1. Idle(r) /\ UNCHANGED <<file, live, saved>> BY <1>6, <2>3 DEF Prune
    <3>2. TypeOK' BY <3>1, IdleType DEF TypeOK
    <3>3. \A s \in Run : Tracked(ledger'[s]) \cap ledger'[s].ignored = {}
      BY <3>1, IdleType, EmptyType, HeldLedger
    <3>4. NeverTrackedAndIgnored' BY <3>1, <3>3 DEF NeverTrackedAndIgnored
    <3> QED BY <3>2, <3>4
  <2> QED BY <2>2, <2>3
<1>7. ASSUME NEW r \in Run, Truncate(r)
      PROVE  TypeOK' /\ NeverTrackedAndIgnored'
  <2>1. TypeOK' BY <1>7, EmptyType DEF TypeOK, Truncate
  <2>2. NeverTrackedAndIgnored' BY <1>7, EmptyType DEF NeverTrackedAndIgnored, Truncate
  <2> QED BY <2>1, <2>2
<1>8. ASSUME NEW r \in Run, Write(r)
      PROVE  TypeOK' /\ NeverTrackedAndIgnored'
  <2>1. Idle(r) /\ file' = ledger[r] /\ saved' = ledger[r] /\ UNCHANGED live
    BY <1>8 DEF Write
  <2>2. TypeOK' BY <2>1, IdleType DEF TypeOK
  <2>3. \A s \in Run : Tracked(ledger'[s]) \cap ledger'[s].ignored = {}
    BY <2>1, IdleType, EmptyType, HeldLedger
  <2>4. Tracked(file') \cap file'.ignored = {}
    BY <2>1 DEF NeverTrackedAndIgnored
  <2>5. NeverTrackedAndIgnored' BY <2>3, <2>4 DEF NeverTrackedAndIgnored
  <2> QED BY <2>2, <2>5
<1>9. ASSUME NEW r \in Run, Crash(r)
      PROVE  TypeOK' /\ NeverTrackedAndIgnored'
  <2>1. Idle(r) /\ file' \in {file, Unreadable} /\ UNCHANGED <<live, saved>>
    BY <1>9 DEF Crash
  <2>2. TypeOK' BY <2>1, IdleType DEF TypeOK
  <2>3. \A s \in Run : Tracked(ledger'[s]) \cap ledger'[s].ignored = {}
    BY <2>1, IdleType, EmptyType, HeldLedger
  <2>4. NeverTrackedAndIgnored' BY <2>1, <2>3 DEF NeverTrackedAndIgnored
  <2> QED BY <2>2, <2>4
<1>10. ASSUME NEW tag \in Tag, TagRemoved(tag)
       PROVE  TypeOK' /\ NeverTrackedAndIgnored'
  <2>1. TypeOK' BY <1>10 DEF TypeOK, TagRemoved, run
  <2>2. NeverTrackedAndIgnored' BY <1>10 DEF NeverTrackedAndIgnored, TagRemoved, run
  <2> QED BY <2>1, <2>2
<1>11. CASE UNCHANGED vars
  <2>1. TypeOK' BY <1>11 DEF TypeOK, vars, run
  <2>2. NeverTrackedAndIgnored' BY <1>11 DEF NeverTrackedAndIgnored, vars, run
  <2> QED BY <2>1, <2>2
<1> QED
  BY <1>1, <1>2, <1>3, <1>4, <1>5, <1>6, <1>7, <1>8, <1>9, <1>10, <1>11
  DEF Next, RunStep

\* Type correctness, for any packages, COPRs, side tags and runs at once.
THEOREM TypeCorrect == Spec => []TypeOK
<1>1. TypeOK /\ NeverTrackedAndIgnored /\ [Next]_vars => (TypeOK /\ NeverTrackedAndIgnored)'
  BY NextType
<1> QED BY <1>1, InitType, PTL DEF Spec

\* However many runs share a ledger, and wherever they die, their writes
\* included, no ledger both tracks and refuses a package.
THEOREM NeverBoth == Spec => []NeverTrackedAndIgnored
<1>1. TypeOK /\ NeverTrackedAndIgnored /\ [Next]_vars => (TypeOK /\ NeverTrackedAndIgnored)'
  BY NextType
<1> QED BY <1>1, InitType, PTL DEF Spec

-----------------------------------------------------------------------------
\* One run at a time, and writes that are whole: what the ledger promises from
\* one save to the next.

Alone(r) == Run = {r} /\ MayTear = FALSE

\* While a run is under way the file is the ledger last saved, until it is
\* written over.
FileIsSaved(r) == stage[r] # "write" => file = saved

\* A run that is not under way remembers nothing of the hubs.
IdleKnowsNothing(r) == stage[r] = "idle" => named[r] = {} /\ scan[r] = Unasked

Busy(r) == stage[r] # "idle"

\* What a run does to what was saved: refusals, routes, side tags.
RefusalsStand(r) == Busy(r) => saved.ignored \subseteq ledger[r].ignored \cup opts[r].add

\* What it was told to forget it refuses, unless told to take it up again.
ForgottenAreRefused(r) == Busy(r) => opts[r].forget \ opts[r].add \subseteq ledger[r].ignored

RoutesStand(r) ==
  Busy(r) => \A p \in Tracked(saved) \cap Tracked(ledger[r]) :
            \/ ledger[r].packages[p].route = saved.packages[p].route
            \/ p \in opts[r].forget \cap opts[r].add
            \/ \E s \in opts[r].set : s[1] = p

TagsStand(r) == /\ Busy(r) => saved.side_tags \cap live \subseteq ledger[r].side_tags
             /\ scan[r].missing \cap live = {}

\* Until it prunes, a run has dropped only what it was told to forget; it knows
\* who has not answered, and where what was named is staged.
Questioning(r) == stage[r] \in {"coprs", "prune"}

NothingPruned(r) == Questioning(r) => Tracked(saved) \ Tracked(ledger[r]) \subseteq opts[r].forget

SilenceIsKnown(r) ==
  /\ Questioning(r) /\ established[r] =>
       /\ unheard[r] \subseteq todo[r]
       /\ todo[r] # {} \/ ledger[r].coprs # {}
  /\ stage[r] = "prune" => todo[r] = {}

NamedIsStaged(r) ==
  Questioning(r) => /\ named[r] \subseteq Tracked(ledger[r]) \cup ledger[r].ignored
            /\ \A p \in named[r] \cap Tracked(ledger[r]) :
                 ledger[r].packages[p].staged \notin {None} \cup todo[r]

SeenWasSeen(r) ==
  Questioning(r) => \A p \in Tracked(saved) \ opts[r].forget :
              ledger[r].packages[p].seen_in_copr =>
                saved.packages[p].seen_in_copr \/ p \in named[r]

\* What a run may drop of what was saved.
Licensed(r, p) ==
  \/ p \in opts[r].forget
  \/ /\ "packages" \in opts[r].prune
     /\ saved.packages[p].seen_in_copr
     /\ unheard[r] = {} /\ ledger[r].coprs # {}
     /\ p \notin named[r]

DropsAreLicensed(r) ==
  stage[r] \in {"save", "write"} =>
    \A p \in Tracked(saved) \ Tracked(ledger[r]) : Licensed(r, p)

SoloInv(r) ==
  /\ FileIsSaved(r) /\ IdleKnowsNothing(r)
  /\ RefusalsStand(r) /\ ForgottenAreRefused(r) /\ RoutesStand(r) /\ TagsStand(r)
  /\ NothingPruned(r) /\ SilenceIsKnown(r) /\ NamedIsStaged(r) /\ SeenWasSeen(r)
  /\ DropsAreLicensed(r)

LEMMA SoloInit == ASSUME NEW r, Alone(r), Init PROVE SoloInv(r)
<1>1. /\ stage[r] = "idle" /\ file = saved /\ named[r] = {} /\ scan[r] = Unasked
  BY DEF Init, Alone
<1>2. scan[r].missing = {}
  BY <1>1 DEF Unasked
<1> QED
  BY <1>1, <1>2 DEF SoloInv, FileIsSaved, IdleKnowsNothing, Busy, RefusalsStand,
     ForgottenAreRefused,
     RoutesStand, TagsStand, Questioning, NothingPruned, SilenceIsKnown, NamedIsStaged, SeenWasSeen,
     DropsAreLicensed

\* A run that is over has nothing left to answer for.
LEMMA SoloIdle ==
  ASSUME NEW r \in Run, TypeOK, Idle(r), file' = saved'
  PROVE  SoloInv(r)'
<1>1. stage'[r] = "idle" /\ named'[r] = {} /\ scan'[r] = Unasked
  BY DEF Idle, TypeOK
<1>2. scan'[r].missing = {}
  BY <1>1 DEF Unasked
<1> QED
  BY <1>1, <1>2 DEF SoloInv, FileIsSaved, IdleKnowsNothing, Busy, RefusalsStand,
     ForgottenAreRefused,
     RoutesStand, TagsStand, Questioning, NothingPruned, SilenceIsKnown, NamedIsStaged, SeenWasSeen,
     DropsAreLicensed

LEMMA SoloStart ==
  ASSUME NEW r \in Run, TypeOK, NeverTrackedAndIgnored, SoloInv(r),
         NEW o \in CommandLines, Start(r, o)
  PROVE  SoloInv(r)'
<1> DEFINE new == Decide(file, o)
           coprs == file.coprs \cup o.coprs
<1>1. /\ o \in Options /\ file \in Ledgers /\ file = saved
      /\ scan[r] = Unasked /\ named[r] = {}
  BY LedgerAssumption DEF Start, TypeOK, SoloInv, FileIsSaved, IdleKnowsNothing
<1>2. /\ Tracked(new) = (Tracked(saved) \ o.forget) \cup o.add
      /\ new.ignored = (saved.ignored \cup o.forget) \ o.add
      /\ new.coprs = saved.coprs
      /\ new.side_tags = saved.side_tags \cup o.side_tags
      /\ \A p \in Tracked(saved) \ o.forget :
           /\ new.packages[p].seen_in_copr = saved.packages[p].seen_in_copr
           /\ \/ new.packages[p].route = saved.packages[p].route
              \/ \E s \in o.set : s[1] = p
  BY <1>1, DecideLedger
<1>3. /\ stage'[r] = (IF o.offline THEN "prune" ELSE "coprs")
      /\ opts'[r] = o /\ ledger'[r] = new
      /\ todo'[r] = (IF o.offline THEN {} ELSE coprs)
      /\ established'[r] = (~o.offline /\ coprs # {})
      /\ unheard'[r] = coprs
      /\ scan' = scan /\ named' = named /\ saved' = saved /\ live' = live /\ file' = file
  BY DEF Start, TypeOK
<1> HIDE DEF new
<1>4. scan'[r].missing = {} BY <1>1, <1>3 DEF Unasked
<1>5. FileIsSaved(r)' /\ IdleKnowsNothing(r)'
  BY <1>1, <1>3 DEF FileIsSaved, IdleKnowsNothing
<1>6. RefusalsStand(r)' /\ ForgottenAreRefused(r)' /\ RoutesStand(r)' /\ TagsStand(r)'
  BY <1>2, <1>3, <1>4 DEF RefusalsStand, ForgottenAreRefused, RoutesStand, TagsStand
<1>7. NothingPruned(r)' /\ SeenWasSeen(r)'
  BY <1>2, <1>3 DEF NothingPruned, SeenWasSeen
<1>8. SilenceIsKnown(r)' /\ NamedIsStaged(r)'
  BY <1>1, <1>3 DEF SilenceIsKnown, NamedIsStaged, Questioning
<1>9. DropsAreLicensed(r)'
  BY <1>3 DEF DropsAreLicensed
<1> QED BY <1>5, <1>6, <1>7, <1>8, <1>9 DEF SoloInv

LEMMA SoloAnswer ==
  ASSUME NEW r \in Run, TypeOK, NeverTrackedAndIgnored, SoloInv(r),
         NEW copr \in Copr, NEW answer \in SUBSET Package, CoprAnswers(r, copr, answer)
  PROVE  SoloInv(r)'
<1> DEFINE old == ledger[r]
           new == Reconcile(old, copr, answer)
<1>1. old \in Ledgers BY DEF TypeOK
<1>2. /\ Tracked(new) = Tracked(old) \cup (answer \ old.ignored)
      /\ new.ignored = old.ignored
      /\ new.coprs = old.coprs \cup {copr}
      /\ new.side_tags = old.side_tags
      /\ \A p \in Tracked(new) \cap answer :
           new.packages[p].seen_in_copr /\ new.packages[p].staged = copr
      /\ \A p \in Tracked(old) \ answer :
           /\ new.packages[p].seen_in_copr = old.packages[p].seen_in_copr
           /\ new.packages[p].staged =
                IF old.packages[p].staged = copr THEN None ELSE old.packages[p].staged
      /\ \A p \in Tracked(old) : new.packages[p].route = old.packages[p].route
  BY <1>1, ReconcileLedger
<1>3. /\ stage[r] = "coprs" /\ copr \in todo[r]
      /\ stage' = stage /\ opts' = opts /\ established' = established /\ scan' = scan
      /\ file' = file /\ live' = live /\ saved' = saved
      /\ ledger'[r] = new /\ todo'[r] = todo[r] \ {copr}
      /\ named'[r] = named[r] \cup answer /\ unheard'[r] = unheard[r] \ {copr}
  BY DEF CoprAnswers, TypeOK
<1> HIDE DEF new
<1>4. FileIsSaved(r)' /\ IdleKnowsNothing(r)'
  BY <1>3 DEF SoloInv, FileIsSaved, IdleKnowsNothing
<1>5. NothingPruned(r)'
  BY <1>2, <1>3 DEF SoloInv, NothingPruned, Questioning
<1>6. RefusalsStand(r)' /\ ForgottenAreRefused(r)' /\ TagsStand(r)'
  BY <1>2, <1>3 DEF SoloInv, RefusalsStand, ForgottenAreRefused, TagsStand, Busy
<1>7. RoutesStand(r)'
  <2>1. SUFFICES ASSUME NEW p \in Tracked(saved) \cap Tracked(new)
                 PROVE  \/ new.packages[p].route = saved.packages[p].route
                        \/ p \in opts[r].forget \cap opts[r].add
                        \/ \E s \in opts[r].set : s[1] = p
    BY <1>3 DEF RoutesStand
  <2>2. CASE p \in Tracked(old)
    BY <1>2, <1>3, <2>1, <2>2 DEF SoloInv, RoutesStand, Busy
  <2>3. CASE p \notin Tracked(old)
    BY <1>2, <1>3, <2>1, <2>3 DEF SoloInv, NothingPruned, ForgottenAreRefused, Questioning,
       Busy
  <2> QED BY <2>2, <2>3
<1>8. SilenceIsKnown(r)'
  BY <1>2, <1>3 DEF SoloInv, SilenceIsKnown, Questioning
<1>9. NamedIsStaged(r)'
  <2>1. named'[r] \subseteq Tracked(new) \cup new.ignored
    BY <1>2, <1>3 DEF SoloInv, NamedIsStaged, Questioning
  <2>2. ASSUME NEW p \in named'[r] \cap Tracked(new)
        PROVE  new.packages[p].staged \notin {None} \cup todo'[r]
    <3>1. CASE p \in answer
      BY <1>2, <1>3, <2>2, <3>1, LedgerAssumption
    <3>2. CASE p \notin answer
      <4>1. p \in named[r] \cap Tracked(old) BY <1>2, <1>3, <2>2, <3>2
      <4>2. old.packages[p].staged \notin {None} \cup todo[r]
        BY <1>3, <4>1 DEF SoloInv, NamedIsStaged, Questioning
      <4>3. new.packages[p].staged = old.packages[p].staged
        BY <1>2, <1>3, <3>2, <4>1, <4>2
      <4> QED BY <1>3, <4>2, <4>3
    <3> QED BY <3>1, <3>2
  <2> QED BY <1>3, <2>1, <2>2 DEF NamedIsStaged
<1>10. SeenWasSeen(r)'
  <2>1. \A p \in Tracked(saved) \ opts[r].forget : p \in Tracked(old)
    BY <1>3 DEF SoloInv, NothingPruned, Questioning
  <2> QED BY <1>2, <1>3, <2>1 DEF SoloInv, SeenWasSeen, Questioning
<1>11. DropsAreLicensed(r)'
  BY <1>3 DEF DropsAreLicensed
<1> QED BY <1>4, <1>5, <1>6, <1>7, <1>8, <1>9, <1>10, <1>11 DEF SoloInv

LEMMA SoloSilence ==
  ASSUME NEW r \in Run, TypeOK, SoloInv(r), NEW copr \in Copr, CoprFails(r, copr)
  PROVE  SoloInv(r)'
<1>1. /\ stage[r] = "coprs"
      /\ stage' = stage /\ opts' = opts /\ ledger' = ledger /\ scan' = scan
      /\ file' = file /\ live' = live /\ saved' = saved
      /\ named' = named /\ unheard' = unheard
      /\ todo'[r] = todo[r] \ {copr} /\ established'[r] = FALSE
  BY DEF CoprFails, TypeOK
<1>2. FileIsSaved(r)' /\ IdleKnowsNothing(r)' /\ DropsAreLicensed(r)'
  BY <1>1 DEF SoloInv, FileIsSaved, IdleKnowsNothing, DropsAreLicensed
<1>3. RefusalsStand(r)' /\ ForgottenAreRefused(r)' /\ RoutesStand(r)' /\ TagsStand(r)'
  BY <1>1 DEF SoloInv, RefusalsStand, ForgottenAreRefused, RoutesStand, TagsStand, Busy
<1>4. NothingPruned(r)' /\ SilenceIsKnown(r)' /\ NamedIsStaged(r)' /\ SeenWasSeen(r)'
  BY <1>1 DEF SoloInv, NothingPruned, SilenceIsKnown, NamedIsStaged, SeenWasSeen,
     Questioning
<1> QED BY <1>2, <1>3, <1>4 DEF SoloInv

LEMMA SoloScan ==
  ASSUME NEW r \in Run, TypeOK, SoloInv(r), ScanSideTags(r)
  PROVE  SoloInv(r)'
<1> DEFINE old == ledger[r]
<1>1. PICK silent \in SUBSET old.side_tags, found \in SUBSET Package :
        /\ ledger' = [ledger EXCEPT ![r] = Adopt(@, found)]
        /\ scan' = [scan EXCEPT ![r] = [missing |-> (old.side_tags \ silent) \ live,
                                        definite |-> silent = {}]]
  BY DEF ScanSideTags
<1> DEFINE new == Adopt(old, found)
<1>2. old \in Ledgers BY DEF TypeOK
<1>3. /\ Tracked(new) = Tracked(old) \cup (found \ old.ignored)
      /\ new.ignored = old.ignored /\ new.coprs = old.coprs
      /\ new.side_tags = old.side_tags
      /\ \A p \in Tracked(old) : new.packages[p] = old.packages[p]
  BY <1>2, AdoptLedger
<1>4. /\ stage[r] = "coprs" /\ todo[r] = {} /\ stage'[r] = "prune"
      /\ opts' = opts /\ established' = established /\ todo' = todo
      /\ file' = file /\ live' = live /\ saved' = saved
      /\ named' = named /\ unheard' = unheard
  BY DEF ScanSideTags, TypeOK
<1>5. ledger'[r] = new /\ scan'[r].missing = (old.side_tags \ silent) \ live
  BY <1>1 DEF TypeOK
<1> HIDE DEF new
<1>6. FileIsSaved(r)' /\ IdleKnowsNothing(r)' /\ DropsAreLicensed(r)'
  BY <1>4 DEF SoloInv, FileIsSaved, IdleKnowsNothing, DropsAreLicensed
<1>7. RefusalsStand(r)' /\ ForgottenAreRefused(r)' /\ TagsStand(r)'
  BY <1>3, <1>4, <1>5 DEF SoloInv, RefusalsStand, ForgottenAreRefused, TagsStand, Busy
<1>8. RoutesStand(r)'
  BY <1>3, <1>4, <1>5
  DEF SoloInv, RoutesStand, NothingPruned, ForgottenAreRefused, Questioning, Busy
<1>9. NothingPruned(r)' /\ SilenceIsKnown(r)'
  BY <1>3, <1>4, <1>5 DEF SoloInv, NothingPruned, SilenceIsKnown, Questioning
<1>10. NamedIsStaged(r)'
  BY <1>3, <1>4, <1>5 DEF SoloInv, NamedIsStaged, Questioning
<1>11. SeenWasSeen(r)'
  BY <1>3, <1>4, <1>5 DEF SoloInv, SeenWasSeen, NothingPruned, Questioning
<1> QED BY <1>6, <1>7, <1>8, <1>9, <1>10, <1>11 DEF SoloInv

LEMMA SoloNoKoji ==
  ASSUME NEW r \in Run, TypeOK, SoloInv(r), NoKoji(r)
  PROVE  SoloInv(r)'
<1>1. /\ stage[r] = "coprs" /\ todo[r] = {} /\ stage'[r] = "prune"
      /\ opts' = opts /\ established' = established /\ todo' = todo
      /\ file' = file /\ live' = live /\ saved' = saved /\ ledger' = ledger
      /\ named' = named /\ unheard' = unheard /\ scan' = scan
  BY DEF NoKoji, TypeOK
<1>2. FileIsSaved(r)' /\ IdleKnowsNothing(r)' /\ DropsAreLicensed(r)'
  BY <1>1 DEF SoloInv, FileIsSaved, IdleKnowsNothing, DropsAreLicensed
<1>3. RefusalsStand(r)' /\ ForgottenAreRefused(r)' /\ RoutesStand(r)' /\ TagsStand(r)'
  BY <1>1 DEF SoloInv, RefusalsStand, ForgottenAreRefused, RoutesStand, TagsStand, Busy
<1>4. NothingPruned(r)' /\ SilenceIsKnown(r)' /\ NamedIsStaged(r)' /\ SeenWasSeen(r)'
  BY <1>1 DEF SoloInv, NothingPruned, SilenceIsKnown, NamedIsStaged, SeenWasSeen,
     Questioning
<1> QED BY <1>2, <1>3, <1>4 DEF SoloInv

\* Pruning is where a run may drop what was saved.
LEMMA SoloPrune ==
  ASSUME NEW r \in Run, TypeOK, SoloInv(r), Prune(r)
  PROVE  SoloInv(r)'
<1>1. stage[r] = "prune" /\ file' = file /\ live' = live /\ saved' = saved
  BY DEF Prune
<1>2. CASE ~dirty[r]
  <2>1. Idle(r) BY <1>2 DEF Prune
  <2>2. file' = saved' BY <1>1 DEF SoloInv, FileIsSaved
  <2> QED BY <2>1, <2>2, SoloIdle
<1>3. CASE dirty[r]
  <2> DEFINE old == ledger[r]
             new == Pruned(r)
  <2>1. /\ stage'[r] = "save" /\ ledger'[r] = new
        /\ opts' = opts /\ named' = named /\ unheard' = unheard /\ scan' = scan
    BY <1>3 DEF Prune, TypeOK
  <2>2. old \in Ledgers BY DEF TypeOK
  <2>3. /\ Tracked(new) = IF "packages" \in opts[r].prune /\ established[r]
                          THEN Tracked(old) \ Gone(old) ELSE Tracked(old)
        /\ new.ignored = old.ignored /\ new.coprs = old.coprs
        /\ new.side_tags = IF "side-tags" \in opts[r].prune /\ scan[r].definite
                           THEN old.side_tags \ scan[r].missing ELSE old.side_tags
        /\ \A p \in Tracked(new) : new.packages[p] = old.packages[p]
    BY <2>2, PrunedLedger
  <2> HIDE DEF new
  <2>4. FileIsSaved(r)' /\ IdleKnowsNothing(r)'
    BY <1>1, <2>1 DEF SoloInv, FileIsSaved, IdleKnowsNothing
  <2>5. RefusalsStand(r)' /\ ForgottenAreRefused(r)' /\ RoutesStand(r)'
    BY <1>1, <2>1, <2>3 DEF SoloInv, RefusalsStand, ForgottenAreRefused, RoutesStand, Busy
  <2>6. TagsStand(r)'
    BY <1>1, <2>1, <2>3 DEF SoloInv, TagsStand, Busy
  <2>7. NothingPruned(r)' /\ SilenceIsKnown(r)' /\ NamedIsStaged(r)' /\ SeenWasSeen(r)'
    BY <2>1 DEF NothingPruned, SilenceIsKnown, NamedIsStaged, SeenWasSeen, Questioning
  <2>8. ASSUME NEW p \in Tracked(saved) \ Tracked(new), p \notin opts[r].forget
        PROVE  /\ "packages" \in opts[r].prune
               /\ saved.packages[p].seen_in_copr
               /\ unheard[r] = {} /\ new.coprs # {} /\ p \notin named[r]
    <3>1. p \in Tracked(old)
      BY <1>1, <2>8 DEF SoloInv, NothingPruned, Questioning
    <3>2. /\ "packages" \in opts[r].prune /\ established[r]
          /\ old.packages[p].seen_in_copr /\ old.packages[p].staged = None
      BY <2>3, <2>8, <3>1 DEF Gone
    <3>3. todo[r] = {} /\ unheard[r] = {} /\ old.coprs # {}
      BY <1>1, <3>2 DEF SoloInv, SilenceIsKnown, Questioning
    <3>4. p \notin named[r]
      BY <1>1, <3>1, <3>2 DEF SoloInv, NamedIsStaged, Questioning
    <3>5. saved.packages[p].seen_in_copr
      BY <1>1, <2>8, <3>2, <3>4 DEF SoloInv, SeenWasSeen, Questioning
    <3> QED BY <2>3, <3>2, <3>3, <3>4, <3>5
  <2>9. DropsAreLicensed(r)'
    BY <1>1, <2>1, <2>8 DEF DropsAreLicensed, Licensed
  <2> QED BY <2>4, <2>5, <2>6, <2>7, <2>9 DEF SoloInv
<1> QED BY <1>2, <1>3

LEMMA SoloTruncate ==
  ASSUME NEW r \in Run, TypeOK, SoloInv(r), Truncate(r)
  PROVE  SoloInv(r)'
<1>1. /\ stage[r] = "save" /\ stage'[r] = "write"
      /\ opts' = opts /\ ledger' = ledger /\ scan' = scan /\ named' = named
      /\ live' = live /\ saved' = saved /\ unheard' = unheard
  BY DEF Truncate, TypeOK
<1>2. FileIsSaved(r)' /\ IdleKnowsNothing(r)'
  BY <1>1 DEF FileIsSaved, IdleKnowsNothing
<1>3. RefusalsStand(r)' /\ ForgottenAreRefused(r)' /\ RoutesStand(r)' /\ TagsStand(r)'
  BY <1>1 DEF SoloInv, RefusalsStand, ForgottenAreRefused, RoutesStand, TagsStand, Busy
<1>4. NothingPruned(r)' /\ SilenceIsKnown(r)' /\ NamedIsStaged(r)' /\ SeenWasSeen(r)'
  BY <1>1 DEF NothingPruned, SilenceIsKnown, NamedIsStaged, SeenWasSeen, Questioning
<1>5. DropsAreLicensed(r)'
  BY <1>1 DEF SoloInv, DropsAreLicensed, Licensed
<1> QED BY <1>2, <1>3, <1>4, <1>5 DEF SoloInv

LEMMA SoloOver ==
  ASSUME NEW r \in Run, Alone(r), TypeOK, SoloInv(r), Write(r) \/ Crash(r)
  PROVE  SoloInv(r)'
<1>1. CASE Write(r)
  BY <1>1, SoloIdle DEF Write
<1>2. CASE Crash(r)
  <2>1. stage[r] # "write" /\ file' = file /\ saved' = saved /\ Idle(r)
    BY <1>2 DEF Crash, Alone
  <2>2. file' = saved' BY <2>1 DEF SoloInv, FileIsSaved
  <2> QED BY <2>1, <2>2, SoloIdle
<1> QED BY <1>1, <1>2

LEMMA SoloTagRemoved ==
  ASSUME NEW r \in Run, SoloInv(r), NEW tag \in Tag, TagRemoved(tag)
  PROVE  SoloInv(r)'
<1>1. live' \subseteq live /\ UNCHANGED <<file, run, saved>>
  BY DEF TagRemoved
<1>2. /\ stage' = stage /\ opts' = opts /\ ledger' = ledger /\ todo' = todo
      /\ established' = established /\ scan' = scan /\ named' = named
      /\ unheard' = unheard /\ file' = file /\ saved' = saved
  BY <1>1 DEF run
<1>3. TagsStand(r)'
  BY <1>1, <1>2 DEF SoloInv, TagsStand, Busy
<1> QED
  BY <1>2, <1>3 DEF SoloInv, FileIsSaved, IdleKnowsNothing, Busy, RefusalsStand,
     ForgottenAreRefused, RoutesStand, Questioning, NothingPruned, SilenceIsKnown, NamedIsStaged,
     SeenWasSeen, DropsAreLicensed, Licensed

LEMMA SoloNext ==
  ASSUME NEW r, Alone(r), TypeOK, NeverTrackedAndIgnored, SoloInv(r), [Next]_vars
  PROVE  SoloInv(r)'
<1>1. r \in Run /\ \A s \in Run : s = r
  BY DEF Alone
<1>2. CASE UNCHANGED vars
  BY <1>2 DEF vars, run, SoloInv, FileIsSaved, IdleKnowsNothing, Busy, RefusalsStand,
     ForgottenAreRefused, RoutesStand, TagsStand, Questioning, NothingPruned, SilenceIsKnown,
     NamedIsStaged, SeenWasSeen, DropsAreLicensed, Licensed
<1>3. CASE RunStep(r)
  BY <1>1, <1>3, SoloStart, SoloAnswer, SoloSilence, SoloScan, SoloNoKoji, SoloPrune,
     SoloTruncate, SoloOver DEF RunStep
<1>4. CASE \E tag \in Tag : TagRemoved(tag)
  BY <1>1, <1>4, SoloTagRemoved
<1> QED BY <1>1, <1>2, <1>3, <1>4 DEF Next

LEMMA SoloStarts ==
  ASSUME NEW r, Alone(r)
  PROVE  Init => TypeOK /\ NeverTrackedAndIgnored /\ SoloInv(r)
BY InitType, SoloInit

LEMMA SoloStays ==
  ASSUME NEW r, Alone(r)
  PROVE  TypeOK /\ NeverTrackedAndIgnored /\ SoloInv(r) /\ [Next]_vars
           => (TypeOK /\ NeverTrackedAndIgnored /\ SoloInv(r))'
BY NextType, SoloNext

\* With one run at a time and whole writes, a package leaves the ledger only
\* when it was forgotten by name, or when the run was to prune packages, a COPR
\* had once staged it, every COPR answered and none named it.
THEOREM LeavesOnTold ==
  ASSUME NEW CONSTANT me, Alone(me)
  PROVE  Spec => LeavesOnlyWhenTold
<1>1. ASSUME SoloInv(me), [Next]_vars
      PROVE  \A r \in Run : Write(r) =>
               \A p \in Tracked(saved) \ Tracked(saved') :
                 \/ p \in opts[r].forget
                 \/ /\ "packages" \in opts[r].prune
                    /\ saved.packages[p].seen_in_copr
                    /\ unheard[r] = {} /\ ledger[r].coprs # {}
                    /\ p \notin named[r]
  BY <1>1 DEF Alone, Write, SoloInv, DropsAreLicensed, Licensed
<1>2. Init => TypeOK /\ NeverTrackedAndIgnored /\ SoloInv(me)
  BY SoloStarts
<1>3. TypeOK /\ NeverTrackedAndIgnored /\ SoloInv(me) /\ [Next]_vars
        => (TypeOK /\ NeverTrackedAndIgnored /\ SoloInv(me))'
  BY SoloStays
<1> QED BY <1>1, <1>2, <1>3, PTL DEF Spec, LeavesOnlyWhenTold

\* Under the same conditions nothing but --add takes up a refused package.
THEOREM ForgottenStands ==
  ASSUME NEW CONSTANT me, Alone(me)
  PROVE  Spec => ForgottenStaysForgotten
<1>1. ASSUME SoloInv(me), NeverTrackedAndIgnored, [Next]_vars
      PROVE  \A r \in Run : Write(r) =>
               saved.ignored \cap Tracked(saved') \subseteq opts[r].add
  BY <1>1 DEF Alone, Write, SoloInv, RefusalsStand, Busy, NeverTrackedAndIgnored
<1>2. Init => TypeOK /\ NeverTrackedAndIgnored /\ SoloInv(me)
  BY SoloStarts
<1>3. TypeOK /\ NeverTrackedAndIgnored /\ SoloInv(me) /\ [Next]_vars
        => (TypeOK /\ NeverTrackedAndIgnored /\ SoloInv(me))'
  BY SoloStays
<1> QED BY <1>1, <1>2, <1>3, PTL DEF Spec, ForgottenStaysForgotten

\* And no refresh of a package that stays changes its route.
THEOREM DecisionsStand ==
  ASSUME NEW CONSTANT me, Alone(me)
  PROVE  Spec => DecisionsAreKept
<1>1. ASSUME SoloInv(me), [Next]_vars
      PROVE  \A r \in Run : Write(r) =>
               \A p \in Tracked(saved) \cap Tracked(saved') :
                 \/ saved'.packages[p].route = saved.packages[p].route
                 \/ p \in opts[r].forget \cap opts[r].add
                 \/ \E s \in opts[r].set : s[1] = p
  BY <1>1 DEF Alone, Write, SoloInv, RoutesStand, Busy
<1>2. Init => TypeOK /\ NeverTrackedAndIgnored /\ SoloInv(me)
  BY SoloStarts
<1>3. TypeOK /\ NeverTrackedAndIgnored /\ SoloInv(me) /\ [Next]_vars
        => (TypeOK /\ NeverTrackedAndIgnored /\ SoloInv(me))'
  BY SoloStays
<1> QED BY <1>1, <1>2, <1>3, PTL DEF Spec, DecisionsAreKept

\* And a side tag that exists stays in the ledger.
THEOREM LiveTagsStand ==
  ASSUME NEW CONSTANT me, Alone(me)
  PROVE  Spec => LiveTagsAreKept
<1>1. ASSUME SoloInv(me), [Next]_vars
      PROVE  \A r \in Run : Write(r) =>
               saved.side_tags \cap live \subseteq saved'.side_tags
  BY <1>1 DEF Alone, Write, SoloInv, TagsStand, Busy
<1>2. Init => TypeOK /\ NeverTrackedAndIgnored /\ SoloInv(me)
  BY SoloStarts
<1>3. TypeOK /\ NeverTrackedAndIgnored /\ SoloInv(me) /\ [Next]_vars
        => (TypeOK /\ NeverTrackedAndIgnored /\ SoloInv(me))'
  BY SoloStays
<1> QED BY <1>1, <1>2, <1>3, PTL DEF Spec, LiveTagsAreKept

-----------------------------------------------------------------------------
(***************************************************************************)
(* WipBranches.                                                            *)
(***************************************************************************)
Less == {p \in Nat \X Nat : p[1] < p[2]}

\* A non-empty bounded set of naturals has a greatest element, and Max picks it.
LEMMA GreatestExists ==
  ASSUME NEW n \in Nat, NEW S \in SUBSET (0..n), S # {}
  PROVE  Max(S) \in S /\ \A x \in S : Max(S) >= x
<1> DEFINE T == {n - x : x \in S}
<1>1. T \in SUBSET Nat /\ T # {}
  <2>1. \A x \in S : x \in 0..n
    OBVIOUS
  <2>2. \A x \in S : n - x \in Nat
    BY <2>1
  <2>3. \A t \in T : t \in Nat
    BY <2>2
  <2> QED BY <2>3
<1>2. IsWellFoundedOn(Less, Nat)
  <2>1. OpToRel(<, Nat) = Less
    BY Zenon DEF OpToRel, Less
  <2> QED BY <2>1, NatLessThanWellFounded, Zenon
<1>3. PICK t \in T : \A u \in T : ~ (<<u, t>> \in Less)
  BY <1>1, <1>2, WFMin, Zenon
<1>4. PICK m \in S : t = n - m
  BY <1>3
<1>5. \A x \in S : m >= x
  <2> SUFFICES ASSUME NEW x \in S, x > m PROVE FALSE
    OBVIOUS
  <2>1. n - x \in T /\ n - x \in Nat /\ t \in Nat /\ n - x < t
    BY <1>1, <1>4
  <2>2. <<n - x, t>> \in Less
    BY <2>1 DEF Less
  <2> QED BY <1>3, <2>1, <2>2, Zenon
<1> QED BY <1>5 DEF Max

-----------------------------------------------------------------------------
\* Of the names a run examines: rawhide always, and that of the side tags'
\* builds, whose release is F45 however the run came by its name; once Bodhi
\* has answered, every name of its own and only those.
NamesInv ==
  Asking =>
    /\ "rawhide" \in branches
    /\ SideTag > 0 => Attributed \in branches
    /\ aliased => ~branched
    /\ tags # {} \/ complete =>
         /\ tags = branches
         /\ aliased = ~branched
         /\ "f45" \in branches => branched

\* Of what the run has heard: nothing before the side tags are scanned, and of
\* a branch whose turn has not come no more than the scan told.
HeardInv ==
  /\ phase \in {"idle", "releases", "shipped", "scan"} => heard = NoBuilds
  /\ phase \in {"built", "done"} => \A n \in branches : built[n].version >= heard[n].version
  /\ phase = "built" => \A n \in waiting : heard[n].version <= scanned[n].version

\* Of what there was to find: it is still there, in a release's own tags or in
\* a side tag; from the scan on, in the release's tags or in the scan; and on
\* record for a branch whose turn has been.
DueInv ==
  /\ phase # "idle" => \A r \in Release :
       due[r] <= tagged[r] \/ \E i \in Tags(r) : due[r] <= inTag[i]
  /\ phase \in {"built", "done"} /\ complete =>
       due["F45"] <= tagged["F45"] \/ due["F45"] <= scanned[Attributed].version
  /\ phase \in {"built", "done"} /\ complete /\ staged = 0 =>
       \A n \in branches \ waiting : built[n].version >= due[ReleaseOf(n)]
  /\ phase = "done" /\ complete => waiting = {}

RunInv == BranchesTypeOK /\ NamesInv /\ FactsAreExamined

-----------------------------------------------------------------------------
LEMMA NewerBuilt ==
  ASSUME NEW a \in Built, NEW b \in Built
  PROVE  /\ Newer(a, b) \in {a, b} /\ Newer(a, b) \in Built
         /\ Newer(a, b).version >= a.version /\ Newer(a, b).version >= b.version
         /\ a.version = 0 => Newer(a, b) = b
  BY BranchesAssumption DEF Newer, Built, Version

LEMMA NotBuiltType == NotBuilt \in Built /\ NoBuilds \in [Name -> Built]
                      /\ \A n \in Name : NoBuilds[n] = NotBuilt
<1>1. NotBuilt \in Built
  BY BranchesAssumption DEF NotBuilt, Built, Version
<1> QED BY <1>1 DEF NoBuilds

\* The newest of some side tags' builds, and of a version besides.
LEMMA NewestInTags ==
  ASSUME BranchesTypeOK, NEW I \in SUBSET (1..SideTag), NEW v \in Version
  PROVE  LET S == {v} \cup {inTag[i] : i \in I}
         IN  /\ Max(S) \in S /\ Max(S) \in Version
             /\ \A x \in S : Max(S) >= x
<1> DEFINE S == {v} \cup {inTag[i] : i \in I}
<1>1. S \in SUBSET (0..MaxVersion) /\ S # {}
  BY DEF BranchesTypeOK, Version
<1> HIDE DEF S
<1>2. Max(S) \in S /\ \A x \in S : Max(S) >= x
  BY <1>1, GreatestExists, BranchesAssumption
<1> QED BY <1>1, <1>2 DEF S, Version

LEMMA LastBuildType ==
  ASSUME BranchesTypeOK, NEW answering \in SUBSET (1..SideTag)
  PROVE  /\ LastBuild(answering) \in Built
         /\ SideTag = 0 => LastBuild(answering) = NotBuilt
         /\ SideTag = 1 /\ answering = {1} => LastBuild(answering).version = inTag[1]
<1> DEFINE holding == {i \in answering : inTag[i] > 0}
<1>1. LastBuild(answering) = IF holding = {} THEN NotBuilt
                             ELSE [version |-> inTag[Max(holding)], of |-> "F45"]
  BY DEF LastBuild
<1>2. CASE holding = {}
  <2>1. LastBuild(answering) = NotBuilt
    BY <1>1, <1>2
  <2>2. ASSUME SideTag = 1, answering = {1} PROVE inTag[1] = 0
    BY <1>2, <2>2 DEF BranchesTypeOK, Version
  <2> QED BY <2>1, <2>2, NotBuiltType DEF NotBuilt
<1>3. CASE holding # {}
  <2>0. \A i \in holding : i \in 1..SideTag
    OBVIOUS
  <2> PICK h \in holding : h \in 1..SideTag
    BY <1>3, <2>0
  <2>1. SideTag # 0
    OBVIOUS
  <2>2. holding \in SUBSET (0..SideTag)
    <3>1. \A i \in 1..SideTag : i \in 0..SideTag
      BY BranchesAssumption
    <3> QED BY <2>0, <3>1
  <2>3. Max(holding) \in holding
    BY <2>2, <1>3, GreatestExists, BranchesAssumption
  <2>4. inTag[Max(holding)] \in Version
    BY <2>3 DEF BranchesTypeOK
  <2>5. LastBuild(answering) = [version |-> inTag[Max(holding)], of |-> "F45"]
    BY <1>1, <1>3
  <2>6. answering = {1} => Max(holding) = 1
    BY <2>3
  <2> HIDE DEF holding
  <2> QED BY <2>1, <2>4, <2>5, <2>6 DEF Built, Release
<1> QED BY <1>2, <1>3

LEMMA AttributedName == Attributed \in Name
  BY DEF Attributed, Name

LEMMA TaggedBuild ==
  ASSUME BranchesTypeOK, NEW n \in Name
  PROVE  /\ ReleaseOf(n) \in Release /\ Newest(n) \in Built
         /\ Newest(n).version >= tagged[ReleaseOf(n)]
         /\ Newest(n).version >= scanned[n].version
<1> DEFINE r == ReleaseOf(n)
           a == IF tagged[r] = 0 THEN NotBuilt ELSE [version |-> tagged[r], of |-> r]
<1>1. r \in Release
  BY DEF ReleaseOf, Release
<1>2. tagged[r] \in Version /\ scanned[n] \in Built
  BY <1>1 DEF BranchesTypeOK
<1>3. a \in Built /\ a.version = tagged[r]
  <2>1. CASE tagged[r] = 0
    BY <2>1, NotBuiltType DEF NotBuilt
  <2>2. CASE tagged[r] # 0
    BY <2>2, <1>1, <1>2 DEF Built
  <2> QED BY <2>1, <2>2
<1>4. Newest(n) = Newer(a, scanned[n])
  BY DEF Newest
<1> HIDE DEF a, r
<1>5. Newest(n) \in Built /\ Newest(n).version >= a.version
      /\ Newest(n).version >= scanned[n].version
  BY <1>2, <1>3, <1>4, NewerBuilt
<1> QED BY <1>1, <1>3, <1>5 DEF r

-----------------------------------------------------------------------------
LEMMA InitRun == BranchesInit => RunInv
<1> SUFFICES ASSUME BranchesInit PROVE RunInv
  OBVIOUS
<1>1. BranchesTypeOK
  <2>1. 0 \in Version
    BY BranchesAssumption DEF Version
  <2> QED BY <2>1, NotBuiltType DEF BranchesInit, BranchesTypeOK, Phases
<1> QED BY <1>1 DEF BranchesInit, RunInv, NamesInv, FactsAreExamined, Asking

\* The names a run comes to examine, and the facts it keeps of them.
LEMMA ResolveRun ==
  ASSUME RunInv, NEW known \in {Name, {}}, Resolve(known)
  PROVE  RunInv'
<1> DEFINE examined == Examined(known)
<1>1. /\ examined \subseteq Name /\ "rawhide" \in examined
      /\ SideTag > 0 /\ ~("f45" \in known /\ Duplicate("f45")) => "f45" \in examined
      /\ known = Name /\ "f45" \in examined => branched
  BY DEF Examined, Implied, Duplicate, ReleaseOf, Name, RunInv, BranchesTypeOK
<1>2. /\ targets' = examined \ {"rawhide"} /\ branches' = examined /\ waiting' = examined
      /\ tags' = examined \cap known /\ phase' = "shipped"
      /\ aliased' = ("f45" \in known /\ Duplicate("f45"))
      /\ complete' = (known # {})
      /\ shipped' = [n \in Name |-> IF n \in examined THEN shipped[n] ELSE 0]
      /\ built' = [n \in Name |-> IF n \in examined THEN built[n] ELSE NotBuilt]
      /\ UNCHANGED <<branched, repos, tagged, inTag, staged, scanned, due, heard>>
  BY DEF Resolve, DropTargets, distro
<1>3. Duplicate("f45") <=> ~branched
  BY DEF Duplicate, ReleaseOf
<1> HIDE DEF examined
<1>4. shipped' \in [Name -> Version] /\ built' \in [Name -> Built]
  BY <1>2, NotBuiltType, BranchesAssumption DEF RunInv, BranchesTypeOK, Version
<1>5. BranchesTypeOK'
  <2>1. targets' \subseteq {"f45"} /\ branches' \subseteq Name /\ waiting' \subseteq branches'
    BY <1>1, <1>2 DEF Name
  <2>2. tags' \subseteq branches' /\ phase' \in Phases
    BY <1>2 DEF Phases
  <2>3. aliased' \in BOOLEAN /\ complete' \in BOOLEAN
    BY <1>2
  <2> QED BY <1>2, <1>4, <2>1, <2>2, <2>3 DEF RunInv, BranchesTypeOK
<1>6. NamesInv'
  <2>1. CASE known = Name
    <3>1. tags' = examined /\ aliased' = ~branched
      BY <2>1, <1>1, <1>2, <1>3 DEF Name
    <3>2. branches' = examined /\ branched' = branched
      BY <1>2
    <3>3. SideTag > 0 /\ ~aliased' => "f45" \in examined
      BY <1>1, <1>2
    <3>4. "f45" \in examined => branched
      BY <1>1, <2>1
    <3> QED BY <1>1, <3>1, <3>2, <3>3, <3>4 DEF NamesInv, Attributed
  <2>2. CASE known = {}
    <3>1. tags' = {} /\ complete' = FALSE /\ aliased' = FALSE
      BY <2>2, <1>2
    <3>2. branches' = examined /\ (SideTag > 0 => "f45" \in examined)
      BY <2>2, <1>1, <1>2
    <3> QED BY <1>1, <3>1, <3>2 DEF NamesInv, Attributed
  <2> QED BY <2>1, <2>2
<1>7. FactsAreExamined'
  BY <1>2 DEF FactsAreExamined
<1> QED BY <1>5, <1>6, <1>7 DEF RunInv

LEMMA NextRun == RunInv /\ [BranchesNext]_branchesVars => RunInv'
<1> SUFFICES ASSUME RunInv, [BranchesNext]_branchesVars PROVE RunInv'
  OBVIOUS
<1> USE DEF RunInv
<1>1. CASE BuildInSideTag
  <2>1. inTag' \in [1..SideTag -> Version]
    BY <1>1 DEF BuildInSideTag, BranchesTypeOK, Version
  <2> QED BY <1>1, <2>1 DEF BuildInSideTag, BranchesTypeOK, NamesInv, FactsAreExamined,
             Asking,
        Attributed, facts, working, seen
<1>2. CASE BuildTagged
  <2>1. tagged' \in [Release -> Version]
    BY <1>2 DEF BuildTagged, BranchesTypeOK, Version
  <2> QED BY <1>2, <2>1 DEF BuildTagged, BranchesTypeOK, NamesInv, FactsAreExamined, Asking,
        Attributed, facts, working, seen
<1>3. CASE Compose
  <2>1. repos' \in [Release -> Version]
    BY <1>3 DEF Compose, BranchesTypeOK, Version
  <2> QED BY <1>3, <2>1 DEF Compose, BranchesTypeOK, NamesInv, FactsAreExamined, Asking,
        Attributed, facts, working, seen
<1>4. CASE MassBranching
  <2>1. tagged' \in [Release -> Version] /\ repos' \in [Release -> Version]
    BY <1>4 DEF MassBranching, BranchesTypeOK, Release
  <2> QED BY <1>4, <2>1 DEF MassBranching, BranchesTypeOK, NamesInv, FactsAreExamined,
             Asking,
        facts, working, seen
<1>5. ASSUME NEW given \in {{}, {"f45"}}, Begin(given) PROVE RunInv'
  <2>1. due' \in [Release -> Version]
    <3>1. \A r \in Release :
            Max({tagged[r]} \cup {inTag[i] : i \in Tags(r)}) \in Version
      <4> TAKE r \in Release
      <4>1. Tags(r) \in SUBSET (1..SideTag) /\ tagged[r] \in Version
        BY DEF Tags, BranchesTypeOK
      <4> QED BY <4>1, NewestInTags
    <3> QED BY <3>1, <1>5 DEF Begin
  <2>2. BranchesTypeOK'
    BY <1>5, <2>1, NotBuiltType DEF Begin, BranchesTypeOK, Phases, distro
  <2> QED BY <1>5, <2>2 DEF Begin, NamesInv, FactsAreExamined, Asking
<1>6. ASSUME NEW known \in {Name, {}}, Resolve(known) PROVE RunInv'
  BY <1>6, ResolveRun
<1>7. CASE AskShipped
  <2> PICK n \in waiting : /\ waiting' = waiting \ {n}
                        /\ \/ /\ shipped' = [shipped EXCEPT ![n] = repos[ReleaseOf(n)]]
                              /\ UNCHANGED complete
                           \/ complete' = FALSE /\ UNCHANGED shipped
    BY <1>7 DEF AskShipped
  <2>1. n \in branches /\ n \in Name
    BY DEF BranchesTypeOK
  <2>2. repos[ReleaseOf(n)] \in Version
    BY DEF ReleaseOf, Release, BranchesTypeOK
  <2>3. shipped' \in [Name -> Version] /\ \A m \in Name : m # n => shipped'[m] = shipped[m]
    BY <2>1, <2>2 DEF BranchesTypeOK
  <2>4. complete' \in BOOLEAN /\ (complete' => complete)
    <3>1. CASE complete' = complete
      BY <3>1, Zenon DEF BranchesTypeOK
    <3>2. CASE complete' = FALSE
      BY <3>2
    <3> QED BY <3>1, <3>2, Zenon
  <2>5. phase = "shipped" /\ UNCHANGED <<branched, repos, tagged, inTag, targets, staged, built,
          phase, branches, tags, aliased, scanned, due, heard>>
    BY <1>7 DEF AskShipped, distro
  <2>6. BranchesTypeOK'
    BY <2>3, <2>4, <2>5 DEF BranchesTypeOK
  <2>7. NamesInv'
    BY <2>4, <2>5 DEF NamesInv, Asking, Attributed
  <2>8. FactsAreExamined'
    BY <2>1, <2>3, <2>5 DEF FactsAreExamined, Asking
  <2> QED BY <2>6, <2>7, <2>8
<1>8. CASE ShippedDone
  BY <1>8 DEF ShippedDone, BranchesTypeOK, NamesInv, FactsAreExamined, Asking, Attributed,
     Phases,
     distro, facts, seen
<1>9. CASE ScanBuilds
  <2> PICK answering \in SUBSET (1..SideTag), hub \in BOOLEAN :
        LET build == LastBuild(answering) IN
        /\ scanned' = [scanned EXCEPT ![Attributed] = build]
        /\ built' = AdoptBuild(Attributed, build)
        /\ heard' = [heard EXCEPT ![Attributed] =
             [version |-> Max({0} \cup {inTag[i] : i \in answering}), of |-> "F45"]]
        /\ complete' = (complete /\ hub /\ answering = 1..SideTag)
        /\ phase' = IF hub THEN "built" ELSE "done"
        /\ waiting' = IF hub THEN tags ELSE {}
    BY <1>9 DEF ScanBuilds
  <2> DEFINE build == LastBuild(answering)
             told == [version |-> Max({0} \cup {inTag[i] : i \in answering}), of |-> "F45"]
  <2>1. build \in Built /\ (SideTag = 0 => build = NotBuilt)
    BY LastBuildType
  <2>2. told \in Built
    <3>1. Max({0} \cup {inTag[i] : i \in answering}) \in Version
      <4>1. 0 \in Version
        BY BranchesAssumption DEF Version
      <4> QED BY <4>1, NewestInTags
    <3> QED BY <3>1 DEF Built, Release
  <2>3. phase = "scan" /\ UNCHANGED <<branched, repos, tagged, inTag, targets, staged, shipped,
          branches, tags, aliased, due>>
    BY <1>9 DEF ScanBuilds, distro
  <2>4. scanned' = [scanned EXCEPT ![Attributed] = build] /\ heard' = [heard EXCEPT ![Attributed] = told]
        /\ built' = [built EXCEPT ![Attributed] = Newer(build, @)]
    BY DEF AdoptBuild
  <2> HIDE DEF build, told
  <2>5. Newer(build, built[Attributed]) \in Built
        /\ (SideTag = 0 => Newer(build, built[Attributed]) = built[Attributed])
    <3>1. built[Attributed] \in Built
      BY AttributedName DEF BranchesTypeOK
    <3> QED BY <3>1, <2>1, NewerBuilt DEF NotBuilt
  <2>6. scanned' \in [Name -> Built] /\ heard' \in [Name -> Built] /\ built' \in [Name -> Built]
    <3>1. /\ scanned \in [Name -> Built] /\ heard \in [Name -> Built] /\ built \in [Name -> Built]
      BY DEF BranchesTypeOK
    <3> QED BY <3>1, <2>1, <2>2, <2>4, <2>5
  <2>7. BranchesTypeOK'
    <3>1. phase' \in Phases /\ waiting' \subseteq branches
      BY DEF BranchesTypeOK, Phases
    <3>2. complete' \in BOOLEAN
      BY Zenon
    <3> QED BY <2>3, <2>6, <3>1, <3>2 DEF BranchesTypeOK
  <2>8. NamesInv'
    BY <2>3 DEF NamesInv, Asking, Attributed, BranchesTypeOK
  <2>9. FactsAreExamined'
    <3>1. \A n \in Name : built'[n] # NotBuilt => built[n] # NotBuilt \/ n \in branches
      <4>1. CASE SideTag = 0
        BY <4>1, <2>4, <2>5, AttributedName DEF BranchesTypeOK
      <4>2. CASE SideTag > 0
        <5>1. Attributed \in branches
          BY <4>2, <2>3 DEF NamesInv, Asking
        <5> QED BY <5>1, <2>4, AttributedName DEF BranchesTypeOK
      <4> QED BY <4>1, <4>2, BranchesAssumption
    <3> QED BY <3>1, <2>3 DEF FactsAreExamined, Asking
  <2> QED BY <2>7, <2>8, <2>9
<1>10. CASE AskBuilt
  <2> PICK n \in waiting :
        /\ waiting' = waiting \ {n}
        /\ \/ /\ WorthAsking(n)
              /\ built' = [built EXCEPT ![n] = Newest(n)]
              /\ heard' = [heard EXCEPT ![n] = Newer(@, Newest(n))]
              /\ UNCHANGED complete
           \/ WorthAsking(n) /\ complete' = FALSE /\ UNCHANGED <<built, heard>>
           \/ ~WorthAsking(n) /\ UNCHANGED <<built, seen>>
    BY <1>10 DEF AskBuilt
  <2>1. n \in branches /\ n \in Name
    BY DEF BranchesTypeOK
  <2>2. phase = "built" /\ UNCHANGED <<branched, repos, tagged, inTag, targets, staged, shipped,
          phase, branches, tags, aliased, scanned, due>>
    BY <1>10 DEF AskBuilt, distro
  <2>3. Newest(n) \in Built /\ Newer(heard[n], Newest(n)) \in Built
    BY <2>1, TaggedBuild, NewerBuilt DEF BranchesTypeOK
  <2>4. /\ built' \in [Name -> Built] /\ heard' \in [Name -> Built]
        /\ complete' \in BOOLEAN /\ (complete' => complete)
        /\ \A m \in Name : m # n => built'[m] = built[m]
    <3>1. built \in [Name -> Built] /\ heard \in [Name -> Built] /\ complete \in BOOLEAN
      BY DEF BranchesTypeOK
    <3>2. complete' = complete \/ complete' = FALSE
      BY Zenon DEF seen
    <3>3. \/ built' = [built EXCEPT ![n] = Newest(n)]
          \/ built' = built
      BY Zenon
    <3>4. \/ heard' = [heard EXCEPT ![n] = Newer(@, Newest(n))]
          \/ heard' = heard
      BY Zenon DEF seen
    <3>5. built' \in [Name -> Built] /\ \A m \in Name : m # n => built'[m] = built[m]
      BY <3>1, <3>3, <2>1, <2>3
    <3>6. heard' \in [Name -> Built]
      BY <3>1, <3>4, <2>1, <2>3
    <3>7. complete' \in BOOLEAN /\ (complete' => complete)
      <4>1. CASE complete' = complete
        BY <4>1, <3>1, Zenon
      <4>2. CASE complete' = FALSE
        BY <4>2
      <4> QED BY <3>2, <4>1, <4>2, Zenon
    <3> QED BY <3>5, <3>6, <3>7
  <2>5. BranchesTypeOK'
    BY <2>2, <2>4 DEF BranchesTypeOK
  <2>6. NamesInv'
    BY <2>2, <2>4 DEF NamesInv, Asking, Attributed
  <2>7. FactsAreExamined'
    BY <2>1, <2>2, <2>4 DEF FactsAreExamined, Asking
  <2> QED BY <2>5, <2>6, <2>7
<1>11. CASE BuiltDone
  BY <1>11 DEF BuiltDone, BranchesTypeOK, NamesInv, FactsAreExamined, Asking, Attributed,
     Phases,
     distro, facts, seen
<1>12. CASE Save
  <2>1. BranchesTypeOK'
    <3>1. 0 \in Version
      BY BranchesAssumption DEF Version
    <3> QED BY <1>12, <3>1, NotBuiltType DEF Save, BranchesTypeOK, Phases, distro, facts
  <2> QED BY <1>12, <2>1 DEF Save, NamesInv, FactsAreExamined, Asking
<1>13. CASE UNCHANGED branchesVars
  BY <1>13 DEF branchesVars, BranchesTypeOK, NamesInv, FactsAreExamined, Asking,
     Attributed, distro, facts,
     working, seen
<1> QED BY <1>1, <1>2, <1>3, <1>4, <1>5, <1>6, <1>7, <1>8, <1>9, <1>10, <1>11, <1>12, <1>13
        DEF BranchesNext

-----------------------------------------------------------------------------
\* A run that has heard of one side tag at most.
OneTag == SideTag \in 0..1

AnswersInv == HeardInv /\ DueInv

LEMMA InitAnswers == BranchesInit => AnswersInv
  BY DEF BranchesInit, AnswersInv, HeardInv, DueInv

\* What the distro does takes nothing away that was there to find.
LEMMA DistroAnswers ==
  ASSUME RunInv, AnswersInv, BuildInSideTag \/ BuildTagged \/ Compose
  PROVE  AnswersInv'
<1>1. UNCHANGED <<branched, facts, working, seen>>
  BY DEF BuildInSideTag, BuildTagged, Compose
<1>2. \A r \in Release : tagged'[r] >= tagged[r]
  <2>1. CASE BuildTagged
    BY <2>1 DEF BuildTagged, RunInv, BranchesTypeOK, Version
  <2>2. CASE UNCHANGED tagged
    BY <2>2 DEF RunInv, BranchesTypeOK, Version
  <2> QED BY <2>1, <2>2 DEF BuildInSideTag, Compose
<1>3. \A i \in 1..SideTag : inTag'[i] >= inTag[i]
  <2>1. CASE BuildInSideTag
    <3> PICK i \in 1..SideTag, v \in 1..MaxVersion :
          v > inTag[i] /\ inTag' = [inTag EXCEPT ![i] = v]
      BY <2>1 DEF BuildInSideTag
    <3>0. inTag \in [1..SideTag -> Version]
      BY DEF RunInv, BranchesTypeOK
    <3>1. \A j \in 1..SideTag : inTag[j] \in Nat
      BY <3>0 DEF Version
    <3>2. \A j \in 1..SideTag : inTag'[j] = IF j = i THEN v ELSE inTag[j]
      BY DEF RunInv, BranchesTypeOK
    <3>3. v \in Nat
      OBVIOUS
    <3> QED BY <3>1, <3>2, <3>3
  <2>2. CASE UNCHANGED inTag
    <3>0. inTag \in [1..SideTag -> Version]
      BY DEF RunInv, BranchesTypeOK
    <3>1. \A j \in 1..SideTag : inTag[j] \in Nat
      BY <3>0 DEF Version
    <3>2. \A j \in 1..SideTag : inTag[j] >= inTag[j]
      BY <3>1
    <3> QED BY <2>2, <3>2
  <2> QED BY <2>1, <2>2 DEF BuildTagged, Compose
<1>4. HeardInv'
  BY <1>1 DEF AnswersInv, HeardInv, facts, working, seen
<1>5. /\ tagged \in [Release -> Nat] /\ tagged' \in [Release -> Nat] /\ due \in [Release -> Nat]
      /\ inTag \in [1..SideTag -> Nat] /\ inTag' \in [1..SideTag -> Nat]
  <2>1. /\ tagged' \in [Release -> Version]
        /\ inTag' \in [1..SideTag -> Version]
    BY NextRun DEF BranchesNext, RunInv, BranchesTypeOK
  <2>2. \A v \in Version : v \in Nat
    BY DEF Version
  <2> QED BY <2>1, <2>2 DEF RunInv, BranchesTypeOK
<1>6. UNCHANGED <<due, phase, complete, scanned, staged, built, branches, waiting>>
      /\ Attributed' = Attributed /\ \A n : ReleaseOf(n)' = ReleaseOf(n)
  BY <1>1 DEF facts, working, seen, Attributed, ReleaseOf
<1>7. ASSUME NEW r \in Release, phase # "idle"
      PROVE  due[r] <= tagged'[r] \/ \E i \in Tags(r) : due[r] <= inTag'[i]
  <2>1. CASE due[r] <= tagged[r]
    BY <2>1, <1>2, <1>5
  <2>2. ASSUME NEW i \in Tags(r), due[r] <= inTag[i] PROVE due[r] <= inTag'[i]
    <3>1. i \in 1..SideTag
      BY DEF Tags
    <3>2. inTag[i] <= inTag'[i] /\ inTag[i] \in Nat /\ inTag'[i] \in Nat /\ due[r] \in Nat
      BY <3>1, <1>3, <1>5
    <3> QED BY <2>2, <3>2
  <2> QED BY <2>1, <2>2, <1>7 DEF AnswersInv, DueInv
<1>8. due["F45"] <= tagged["F45"] => due["F45"] <= tagged'["F45"]
  BY <1>2, <1>5 DEF Release
<1>9. DueInv'
  <2>1. (phase # "idle" => \A r \in Release :
           due[r] <= tagged[r] \/ \E i \in Tags(r) : due[r] <= inTag[i])'
    BY <1>6, <1>7 DEF Tags
  <2>2. (phase \in {"built", "done"} /\ complete =>
           due["F45"] <= tagged["F45"] \/ due["F45"] <= scanned[Attributed].version)'
    BY <1>6, <1>8 DEF AnswersInv, DueInv
  <2>3. (phase \in {"built", "done"} /\ complete /\ staged = 0 =>
           \A n \in branches \ waiting : built[n].version >= due[ReleaseOf(n)])'
    BY <1>6 DEF AnswersInv, DueInv
  <2>4. (phase = "done" /\ complete => waiting = {})'
    BY <1>6 DEF AnswersInv, DueInv
  <2> QED BY <2>1, <2>2, <2>3, <2>4 DEF DueInv
<1> QED BY <1>4, <1>9 DEF AnswersInv

\* What there is to find when a run begins.
LEMMA BeginAnswers ==
  ASSUME RunInv, NEW given, Begin(given)
  PROVE  AnswersInv'
<1>1. HeardInv'
  BY DEF Begin, HeardInv
<1>2. ASSUME NEW r \in Release
      PROVE  due'[r] <= tagged[r] \/ \E i \in Tags(r) : due'[r] <= inTag[i]
  <2> DEFINE S == {tagged[r]} \cup {inTag[i] : i \in Tags(r)}
  <2>1. Tags(r) \in SUBSET (1..SideTag) /\ tagged[r] \in Version
    BY DEF Tags, RunInv, BranchesTypeOK
  <2>2. Max(S) \in S /\ Max(S) \in Version
    BY <2>1, NewestInTags DEF RunInv
  <2>3. due'[r] = Max(S)
    BY DEF Begin
  <2>4. Max(S) <= Max(S)
    BY <2>2 DEF Version
  <2>5. Max(S) = tagged[r] \/ \E i \in Tags(r) : Max(S) = inTag[i]
    BY <2>2
  <2> HIDE DEF S
  <2>6. CASE Max(S) = tagged[r]
    BY <2>3, <2>4, <2>6
  <2>7. ASSUME NEW i \in Tags(r), Max(S) = inTag[i] PROVE due'[r] <= inTag[i]
    BY <2>3, <2>4, <2>7
  <2> QED BY <2>5, <2>6, <2>7
<1>3. DueInv'
  BY <1>2 DEF Begin, DueInv, distro, Tags
<1> QED BY <1>1, <1>3 DEF AnswersInv

\* A scan that is complete has found what the side tag held.
LEMMA ScanAnswers ==
  ASSUME OneTag, RunInv, AnswersInv, ScanBuilds
  PROVE  AnswersInv'
<1> PICK answering \in SUBSET (1..SideTag), hub \in BOOLEAN :
        LET build == LastBuild(answering) IN
        /\ scanned' = [scanned EXCEPT ![Attributed] = build]
        /\ built' = AdoptBuild(Attributed, build)
        /\ heard' = [heard EXCEPT ![Attributed] =
             [version |-> Max({0} \cup {inTag[i] : i \in answering}), of |-> "F45"]]
        /\ complete' = (complete /\ hub /\ answering = 1..SideTag)
        /\ phase' = IF hub THEN "built" ELSE "done"
        /\ waiting' = IF hub THEN tags ELSE {}
  BY DEF ScanBuilds
<1> DEFINE build == LastBuild(answering)
           top == Max({0} \cup {inTag[i] : i \in answering})
<1>1. /\ phase = "scan" /\ UNCHANGED <<branched, repos, tagged, inTag, targets, staged, shipped,
           branches, tags, aliased, due>>
      /\ RunInv'
  BY NextRun DEF ScanBuilds, distro, BranchesNext
<1>2. build \in Built /\ (SideTag = 1 /\ answering = {1} => build.version = inTag[1])
  BY LastBuildType DEF RunInv
<1>3. top \in Version /\ top = build.version
  <2>1. 0 \in Version
    BY BranchesAssumption DEF Version
  <2>2. top \in {0} \cup {inTag[i] : i \in answering} /\ top \in Version
    BY <2>1, NewestInTags DEF RunInv
  <2>3. CASE answering = {}
    <3>1. {i \in answering : inTag[i] > 0} = {}
      BY <2>3
    <3>2. build = NotBuilt
      BY <3>1 DEF LastBuild
    <3> QED BY <2>2, <2>3, <3>2 DEF NotBuilt
  <2>4. CASE answering # {}
    <3>1. SideTag = 1 /\ answering = {1}
      <4>1. \A i \in answering : i \in 1..SideTag
        OBVIOUS
      <4> PICK i \in answering : i \in 1..SideTag
        BY <2>4, <4>1
      <4>2. SideTag = 1
        BY DEF OneTag
      <4>3. \A j \in answering : j = 1
        BY <4>1, <4>2
      <4> QED BY <4>2, <4>3
    <3>2. inTag[1] \in Version
      BY <3>1 DEF RunInv, BranchesTypeOK
    <3>3. \A x \in {0} \cup {inTag[i] : i \in answering} : top >= x
      BY <2>1, NewestInTags DEF RunInv
    <3>4. top = inTag[1]
      <4>1. inTag[1] \in {0} \cup {inTag[i] : i \in answering}
        BY <3>1
      <4>2. top >= inTag[1]
        BY <3>3, <4>1
      <4>3. top = 0 \/ top = inTag[1]
        BY <2>2, <3>1
      <4> HIDE DEF top
      <4> QED BY <4>2, <4>3, <3>2 DEF Version
    <3> QED BY <2>2, <3>1, <3>4, <1>2
  <2> QED BY <2>3, <2>4
<1>4. /\ scanned' = [scanned EXCEPT ![Attributed] = build]
      /\ built' = [built EXCEPT ![Attributed] = Newer(build, @)]
      /\ heard' = [heard EXCEPT ![Attributed] = [version |-> top, of |-> "F45"]]
  BY DEF AdoptBuild
<1>5. hub /\ complete' => complete /\ answering = 1..SideTag
  OBVIOUS
<1>6. complete' => hub /\ complete /\ answering = 1..SideTag
  OBVIOUS
<1>7. phase' \in {"built", "done"} /\ waiting' \subseteq branches
      /\ (phase' = "done" => waiting' = {}) /\ (complete' => waiting' = tags)
  BY DEF RunInv, BranchesTypeOK
<1> HIDE DEF build, top
<1>8. /\ scanned \in [Name -> Built] /\ heard \in [Name -> Built] /\ built \in [Name -> Built]
      /\ heard = NoBuilds /\ Attributed \in Name
  BY <1>1, AttributedName DEF RunInv, BranchesTypeOK, AnswersInv, HeardInv
<1>9. Newer(build, built[Attributed]) \in Built
      /\ Newer(build, built[Attributed]).version >= build.version
  BY <1>2, <1>8, NewerBuilt
<1>10. ASSUME NEW n \in Name
       PROVE  /\ built'[n].version >= heard'[n].version
              /\ heard'[n].version <= scanned'[n].version
  <2>1. CASE n = Attributed
    <3>1. /\ built'[n].version >= build.version /\ scanned'[n].version = build.version
          /\ heard'[n].version = build.version
      BY <2>1, <1>3, <1>4, <1>8, <1>9
    <3>2. build.version \in Nat
      BY <1>2 DEF Built, Version
    <3> QED BY <3>1, <3>2
  <2>2. CASE n # Attributed
    <3>1. built'[n] = built[n] /\ scanned'[n] = scanned[n] /\ heard'[n] = NotBuilt
      BY <2>2, <1>4, <1>8 DEF NoBuilds
    <3>2. built[n].version \in Nat /\ scanned[n].version \in Nat
      BY <1>8 DEF Built, Version
    <3> QED BY <3>1, <3>2 DEF NotBuilt
  <2> QED BY <2>1, <2>2
<1>11. branches' \subseteq Name /\ waiting' \subseteq Name
  BY <1>1 DEF RunInv, BranchesTypeOK
<1>12. HeardInv'
  BY <1>7, <1>10, <1>11 DEF HeardInv
<1>13. ASSUME complete' PROVE due["F45"] <= tagged["F45"] \/ due["F45"] <= build.version
  <2>1. due["F45"] <= tagged["F45"] \/ \E i \in Tags("F45") : due["F45"] <= inTag[i]
    BY <1>1 DEF AnswersInv, DueInv, Release
  <2>2. ASSUME NEW i \in Tags("F45"), due["F45"] <= inTag[i]
        PROVE  due["F45"] <= build.version
    <3>1. i \in 1..SideTag
      BY DEF Tags
    <3>2. SideTag = 1 /\ i = 1
      BY <3>1 DEF OneTag
    <3>3. answering = {1}
      BY <3>2, <1>6, <1>13
    <3> QED BY <3>2, <3>3, <1>2, <2>2
  <2> QED BY <2>1, <2>2
<1>14. Attributed' = Attributed /\ scanned'[Attributed].version = build.version
  BY <1>1, <1>4, <1>8 DEF Attributed
<1>15. complete' => branches' \ waiting' = {}
  <2>1. complete => tags = branches
    BY <1>1 DEF RunInv, NamesInv, Asking
  <2> QED BY <2>1, <1>1, <1>6, <1>7
<1>16. (phase # "idle" => \A r \in Release :
          due[r] <= tagged[r] \/ \E i \in Tags(r) : due[r] <= inTag[i])'
  BY <1>1 DEF AnswersInv, DueInv, Tags
<1>17. DueInv'
  BY <1>1, <1>7, <1>13, <1>14, <1>15, <1>16 DEF DueInv
<1> QED BY <1>12, <1>17 DEF AnswersInv

\* A branch whose turn has come has on record what Koji has tagged, and what
\* the scan told of it; and only one name is that of the side tags' builds.
LEMMA AskAnswers ==
  ASSUME RunInv, AnswersInv, AskBuilt
  PROVE  AnswersInv'
<1> PICK n \in waiting :
        /\ waiting' = waiting \ {n}
        /\ \/ /\ WorthAsking(n)
              /\ built' = [built EXCEPT ![n] = Newest(n)]
              /\ heard' = [heard EXCEPT ![n] = Newer(@, Newest(n))]
              /\ UNCHANGED complete
           \/ WorthAsking(n) /\ complete' = FALSE /\ UNCHANGED <<built, heard>>
           \/ ~WorthAsking(n) /\ UNCHANGED <<built, seen>>
  BY DEF AskBuilt
<1>1. phase = "built" /\ UNCHANGED <<branched, repos, tagged, inTag, targets, staged, shipped,
          phase, branches, tags, aliased, scanned, due>>
  BY DEF AskBuilt, distro
<1>2. n \in branches /\ n \in Name
  BY DEF RunInv, BranchesTypeOK
<1>3. /\ scanned \in [Name -> Built] /\ heard \in [Name -> Built] /\ built \in [Name -> Built]
      /\ branches \subseteq Name /\ waiting \subseteq Name
  BY DEF RunInv, BranchesTypeOK
<1>4. /\ Newest(n) \in Built /\ ReleaseOf(n) \in Release
      /\ Newest(n).version >= tagged[ReleaseOf(n)]
      /\ Newest(n).version >= scanned[n].version
  BY <1>2, TaggedBuild DEF RunInv
<1>5. heard[n].version <= scanned[n].version
  BY <1>1 DEF AnswersInv, HeardInv
<1>6. Newer(heard[n], Newest(n)).version <= Newest(n).version
  <2>1. heard[n].version \in Nat /\ scanned[n].version \in Nat /\ Newest(n).version \in Nat
    BY <1>2, <1>3, <1>4 DEF Built, Version
  <2> QED BY <2>1, <1>4, <1>5 DEF Newer
<1>7. \/ /\ built' = [built EXCEPT ![n] = Newest(n)]
         /\ heard' = [heard EXCEPT ![n] = Newer(@, Newest(n))]
      \/ UNCHANGED <<built, heard>>
  BY DEF seen
<1>8. \A m \in Name : m # n => built'[m] = built[m] /\ heard'[m] = heard[m]
  BY <1>2, <1>3, <1>7
<1>9. built'[n].version >= heard'[n].version
  <2>1. built[n].version >= heard[n].version
    BY <1>1, <1>2 DEF AnswersInv, HeardInv
  <2>2. CASE UNCHANGED <<built, heard>>
    BY <2>1, <2>2
  <2>3. CASE /\ built' = [built EXCEPT ![n] = Newest(n)]
             /\ heard' = [heard EXCEPT ![n] = Newer(@, Newest(n))]
    <3>1. built'[n] = Newest(n) /\ heard'[n] = Newer(heard[n], Newest(n))
      BY <2>3, <1>2, <1>3
    <3>2. Newest(n).version \in Nat /\ Newer(heard[n], Newest(n)).version \in Nat
      BY <1>2, <1>3, <1>4, NewerBuilt DEF Built, Version
    <3> QED BY <3>1, <3>2, <1>6
  <2> QED BY <1>7, <2>2, <2>3
<1>10. HeardInv'
  BY <1>1, <1>2, <1>3, <1>8, <1>9 DEF AnswersInv, HeardInv
<1>11. complete' => complete
  <2>1. complete' = complete \/ complete' = FALSE
    BY Zenon DEF seen
  <2> QED BY <2>1
<1>12. ASSUME complete', staged = 0
       PROVE  built'[n].version >= due[ReleaseOf(n)]
  <2>1. WorthAsking(n)
    BY <1>12 DEF WorthAsking
  <2>2. complete' # FALSE
    BY <1>12
  <2>3. built'[n] = Newest(n)
    BY <2>1, <2>2, <1>2, <1>3
  <2>4. due[ReleaseOf(n)] \in Nat /\ tagged[ReleaseOf(n)] \in Nat /\ Newest(n).version \in Nat
        /\ scanned[n].version \in Nat
    BY <1>2, <1>3, <1>4 DEF RunInv, BranchesTypeOK, Built, Version
  <2>5. CASE due[ReleaseOf(n)] <= tagged[ReleaseOf(n)]
    BY <2>3, <2>4, <2>5, <1>4
  <2>6. CASE ~ (due[ReleaseOf(n)] <= tagged[ReleaseOf(n)])
    <3>1. ReleaseOf(n) = "F45"
      BY <2>6, <1>1, <1>4 DEF AnswersInv, DueInv, Tags
    <3>2. due["F45"] <= scanned[Attributed].version
      BY <2>6, <3>1, <1>1, <1>11, <1>12 DEF AnswersInv, DueInv
    <3>3. n = Attributed
      BY <3>1, <1>1, <1>2, <1>11, <1>12
         DEF RunInv, NamesInv, Asking, Attributed, ReleaseOf, Name
    <3> QED BY <3>1, <3>2, <3>3, <2>3, <2>4, <1>4
  <2> QED BY <2>5, <2>6
<1>13. DueInv'
  <2>1. (phase # "idle" => \A r \in Release :
          due[r] <= tagged[r] \/ \E i \in Tags(r) : due[r] <= inTag[i])'
    BY <1>1 DEF AnswersInv, DueInv, Tags
  <2>2. (phase \in {"built", "done"} /\ complete =>
           due["F45"] <= tagged["F45"] \/ due["F45"] <= scanned[Attributed].version)'
    BY <1>1, <1>11 DEF AnswersInv, DueInv, Attributed
  <2>3. \A m : ReleaseOf(m)' = ReleaseOf(m)
    BY <1>1 DEF ReleaseOf
  <2>4. (phase \in {"built", "done"} /\ complete /\ staged = 0 =>
           \A m \in branches \ waiting : built[m].version >= due[ReleaseOf(m)])'
    <3> SUFFICES ASSUME complete', staged = 0, NEW m \in branches \ waiting'
                 PROVE  built'[m].version >= due[ReleaseOf(m)]
      BY <1>1, <2>3
    <3>1. CASE m = n
      BY <3>1, <1>12
    <3>2. CASE m # n
      BY <3>2, <1>1, <1>3, <1>8, <1>11 DEF AnswersInv, DueInv
    <3> QED BY <3>1, <3>2
  <2> QED BY <1>1, <2>1, <2>2, <2>4 DEF DueInv
<1> QED BY <1>10, <1>13 DEF AnswersInv

LEMMA NextAnswers ==
  ASSUME OneTag, RunInv, AnswersInv, [BranchesNext]_branchesVars
  PROVE  AnswersInv'
<1>1. CASE BuildInSideTag \/ BuildTagged \/ Compose
  BY <1>1, DistroAnswers
<1>2. CASE MassBranching
  BY <1>2 DEF MassBranching, AnswersInv, HeardInv, DueInv, facts, working, seen
<1>3. ASSUME NEW given, Begin(given) PROVE AnswersInv'
  BY <1>3, BeginAnswers
<1>4. ASSUME NEW known, Resolve(known) PROVE AnswersInv'
  <2>1. Attributed \in Name
    BY AttributedName
  <2> QED BY <1>4 DEF Resolve, AnswersInv, HeardInv, DueInv, distro, Tags
<1>5. CASE AskShipped
  BY <1>5 DEF AskShipped, AnswersInv, HeardInv, DueInv, distro, Tags
<1>6. CASE ShippedDone
  BY <1>6 DEF ShippedDone, AnswersInv, HeardInv, DueInv, distro, facts, seen, Tags
<1>7. CASE ScanBuilds
  BY <1>7, ScanAnswers
<1>8. CASE AskBuilt
  BY <1>8, AskAnswers
<1>9. CASE BuiltDone
  BY <1>9 DEF BuiltDone, AnswersInv, HeardInv, DueInv, distro, facts, seen, Tags,
     Attributed, ReleaseOf
<1>10. CASE Save
  BY <1>10 DEF Save, AnswersInv, HeardInv, DueInv
<1>11. CASE UNCHANGED branchesVars
  BY <1>11 DEF branchesVars, AnswersInv, HeardInv, DueInv, distro, facts, working, seen,
     Tags,
     Attributed, ReleaseOf
<1> QED BY <1>1, <1>2, <1>3, <1>4, <1>5, <1>6, <1>7, <1>8, <1>9, <1>10, <1>11
           DEF BranchesNext

-----------------------------------------------------------------------------
LEMMA RunInvariance == BranchesSpec => []RunInv
  BY InitRun, NextRun, PTL DEF BranchesSpec

\* No fact the ledger keeps of a branch outlives the branch's examination
\* (drop_target), for any number of side tags.
THEOREM FactsExamined == BranchesSpec => []FactsAreExamined
<1>1. RunInv => FactsAreExamined
  BY DEF RunInv
<1> QED BY <1>1, RunInvariance, PTL

\* The builds of the side tags count for a branch the run examines, of the
\* release they are built for (implied_targets, side_tag_builds), for any
\* number of side tags, whenever mass branching comes.
THEOREM BuildsAttributed == BranchesSpec => []SideTagBuildsHaveABranch
<1>1. RunInv => SideTagBuildsHaveABranch
  BY DEF RunInv, NamesInv, SideTagBuildsHaveABranch, Attributed, ReleaseOf
<1> QED BY <1>1, RunInvariance, PTL

LEMMA AnswersInvariance == OneTag => (BranchesSpec => [](RunInv /\ AnswersInv))
<1> SUFFICES ASSUME OneTag PROVE BranchesSpec => [](RunInv /\ AnswersInv)
  OBVIOUS
<1>1. BranchesInit => RunInv /\ AnswersInv
  BY InitRun, InitAnswers
<1>2. RunInv /\ AnswersInv /\ [BranchesNext]_branchesVars => (RunInv /\ AnswersInv)'
  BY NextRun, NextAnswers
<1> QED BY <1>1, <1>2, PTL DEF BranchesSpec

\* With one side tag at most, a run leaves on record for each branch a build
\* as new as any Koji told it of, whatever else it was not told (refresh_built).
THEOREM HeardIsRecorded == OneTag => (BranchesSpec => []NewestHeardIsRecorded)
<1>1. RunInv /\ AnswersInv => NewestHeardIsRecorded
  BY DEF AnswersInv, HeardInv, NewestHeardIsRecorded
<1> QED BY <1>1, AnswersInvariance, PTL

\* With one side tag at most, an effort with no COPR behind it, all of whose
\* questions were answered, knows of every build there was when the run began
\* (worth_asking_koji): nothing recorded keeps a newer build from being found.
THEOREM EveryBuildIsFound == OneTag => (BranchesSpec => []BuildsAreFound)
<1>1. RunInv /\ AnswersInv => BuildsAreFound
  BY DEF AnswersInv, DueInv, BuildsAreFound
<1> QED BY <1>1, AnswersInvariance, PTL
=============================================================================
