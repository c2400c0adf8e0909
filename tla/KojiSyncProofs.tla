--------------------------- MODULE KojiSyncProofs ---------------------------
(***************************************************************************)
(* Proofs about a whole `koji-lag sync`: its children half (ChildSweep),   *)
(* for any builds, children, batch size and page limit, and the days the   *)
(* store then vouches for (KojiSync).                                      *)
(*                                                                         *)
(* A sync is a run of the listing and of the sweep at once, each seeing    *)
(* the other's steps as stutters, so what KojiListingProofs proves of the  *)
(* listing and what is proved here of the sweep both hold of it.           *)
(***************************************************************************)
EXTENDS KojiSync, SequenceTheorems, FiniteSetTheorems, TLAPS

-----------------------------------------------------------------------------
(***************************************************************************)
(* ChildSweep.                                                             *)
(***************************************************************************)

\* What a sweep stacks are batches of builds; only after an answer has it a batch
\* in hand.
Stacked ==
  /\ chunks \in Seq(Seq(Build))
  /\ sweep \in {"idle", "ask"} => batch = {}

\* All the children of a build that are worth keeping, unless they fill a page.
Complete(b, stored) == Total({b}) <= ChildPageLimit => Collected(ChildrenOf({b})) \subseteq stored

\* The answer in hand is whole for each parent of its batch, and stored before they
\* are marked.
AnswerIsWhole ==
  /\ sweep = "put" => \A b \in batch : Complete(b, rows)
  /\ sweep = "mark" => \A b \in batch : Complete(b, tasks)

IInv == Stacked /\ AnswerIsWhole /\ SweptHasItsChildren

-----------------------------------------------------------------------------
(* Batches *)

\* However many parents there are, they come in batches.
LEMMA ChunkedIsSeq ==
  ASSUME NEW parents \in Seq(Build)
  PROVE  Chunked(parents) \in Seq(Seq(Build))
<1> DEFINE count == (Len(parents) + ParentChunk - 1) \div ParentChunk
           start(i) == (i - 1) * ParentChunk + 1
           end(i) == IF i * ParentChunk < Len(parents) THEN i * ParentChunk ELSE Len(parents)
           chunk(i) == SubSeq(parents, start(i), end(i))
<1>1. Len(parents) \in Nat /\ ParentChunk \in Nat \ {0}
  BY BatchAssumption
<1>2. count \in Int
  BY <1>1
<1>3. ASSUME NEW i \in 1..count PROVE chunk(i) \in Seq(Build)
  <2>1. i \in Nat /\ i - 1 \in Nat
    BY <1>2
  <2>2. (i - 1) * ParentChunk \in Nat /\ i * ParentChunk \in Nat
    BY <1>1, <2>1
  <2>3. start(i) \in Int /\ end(i) \in Int /\ start(i) >= 1 /\ end(i) =< Len(parents)
    BY <1>1, <2>2
  <2> HIDE DEF start, end
  <2>4. \A j \in start(i)..end(i) : parents[j] \in Build
    BY <1>1, <2>3
  <2> QED
    BY <2>3, <2>4, SubSeqProperties
<1> HIDE DEF chunk
<1>4. [i \in 1..count |-> chunk(i)] \in [1..count -> Seq(Build)]
  BY <1>3
<1>5. \E n \in Nat : 1..count = 1..n
  <2> HIDE DEF count
  <2>1. CASE count >= 0
    BY <1>2, <2>1
  <2>2. CASE ~(count >= 0)
    <3>1. 1..count = 1..0
      BY <1>2, <2>2
    <3> QED
      BY <3>1
  <2> QED
    BY <2>1, <2>2
<1>6. [i \in 1..count |-> chunk(i)] \in Seq(Seq(Build))
  <2> DEFINE batches == [i \in 1..count |-> chunk(i)]
  <2> HIDE DEF batches, count
  <2>1. PICK n \in Nat : batches \in [1..n -> Seq(Build)]
    BY <1>4, <1>5 DEF batches
  <2>2. batches \in Seq(Seq(Build))
    BY <2>1, SeqDef
  <2> QED
    BY <2>2 DEF batches
<1> QED
  BY <1>6 DEF Chunked, chunk, count

\* The top of the stack and the rest of it are the stack.
LEMMA StackIs ==
  ASSUME NEW stack \in Seq(Seq(Build)), stack # <<>>
  PROVE  /\ Last(stack) \in Seq(Build)
         /\ Front(stack) \in Seq(Seq(Build))
         /\ Len(Front(stack)) = Len(stack) - 1
         /\ \A i \in 1..(Len(stack) - 1) : Front(stack)[i] = stack[i]
<1> DEFINE top == Len(stack) - 1
<1>1. Len(stack) \in Nat /\ Len(stack) # 0 /\ top \in Nat
  BY EmptySeq
<1>2. \A i \in 1..top : stack[i] \in Seq(Build)
  BY <1>1
<1>3. stack[Len(stack)] \in Seq(Build)
  BY <1>1
<1> HIDE DEF top
<1>4. /\ SubSeq(stack, 1, top) \in Seq(Seq(Build))
      /\ Len(SubSeq(stack, 1, top)) = IF 1 <= top THEN top - 1 + 1 ELSE 0
      /\ \A i \in 1..(top - 1 + 1) : SubSeq(stack, 1, top)[i] = stack[1 + i - 1]
  BY <1>1, <1>2, SubSeqProperties
<1>5. Front(stack) = SubSeq(stack, 1, top)
  BY DEF Front, top
<1>6. Len(Front(stack)) = top /\ \A i \in 1..top : Front(stack)[i] = stack[i]
  BY <1>1, <1>4, <1>5
<1> QED
  BY <1>3, <1>4, <1>5, <1>6 DEF Last, top

\* Halving a batch loses no parent of it and brings in no other.
LEMMA HalvesAre ==
  ASSUME NEW chunk \in Seq(Build)
  PROVE  /\ Halves(chunk) \in Seq(Seq(Build)) /\ Len(Halves(chunk)) = 2
         /\ ToSet(Halves(chunk)[1]) \cup ToSet(Halves(chunk)[2]) = ToSet(chunk)
<1> DEFINE mid == Len(chunk) \div 2
           lower == SubSeq(chunk, 1, mid)
           upper == SubSeq(chunk, mid + 1, Len(chunk))
<1>1. Len(chunk) \in Nat /\ mid \in Nat /\ mid =< Len(chunk)
  OBVIOUS
<1> HIDE DEF mid
<1>2. /\ \A i \in 1..mid : chunk[i] \in Build
      /\ \A i \in (mid + 1)..Len(chunk) : chunk[i] \in Build
  BY <1>1
<1>3. /\ lower \in Seq(Build) /\ Len(lower) = mid
      /\ \A i \in 1..mid : lower[i] = chunk[i]
  BY <1>1, <1>2, SubSeqProperties
<1>4. /\ upper \in Seq(Build) /\ Len(upper) = Len(chunk) - mid
      /\ \A i \in 1..(Len(chunk) - mid) : upper[i] = chunk[mid + i]
  <2>1. /\ upper \in Seq(Build)
        /\ Len(upper) = IF mid + 1 <= Len(chunk) THEN Len(chunk) - (mid + 1) + 1 ELSE 0
        /\ \A i \in 1..(Len(chunk) - (mid + 1) + 1) : upper[i] = chunk[(mid + 1) + i - 1]
    BY <1>1, <1>2, SubSeqProperties
  <2> HIDE DEF upper
  <2> QED
    BY <1>1, <2>1
<1> HIDE DEF lower, upper
<1>5. ToSet(chunk) \subseteq ToSet(lower) \cup ToSet(upper)
  <2> SUFFICES ASSUME NEW i \in 1..Len(chunk)
               PROVE  chunk[i] \in ToSet(lower) \cup ToSet(upper)
    BY DEF ToSet
  <2>1. CASE i =< mid
    <3>1. i \in 1..mid /\ i \in DOMAIN lower
      BY <1>1, <1>3, <2>1
    <3> QED
      BY <1>3, <3>1 DEF ToSet
  <2>2. CASE ~(i =< mid)
    <3>1. i - mid \in 1..(Len(chunk) - mid) /\ i - mid \in DOMAIN upper /\ mid + (i - mid) = i
      BY <1>1, <1>4, <2>2
    <3>2. upper[i - mid] = chunk[i]
      BY <1>4, <3>1
    <3> QED
      BY <3>1, <3>2 DEF ToSet
  <2> QED
    BY <2>1, <2>2
<1>6. ToSet(lower) \cup ToSet(upper) \subseteq ToSet(chunk)
  <2>1. ASSUME NEW i \in 1..Len(lower) PROVE lower[i] \in ToSet(chunk)
    <3>1. i \in 1..mid /\ i \in 1..Len(chunk) /\ lower[i] = chunk[i]
      BY <1>1, <1>3
    <3> QED
      BY <3>1 DEF ToSet
  <2>2. ASSUME NEW i \in 1..Len(upper) PROVE upper[i] \in ToSet(chunk)
    <3>1. i \in 1..(Len(chunk) - mid) /\ mid + i \in 1..Len(chunk)
      BY <1>1, <1>4
    <3>2. upper[i] = chunk[mid + i]
      BY <1>4, <3>1
    <3> QED
      BY <3>1, <3>2 DEF ToSet
  <2>3. DOMAIN lower = 1..Len(lower) /\ DOMAIN upper = 1..Len(upper)
    BY <1>3, <1>4
  <2> QED
    BY <2>1, <2>2, <2>3 DEF ToSet
<1>7. Halves(chunk) = <<lower, upper>>
  BY DEF Halves, lower, upper, mid
<1> QED
  BY <1>3, <1>4, <1>5, <1>6, <1>7

\* What is on a stack.
OnStack(stack) == UNION {ToSet(stack[i]) : i \in DOMAIN stack}

LEMMA SplitKeepsParents ==
  ASSUME NEW stack \in Seq(Seq(Build)), stack # <<>>
  PROVE  /\ Front(stack) \o Halves(Last(stack)) \in Seq(Seq(Build))
         /\ OnStack(Front(stack) \o Halves(Last(stack))) = OnStack(stack)
<1> DEFINE n == Len(stack)
           halves == Halves(Last(stack))
           split == Front(stack) \o halves
<1>1. n \in Nat \ {0}
  BY EmptySeq
<1>2. /\ Front(stack) \in Seq(Seq(Build)) /\ Len(Front(stack)) = n - 1
      /\ \A i \in 1..(n - 1) : Front(stack)[i] = stack[i]
  BY StackIs
<1>3. /\ halves \in Seq(Seq(Build)) /\ Len(halves) = 2
      /\ ToSet(halves[1]) \cup ToSet(halves[2]) = ToSet(stack[n])
  BY StackIs, HalvesAre DEF Last
<1> HIDE DEF n, halves
<1>4. /\ split \in Seq(Seq(Build)) /\ Len(split) = n + 1
      /\ \A i \in 1..(n - 1) : split[i] = stack[i]
      /\ split[n] = halves[1] /\ split[n + 1] = halves[2]
  <2> DEFINE front == Front(stack)
  <2> HIDE DEF front
  <2>1. /\ front \in Seq(Seq(Build)) /\ Len(front) = n - 1
        /\ \A i \in 1..(n - 1) : front[i] = stack[i]
    BY <1>2 DEF front
  <2>2. /\ front \o halves \in Seq(Seq(Build))
        /\ Len(front \o halves) = Len(front) + Len(halves)
        /\ \A i \in 1..(Len(front) + Len(halves)) :
             (front \o halves)[i] = IF i <= Len(front) THEN front[i] ELSE halves[i - Len(front)]
    BY <1>3, <2>1, ConcatProperties
  <2>3. split = front \o halves
    BY DEF front
  <2> HIDE DEF split
  <2>4. /\ split \in Seq(Seq(Build)) /\ Len(split) = n + 1
        /\ \A i \in 1..(n + 1) :
             split[i] = IF i <= n - 1 THEN front[i] ELSE halves[i - (n - 1)]
    <3>1. split \in Seq(Seq(Build)) /\ Len(split) = Len(front) + Len(halves)
      BY <2>2, <2>3, Zenon
    <3>2. Len(front) + Len(halves) = n + 1 /\ Len(front) = n - 1
      BY <1>1, <1>3, <2>1
    <3>3. \A i \in 1..(Len(front) + Len(halves)) :
            split[i] = IF i <= Len(front) THEN front[i] ELSE halves[i - Len(front)]
      BY <2>2, <2>3, Zenon
    <3> QED
      BY <3>1, <3>2, <3>3, Zenon
  <2>5. \A i \in 1..(n - 1) : split[i] = stack[i]
    <3> SUFFICES ASSUME NEW i \in 1..(n - 1) PROVE split[i] = stack[i]
      OBVIOUS
    <3>1. i \in 1..(n + 1) /\ i <= n - 1
      BY <1>1
    <3> QED
      BY <2>1, <2>4, <3>1
  <2>6. /\ n - (n - 1) = 1 /\ (n + 1) - (n - 1) = 2 /\ ~(n <= n - 1) /\ ~(n + 1 <= n - 1)
        /\ n \in 1..(n + 1) /\ n + 1 \in 1..(n + 1)
    BY <1>1
  <2>7. split[n] = halves[1] /\ split[n + 1] = halves[2]
    BY <2>4, <2>6
  <2> QED
    BY <2>4, <2>5, <2>7
<1> HIDE DEF split
<1>5. ASSUME NEW i \in DOMAIN stack, NEW b \in ToSet(stack[i])
      PROVE  \E j \in DOMAIN split : b \in ToSet(split[j])
  <2>1. i \in 1..n /\ DOMAIN split = 1..(n + 1)
    BY <1>4 DEF n
  <2>2. CASE i \in 1..(n - 1)
    <3>1. split[i] = stack[i] /\ i \in 1..(n + 1)
      BY <1>1, <1>4, <2>2
    <3> QED
      BY <1>5, <2>1, <3>1
  <2>3. CASE i = n
    <3>1. n \in DOMAIN split /\ n + 1 \in DOMAIN split
      BY <1>1, <2>1
    <3> QED
      BY <1>3, <1>4, <2>3, <3>1
  <2> QED
    BY <1>1, <2>1, <2>2, <2>3
<1>6. OnStack(stack) \subseteq OnStack(split)
  BY <1>5 DEF OnStack
<1>7. ASSUME NEW j \in DOMAIN split, NEW b \in ToSet(split[j])
      PROVE  \E i \in DOMAIN stack : b \in ToSet(stack[i])
  <2>1. j \in 1..(n + 1) /\ DOMAIN stack = 1..n
    BY <1>4 DEF n
  <2>2. CASE j \in 1..(n - 1)
    <3>1. split[j] = stack[j] /\ j \in DOMAIN stack
      BY <1>1, <1>4, <2>1, <2>2
    <3> QED
      BY <1>7, <3>1
  <2>3. CASE j = n \/ j = n + 1
    <3>1. b \in ToSet(halves[1]) \cup ToSet(halves[2])
      BY <1>4, <1>7, <2>3
    <3>2. b \in ToSet(stack[n]) /\ n \in DOMAIN stack
      BY <1>1, <1>3, <2>1, <3>1
    <3> QED
      BY <3>2
  <2> QED
    BY <1>1, <2>1, <2>2, <2>3
<1>8. OnStack(split) \subseteq OnStack(stack)
  BY <1>7 DEF OnStack
<1> QED
  BY <1>4, <1>6, <1>8 DEF split, halves

LEMMA TakingKeepsParents ==
  ASSUME NEW stack \in Seq(Seq(Build)), stack # <<>>
  PROVE  OnStack(Front(stack)) \cup ToSet(Last(stack)) = OnStack(stack)
<1> DEFINE n == Len(stack)
<1>1. n \in Nat \ {0}
  BY EmptySeq
<1>2. /\ Front(stack) \in Seq(Seq(Build)) /\ Len(Front(stack)) = n - 1
      /\ \A i \in 1..(n - 1) : Front(stack)[i] = stack[i]
  BY StackIs
<1>3. ASSUME NEW i \in DOMAIN stack, NEW b \in ToSet(stack[i])
      PROVE  b \in OnStack(Front(stack)) \cup ToSet(Last(stack))
  <2>1. i \in 1..n
    OBVIOUS
  <2>2. CASE i = n
    BY <1>3, <2>2 DEF Last
  <2>3. CASE i # n
    <3>1. i \in 1..(n - 1) /\ i \in DOMAIN Front(stack)
      BY <1>1, <1>2, <2>1, <2>3
    <3> QED
      BY <1>2, <1>3, <3>1 DEF OnStack
  <2> QED
    BY <2>2, <2>3
<1>4. ASSUME NEW j \in DOMAIN Front(stack), NEW b \in ToSet(Front(stack)[j])
      PROVE  b \in OnStack(stack)
  <2>1. j \in 1..(n - 1)
    BY <1>2
  <2>2. j \in DOMAIN stack
    BY <1>1, <2>1
  <2> QED
    BY <1>2, <1>4, <2>1, <2>2 DEF OnStack
<1>5. ToSet(Last(stack)) \subseteq OnStack(stack)
  <2>1. n \in DOMAIN stack
    BY <1>1
  <2> QED
    BY <2>1 DEF Last, OnStack
<1> QED
  BY <1>3, <1>4, <1>5 DEF OnStack

\* Parents are asked for in the batches they are cut into.
LEMMA ChunksAreOfParents ==
  ASSUME NEW parents \in Seq(Build)
  PROVE  OnStack(Chunked(parents)) \subseteq ToSet(parents)
<1> DEFINE count == (Len(parents) + ParentChunk - 1) \div ParentChunk
           start(i) == (i - 1) * ParentChunk + 1
           end(i) == IF i * ParentChunk < Len(parents) THEN i * ParentChunk ELSE Len(parents)
           chunk(i) == SubSeq(parents, start(i), end(i))
<1>1. Len(parents) \in Nat /\ ParentChunk \in Nat \ {0} /\ count \in Int
  BY BatchAssumption
<1>2. ASSUME NEW i \in 1..count PROVE ToSet(chunk(i)) \subseteq ToSet(parents)
  <2>1. i \in Nat /\ i - 1 \in Nat
    BY <1>1
  <2>2. (i - 1) * ParentChunk \in Nat /\ i * ParentChunk \in Nat
    BY <1>1, <2>1
  <2>3. start(i) \in Int /\ end(i) \in Int /\ start(i) >= 1 /\ end(i) =< Len(parents)
    BY <1>1, <2>2
  <2> HIDE DEF start, end
  <2>4. \A j \in start(i)..end(i) : parents[j] \in Build
    BY <1>1, <2>3
  <2>5. /\ chunk(i) \in Seq(Build)
        /\ Len(chunk(i)) = IF start(i) <= end(i) THEN end(i) - start(i) + 1 ELSE 0
        /\ \A j \in 1..(end(i) - start(i) + 1) : chunk(i)[j] = parents[start(i) + j - 1]
    BY <2>3, <2>4, SubSeqProperties
  <2> SUFFICES ASSUME NEW j \in 1..Len(chunk(i)) PROVE chunk(i)[j] \in ToSet(parents)
    BY <2>5 DEF ToSet
  <2> HIDE DEF chunk
  <2>6. j \in 1..(end(i) - start(i) + 1) /\ start(i) + j - 1 \in 1..Len(parents)
    BY <1>1, <2>3, <2>5
  <2>7. chunk(i)[j] = parents[start(i) + j - 1]
    BY <2>5, <2>6
  <2> QED
    BY <2>6, <2>7 DEF ToSet
<1> HIDE DEF chunk, count
<1>3. Chunked(parents) = [i \in 1..count |-> chunk(i)]
  BY DEF Chunked, chunk, count
<1> QED
  BY <1>2, <1>3 DEF OnStack

LEMMA PendingIsSeq ==
  ASSUME NEW window \in SUBSET Build, NEW parents \in Pending(window)
  PROVE  parents \in Seq(Build) /\ ToSet(parents) \subseteq window
<1> DEFINE unswept == window \ swept
<1>1. Cardinality(unswept) \in Nat
  BY BatchAssumption, FS_Subset, FS_CardinalityType, unswept \in SUBSET Build
<1>2. parents \in [1..Cardinality(unswept) -> Build]
  BY DEF Pending
<1>3. ToSet(parents) \subseteq window
  BY DEF Pending, ToSet
<1> HIDE DEF unswept
<1> QED
  BY <1>1, <1>2, <1>3, SeqDef

-----------------------------------------------------------------------------
(* Answers *)

\* An answer that is not split is whole for every parent but one that fills a page
\* by itself.
LEMMA AcceptedIsWhole ==
  ASSUME NEW chunk \in Seq(Build), NEW answer \in Answers(chunk), ~Splits(chunk, answer),
         NEW b \in ToSet(chunk)
  PROVE  Complete(b, Collected(answer))
<1> DEFINE all == ChildrenOf(ToSet(chunk))
<1>1. ChildrenOf({b}) \subseteq all
  BY DEF ChildrenOf
<1>2. CASE answer = all
  BY <1>1, <1>2 DEF Complete, Collected
<1>3. CASE answer # all
  <2>1. ~(Cardinality(all) <= ChildPageLimit) /\ Cardinality(answer) = ChildPageLimit
    BY <1>3 DEF Answers, kSubset
  <2>2. Len(chunk) \in Nat /\ ~(Len(chunk) > 1)
    BY <2>1, BatchAssumption DEF Splits, Overflowed
  <2>3. ToSet(chunk) = {b}
    <3>1. PICK i \in 1..Len(chunk) : b = chunk[i]
      BY DEF ToSet
    <3>2. \A j \in 1..Len(chunk) : j = i
      BY <2>2
    <3> QED
      BY <3>1, <3>2 DEF ToSet
  <2> QED
    BY <2>1, <2>3 DEF Complete, Total
<1> QED
  BY <1>2, <1>3

-----------------------------------------------------------------------------
(* Steps *)

LEMMA InitIsSound == Init => IInv
BY DEF Init, IInv, Stacked, AnswerIsWhole, SweptHasItsChildren

LEMMA NextIsSound == IInv /\ [Next]_vars => IInv'
<1> SUFFICES ASSUME IInv, [Next]_vars PROVE IInv'
  OBVIOUS
<1> USE DEF IInv
<1>1. \A parents : ChildrenOf(parents)' = ChildrenOf(parents)
  BY DEF Next, Progress, Begin, Split, Accept, PutTasks, MarkSwept, Done, Interrupt, vars, hub,
         ChildrenOf
<1>2. CASE UNCHANGED vars
  BY <1>1, <1>2 DEF vars, store, run, Stacked, AnswerIsWhole, SweptHasItsChildren, Complete, Total
<1>3. ASSUME NEW window \in SUBSET Build, Begin(window) PROVE IInv'
  <2>1. PICK parents \in Pending(window) : chunks' = Chunked(parents)
    BY <1>3 DEF Begin
  <2>2. Stacked'
    BY <1>3, <2>1, PendingIsSeq, ChunkedIsSeq DEF Begin, Stacked
  <2> QED
    BY <1>1, <1>3, <2>2 DEF Begin, store, AnswerIsWhole, SweptHasItsChildren, Total
<1>4. CASE Split
  <2>1. Stacked'
    BY <1>4, SplitKeepsParents DEF Split, Stacked
  <2> QED
    BY <1>1, <1>4, <2>1 DEF Split, store, AnswerIsWhole, SweptHasItsChildren, Total
<1>5. CASE Accept
  <2>1. PICK answer \in Answers(Last(chunks)) :
          ~Splits(Last(chunks), answer) /\ rows' = Collected(answer)
    BY <1>5 DEF Accept
  <2>2. Last(chunks) \in Seq(Build) /\ Front(chunks) \in Seq(Seq(Build))
    BY <1>5, StackIs DEF Accept, Stacked
  <2>3. \A b \in batch' : Complete(b, rows')
    BY <1>5, <2>1, <2>2, AcceptedIsWhole DEF Accept
  <2>4. AnswerIsWhole'
    BY <1>1, <1>5, <2>3 DEF Accept, AnswerIsWhole, Complete, Total
  <2> QED
    BY <1>1, <1>5, <2>2, <2>4 DEF Accept, store, Stacked, SweptHasItsChildren, Total
<1>6. CASE PutTasks
  <2>1. AnswerIsWhole'
    BY <1>1, <1>6 DEF PutTasks, AnswerIsWhole, Complete, Total
  <2> QED
    BY <1>1, <1>6, <2>1 DEF PutTasks, Stacked, SweptHasItsChildren, Total
<1>7. CASE MarkSwept
  <2>1. SweptHasItsChildren'
    BY <1>1, <1>7 DEF MarkSwept, AnswerIsWhole, SweptHasItsChildren, Complete, Total
  <2> QED
    BY <1>7, <2>1 DEF MarkSwept, Stacked, AnswerIsWhole
<1>8. CASE Done \/ Interrupt
  <2>1. sweep' = "idle" /\ batch' = {} /\ chunks' \in Seq(Seq(Build)) /\ UNCHANGED store
    <3>1. <<>> \in Seq(Seq(Build))
      OBVIOUS
    <3>2. CASE Done
      BY <3>2 DEF Done, Stacked
    <3>3. CASE Interrupt
      BY <3>1, <3>3 DEF Interrupt
    <3> QED
      BY <1>8, <3>2, <3>3
  <2>2. SweptHasItsChildren'
    BY <1>1, <2>1 DEF store, SweptHasItsChildren, Total
  <2> QED
    BY <2>1, <2>2 DEF Stacked, AnswerIsWhole
<1> QED
  BY <1>2, <1>3, <1>4, <1>5, <1>6, <1>7, <1>8 DEF Next, Progress

\* What a sweep has in hand is whole, at every step.
THEOREM Soundness == Spec => []IInv
BY InitIsSound, NextIsSound, PTL DEF Spec

\* What is stored is of the kinds that are collected, and of known builds.
Typed == /\ kids \in [Build -> 0..MaxKids]
         /\ tasks \subseteq Collected(Child) /\ swept \subseteq Build
         /\ batch \subseteq Build /\ rows \subseteq Collected(Child)
         /\ sweep \in Stages

LEMMA NextIsTyped ==
  ASSUME IInv, Typed, [Next]_vars
  PROVE  Typed'
<1> USE DEF Typed
<1>1. kids' = kids
  BY DEF Next, Progress, Begin, Split, Accept, PutTasks, MarkSwept, Done, Interrupt, vars, hub
<1>2. CASE Accept
  <2>1. PICK answer \in Answers(Last(chunks)) : rows' = Collected(answer)
    BY <1>2 DEF Accept
  <2>2. answer \subseteq Child
    BY DEF Answers, ChildrenOf, kSubset
  <2>3. rows' \subseteq Collected(Child)
    BY <2>1, <2>2 DEF Collected
  <2>4. batch' \subseteq Build
    <3>1. Last(chunks) \in Seq(Build)
      BY <1>2, StackIs DEF Accept, IInv, Stacked
    <3> QED
      BY <1>2, <3>1 DEF Accept, ToSet
  <2> QED
    BY <1>1, <1>2, <2>3, <2>4 DEF Accept, store, Stages
<1>3. CASE ~Accept
  <2>1. /\ tasks' \subseteq tasks \cup rows /\ swept' \subseteq swept \cup batch
        /\ batch' \subseteq batch /\ rows' \subseteq rows /\ sweep' \in Stages
    BY <1>3 DEF Next, Progress, Begin, Split, PutTasks, MarkSwept, Done, Interrupt,
       vars, store, run, Stages
  <2> QED
    BY <1>1, <2>1
<1> QED
  BY <1>2, <1>3

\* Every reachable state of the sweep is well typed: batches of known builds, and
\* child tasks of a kind that is collected.
THEOREM SweepTypeCorrect == Spec => []TypeOK
<1>1. Init => Typed
  BY DEF Init, Typed, Stages
<1>2. IInv /\ Typed => TypeOK
  BY DEF IInv, Stacked, Typed, TypeOK, Collected
<1> QED
  BY <1>1, <1>2, NextIsTyped, Soundness, PTL DEF Spec

-----------------------------------------------------------------------------
\* A build is marked swept only with all of its children in the store, however the
\* answers overflow and wherever runs stop (fetch_children_batched).
THEOREM SweptIsComplete == Spec => []SweptHasItsChildren
<1>1. IInv => SweptHasItsChildren
  BY DEF IInv
<1> QED
  BY <1>1, Soundness, PTL

\* No split and no answer loses a parent: it stays on the stack or in the batch in
\* hand until it is marked (fetch_children_batched, sweep_children).
THEOREM NoParentIsLost == Spec => NoParentIsDropped
<1>1. IInv /\ [Next]_vars =>
        [sweep # "idle" /\ sweep' # "idle" =>
          Queued \cup batch \subseteq Queued' \cup batch' \cup swept']_vars
  <2> SUFFICES ASSUME IInv, Next, sweep # "idle", sweep' # "idle"
               PROVE  Queued \cup batch \subseteq Queued' \cup batch' \cup swept'
    OBVIOUS
  <2>1. Queued = OnStack(chunks) /\ Queued' = OnStack(chunks')
    BY DEF Queued, OnStack
  <2>2. CASE Split
    BY <2>1, <2>2, SplitKeepsParents DEF Split, IInv, Stacked
  <2>3. CASE Accept
    <3>1. batch = {} /\ OnStack(chunks) \subseteq OnStack(Front(chunks)) \cup ToSet(Last(chunks))
      BY <2>3, TakingKeepsParents DEF Accept, IInv, Stacked
    <3> QED
      BY <2>1, <2>3, <3>1 DEF Accept
  <2>4. CASE PutTasks \/ MarkSwept
    BY <2>1, <2>4 DEF PutTasks, MarkSwept
  <2>5. CASE Done \/ Interrupt \/ \E window \in SUBSET Build : Begin(window)
    BY <2>5 DEF Done, Interrupt, Begin
  <2> QED
    BY <2>2, <2>3, <2>4, <2>5 DEF Next, Progress
<1> QED
  BY <1>1, Soundness, PTL DEF Spec, NoParentIsDropped

-----------------------------------------------------------------------------
(***************************************************************************)
(* KojiSync: the listing in it is the listing of KojiListingProofs, whose  *)
(* parameters for the table on its own play no part.                       *)
(***************************************************************************)

LP == INSTANCE KojiListingProofs WITH table <- {}, named <- {}, LastInstant <- 1

LEMMA SameCardinality == \A S : List!Cardinality(S) = LP!Cardinality(S)
BY DEF List!Cardinality, LP!Cardinality

LEMMA SameOldest == \A p : List!Oldest(p) = LP!Oldest(p)
BY DEF List!Oldest, LP!Oldest, List!Min, LP!Min

LEMMA SameNewest == \A p : List!NewestCreation(p) = LP!NewestCreation(p)
BY DEF List!NewestCreation, LP!NewestCreation, List!Max, LP!Max

LEMMA SameRecorded == \A l, c : List!Recorded(l, c) = LP!Recorded(l, c)
<1>1. \A l, s : List!AddListed(l, s) = LP!AddListed(l, s)
  BY DEF List!AddListed, LP!AddListed, List!Touching, LP!Touching, List!Touches, LP!Touches,
         List!Hull, LP!Hull, List!Min, LP!Min, List!Max, LP!Max
<1> QED BY <1>1 DEF List!Recorded, LP!Recorded

LEMMA SameClaim == List!Claim <=> LP!Claim
<1>1. List!Claims(page, cursor, gap) = LP!Claims(page, cursor, gap)
  BY SameCardinality, SameOldest
     DEF List!Claims, LP!Claims, List!FarSide, LP!FarSide, List!Edge, LP!Edge,
         List!Max, LP!Max
<1>2. List!NextCursors(page, cursor, gap) = LP!NextCursors(page, cursor, gap)
  BY SameCardinality, SameOldest, SameNewest
     DEF List!NextCursors, LP!NextCursors, List!FarSide, LP!FarSide,
         List!Edge, LP!Edge, List!Crowded, LP!Crowded
<1> QED BY <1>1, <1>2, SameRecorded DEF List!Claim, LP!Claim, List!hub, LP!hub

LEMMA SameBegin == \A w : List!Begin(w) <=> LP!Begin(w)
BY DEF List!Begin, LP!Begin, List!Wanted, LP!Wanted, List!Clear, LP!Clear,
       List!Gaps, LP!Gaps, List!GapEnds, LP!GapEnds, List!Instants, LP!Instants,
       List!Covered, LP!Covered, List!hub, LP!hub, List!store, LP!store

LEMMA SameAskPage == List!AskPage <=> LP!AskPage
BY SameCardinality
   DEF List!AskPage, LP!AskPage, List!hub, LP!hub, List!store, LP!store,
       List!IsPage, LP!IsPage, List!Take, LP!Take, List!Newest, LP!Newest,
       List!Below, LP!Below

LEMMA SameStop == List!Stop <=> LP!Stop
BY DEF List!Stop, LP!Stop, List!hub, LP!hub, List!store, LP!store,
       List!NoSpan, LP!NoSpan, List!NoCursor, LP!NoCursor

LEMMA SameInit == List!Init <=> LP!Init
BY DEF List!Init, LP!Init, List!Ordered, LP!Ordered, List!NoSpan, LP!NoSpan,
       List!NoCursor, LP!NoCursor

LEMMA SameNext == [List!Next]_(List!vars) => [LP!Next]_(LP!vars)
<1> SUFFICES ASSUME [List!Next]_(List!vars) PROVE [LP!Next]_(LP!vars)
  OBVIOUS
<1>1. List!Tick <=> LP!Tick
  BY DEF List!Tick, LP!Tick, List!store, LP!store, List!run, LP!run
<1>2. List!NextGap <=> LP!NextGap
  BY DEF List!NextGap, LP!NextGap, List!hub, LP!hub, List!store, LP!store
<1>3. List!NoGapLeft <=> LP!NoGapLeft
  BY DEF List!NoGapLeft, LP!NoGapLeft, List!hub, LP!hub, List!store, LP!store
<1>4. List!PutBuilds <=> LP!PutBuilds
  BY DEF List!PutBuilds, LP!PutBuilds, List!hub, LP!hub
<1>5. List!Windows = LP!Windows
  BY DEF List!Windows, LP!Windows
<1>6. List!Walk <=> LP!Walk
  BY <1>2, <1>3, <1>4, SameAskPage, SameClaim DEF List!Walk, LP!Walk
<1>7. (List!Finish \/ List!Interrupt) => (LP!Finish \/ LP!Interrupt)
  BY SameStop DEF List!Finish, LP!Finish, List!Interrupt, LP!Interrupt
<1>8. UNCHANGED List!vars => UNCHANGED LP!vars
  BY DEF List!vars, LP!vars, List!hub, LP!hub, List!store, LP!store, List!run, LP!run
<1>9. (\E w \in List!Windows : List!Begin(w)) => (\E w \in LP!Windows : LP!Begin(w))
  BY <1>5, SameBegin
<1> QED BY <1>1, <1>6, <1>7, <1>8, <1>9 DEF List!Next, LP!Next

\* The span arithmetic of whole_days is that of the listing.
LEMMA SameGaps ==
  /\ Covered(listed) = LP!Covered(listed)
  /\ \A w : Instants(w) = LP!Instants(w)
  /\ \A w : Gaps(listed, w) = LP!Gaps(listed, w)
<1>1. Covered(listed) = LP!Covered(listed)
  BY DEF Covered, LP!Covered, Instants, LP!Instants
<1>2. \A w : Instants(w) = LP!Instants(w)
  BY DEF Instants, LP!Instants
<1>3. \A w : GapEnds(listed, w) = LP!GapEnds(listed, w)
  BY DEF GapEnds, LP!GapEnds
<1> QED BY <1>1, <1>2, <1>3 DEF Gaps, LP!Gaps

LEMMA FiniteBuild == LP!IsFiniteSet(Build)
BY BatchAssumption DEF LP!IsFiniteSet, IsFiniteSet

\* What is proved of the listing, of the listing in a sync.
LEMMA ListingInit == List!Init => LP!IInv /\ LP!WalkInv
BY LP!InitInv, LP!InitWalk, SameInit, FiniteBuild, BatchAssumption, ListingAssumption

LEMMA ListingNext ==
  LP!IInv /\ LP!WalkInv /\ [List!Next]_(List!vars) => LP!IInv' /\ LP!WalkInv'
BY LP!NextInv, LP!NextWalk, SameNext, FiniteBuild, BatchAssumption, ListingAssumption

-----------------------------------------------------------------------------
(***************************************************************************)
(* KojiSync: every step is a step of the listing and of the sweep.         *)
(***************************************************************************)

LEMMA StepOfListing == [SyncNext]_syncVars => [List!Next]_(List!vars)
<1> SUFFICES ASSUME [SyncNext]_syncVars PROVE [List!Next]_(List!vars)
  OBVIOUS
<1>1. CASE Listing \/ AskPage \/ PutBuilds
  BY <1>1 DEF Listing, AskPage, PutBuilds, List!Next, List!Walk
<1>2. CASE FillNames
  BY <1>2 DEF FillNames, List!Next
<1>3. CASE SyncInterrupt
  BY <1>3 DEF SyncInterrupt, List!Next, List!Finish, List!Interrupt
<1>4. CASE SweepBegin \/ Sweeping \/ UNCHANGED syncVars
  <2>1. UNCHANGED listing
    BY <1>4 DEF SweepBegin, Sweeping, syncVars
  <2> QED BY <2>1 DEF listing, List!vars, List!hub, List!store, List!run
<1> QED BY <1>1, <1>2, <1>3, <1>4 DEF SyncNext, Step

LEMMA StepOfSweep ==
  ASSUME known \subseteq Build, [SyncNext]_syncVars
  PROVE  [Next]_vars
<1>1. CASE SweepBegin
  <2>1. CompletedInWindow \in SUBSET Build /\ Begin(CompletedInWindow)
    BY <1>1 DEF SweepBegin, CompletedInWindow
  <2> QED BY <2>1 DEF Next
<1>2. CASE Sweeping
  BY <1>2 DEF Sweeping, Next, Progress
<1>3. CASE SyncInterrupt
  BY <1>3 DEF SyncInterrupt, sweeping, Next, vars, hub, store, run
<1>4. CASE Listing \/ AskPage \/ PutBuilds \/ FillNames \/ UNCHANGED syncVars
  <2>1. UNCHANGED sweeping
    BY <1>4 DEF Listing, AskPage, PutBuilds, FillNames, syncVars
  <2> QED BY <2>1 DEF sweeping, vars, hub, store, run
<1> QED BY <1>1, <1>2, <1>3, <1>4 DEF SyncNext, Step

\* A build takes at most the grace to complete, and the hub does not change its
\* mind.
HubSays == /\ finished \in [Build -> Nat]
           /\ \A b \in Build : /\ created[b] \in Nat /\ finished[b] \in Nat
                               /\ created[b] <= finished[b]
                               /\ finished[b] <= created[b] + Grace

\* The new columns are of rows the store has, a completion in the store is one
\* that has been, and the page in hand says so of every such row on it.
ColumnsInv == /\ known \subseteq held /\ named \subseteq held /\ held \subseteq Build
              /\ ended \subseteq page /\ ended \subseteq Build
              /\ phase # "put" => ended = {}
              /\ \A b \in known \cup ended : finished[b] <= now
              /\ phase = "put" => page \cap known \subseteq ended

LEMMA HubIsKept ==
  ASSUME [List!Next]_(List!vars)
  PROVE  created' = created
BY DEF List!Next, List!vars, List!hub, List!Tick, List!Begin, List!Walk, List!NextGap,
       List!NoGapLeft, List!AskPage, List!PutBuilds, List!Claim, List!Finish,
       List!Interrupt, List!Stop

LEMMA SyncHubSays ==
  /\ SyncInit => HubSays
  /\ HubSays /\ [SyncNext]_syncVars => HubSays'
<1>1. ASSUME SyncInit PROVE HubSays
  <2>1. PICK took \in [Build -> 0..Grace] :
          finished = [b \in Build |-> created[b] + took[b]]
    BY <1>1 DEF SyncInit
  <2>2. created \in [Build -> 0..Horizon]
    BY <1>1 DEF SyncInit, List!Init
  <2> SUFFICES ASSUME NEW b \in Build
               PROVE  /\ created[b] \in Nat /\ finished[b] \in Nat
                      /\ created[b] <= finished[b]
                      /\ finished[b] <= created[b] + Grace
    <3>1. finished \in [Build -> {finished[b] : b \in Build}]
      BY <2>1
    <3> QED BY <3>1 DEF HubSays
  <2>3. finished[b] = created[b] + took[b] /\ took[b] \in 0..Grace /\ created[b] \in 0..Horizon
    BY <2>1, <2>2
  <2> QED BY <2>3, ListingAssumption
<1>2. ASSUME HubSays, [SyncNext]_syncVars PROVE HubSays'
  <2>1. created' = created
    BY <1>2, StepOfListing, HubIsKept
  <2>2. finished' = finished
    BY <1>2 DEF SyncNext, Step, Listing, AskPage, PutBuilds, SweepBegin, Sweeping, FillNames,
           SyncInterrupt, syncVars
  <2> QED BY <1>2, <2>1, <2>2 DEF HubSays
<1> QED BY <1>1, <1>2

LEMMA SyncColumns ==
  ASSUME ColumnsInv, HubSays, LP!IInv, [SyncNext]_syncVars
  PROVE  ColumnsInv' /\ known \subseteq known'
<1> USE DEF ColumnsInv
<1>1. /\ now \in Nat /\ finished' = finished
      /\ \A b \in Build : finished[b] \in Nat
  <2>1. finished' = finished
    BY DEF SyncNext, Step, Listing, AskPage, PutBuilds, SweepBegin, Sweeping, FillNames,
           SyncInterrupt, syncVars
  <2> QED BY <2>1 DEF HubSays, LP!IInv, LP!HubInv
<1>2. CASE Listing
  <2>1. known' = known /\ named' = named /\ ended' = ended
    BY <1>2 DEF Listing
  <2>2. CASE List!Tick
    <3>1. now' = now + 1 /\ held' = held /\ phase' = phase /\ page' = page
      BY <2>2 DEF List!Tick, List!store, List!run
    <3>2. \A b \in known \cup ended : finished[b] \in Nat
      BY <1>1
    <3> QED BY <1>1, <2>1, <3>1, <3>2
  <2>3. CASE ~List!Tick
    <3>1. /\ now' = now /\ held' = held /\ phase # "put" /\ phase' # "put"
      BY <1>2, <2>3 DEF Listing, List!Begin, List!NextGap, List!NoGapLeft, List!Claim,
             List!hub, List!store
    <3> QED BY <1>1, <2>1, <3>1
  <2> QED BY <2>2, <2>3
<1>3. CASE AskPage
  <2>1. /\ now' = now /\ held' = held /\ phase' = "put" /\ known' = known
        /\ named' = named /\ ended' = {b \in page' : finished[b] <= now}
    BY <1>3 DEF AskPage, List!AskPage, List!hub, List!store
  <2>2. page' \subseteq Build
    BY <1>3 DEF AskPage, List!AskPage, List!Below
  <2> QED BY <1>1, <2>1, <2>2
<1>4. CASE PutBuilds
  <2>1. /\ now' = now /\ held' = held \cup page /\ page' = page
        /\ phase = "put" /\ phase' = "claim"
        /\ known' = (known \ page) \cup ended /\ named' = named \ page /\ ended' = {}
    BY <1>4 DEF PutBuilds, List!PutBuilds, List!hub
  <2>2. page \subseteq Build
    BY DEF LP!IInv, LP!StateInv
  <2> QED BY <1>1, <2>1, <2>2
<1>5. CASE SweepBegin \/ Sweeping \/ UNCHANGED syncVars
  <2>1. UNCHANGED <<listing, known, named, ended>>
    BY <1>5 DEF SweepBegin, Sweeping, syncVars
  <2> QED BY <1>1, <2>1 DEF listing
<1>6. CASE FillNames
  <2>1. /\ now' = now /\ held' = held /\ phase = "listed" /\ phase' = "idle"
        /\ known' = known /\ ended' = ended
        /\ named' \subseteq named \cup known
    BY <1>6 DEF FillNames, List!Finish, List!Stop, List!hub, List!store, CompletedInWindow
  <2> QED BY <1>1, <2>1
<1>7. CASE SyncInterrupt
  <2>1. /\ now' = now /\ held' = held /\ phase' = "idle"
        /\ known' = known /\ named' = named /\ ended' = {}
    BY <1>7 DEF SyncInterrupt, List!Stop, List!hub, List!store
  <2> QED BY <1>1, <2>1
<1> QED BY <1>2, <1>3, <1>4, <1>5, <1>6, <1>7 DEF SyncNext, Step

SyncInv == LP!IInv /\ LP!WalkInv /\ HubSays /\ ColumnsInv /\ IInv

LEMMA SyncInvariance == SyncSpec => []SyncInv
<1>1. SyncInit => SyncInv
  <2>1. SyncInit => ColumnsInv
    BY DEF SyncInit, List!Init, ColumnsInv
  <2> QED BY <2>1, ListingInit, SyncHubSays, InitIsSound DEF SyncInit, SyncInv
<1>2. SyncInv /\ [SyncNext]_syncVars => SyncInv'
  <2> SUFFICES ASSUME SyncInv, [SyncNext]_syncVars PROVE SyncInv'
    OBVIOUS
  <2>1. LP!IInv' /\ LP!WalkInv'
    BY StepOfListing, ListingNext DEF SyncInv
  <2>2. HubSays' /\ ColumnsInv'
    BY SyncHubSays, SyncColumns DEF SyncInv
  <2>3. IInv'
    BY StepOfSweep, NextIsSound DEF SyncInv, ColumnsInv
  <2> QED BY <2>1, <2>2, <2>3 DEF SyncInv
<1> QED BY <1>1, <1>2, PTL DEF SyncSpec

\* A sync is a listing: nothing the children stage, the naming or the end of a
\* run does is anything but a stutter, or the end of a run, to KojiListing.
THEOREM SyncIsListing == SyncSpec => List!Spec
<1>1. SyncInit => List!Init
  BY DEF SyncInit
<1> QED BY <1>1, StepOfListing, PTL DEF SyncSpec, List!Spec

\* A sync is a sweep: to ChildSweep it is a sequence of sweeps over the builds the
\* store knows to have completed, among steps it does not see.
THEOREM SyncIsSweep == SyncSpec => Spec
<1>1. SyncInit => Init
  BY DEF SyncInit
<1>2. SyncInv /\ [SyncNext]_syncVars => [Next]_vars
  BY StepOfSweep DEF SyncInv, ColumnsInv
<1> QED BY <1>1, <1>2, SyncInvariance, PTL DEF SyncSpec, Spec

\* A completion once in the store is never lost, though a row that is listed again
\* takes every column of its page (put_builds): the hub, asked later, still says it.
THEOREM CompletionsAreKept == SyncSpec => [][known \subseteq known']_syncVars
<1>1. SyncInv /\ [SyncNext]_syncVars => [known \subseteq known']_syncVars
  BY SyncColumns DEF SyncInv
<1> QED BY <1>1, SyncInvariance, PTL DEF SyncSpec

\* What a sweep asks about, has in hand or has settled are builds the store knows
\* to have completed.
SettledInv == OnStack(chunks) \cup batch \cup swept \subseteq known

LEMMA SyncSettled ==
  ASSUME SyncInv, SettledInv, [SyncNext]_syncVars
  PROVE  SettledInv'
<1> USE DEF SettledInv
<1>1. known \subseteq known' /\ chunks \in Seq(Seq(Build)) /\ known \subseteq Build
  BY SyncColumns DEF SyncInv, IInv, Stacked, ColumnsInv
<1>2. CASE SweepBegin
  <2>1. Begin(CompletedInWindow) /\ CompletedInWindow \in SUBSET Build
        /\ CompletedInWindow \subseteq known
    BY <1>1, <1>2 DEF SweepBegin, CompletedInWindow
  <2>2. PICK parents \in Pending(CompletedInWindow) : chunks' = Chunked(parents)
    BY <2>1 DEF Begin
  <2>3. OnStack(chunks') \subseteq CompletedInWindow
    BY <2>1, <2>2, PendingIsSeq, ChunksAreOfParents
  <2>4. batch' = batch /\ swept' = swept
    BY <2>1 DEF Begin, store
  <2> QED BY <1>1, <2>1, <2>3, <2>4 DEF OnStack
<1>3. CASE Sweeping
  <2>1. CASE Split
    <3>1. PICK answer \in Answers(Last(chunks)) : chunks' = Front(chunks) \o Halves(Last(chunks))
      BY <2>1 DEF Split
    <3>2. OnStack(chunks') = OnStack(chunks) /\ batch' = batch /\ swept' = swept
      BY <1>1, <2>1, <3>1, SplitKeepsParents DEF Split, store
    <3> QED BY <1>1, <3>2 DEF OnStack
  <2>2. CASE Accept
    <3>1. /\ OnStack(chunks') \subseteq OnStack(chunks) /\ batch' \subseteq OnStack(chunks)
          /\ swept' = swept
      BY <1>1, <2>2, TakingKeepsParents DEF Accept, store
    <3> QED BY <1>1, <3>1 DEF OnStack
  <2>3. CASE PutTasks \/ MarkSwept \/ Done
    <3>1. chunks' = chunks /\ batch' \cup swept' \subseteq batch \cup swept
      BY <2>3 DEF PutTasks, MarkSwept, Done, store
    <3> QED BY <1>1, <3>1 DEF OnStack
  <2> QED BY <1>3, <2>1, <2>2, <2>3 DEF Sweeping
<1>4. CASE SyncInterrupt
  <2>1. (chunks' = chunks \/ chunks' = <<>>) /\ batch' \subseteq batch /\ swept' = swept
    BY <1>4 DEF SyncInterrupt, Interrupt, sweeping, store
  <2>2. OnStack(chunks') \subseteq OnStack(chunks)
    BY <2>1 DEF OnStack
  <2> QED BY <1>1, <2>1, <2>2 DEF OnStack
<1>5. CASE Listing \/ AskPage \/ PutBuilds \/ FillNames \/ UNCHANGED syncVars
  <2>1. UNCHANGED sweeping
    BY <1>5 DEF Listing, AskPage, PutBuilds, FillNames, syncVars
  <2> QED BY <1>1, <2>1 DEF sweeping, OnStack
<1> QED BY <1>2, <1>3, <1>4, <1>5 DEF SyncNext, Step

\* The parents a store has settled are always builds it holds as completed: no
\* later listing takes that back from a row, in any order of listings, sweeps and
\* interruptions (put_builds, mark_children_swept).
THEOREM SettledAreKnown == SyncSpec => [](swept \subseteq known /\ known \subseteq held)
<1>1. SyncInit => SettledInv
  BY DEF SyncInit, Init, SettledInv, OnStack
<1>2. SyncInv /\ SettledInv => swept \subseteq known /\ known \subseteq held
  BY DEF SyncInv, ColumnsInv, SettledInv
<1> QED BY <1>1, <1>2, SyncSettled, SyncInvariance, PTL DEF SyncSpec

\* Every reachable state of a sync is well typed: in particular a parent is
\* settled only while the store holds it as completed.
THEOREM SyncTypeCorrect == SyncSpec => []SyncTypeOK
<1>1. SyncInit => SettledInv
  BY DEF SyncInit, Init, SettledInv, OnStack
<1>2. SyncInv /\ SettledInv /\ TypeOK => SyncTypeOK
  <2> SUFFICES ASSUME SyncInv, SettledInv, TypeOK PROVE SyncTypeOK
    OBVIOUS
  <2>1. List!TypeOK
    BY DEF SyncInv, LP!IInv, LP!HubInv, LP!StateInv, LP!Rows, LP!Span, LP!Phases,
           List!TypeOK, List!Span, List!Phases
  <2>2. finished \in [Build -> 0..Horizon + Grace]
    <3>1. \A b \in Build : created[b] \in 0..Horizon /\ finished[b] \in Nat
                           /\ finished[b] <= created[b] + Grace
      BY DEF SyncInv, HubSays, LP!IInv, LP!HubInv
    <3>2. \A b \in Build : finished[b] \in 0..Horizon + Grace
      BY <3>1, ListingAssumption
    <3>3. finished \in [Build -> Nat]
      BY DEF SyncInv, HubSays
    <3> QED BY <3>2, <3>3
  <2> QED BY <2>1, <2>2 DEF SyncInv, ColumnsInv, SettledInv, SyncTypeOK
<1> QED BY <1>1, <1>2, SyncSettled, SyncInvariance, SyncIsSweep, SweepTypeCorrect, PTL
        DEF SyncSpec

-----------------------------------------------------------------------------
(***************************************************************************)
(* KojiSync: whole days.                                                   *)
(***************************************************************************)

\* The span whole_days asks about for a day.
Reach(d) == [from |-> d - Grace, to |-> d + Day]

LEMMA ReachIsSpan ==
  ASSUME NEW d \in Days
  PROVE  Reach(d) \in Span /\ d \in Nat /\ d - Grace \in Nat /\ Day \in Nat /\ Grace \in Nat
<1>1. d \in Nat /\ Grace \in Nat /\ Day \in Nat /\ d >= Grace
  BY ListingAssumption, DayAssumption DEF Days
<1> QED BY <1>1 DEF Reach, Span

\* What has no gap is covered.
LEMMA NoGapIsCovered ==
  ASSUME LP!IInv, NEW w \in Span, Gaps(listed, w) = {}
  PROVE  Instants(w) \subseteq Covered(listed)
<1> SUFFICES ASSUME NEW t \in Instants(w), t \notin Covered(listed) PROVE FALSE
  OBVIOUS
<1>1. /\ now \in Nat /\ listed \in SUBSET LP!Rows(now) /\ w \in LP!Span
      /\ t \in LP!Instants(w) /\ t \notin LP!Covered(listed)
  BY SameGaps DEF LP!IInv, LP!HubInv, Span, LP!Span
<1>2. \E g \in LP!Gaps(listed, w) : t \in LP!Instants(g)
  BY <1>1, LP!GapsCover, FiniteBuild, BatchAssumption, ListingAssumption
<1> QED BY <1>2, SameGaps

LEMMA CoveredHasNoGap ==
  ASSUME NEW w \in Span, Instants(w) \subseteq Covered(listed), listed \subseteq Span
  PROVE  Gaps(listed, w) = {}
<1> SUFFICES ASSUME NEW g \in Gaps(listed, w) PROVE FALSE
  OBVIOUS
<1>1. /\ g.from \in Nat /\ g.to \in Nat /\ g.from < g.to
      /\ Instants(g) \subseteq Instants(w) /\ Instants(g) \cap Covered(listed) = {}
  BY DEF Gaps, GapEnds, Span
<1>2. g.from \in Instants(g)
  BY <1>1 DEF Instants
<1> QED BY <1>1, <1>2

\* A day reported whole has a row for every build that completed in it: the claims
\* it rests on reach back by the grace, which no build outlasts (whole_days).
THEOREM WholeDaysHoldBuilds ==
  ASSUME ClearEdges
  PROVE  SyncSpec => []WholeDayHoldsEveryBuild
<1>1. ASSUME SyncInv PROVE WholeDayHoldsEveryBuild
  <2> SUFFICES ASSUME NEW d \in Days, Whole(d), NEW b \in Build, CompletedOn(b, d)
               PROVE  b \in held
    BY DEF WholeDayHoldsEveryBuild
  <2>1. Instants(Reach(d)) \subseteq Covered(listed)
    BY <1>1, ReachIsSpan, NoGapIsCovered DEF SyncInv, Whole, Reach
  <2>2. created[b] \in Instants(Reach(d))
    <3>1. /\ created[b] \in Nat /\ finished[b] \in Nat
          /\ created[b] <= finished[b] /\ finished[b] <= created[b] + Grace
          /\ d <= finished[b] /\ finished[b] < d + Day
      BY <1>1 DEF SyncInv, HubSays, CompletedOn
    <3>2. d - Grace <= created[b] /\ created[b] < d + Day
      BY <3>1, ReachIsSpan
    <3>3. created[b] \in (d - Grace) .. ((d + Day) - 1)
      <4>1. d - Grace \in Nat /\ d \in Nat /\ Day \in Nat
        BY ReachIsSpan
      <4> QED BY <3>1, <3>2, <4>1
    <3>4. Reach(d).from = d - Grace /\ Reach(d).to = d + Day
      BY DEF Reach
    <3> QED BY <3>3, <3>4, Zenon DEF Instants
  <2>3. created[b] \in LP!Covered(listed)
    BY <2>1, <2>2, SameGaps
  <2> QED BY <1>1, <2>3 DEF SyncInv, LP!IInv, LP!ClaimInv, LP!ClaimsAreKept
<1> QED BY <1>1, SyncInvariance, PTL

\* No build has more children than its bound.
LEMMA TotalIsBounded ==
  ASSUME NEW b
  PROVE  Total({b}) <= MaxKids /\ Total({b}) \in Nat
<1> DEFINE own == {<<b, i>> : i \in 1..MaxKids}
           child == [i \in 1..MaxKids |-> <<b, i>>]
<1>1. MaxKids \in Nat /\ IsFiniteSet(1..MaxKids) /\ Cardinality(1..MaxKids) = MaxKids
  BY BatchAssumption, FS_Interval
<1>2. child \in Surjection(1..MaxKids, own)
  BY DEF Surjection
<1>3. IsFiniteSet(own) /\ Cardinality(own) <= MaxKids
  BY <1>1, <1>2, FS_Surjection
<1>4. ChildrenOf({b}) \subseteq own
  BY DEF ChildrenOf, Child
<1> HIDE DEF own
<1>5. /\ IsFiniteSet(ChildrenOf({b}))
      /\ Cardinality(ChildrenOf({b})) <= Cardinality(own)
  BY <1>3, <1>4, FS_Subset
<1>6. Cardinality(ChildrenOf({b})) \in Nat /\ Cardinality(own) \in Nat
  BY <1>3, <1>5, FS_CardinalityType
<1> QED BY <1>1, <1>3, <1>5, <1>6 DEF Total

\* A day reported whole has the arch tasks of every build it reports on, when no
\* build's own children fill a page (the case sweep_children warns of).
THEOREM WholeDaysHaveChildren ==
  ASSUME MaxKids <= ChildPageLimit
  PROVE  SyncSpec => []WholeDayHasChildren
<1>1. ASSUME SyncInv PROVE WholeDayHasChildren
  <2> SUFFICES ASSUME NEW d \in Days, Whole(d), NEW b \in known, CompletedOn(b, d)
               PROVE  Collected(ChildrenOf({b})) \subseteq tasks
    BY DEF WholeDayHasChildren
  <2>1. b \in swept
    BY DEF Whole
  <2>2. Total({b}) <= ChildPageLimit
    <3>1. Total({b}) <= MaxKids /\ Total({b}) \in Nat
      BY TotalIsBounded
    <3> QED BY <3>1, BatchAssumption
  <2> QED BY <1>1, <2>1, <2>2 DEF SyncInv, IInv, SweptHasItsChildren
<1> QED BY <1>1, SyncInvariance, PTL

\* The hub was in use before the earliest window.
InUseEarlier == \A m \in Midnights : m >= Grace => \E b \in Build : created[b] < m - Grace

\* A window begins the grace before a midnight.
WindowInv == phase # "idle" => \E m \in Midnights : m >= Grace /\ want.from = m - Grace

LEMMA SyncWindow ==
  /\ SyncInit => WindowInv
  /\ WindowInv /\ [SyncNext]_syncVars => WindowInv'
<1>1. SyncInit => WindowInv
  BY DEF SyncInit, List!Init, WindowInv
<1>2. ASSUME WindowInv, [List!Next]_(List!vars) PROVE WindowInv'
  <2>1. ASSUME NEW w \in List!Windows, List!Begin(w) PROVE WindowInv'
    <3>1. want' = w /\ \E m \in Midnights : m >= Grace /\ w.from = m - Grace
      BY <2>1 DEF List!Begin, List!Windows
    <3> QED BY <3>1 DEF WindowInv
  <2>2. CASE List!Stop
    BY <2>2 DEF List!Stop, WindowInv
  <2>3. CASE List!Tick \/ List!Walk \/ UNCHANGED List!vars
    <3>1. want' = want /\ (phase = "idle" => phase' = "idle")
      BY <2>3 DEF List!Tick, List!Walk, List!NextGap, List!NoGapLeft, List!AskPage,
             List!PutBuilds, List!Claim, List!vars, List!run
    <3> QED BY <1>2, <3>1 DEF WindowInv
  <2> QED BY <1>2, <2>1, <2>2, <2>3 DEF List!Next, List!Finish, List!Interrupt
<1> QED BY <1>1, <1>2, StepOfListing

\* A sync that reaches its end leaves every full day of its window whole, on a hub
\* in use before its windows: the listing left no gap, and no build known to have
\* completed in the window lacks its children (run).
THEOREM SyncsLeaveWholeDays ==
  InUseEarlier /\ SyncSpec => []SyncedWindowIsWhole
<1>1. ASSUME SyncInv, WindowInv, InUseEarlier PROVE SyncedWindowIsWhole
  <2> SUFFICES ASSUME phase = "listed", Unswept = {}, NEW d \in Days,
                      want.from + Grace <= d, d + Day <= want.to
               PROVE  Whole(d)
    BY DEF SyncedWindowIsWhole
  <2>1. /\ want.from \in Nat /\ want.to \in Nat /\ want \in LP!Span
        /\ listed \in SUBSET LP!Rows(now)
    BY <1>1 DEF SyncInv, LP!IInv, LP!StateInv, LP!HubInv, LP!Span
  <2>2. LP!InUse
    BY <1>1 DEF WindowInv, InUseEarlier, LP!InUse
  <2>3. LP!Instants(want) \subseteq LP!Covered(listed)
    BY <1>1, <2>2 DEF SyncInv, LP!WalkInv, LP!LeftInv, LP!DoneInv, LP!Walking
  <2>4. Instants(Reach(d)) \subseteq Instants(want)
    <3> SUFFICES ASSUME NEW t \in Instants(Reach(d)) PROVE t \in Instants(want)
      OBVIOUS
    <3>1. d \in Nat /\ Grace \in Nat /\ Day \in Nat
      BY ReachIsSpan
    <3>2. t \in Int /\ d - Grace <= t /\ t <= d + Day - 1
      BY <3>1 DEF Reach, Instants
    <3> QED BY <2>1, <3>1, <3>2 DEF Instants
  <2>5. Gaps(listed, Reach(d)) = {}
    <3>1. Instants(Reach(d)) \subseteq Covered(listed)
      BY <2>3, <2>4, SameGaps
    <3>2. listed \subseteq Span
      BY <2>1 DEF LP!Rows, LP!Span, Span
    <3> QED BY <3>1, <3>2, ReachIsSpan, CoveredHasNoGap
  <2>6. {b \in known : CompletedOn(b, d)} \subseteq swept
    <3> SUFFICES ASSUME NEW b \in known, CompletedOn(b, d), b \notin swept PROVE FALSE
      OBVIOUS
    <3>1. finished[b] \in Nat
      BY <1>1 DEF SyncInv, ColumnsInv, HubSays
    <3>2. InWindow(b)
      BY <2>1, <3>1, ReachIsSpan DEF InWindow, CompletedOn
    <3> QED BY <3>2 DEF Unswept, CompletedInWindow
  <2> QED BY <2>5, <2>6 DEF Whole, Reach
<1>2. InUseEarlier /\ [SyncNext]_syncVars => InUseEarlier'
  BY StepOfListing, HubIsKept DEF InUseEarlier
<1> QED BY <1>1, <1>2, SyncWindow, SyncInvariance, PTL DEF SyncSpec
=============================================================================
