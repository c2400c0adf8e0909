------------------------ MODULE VerifiedWriteProofs ------------------------
(***************************************************************************)
(* What VerifiedWrite promises, proved for any set of bugs and any number  *)
(* of attempts.                                                            *)
(***************************************************************************)
EXTENDS VerifiedWrite, TLAPS

\* What the client and the service know of each other, whatever goes wrong: a bug
\* that is no longer awaited has been written, and a bug shows a change, in its
\* time or its fields, only if it was made.
Grounded ==
  /\ \A b \in Bug : before[b] <= changed[b] /\ changed[b] <= now
  /\ phase = "wait" => \A b \in remaining : b \in sent[attempt] \/ comments[b] > 0
  /\ \A b \in Bug : before[b] # Unread /\ changed[b] > before[b]
                      => comments[b] > 0 \/ b \in touched
  /\ \A b \in shows : comments[b] > 0 \/ b \in touched \/ b \in asked.shown

\* As long as nothing has gone wrong that the call cannot see: only the request
\* awaited is under way, it writes what is not yet written, and what is written
\* has changed since the snapshot.
Clean ==
  /\ \A b \in Bug : comments[b] <= 1
  /\ \A b \in Bug : comments[b] > 0 => changed[b] > before[b]
  /\ phase = "snapshot" => \A b \in Bug : comments[b] = 0
  /\ phase # "snapshot" => \A b \in remaining : before[b] # Unread
  /\ phase \in {"send", "end"} => \A b \in remaining : comments[b] = 0
  /\ \A n \in 1..Attempts : \A b \in sent[n] :
       phase = "wait" /\ n = attempt /\ comments[b] = 0

IInv == TypeOK /\ Grounded /\ DoneIsWritten /\ (faults = {} => Clean)

-----------------------------------------------------------------------------
(* Steps *)

\* A change of a bug moves its time to now and leaves the other bugs; it goes
\* unnoticed if it falls in the second of the one before.
LEMMA ChangeStep ==
  ASSUME TypeOK, NEW b \in Bug, Change(b)
  PROVE  /\ now' \in Nat /\ now' >= now
         /\ changed' \in [Bug -> Nat] /\ changed'[b] = now'
         /\ \A c \in Bug : c # b => changed'[c] = changed[c]
         /\ faults' \subseteq Fault
         /\ faults' = {} => faults = {} /\ now' # changed[b]
<1>1. now' \in Nat /\ now' >= now
  <2>1. now \in Nat
    BY DEF TypeOK
  <2>2. now' = now \/ now' = now + 1
    BY DEF Change
  <2> QED
    BY <2>1, <2>2
<1>2. changed' \in [Bug -> Nat] /\ changed'[b] = now'
  BY <1>1 DEF TypeOK, Change
<1>3. \A c \in Bug : c # b => changed'[c] = changed[c]
  BY DEF TypeOK, Change
<1>4. faults' = faults \cup {"same second"} \/ (faults' = faults /\ now' # changed[b])
  BY DEF Change
<1>5. faults \subseteq Fault
  BY DEF TypeOK
<1> QED
  BY <1>1, <1>2, <1>3, <1>4, <1>5 DEF Fault

\* Somebody else's change of a bug touches it, and what it shows, and no other.
LEMMA TouchStep ==
  ASSUME TypeOK, NEW b \in Bug, Touch(b)
  PROVE  /\ Change(b) /\ phase # "end"
         /\ touched' = touched \cup {b}
         /\ shows' \subseteq Bug /\ shows' \subseteq shows \cup {b}
         /\ UNCHANGED <<comments, sent, asked, call>>
<1>1. /\ Change(b) /\ phase # "end" /\ touched' = touched \cup {b}
      /\ UNCHANGED <<comments, sent, asked, call>>
  BY Zenon DEF Touch
<1>2. shows' = shows \cup {b} \/ shows' = shows \ {b}
  BY DEF Touch
<1>3. shows \subseteq Bug
  BY DEF TypeOK
<1> QED
  BY <1>1, <1>2, <1>3

\* A request that takes effect on a bug gives it the body once.
LEMMA TakeEffectStep ==
  ASSUME TypeOK, NEW b \in Bug, NEW n \in 1..Attempts, TakeEffect(n, b)
  PROVE  /\ Change(b) /\ b \in sent[n]
         /\ comments' \in [Bug -> Nat] /\ comments'[b] = comments[b] + 1
         /\ \A c \in Bug : c # b => comments'[c] = comments[c]
         /\ shows' = shows \cup {b} /\ shows' \subseteq Bug
         /\ sent' \in [1..Attempts -> SUBSET Bug] /\ sent'[n] = sent[n] \ {b}
         /\ \A m \in 1..Attempts : m # n => sent'[m] = sent[m]
         /\ UNCHANGED <<touched, asked, call>>
<1>1. /\ Change(b) /\ b \in sent[n] /\ shows' = shows \cup {b}
      /\ UNCHANGED <<touched, asked, call>>
      /\ comments' = [comments EXCEPT ![b] = @ + 1]
      /\ sent' = [sent EXCEPT ![n] = @ \ {b}]
  BY Zenon DEF TakeEffect
<1>2. comments \in [Bug -> Nat] /\ shows \subseteq Bug /\ sent \in [1..Attempts -> SUBSET Bug]
  BY DEF TypeOK
<1> QED
  BY <1>1, <1>2

\* The call goes on or ends.
LEMMA AgainStep ==
  ASSUME TypeOK, Again
  PROVE  phase' \in {"send", "end"} /\ attempt' \in 1..Attempts
<1>1. \/ phase' = "end" /\ attempt' = attempt
      \/ attempt < Attempts /\ attempt' = attempt + 1 /\ phase' = "send"
  BY Zenon DEF Again
<1>2. attempt \in 1..Attempts /\ Attempts \in Nat
  BY WriteAssumption DEF TypeOK
<1> QED
  BY <1>1, <1>2

\* It moves the bugs that show the change from those that remain to those done,
\* and the call goes on or ends.
LEMMA ReadBackStep ==
  ASSUME TypeOK, ReadBack
  PROVE  /\ phase = "read"
         /\ remaining' = remaining \ {b \in remaining : Landed(b)}
         /\ done' = done \cup {b \in remaining : Landed(b)}
         /\ UNCHANGED <<server, asked, before>>
         /\ phase' \in {"send", "end"} /\ attempt' \in 1..Attempts
<1>1. /\ phase = "read"
      /\ remaining' = remaining \ {b \in remaining : Landed(b)}
      /\ done' = done \cup {b \in remaining : Landed(b)}
      /\ UNCHANGED <<server, asked, before>>
  BY Zenon DEF ReadBack
<1>2. (phase' = "end" /\ attempt' = attempt) \/ Again
  BY Zenon DEF ReadBack
<1>3. attempt \in 1..Attempts
  BY DEF TypeOK
<1> QED
  BY <1>1, <1>2, <1>3, AgainStep

-----------------------------------------------------------------------------
(* Type correctness *)

\* The values of the state have their types in every step of the call and of the
\* service.
LEMMA TypeStep == TypeOK /\ [Next]_vars => TypeOK'
<1> SUFFICES ASSUME TypeOK, [Next]_vars PROVE TypeOK'
  OBVIOUS
<1>1. CASE Snapshot
  BY <1>1 DEF Snapshot, TypeOK, Phase, Fault
<1>2. CASE Send
  BY <1>2 DEF Send, TypeOK, Phase
<1>3. CASE Accepted
  BY <1>3 DEF Accepted, TypeOK, Phase, server
<1>4. CASE Failed
  BY <1>4 DEF Failed, TypeOK, Phase, Fault
<1>5. CASE ReadBack
  <2>1. PICK landed \in SUBSET remaining :
          /\ remaining' = remaining \ landed /\ done' = done \cup landed
          /\ UNCHANGED <<server, asked, before>>
          /\ phase' \in {"send", "end"} /\ attempt' \in 1..Attempts
    BY <1>5, ReadBackStep
  <2> QED
    BY <2>1 DEF TypeOK, Phase, server
<1>6. CASE ReadFails
  <2>1. phase' \in {"send", "end"} /\ attempt' \in 1..Attempts
    BY <1>6, AgainStep DEF ReadFails
  <2> QED
    BY <1>6, <2>1 DEF ReadFails, TypeOK, Phase, Fault
<1>7. ASSUME NEW b \in Bug, Touch(b) PROVE TypeOK'
  <2>1. /\ shows' \subseteq Bug /\ touched' = touched \cup {b}
        /\ UNCHANGED <<comments, sent, asked, call>>
        /\ now' \in Nat /\ changed' \in [Bug -> Nat] /\ faults' \subseteq Fault
    BY <1>7, TouchStep, ChangeStep
  <2> QED
    BY <2>1 DEF TypeOK, call
<1>8. ASSUME NEW b \in Bug, NEW n \in 1..Attempts, TakeEffect(n, b) PROVE TypeOK'
  <2>1. /\ comments' \in [Bug -> Nat] /\ shows' \subseteq Bug
        /\ sent' \in [1..Attempts -> SUBSET Bug]
        /\ UNCHANGED <<touched, asked, call>>
        /\ now' \in Nat /\ changed' \in [Bug -> Nat] /\ faults' \subseteq Fault
    BY <1>8, TakeEffectStep, ChangeStep
  <2> QED
    BY <2>1 DEF TypeOK, call
<1>9. CASE UNCHANGED vars
  BY <1>9 DEF TypeOK, vars, server, call
<1>. QED
  BY <1>1, <1>2, <1>3, <1>4, <1>5, <1>6, <1>7, <1>8, <1>9 DEF Next, Client

-----------------------------------------------------------------------------
(* What the read back can go by *)

LEMMA GroundedStep == TypeOK /\ Grounded /\ [Next]_vars => Grounded'
<1> SUFFICES ASSUME TypeOK, Grounded, [Next]_vars PROVE Grounded'
  OBVIOUS
<1>1. CASE Snapshot
  <2>1. \/ before' = [b \in Bug |-> IF b \in remaining THEN changed[b] ELSE Unread]
        \/ before' = before
    BY <1>1 DEF Snapshot
  <2>2. \A b \in Bug : changed[b] >= 0 /\ Unread < 0
    BY DEF TypeOK, Unread
  <2>3. /\ UNCHANGED <<now, changed, shows, comments, touched, asked>> /\ phase' # "wait"
    BY <1>1 DEF Snapshot
  <2>4. \A b \in Bug : \/ before'[b] = before[b]
                       \/ before'[b] = changed[b]
                       \/ before'[b] = Unread
    BY <2>1
  <2>5. \A b \in Bug : changed[b] \in Nat /\ before[b] <= changed[b] /\ changed[b] <= now
    BY DEF TypeOK, Grounded
  <2>6. \A b \in Bug : before'[b] <= changed[b]
    <3>1. TAKE b \in Bug
    <3>2. changed[b] \in Nat /\ before[b] <= changed[b] /\ Unread = -1
      BY <2>5 DEF Unread
    <3>3. changed[b] <= changed[b] /\ Unread <= changed[b]
      BY <3>2
    <3> QED
      BY <2>4, <3>2, <3>3
  <2>7. \A b \in Bug : before'[b] # Unread /\ changed[b] > before'[b]
                        => comments[b] > 0 \/ b \in touched
    <3>1. \A b \in Bug : changed[b] > changed[b] => FALSE
      BY <2>5
    <3> QED
      BY <2>4, <3>1 DEF Grounded
  <2> QED
    BY <2>3, <2>5, <2>6, <2>7 DEF Grounded
<1>2. CASE Send
  BY <1>2 DEF Send, TypeOK, Grounded
<1>3. CASE Accepted
  BY <1>3 DEF Accepted, TypeOK, Grounded, server
<1>4. CASE Failed
  BY <1>4 DEF Failed, TypeOK, Grounded
<1>5. CASE ReadBack
  <2>1. UNCHANGED <<server, asked, before>> /\ phase' # "wait"
    BY <1>5, ReadBackStep
  <2> QED
    BY <2>1 DEF TypeOK, Grounded, server
<1>6. CASE ReadFails
  <2>1. phase' # "wait"
    BY <1>6, AgainStep DEF ReadFails
  <2> QED
    BY <1>6, <2>1 DEF ReadFails, TypeOK, Grounded
<1>7. ASSUME NEW b \in Bug, Touch(b) PROVE Grounded'
  <2>1. /\ Change(b) /\ touched' = touched \cup {b}
        /\ shows' \subseteq Bug /\ shows' \subseteq shows \cup {b}
        /\ UNCHANGED <<comments, sent, asked, phase, attempt, before, remaining, done>>
    BY <1>7, TouchStep DEF call
  <2>2. /\ now' \in Nat /\ now' >= now /\ changed' \in [Bug -> Nat] /\ changed'[b] = now'
        /\ \A c \in Bug : c # b => changed'[c] = changed[c]
    BY <2>1, ChangeStep
  <2>3. \A c \in Bug : /\ now \in Nat /\ changed[c] \in Nat /\ (before[c] \in Nat \/ before[c] = Unread)
                       /\ before[c] <= changed[c] /\ changed[c] <= now
    BY DEF TypeOK, Grounded
  <2>4. \A c \in Bug : before'[c] <= changed'[c] /\ changed'[c] <= now'
    BY <2>1, <2>2, <2>3 DEF Unread
  <2>5. \A c \in Bug : before'[c] # Unread /\ changed'[c] > before'[c]
                        => comments'[c] > 0 \/ c \in touched'
    BY <2>1, <2>2 DEF Grounded
  <2>6. \A c \in shows' : comments'[c] > 0 \/ c \in touched' \/ c \in asked'.shown
    BY <2>1 DEF Grounded
  <2>7. phase' = "wait" => \A c \in remaining' : c \in sent'[attempt'] \/ comments'[c] > 0
    BY <2>1 DEF Grounded
  <2> QED
    BY <2>4, <2>5, <2>6, <2>7 DEF Grounded
<1>8. ASSUME NEW b \in Bug, NEW n \in 1..Attempts, TakeEffect(n, b) PROVE Grounded'
  <2>1. /\ Change(b) /\ b \in sent[n] /\ shows' = shows \cup {b}
        /\ comments' \in [Bug -> Nat] /\ comments'[b] = comments[b] + 1
        /\ \A c \in Bug : c # b => comments'[c] = comments[c]
        /\ sent'[n] = sent[n] \ {b} /\ \A m \in 1..Attempts : m # n => sent'[m] = sent[m]
        /\ UNCHANGED <<touched, asked, phase, attempt, before, remaining, done>>
    BY <1>8, TakeEffectStep DEF call
  <2>2. /\ now' \in Nat /\ now' >= now /\ changed' \in [Bug -> Nat] /\ changed'[b] = now'
        /\ \A c \in Bug : c # b => changed'[c] = changed[c]
    BY <2>1, ChangeStep
  <2>3. comments'[b] > 0 /\ \A c \in Bug : comments[c] > 0 => comments'[c] > 0
    <3>1. \A c \in Bug : comments[c] \in Nat
      BY DEF TypeOK
    <3> QED
      BY <2>1, <3>1
  <2>4. phase' = "wait" => \A c \in remaining' : c \in sent'[attempt'] \/ comments'[c] > 0
    <3>1. remaining \subseteq Bug /\ attempt \in 1..Attempts
      BY DEF TypeOK
    <3>2. \A c \in sent[attempt] : c = b \/ c \in sent'[attempt]
      BY <2>1, <3>1
    <3> QED
      BY <2>1, <2>3, <3>1, <3>2 DEF Grounded
  <2>5. \A c \in Bug : before'[c] <= changed'[c] /\ changed'[c] <= now'
    <3>1. \A c \in Bug : /\ now \in Nat /\ changed[c] \in Nat
                         /\ (before[c] \in Nat \/ before[c] = Unread)
                         /\ before[c] <= changed[c] /\ changed[c] <= now
      BY DEF TypeOK, Grounded
    <3> QED
      BY <2>1, <2>2, <3>1 DEF Unread
  <2>6. \A c \in Bug : before'[c] # Unread /\ changed'[c] > before'[c]
                        => comments'[c] > 0 \/ c \in touched'
    BY <2>1, <2>2, <2>3 DEF TypeOK, Grounded
  <2>7. \A c \in shows' : comments'[c] > 0 \/ c \in touched' \/ c \in asked'.shown
    BY <2>1, <2>3 DEF TypeOK, Grounded
  <2> QED
    BY <2>4, <2>5, <2>6, <2>7 DEF Grounded
<1>9. CASE UNCHANGED vars
  BY <1>9 DEF Grounded, vars, server, call
<1>. QED
  BY <1>1, <1>2, <1>3, <1>4, <1>5, <1>6, <1>7, <1>8, <1>9 DEF Next, Client

LEMMA DoneStep == TypeOK /\ Grounded /\ DoneIsWritten /\ [Next]_vars => DoneIsWritten'
<1> SUFFICES ASSUME TypeOK, Grounded, DoneIsWritten, [Next]_vars PROVE DoneIsWritten'
  OBVIOUS
<1>1. CASE Snapshot
  BY <1>1 DEF Snapshot, DoneIsWritten
<1>2. CASE Send
  BY <1>2 DEF Send, DoneIsWritten
<1>3. CASE Accepted
  BY <1>3 DEF Accepted, TypeOK, Grounded, DoneIsWritten, server
<1>4. CASE Failed
  BY <1>4 DEF Failed, DoneIsWritten
<1>5. CASE ReadBack
  <2>1. /\ done' = done \cup {b \in remaining : Landed(b)}
        /\ UNCHANGED <<comments, touched, asked>>
    BY <1>5, ReadBackStep DEF server
  <2>2. \A b \in remaining : Landed(b) => comments[b] > 0 \/ b \in touched
                                           \/ (asked.checks /\ b \in asked.shown)
    BY DEF TypeOK, Grounded, Landed
  <2> QED
    BY <2>1, <2>2 DEF DoneIsWritten
<1>6. CASE ReadFails
  BY <1>6 DEF ReadFails, DoneIsWritten
<1>7. ASSUME NEW b \in Bug, Touch(b) PROVE DoneIsWritten'
  BY <1>7, TouchStep DEF DoneIsWritten, call
<1>8. ASSUME NEW b \in Bug, NEW n \in 1..Attempts, TakeEffect(n, b) PROVE DoneIsWritten'
  <2>1. /\ comments'[b] = comments[b] + 1
        /\ \A c \in Bug : c # b => comments'[c] = comments[c]
        /\ UNCHANGED <<touched, asked, done>>
    BY <1>8, TakeEffectStep DEF call
  <2> QED
    BY <2>1 DEF TypeOK, DoneIsWritten
<1>9. CASE UNCHANGED vars
  BY <1>9 DEF DoneIsWritten, vars, server, call
<1>. QED
  BY <1>1, <1>2, <1>3, <1>4, <1>5, <1>6, <1>7, <1>8, <1>9 DEF Next, Client

-----------------------------------------------------------------------------
(* What is known when nothing has gone wrong unseen *)

LEMMA CleanStep ==
  TypeOK /\ Grounded /\ (faults = {} => Clean) /\ [Next]_vars => (faults' = {} => Clean')
<1> SUFFICES ASSUME TypeOK, Grounded, faults = {} => Clean, [Next]_vars, faults' = {}
             PROVE  Clean'
  OBVIOUS
<1>1. CASE Snapshot
  <2>1. /\ faults = {} /\ phase = "snapshot" /\ phase' = "send"
        /\ before' = [b \in Bug |-> IF b \in remaining THEN changed[b] ELSE Unread]
        /\ UNCHANGED <<changed, comments, sent, attempt, remaining>>
    BY <1>1 DEF Snapshot
  <2>2. \A b \in Bug : comments[b] = 0 /\ changed[b] \in Nat
    BY <2>1 DEF Clean, TypeOK
  <2>3. \A b \in remaining' : before'[b] # Unread
    BY <2>1, <2>2 DEF TypeOK, Unread
  <2>4. \A n \in 1..Attempts : sent[n] = {}
    BY <2>1 DEF Clean
  <2>5. remaining' \subseteq Bug /\ \A b \in Bug : comments'[b] = 0
    BY <2>1, <2>2 DEF TypeOK
  <2>6. \A n \in 1..Attempts : sent'[n] = {}
    BY <2>1, <2>4
  <2> QED
    BY <2>1, <2>3, <2>5, <2>6 DEF Clean
<1>2. CASE Send
  <2>1. /\ faults = {} /\ phase = "send" /\ phase' = "wait" /\ sent' = [sent EXCEPT ![attempt] = remaining]
        /\ UNCHANGED <<changed, comments, attempt, before, remaining>>
    BY <1>2 DEF Send
  <2>2. Clean
    BY <2>1
  <2>3. sent \in [1..Attempts -> SUBSET Bug] /\ attempt \in 1..Attempts
    BY DEF TypeOK
  <2>4. \A n \in 1..Attempts : sent[n] = {}
    BY <2>1, <2>2 DEF Clean
  <2>5. \A n \in 1..Attempts : \A b \in sent'[n] : n = attempt /\ b \in remaining
    BY <2>1, <2>3, <2>4
  <2> QED
    BY <2>1, <2>2, <2>5 DEF Clean
<1>3. CASE Accepted
  <2>1. /\ faults = {} /\ sent[attempt] = {} /\ remaining' = {} /\ phase' = "end"
        /\ UNCHANGED <<changed, comments, sent, attempt, before>>
    BY <1>3 DEF Accepted, server
  <2> QED
    BY <2>1 DEF Clean
<1>4. CASE Failed
  <2>1. /\ faults = {} /\ phase' = "read" /\ phase = "wait"
        /\ sent' = [sent EXCEPT ![attempt] = {}]
        /\ UNCHANGED <<changed, comments, attempt, before, remaining>>
    BY <1>4 DEF Failed
  <2>2. \A n \in 1..Attempts : sent'[n] = {}
    BY <2>1 DEF Clean, TypeOK
  <2> QED
    BY <2>1, <2>2 DEF Clean
<1>5. CASE ReadBack
  <2>1. /\ remaining' = remaining \ {b \in remaining : Landed(b)}
        /\ phase = "read" /\ phase' \in {"send", "end"} /\ faults = {}
        /\ UNCHANGED <<changed, comments, sent, before>>
    BY <1>5, ReadBackStep DEF server
  <2>2. \A b \in remaining' : comments[b] = 0
    <3>1. TAKE b \in remaining'
    <3>2. b \in Bug /\ b \in remaining /\ ~Landed(b) /\ comments[b] \in Nat
      BY <2>1 DEF TypeOK
    <3>3. before[b] # Unread
      BY <2>1, <3>2 DEF Clean
    <3>4. ~(comments[b] > 0)
      BY <2>1, <3>2, <3>3 DEF Clean, Landed
    <3> QED
      BY <3>2, <3>4
  <2> QED
    BY <2>1, <2>2 DEF Clean
<1>6. CASE ReadFails
  BY <1>6 DEF ReadFails
<1>7. ASSUME NEW b \in Bug, Touch(b) PROVE Clean'
  <2>1. /\ Change(b) /\ UNCHANGED <<comments, sent, phase, attempt, before, remaining>>
    BY <1>7, TouchStep DEF call
  <2>2. /\ now' \in Nat /\ now' >= now /\ changed'[b] = now' /\ faults = {}
        /\ \A c \in Bug : c # b => changed'[c] = changed[c]
    BY <2>1, ChangeStep
  <2>3. changed[b] <= now /\ now \in Nat /\ changed[b] \in Nat
        /\ (before[b] \in Nat \/ before[b] = -1)
    BY DEF Grounded, TypeOK, Unread
  <2>4. \A c \in Bug : comments'[c] > 0 => changed'[c] > before'[c]
    BY <2>1, <2>2, <2>3 DEF Clean
  <2> QED
    BY <2>1, <2>2, <2>4 DEF Clean
<1>8. ASSUME NEW b \in Bug, NEW n \in 1..Attempts, TakeEffect(n, b) PROVE Clean'
  <2>1. /\ Change(b) /\ b \in sent[n]
        /\ comments'[b] = comments[b] + 1
        /\ \A c \in Bug : c # b => comments'[c] = comments[c]
        /\ sent'[n] = sent[n] \ {b} /\ \A m \in 1..Attempts : m # n => sent'[m] = sent[m]
        /\ UNCHANGED <<phase, attempt, before, remaining>>
    BY <1>8, TakeEffectStep DEF call
  <2>2. /\ now' \in Nat /\ now' >= now /\ changed'[b] = now' /\ faults = {} /\ now' # changed[b]
        /\ \A c \in Bug : c # b => changed'[c] = changed[c]
    BY <2>1, ChangeStep
  <2>3. before[b] <= changed[b] /\ changed[b] <= now /\ now \in Nat /\ changed[b] \in Nat
        /\ (before[b] \in Nat \/ before[b] = -1)
    BY DEF Grounded, TypeOK, Unread
  <2>4. phase = "wait" /\ n = attempt /\ comments[b] = 0
    BY <2>1, <2>2 DEF Clean
  <2>5. \A c \in Bug : comments'[c] > 0 => changed'[c] > before'[c]
    <3>1. changed'[b] > before'[b]
      BY <2>1, <2>2, <2>3
    <3> QED
      BY <2>1, <2>2, <3>1 DEF Clean
  <2>6. \A c \in Bug : comments'[c] <= 1
    BY <2>1, <2>2, <2>4 DEF Clean
  <2>7. \A m \in 1..Attempts : \A c \in sent'[m] : m = attempt /\ comments'[c] = 0
    <3>1. TAKE m \in 1..Attempts
    <3>2. TAKE c \in sent'[m]
    <3>3. c \in sent[m] /\ m = attempt /\ comments[c] = 0 /\ sent[m] \subseteq Bug
      BY <2>1, <2>2 DEF Clean, TypeOK
    <3>4. c # b
      BY <2>1, <2>4, <3>3
    <3> QED
      BY <2>1, <3>3, <3>4
  <2>8. phase' # "snapshot" => \A c \in remaining' : before'[c] # Unread
    BY <2>1, <2>2 DEF Clean
  <2> QED
    BY <2>1, <2>4, <2>5, <2>6, <2>7, <2>8 DEF Clean
<1>9. CASE UNCHANGED vars
  BY <1>9 DEF Clean, vars, server, call
<1>. QED
  BY <1>1, <1>2, <1>3, <1>4, <1>5, <1>6, <1>7, <1>8, <1>9 DEF Next, Client

-----------------------------------------------------------------------------
(* Theorems *)

\* The inductive invariant holds of every behaviour.
THEOREM Invariance == Spec => []IInv
<1>1. Init => IInv
  <2> SUFFICES ASSUME Init PROVE IInv
    OBVIOUS
  <2>1. TypeOK
    BY WriteAssumption DEF Init, TypeOK, Phase, Fault, Unread
  <2>2. Grounded
    BY DEF Init, Grounded, Unread
  <2>3. DoneIsWritten
    BY DEF Init, DoneIsWritten
  <2>4. Clean
    BY DEF Init, Clean, Unread
  <2> QED
    BY <2>1, <2>2, <2>3, <2>4 DEF IInv
<1>2. IInv /\ [Next]_vars => IInv'
  BY TypeStep, GroundedStep, DoneStep, CleanStep DEF IInv
<1> QED
  BY <1>1, <1>2, PTL DEF Spec

\* A bug reported as done has been written, or somebody changed it meanwhile, or
\* it was as asked for to begin with (update_many_verified's read back).
THEOREM DoneWritten == Spec => []DoneIsWritten
<1>1. IInv => DoneIsWritten
  BY DEF IInv
<1> QED
  BY <1>1, Invariance, PTL

\* Unless a read fails, a request takes effect late or two changes share a second,
\* no bug gets the body twice and what is reported as not done was not written.
THEOREM LandedIsKnown == Spec => []WhatLandedIsKnown
<1>1. IInv => WhatLandedIsKnown
  <2>1. TypeOK /\ Clean => WhatLandedIsKnown
    BY DEF Clean, WhatLandedIsKnown, NeverRepeated
  <2> QED
    BY <2>1 DEF IInv, WhatLandedIsKnown
<1> QED
  BY <1>1, Invariance, PTL

=============================================================================
