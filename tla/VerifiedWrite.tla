---------------------------- MODULE VerifiedWrite ----------------------------
(***************************************************************************)
(* BzClient::update_many_verified (crates/sandogasa-bugzilla/src/          *)
(* client.rs), the write under every tool that comments on, closes or      *)
(* reassigns bugs.  A request that fails may have been applied, to all of  *)
(* its bugs or to some, so the bugs are read back, and only those that     *)
(* show no sign of the change are asked for again.                         *)
(*                                                                         *)
(* A bug is told apart by the time of its last change and by whether its   *)
(* status, resolution and assignee are the ones the body asks for.  What   *)
(* the body says besides is a comment, of which a bug keeps every copy.    *)
(***************************************************************************)
EXTENDS Integers, FiniteSets

CONSTANTS
  Bug,
  Attempts,      \* of one write
  MaxTime        \* bound: the last second

ASSUME WriteAssumption == Attempts \in Nat \ {0} /\ MaxTime \in Nat

VARIABLES
  now,
  changed,       \* when each bug last changed
  shows,         \* the bugs whose fields are the ones asked for
  comments,      \* how often each bug has been given the body
  touched,       \* the bugs that others have changed since the call
  asked,         \* the bugs of the call, those that already showed it, and
                 \* whether the body sets a field that a read can check
  sent,          \* by attempt: the bugs it may still take effect on
  faults,        \* what has gone wrong that the call cannot see
  \* The call.
  phase, attempt, before, remaining, done

server == <<now, changed, shows, comments, touched, sent, faults>>
call   == <<phase, attempt, before, remaining, done>>
vars   == <<server, asked, call>>

Unread == -1     \* the snapshot has no time for the bug

\* A read that fails, a request that takes effect after it has failed, and two
\* changes of a bug in one second.
Fault == {"unread", "late", "same second"}

-----------------------------------------------------------------------------
(* The call *)

\* bugs(ids): when the snapshot fails the call goes on without one.
Snapshot ==
  /\ phase = "snapshot"
  /\ \/ /\ before' = [b \in Bug |-> IF b \in remaining THEN changed[b] ELSE Unread]
        /\ UNCHANGED faults
     \/ UNCHANGED before /\ faults' = faults \cup {"unread"}
  /\ phase' = "send"
  /\ UNCHANGED <<now, changed, shows, comments, touched, sent, asked, attempt, remaining, done>>

Send ==
  /\ phase = "send"
  /\ sent' = [sent EXCEPT ![attempt] = remaining]
  /\ phase' = "wait"
  /\ UNCHANGED <<now, changed, shows, comments, touched, faults, asked, attempt, before, remaining, done>>

\* update_many returns Ok: every bug of the request has the change.
Accepted ==
  /\ phase = "wait" /\ sent[attempt] = {}
  /\ done' = done \cup remaining /\ remaining' = {}
  /\ phase' = "end"
  /\ UNCHANGED <<server, asked, attempt, before>>

\* Or it fails, whatever has become of the request.
Failed ==
  /\ phase = "wait"
  /\ \/ sent' = [sent EXCEPT ![attempt] = {}] /\ UNCHANGED faults
     \/ sent[attempt] # {} /\ faults' = faults \cup {"late"} /\ UNCHANGED sent
  /\ phase' = "read"
  /\ UNCHANGED <<now, changed, shows, comments, touched, asked, attempt, before, remaining, done>>

\* Mutant: a change in the second of the snapshot counts.
LandedSameSecond(b) ==
  \/ before[b] # Unread /\ changed[b] >= before[b]
  \/ asked.checks /\ b \in shows

\* Mutant: only the fields are looked at.
LandedByFields(b) == asked.checks /\ b \in shows

\* Mutant: a bug the snapshot has no time for has changed.
LandedUnread(b) ==
  \/ before[b] = Unread \/ changed[b] > before[b]
  \/ asked.checks /\ b \in shows

\* What the read back takes for the change: any change since the snapshot, or
\* the fields asked for (satisfies).
Landed(b) ==
  \/ before[b] # Unread /\ changed[b] > before[b]
  \/ asked.checks /\ b \in shows

\* Mutant: the attempts are not counted.
AgainForever ==
  attempt' = attempt /\ phase' = "send"

\* The rest are asked for again while attempts are left.
Again ==
  IF attempt < Attempts THEN attempt' = attempt + 1 /\ phase' = "send"
                        ELSE phase' = "end" /\ UNCHANGED attempt

ReadBack ==
  /\ phase = "read"
  /\ LET landed == {b \in remaining : Landed(b)} IN
     /\ remaining' = remaining \ landed
     /\ done' = done \cup landed
  /\ IF remaining' = {} THEN phase' = "end" /\ UNCHANGED attempt ELSE Again
  /\ UNCHANGED <<server, asked, before>>

\* A read back that fails is left out.
ReadFails ==
  /\ phase = "read"
  /\ Again
  /\ faults' = faults \cup {"unread"}
  /\ UNCHANGED <<now, changed, shows, comments, touched, sent, asked, before, remaining, done>>

-----------------------------------------------------------------------------
(* Bugzilla and its other users *)

Change(b) ==
  /\ now' \in {now, now + 1} /\ now' <= MaxTime
  /\ changed' = [changed EXCEPT ![b] = now']
  /\ faults' = IF now' = changed[b] THEN faults \cup {"same second"} ELSE faults

\* A request takes effect on one of its bugs.
TakeEffect(n, b) ==
  /\ b \in sent[n]
  /\ Change(b)
  /\ comments' = [comments EXCEPT ![b] = @ + 1]
  /\ shows' = shows \cup {b}
  /\ sent' = [sent EXCEPT ![n] = @ \ {b}]
  /\ UNCHANGED <<touched, asked, call>>

\* Somebody else changes a bug, perhaps to or from what was asked for.
Touch(b) ==
  /\ phase # "end" /\ b \notin touched
  /\ Change(b)
  /\ \E s \in {shows \cup {b}, shows \ {b}} : shows' = s
  /\ touched' = touched \cup {b}
  /\ UNCHANGED <<comments, sent, asked, call>>

-----------------------------------------------------------------------------
Init ==
  /\ now = 0 /\ changed = [b \in Bug |-> 0] /\ shows \in SUBSET Bug
  /\ comments = [b \in Bug |-> 0] /\ touched = {}
  /\ sent = [n \in 1..Attempts |-> {}] /\ faults = {}
  /\ remaining \in SUBSET Bug \ {{}}
  /\ asked \in [of : {remaining}, shown : {shows}, checks : BOOLEAN]
  /\ phase = "snapshot" /\ attempt = 1 /\ before = [b \in Bug |-> Unread]
  /\ done = {}

Client == Snapshot \/ Send \/ Accepted \/ Failed \/ ReadBack \/ ReadFails

Next ==
  \/ Client
  \/ \E b \in Bug : Touch(b) \/ \E n \in 1..Attempts : TakeEffect(n, b)

\* The client never waits for more than an answer or its timeout.
Spec == Init /\ [][Next]_vars /\ WF_vars(Client)

-----------------------------------------------------------------------------
(* Properties *)

Phase == {"snapshot", "send", "wait", "read", "end"}

TypeOK ==
  /\ now \in Nat /\ changed \in [Bug -> Nat] /\ shows \subseteq Bug
  /\ comments \in [Bug -> Nat] /\ touched \subseteq Bug
  /\ asked \in [of : SUBSET Bug, shown : SUBSET Bug, checks : BOOLEAN]
  /\ sent \in [1..Attempts -> SUBSET Bug] /\ faults \subseteq Fault
  /\ phase \in Phase /\ attempt \in 1..Attempts
  /\ before \in [Bug -> Nat \cup {Unread}]
  /\ remaining \subseteq Bug /\ done \subseteq Bug

\* "A request the server processed but the client lost is neither counted as
\* failed nor repeated, which would duplicate its comment" (update_many_verified).
NeverRepeated == \A b \in Bug : comments[b] <= 1

\* So it is unless a read fails, a request takes effect after it has failed, or
\* two changes of a bug share a second: no bug gets the body twice, and what the
\* caller is told could not be confirmed was not written.
WhatLandedIsKnown ==
  faults = {} => /\ NeverRepeated
                 /\ phase = "end" => \A b \in remaining : comments[b] = 0

\* What is reported as done was written, unless somebody else changed the bug
\* meanwhile or it was as asked for to begin with.
DoneIsWritten ==
  \A b \in done : comments[b] > 0 \/ b \in touched
                  \/ (asked.checks /\ b \in asked.shown)

\* Every call ends, however often the service fails.
EveryCallEnds == <>(phase = "end")
=============================================================================
