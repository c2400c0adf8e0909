----------------------------- MODULE MCKojiSync -----------------------------
(***************************************************************************)
(* Small instances of KojiSync.                                            *)
(***************************************************************************)
EXTENDS KojiSync

MCBuild == 1..3
MCFour == 1..4
MCMidnights == {4, 6, 8}
MCStarts == {6}

\* One child of each kind per build.
TwoKids == kids = [b \in Build |-> 2]

\* The oldest build predates every window, as on any hub that has been running
\* for longer than the grace.
LongRunning == created[1] = 0

MCInit == TwoKids /\ SyncInit /\ LongRunning

MCSpec == MCInit /\ [][SyncNext]_syncVars

\* Every run goes to its end.
UninterruptedSpec == MCInit /\ [][Step]_syncVars

\* Two builds of the first window's end and one after it, on pages of one.
EdgeOfTheWindow == created = <<0, 5, 5, 7>>
EdgeInit == EdgeOfTheWindow /\ MCInit

EdgeSpec == EdgeInit /\ [][Step]_syncVars
=============================================================================
