--------------------------- MODULE CoverageLedger ---------------------------
(***************************************************************************)
(* What koji-lag's store promises about its build listing, with no pages,  *)
(* cursors or spans in it (tools/koji-lag/src/store.rs and sync.rs).       *)
(*                                                                         *)
(* `claimed` is the set of creation instants the store vouches for, `held` *)
(* the builds it has rows for.  Rows arrive at any time; an instant may be *)
(* vouched for only when it lies in the past and everything created in it  *)
(* is held.  Nothing is ever withdrawn.                                    *)
(***************************************************************************)
EXTENDS Naturals

CONSTANT Build

VARIABLES created, now, held, claimed

vars == <<created, now, held, claimed>>

Init == held = {} /\ claimed = {}

Pass == /\ now' > now
        /\ UNCHANGED <<created, held, claimed>>

Hold == /\ held \subseteq held'
        /\ held' \subseteq held \cup {b \in Build : created[b] < now}
        /\ UNCHANGED <<created, now, claimed>>

Vouch == /\ claimed \subseteq claimed'
         /\ \A t \in claimed' \ claimed :
              t < now /\ \A b \in Build : created[b] = t => b \in held
         /\ UNCHANGED <<created, now, held>>

Next == Pass \/ Hold \/ Vouch

Spec == Init /\ [][Next]_vars
=============================================================================
