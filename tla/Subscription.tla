---------------------------- MODULE Subscription ----------------------------
(***************************************************************************)
(* What a subscription promises whoever sends it events: as far as its     *)
(* status, the provider's clock and the receipts go, every event is taken  *)
(* or noted in one indivisible step, at most once, and none is put aside   *)
(* that brings a newer status, but for a failed payment.                   *)
(***************************************************************************)
EXTENDS Integers

CONSTANT Events

VARIABLES
    says,     \* per event its kind, its time and the status it gives
    status,   \* of the subscription
    clock,    \* time of the last event taken
    outcome   \* of each event: "none" until it is known, "taken" or "noted"

Start ==
    /\ status = "absent"
    /\ clock = 0
    /\ outcome = [e \in Events |-> "none"]

\* The event gives the subscription its status and its clock.
Take(e) ==
    /\ outcome[e] = "none"
    /\ says[e].gives # "nothing"
    /\ clock <= says[e].time
    /\ status' = says[e].gives
    /\ clock' = says[e].time
    /\ outcome' = [outcome EXCEPT ![e] = "taken"]

\* The event is known and changes nothing.
Note(e) ==
    /\ outcome[e] = "none"
    /\ \/ says[e].gives = "nothing"
       \/ says[e].time < clock
       \/ says[e].kind = "payment_failed"
    /\ outcome' = [outcome EXCEPT ![e] = "noted"]
    /\ UNCHANGED <<status, clock>>

\* An administrator decides; the clock is the provider's.
Correct ==
    /\ status' \in {"suspended", "complimentary"}
    /\ UNCHANGED <<clock, outcome>>

Move ==
    /\ Correct \/ \E e \in Events : Take(e) \/ Note(e)
    /\ UNCHANGED says

Promise == Start /\ [][Move]_<<says, status, clock, outcome>>
=============================================================================
