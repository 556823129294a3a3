----------------------------- MODULE Engagement -----------------------------
(***************************************************************************)
(* What matching promises, whatever opens and closes a proposal: every     *)
(* person is free or engaged in one open bond, the bonds between the same  *)
(* two people come one after the other, a bond moves forward stage by      *)
(* stage, and a closed bond stays closed.                                  *)
(***************************************************************************)
EXTENDS Integers

CONSTANTS
    Bonds,    \* every bond there can be
    Between,  \* the two people of a bond
    Earlier   \* the bonds between the same people that come before it

VARIABLE stage

Open == {b \in Bonds : stage[b] \in {"pending_review", "introduced", "active"}}

\* b may start once the bonds in gone have ended.
MayStart(b, gone) ==
    /\ stage[b] = "absent"
    /\ \A d \in Earlier[b] : stage[d] = "closed" \/ d \in gone
    /\ \A d \in Open \ gone : Between[b] \cap Between[d] = {}

Start == stage = [b \in Bonds |-> "absent"]

\* Bonds end, and new ones are proposed between people who are free then.
Turnover(gone, new) ==
    /\ gone \subseteq Open
    /\ \A b \in new : MayStart(b, gone)
    /\ \A b, d \in new : b # d => Between[b] \cap Between[d] = {}
    /\ stage' = [b \in Bonds |-> IF b \in gone THEN "closed"
                                 ELSE IF b \in new THEN "pending_review"
                                 ELSE stage[b]]

\* Both introduced: review ended well.  Both accepted: a match.
Advance(b) ==
    \/ /\ stage[b] = "pending_review"
       /\ stage' = [stage EXCEPT ![b] = "introduced"]
    \/ /\ stage[b] = "introduced"
       /\ stage' = [stage EXCEPT ![b] = "active"]

\* Two people found each other without a counselor.
Match(b) ==
    /\ MayStart(b, {})
    /\ stage' = [stage EXCEPT ![b] = "active"]

Move ==
    \/ \E gone \in SUBSET Open, new \in SUBSET {b \in Bonds : stage[b] = "absent"} :
          Turnover(gone, new)
    \/ \E b \in Bonds : Advance(b) \/ Match(b)

Promise == Start /\ [][Move]_stage
=============================================================================
