----------------------------- MODULE MatchState -----------------------------
(***************************************************************************)
(* The stored state of matching and the helpers every operation shares.    *)
(* Each method of SqlAlchemyPilotRepository is one database transaction;   *)
(* this module and the ones that extend it take a transaction as one step. *)
(*                                                                         *)
(* A pair is <<a, b>> in the order of _pair_key; side 1 is member_a, side  *)
(* 2 is member_b.  A proposal is identified by its pair and its round: the *)
(* n-th proposal ever created for that pair.                               *)
(***************************************************************************)
EXTENDS Integers, FiniteSets

CONSTANTS
    Users,      \* accounts of the Center
    Pairs,      \* the canonical pairs whose gender and age preferences agree
    Invited,    \* the role each account was invited with
    MaxRounds,  \* bound: proposals ever created for one pair
    None        \* no counselor

ASSUME MatchAssumption ==
    /\ Pairs \subseteq {p \in Users \X Users : p[1] # p[2]}
    /\ \A p \in Pairs : <<p[2], p[1]>> \notin Pairs
    /\ Invited \in [Users -> {"member", "counselor"}]
    /\ MaxRounds \in Nat
    /\ None \notin Users

Sides == {1, 2}
Ids == Pairs \X (1..MaxRounds)
Pair(i) == i[1]
Parts(i) == {i[1][1], i[1][2]}

\* Who may express interest in whom.
Suggestions == Pairs \cup {<<p[2], p[1]>> : p \in Pairs}
Reverse(s) == <<s[2], s[1]>>
PairOf(s) == IF s \in Pairs THEN s ELSE Reverse(s)

Roles == {"member", "counselor", "admin"}
Modes == {"counselor_based", "self_paced"}
OpenStatuses == {"pending_review", "introduced", "active"}
SafetyReasons ==
    {"member_block", "member_report", "hold_applied", "readiness_lost",
     "account_disabled"}
Reasons == SafetyReasons \cup
    {"none", "counselor_declined", "member_declined", "entitlement_lapsed",
     "community_reassigned", "member_role_changed"}

VARIABLES
    role,        \* users.role
    status,      \* users.status
    mode,        \* matching mode of the member's current community
    evidence,    \* the readiness evidence of a member, one record
    assignment,  \* current counselor assignment: counselor and row identity
    proposals,   \* match_proposals, "absent" before the row exists
    claims,      \* participant claims: rows <<proposal, member>>
    auth,        \* the latest rematch authorization of each pair
    interest,    \* self-paced interest rows by <<member, candidate>>
    flags        \* block and report rows <<kind, from, about>>

roster == <<role, status, mode, evidence, assignment>>
vars == <<role, status, mode, evidence, assignment, proposals, claims, auth,
          interest, flags>>

Evidence == [ordinary : BOOLEAN, entitled : BOOLEAN, held : BOOLEAN,
             cleared : BOOLEAN]
Assignment == [counselor : Users \cup {None}, id : Nat]
Proposal ==
    [status : OpenStatuses \cup {"absent", "closed"},
     counselors : [Sides -> Users \cup {None}],
     decisions : [Sides -> {"pending", "approved", "declined"}],
     responses : [Sides -> {"none", "accepted", "declined"}],
     introduced : BOOLEAN,
     reason : Reasons]
Authorization ==
    [status : {"absent", "pending", "approved", "consumed", "revoked"},
     bound : [Sides -> Assignment],
     ok : [Sides -> BOOLEAN]]
Interests == {"absent", "interested", "dismissed", "matched", "withdrawn"}
Flags == {"block", "report"} \X Users \X Users

Both(x) == [s \in Sides |-> x]
Absent == [status |-> "absent", counselors |-> Both(None),
           decisions |-> Both("pending"), responses |-> Both("none"),
           introduced |-> FALSE, reason |-> "none"]

SignedIn(u, r) == status[u] = "active" /\ role[u] = r

\* Mutant: holds are forgotten.
EligibleUnlessHeld(m) ==
    evidence[m].ordinary /\ evidence[m].entitled /\ evidence[m].cleared

\* ReadinessEvaluator.evaluate: every ordinary requirement and no hold.
Eligible(m) == /\ evidence[m].ordinary
               /\ evidence[m].entitled
               /\ evidence[m].cleared
               /\ ~evidence[m].held

\* Mutant: one member is looked at.
FirstReady(i) == Eligible(i[1][1])

\* _pair_ready
PairReady(i) == \A m \in Parts(i) : Eligible(m)

OpenIds == {i \in Ids : proposals[i].status \in OpenStatuses}
\* Mutant: closed proposals count as well.
EverOf(ms) ==
    {i \in Ids : proposals[i].status # "absent" /\ Parts(i) \cap ms # {}}

OpenOf(ms) == {i \in OpenIds : Parts(i) \cap ms # {}}

\* The next proposal of a pair: every earlier round of it exists already.
IsNext(i) ==
    /\ proposals[i].status = "absent"
    /\ \A j \in Ids :
          Pair(j) = Pair(i) /\ j[2] < i[2] => proposals[j].status # "absent"

History(p) == \E i \in Ids : Pair(i) = p /\ proposals[i].status # "absent"

SafetyHistory(p) ==
    \/ \E f \in flags : {f[2], f[3]} = {p[1], p[2]}
    \/ \E i \in Ids : Pair(i) = p /\ proposals[i].reason \in SafetyReasons

\* Mutant: a reason the table does not know.
LossReasonUnlisted(m) ==
    IF evidence[m].held THEN "hold_applied" ELSE "readiness_lapsed"

LossReason(m) == IF evidence[m].held THEN "hold_applied" ELSE "readiness_lost"

\* Mutant: claims are kept.
CloseAllKeepingClaims(S, reason) ==
    /\ proposals' = [i \in Ids |->
          IF i \in S
          THEN [proposals[i] EXCEPT !.status = "closed", !.reason = reason[i]]
          ELSE proposals[i]]
    /\ UNCHANGED claims

\* _close_proposal on every proposal of S: status and reason, claims released.
CloseAll(S, reason) ==
    /\ proposals' = [i \in Ids |->
          IF i \in S
          THEN [proposals[i] EXCEPT !.status = "closed", !.reason = reason[i]]
          ELSE proposals[i]]
    /\ claims' = {c \in claims : c[1] \notin S}

\* Mutant: only the first member is claimed.
ClaimsOfFirst(new) == {c \in new \X Users : c[2] = Pair(c[1])[1]}

\* _claim_proposal_participants of the proposals new.
ClaimsOf(new) == {c \in new \X Users : c[2] \in Parts(c[1])}

\* _withdraw_self_paced_interests, in both directions, for the members ms.
Withdraw(ms) ==
    interest' = [s \in Suggestions |->
        IF /\ s[1] \in ms \/ s[2] \in ms
           /\ interest[s] \in {"interested", "dismissed"}
        THEN "withdrawn"
        ELSE interest[s]]

\* Mutant: what is still under review is left open.
CloseIntroducedFor(m, reason) ==
    /\ CloseAll({i \in OpenOf({m}) : proposals[i].introduced}, [i \in Ids |-> reason])
    /\ Withdraw({m})

\* _close_open_proposals_for_member
CloseOpenFor(m, reason) ==
    /\ CloseAll(OpenOf({m}), [i \in Ids |-> reason])
    /\ Withdraw({m})

\* Mutant: only a hold closes proposals.
ReevaluateHolds(m) ==
    IF ~evidence'[m].held
    THEN UNCHANGED <<proposals, claims, interest>>
    ELSE CloseOpenFor(m, "hold_applied")

\* _reevaluate, after the step has fixed evidence'.
Reevaluate(m) ==
    IF Eligible(m)'
    THEN UNCHANGED <<proposals, claims, interest>>
    ELSE CloseOpenFor(m, LossReason(m)')

Live(p) == auth[p].status \in {"pending", "approved"}

\* Mutant: pending authorizations are not revoked.
RevokeApprovedWhere(stale) ==
    auth' = [p \in Pairs |->
        IF auth[p].status = "approved" /\ p \in stale
        THEN [auth[p] EXCEPT !.status = "revoked"]
        ELSE auth[p]]

RevokeWhere(stale) ==
    auth' = [p \in Pairs |->
        IF Live(p) /\ p \in stale THEN [auth[p] EXCEPT !.status = "revoked"]
                                  ELSE auth[p]]

PairsOf(m) == {p \in Pairs : m \in {p[1], p[2]}}

\* The live authorization is bound to both current assignments.
BoundNow(p) == \A s \in Sides : auth[p].bound[s] = assignment[p[s]]

\* An approved authorization that still stands.
Usable(p) == /\ auth[p].status = "approved"
             /\ BoundNow(p)
             /\ \A s \in Sides :
                   /\ auth[p].ok[s]
                   /\ auth[p].bound[s].counselor # None
                   /\ SignedIn(auth[p].bound[s].counselor, "counselor")

\* _approved_rematch_authorizations revokes every approved one that no longer
\* stands; those of the pairs consumed are then used up.
SweepAuthorizations(consumed) ==
    auth' = [p \in Pairs |->
        IF auth[p].status # "approved" THEN auth[p]
        ELSE IF p \in consumed THEN [auth[p] EXCEPT !.status = "consumed"]
        ELSE IF Usable(p) THEN auth[p]
        ELSE [auth[p] EXCEPT !.status = "revoked"]]
=============================================================================
