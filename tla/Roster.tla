------------------------------- MODULE Roster -------------------------------
(***************************************************************************)
(* Accounts, roles, counselor assignments, communities and the evidence    *)
(* that decides readiness: the operations of Member Operations, of the     *)
(* counselor on a member, of a member's own onboarding, of the webhooks    *)
(* that change evidence, and the passing of time.                          *)
(***************************************************************************)
EXTENDS MatchState

matching == <<proposals, claims, interest>>

\* resolve_identity of an active account whose email joined the allow-list.
GrantAdmin(u) ==
    /\ status[u] = "active"
    /\ role[u] # "admin"
    /\ role' = [role EXCEPT ![u] = "admin"]
    /\ UNCHANGED <<status, mode, evidence, assignment, auth, flags, matching>>

\* ... and of one whose email left it: back to the role of the invitation.
RevokeAdmin(u) ==
    /\ SignedIn(u, "admin")
    /\ role' = [role EXCEPT ![u] = Invited[u]]
    /\ UNCHANGED <<status, mode, evidence, assignment, auth, flags, matching>>

\* disable_account, by another active administrator.
DisableAccount(u) ==
    /\ status[u] = "active"
    /\ status' = [status EXCEPT ![u] = "disabled"]
    /\ \/ /\ role[u] = "member"
          /\ CloseOpenFor(u, "account_disabled")
          /\ RevokeWhere(PairsOf(u))
       \/ /\ role[u] = "counselor"
          /\ RevokeWhere({p \in Pairs :
                \E s \in Sides : auth[p].bound[s].counselor = u})
          /\ UNCHANGED matching
       \/ /\ role[u] = "admin"
          /\ UNCHANGED <<auth, matching>>
    /\ UNCHANGED <<role, mode, evidence, assignment, flags>>

ReactivateAccount(u) ==
    /\ status[u] = "disabled"
    /\ status' = [status EXCEPT ![u] = "active"]
    /\ UNCHANGED <<role, mode, evidence, assignment, auth, flags, matching>>

\* An expiry passes (assessment, counselor decision, screening, period or
\* grace end, a new consent version): no handler runs.
Expire(m) ==
    /\ \E field \in {"ordinary", "entitled", "cleared"} :
          /\ evidence[m][field]
          /\ evidence' = [evidence EXCEPT ![m][field] = FALSE]
    /\ UNCHANGED <<role, status, mode, assignment, auth, flags, matching>>

\* A handler that sets one piece of evidence of a member and re-evaluates.
SetEvidence(m, field, value) ==
    /\ role[m] = "member"
    /\ evidence' = [evidence EXCEPT ![m][field] = value]
    /\ Reevaluate(m)
    /\ UNCHANGED <<role, status, mode, assignment, auth, flags>>

\* save_profile, accept_consent, submit_assessment, screening events, ...
UpdateOrdinary(m) == \E value \in BOOLEAN : SetEvidence(m, "ordinary", value)

\* grant, suspend, and every applied billing webhook.
UpdateEntitlement(m) == \E value \in BOOLEAN : SetEvidence(m, "entitled", value)

ApplyHold(m) == ~evidence[m].held /\ SetEvidence(m, "held", TRUE)
ReleaseHold(m) == evidence[m].held /\ SetEvidence(m, "held", FALSE)

\* record_counselor_decision, by the counselor of the current assignment.
RecordCounselorDecision(c, m) ==
    /\ SignedIn(c, "counselor")
    /\ assignment[m].counselor = c
    /\ \E approved \in BOOLEAN : SetEvidence(m, "cleared", approved)

\* get_progress, list_members and the other readers that re-evaluate.
ReadProgress(m) ==
    /\ role[m] = "member"
    /\ UNCHANGED evidence
    /\ Reevaluate(m)
    /\ UNCHANGED <<role, status, mode, assignment, auth, flags>>

\* A new assignment row has no decision yet, so the member is not cleared.
AssignCounselor(m, c) ==
    /\ role[m] = "member"
    /\ role[c] = "counselor"
    /\ assignment[m].counselor # c
    /\ assignment' = [assignment EXCEPT
          ![m] = [counselor |-> c, id |-> assignment[m].id + 1]]
    /\ evidence' = [evidence EXCEPT ![m].cleared = FALSE]
    /\ RevokeWhere(PairsOf(m))
    /\ Reevaluate(m)
    /\ UNCHANGED <<role, status, mode, flags>>

\* reassign_member_to_counselor
MemberToCounselor(m) ==
    /\ role[m] = "member"
    /\ role' = [role EXCEPT ![m] = "counselor"]
    /\ assignment' = [assignment EXCEPT ![m].counselor = None]
    /\ evidence' = [evidence EXCEPT ![m].cleared = FALSE]
    /\ IF assignment[m].counselor # None THEN RevokeWhere(PairsOf(m))
                                         ELSE UNCHANGED auth
    /\ CloseOpenFor(m, "member_role_changed")
    /\ UNCHANGED <<status, mode, flags>>

\* reassign_counselor_to_member: the screening of the new member expires.
CounselorToMember(c) ==
    /\ role[c] = "counselor"
    /\ \A m \in Users : assignment[m].counselor # c
    /\ \A i \in Ids : proposals[i].status = "pending_review" =>
          \A s \in Sides : ~ /\ proposals[i].counselors[s] = c
                             /\ proposals[i].decisions[s] = "pending"
    /\ role' = [role EXCEPT ![c] = "member"]
    /\ evidence' = [evidence EXCEPT ![c].ordinary = FALSE]
    /\ Reevaluate(c)
    /\ UNCHANGED <<status, mode, assignment, auth, flags>>

\* assign_community: refused while introduced or active.  Its closing
\* _reevaluate finds nothing left to close or withdraw.
AssignCommunity(m, target) ==
    LET pending == OpenOf({m}) IN
    /\ role[m] = "member"
    /\ mode[m] # target
    /\ \A i \in pending : proposals[i].status = "pending_review"
    /\ mode' = [mode EXCEPT ![m] = target]
    /\ CloseAll(pending, [i \in Ids |-> "community_reassigned"])
    /\ Withdraw({m})
    /\ RevokeWhere(PairsOf(m))
    /\ UNCHANGED <<role, status, evidence, assignment, flags>>

RosterNext ==
    \/ \E u \in Users :
          \/ GrantAdmin(u) \/ RevokeAdmin(u)
          \/ DisableAccount(u) \/ ReactivateAccount(u)
          \/ Expire(u) \/ UpdateOrdinary(u) \/ UpdateEntitlement(u)
          \/ ApplyHold(u) \/ ReleaseHold(u)
          \/ MemberToCounselor(u) \/ CounselorToMember(u)
          \/ \E c \in Users :
                AssignCounselor(u, c) \/ RecordCounselorDecision(c, u)
          \/ \E target \in Modes : AssignCommunity(u, target)
=============================================================================
