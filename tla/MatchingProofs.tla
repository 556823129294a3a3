--------------------------- MODULE MatchingProofs ---------------------------
(***************************************************************************)
(* Proofs about Matching for every Center, every set of pairs and every    *)
(* number of rounds.                                                       *)
(***************************************************************************)
EXTENDS Matching, TLAPS

\* The two members of a proposal are accounts of the Center.
LEMMA PartsInUsers ==
    ASSUME NEW i \in Ids
    PROVE  /\ Pair(i) \in Pairs
           /\ i[1] \in Pairs
           /\ \A s \in Sides : Pair(i)[s] \in Users
           /\ Parts(i) \subseteq Users
BY MatchAssumption DEF Ids, Pair, Parts, Sides

-----------------------------------------------------------------------------
(* Type correctness.                                                       *)

TypeProposals == proposals \in [Ids -> Proposal] /\ claims \in SUBSET (Ids \X Users)

LEMMA CloseAllType ==
    ASSUME TypeProposals, NEW S, NEW reason,
           \A i \in S : reason[i] \in Reasons,
           CloseAll(S, reason)
    PROVE  TypeProposals'
<1>1. proposals' \in [Ids -> Proposal]
  <2>1. SUFFICES ASSUME NEW i \in Ids, i \in S
                 PROVE  [proposals[i] EXCEPT !.status = "closed", !.reason = reason[i]]
                           \in Proposal
    BY DEF CloseAll, TypeProposals
  <2>. QED  BY <2>1 DEF Proposal, TypeProposals
<1>2. claims' \in SUBSET (Ids \X Users)
  BY DEF CloseAll, TypeProposals
<1>. QED  BY <1>1, <1>2 DEF TypeProposals

LEMMA WithdrawType ==
    ASSUME interest \in [Suggestions -> Interests], NEW ms, Withdraw(ms)
    PROVE  interest' \in [Suggestions -> Interests]
BY DEF Withdraw, Interests

LEMMA RevokeType ==
    ASSUME auth \in [Pairs -> Authorization], NEW S, RevokeWhere(S)
    PROVE  auth' \in [Pairs -> Authorization]
BY DEF RevokeWhere, Authorization

LEMMA LossReasonType ==
    ASSUME NEW m
    PROVE  LossReason(m) \in Reasons
BY DEF LossReason, Reasons, SafetyReasons

LEMMA CloseOpenForType ==
    ASSUME TypeProposals, interest \in [Suggestions -> Interests],
           NEW m, NEW reason \in Reasons, CloseOpenFor(m, reason)
    PROVE  TypeProposals' /\ interest' \in [Suggestions -> Interests]
<1>. DEFINE why == [i \in Ids |-> reason]
<1>1. \A i \in OpenOf({m}) : why[i] \in Reasons
  BY DEF OpenOf, OpenIds
<1>. HIDE DEF why
<1>2. CloseAll(OpenOf({m}), why) /\ Withdraw({m})
  BY DEF CloseOpenFor, why
<1>. QED  BY <1>1, <1>2, CloseAllType, WithdrawType

LEMMA ReevaluateType ==
    ASSUME TypeProposals, interest \in [Suggestions -> Interests],
           NEW m, Reevaluate(m)
    PROVE  TypeProposals' /\ interest' \in [Suggestions -> Interests]
<1>1. CASE UNCHANGED <<proposals, claims, interest>>
  BY <1>1 DEF TypeProposals
<1>2. CASE CloseOpenFor(m, LossReason(m)')
  <2>1. LossReason(m)' \in Reasons
    BY DEF LossReason, Reasons, SafetyReasons
  <2>. QED  BY <1>2, <2>1, CloseOpenForType
<1>. QED  BY <1>1, <1>2 DEF Reevaluate

LEMMA TypeUnfold ==
    ASSUME TypeOK
    PROVE  TypeProposals
BY DEF TypeOK, TypeProposals

LEMMA TypeFold ==
    ASSUME role' \in [Users -> Roles], status' \in [Users -> {"active", "disabled"}],
           mode' \in [Users -> Modes], evidence' \in [Users -> Evidence],
           assignment' \in [Users -> Assignment], TypeProposals',
           auth' \in [Pairs -> Authorization],
           interest' \in [Suggestions -> Interests], flags' \in SUBSET Flags
    PROVE  TypeOK'
BY DEF TypeOK, TypeProposals

\* Changing one piece of a member's evidence keeps it a readiness record.
LEMMA EvidenceType ==
    ASSUME evidence \in [Users -> Evidence], NEW m \in Users,
           NEW field \in {"ordinary", "entitled", "cleared", "held"},
           NEW value \in BOOLEAN,
           evidence' = [evidence EXCEPT ![m][field] = value]
    PROVE  evidence' \in [Users -> Evidence]
BY DEF Evidence

LEMMA SetEvidenceType ==
    ASSUME TypeOK, NEW m \in Users,
           NEW field \in {"ordinary", "entitled", "cleared", "held"},
           NEW value \in BOOLEAN, SetEvidence(m, field, value)
    PROVE  TypeOK'
<1>1. evidence' \in [Users -> Evidence]
  BY EvidenceType DEF SetEvidence, TypeOK
<1>2. TypeProposals' /\ interest' \in [Suggestions -> Interests]
  BY TypeUnfold, ReevaluateType DEF SetEvidence, TypeOK
<1>. QED  BY <1>1, <1>2, TypeFold DEF SetEvidence, TypeOK

LEMMA RosterType ==
    ASSUME TypeOK, RosterNext
    PROVE  TypeOK'
<1>. USE TypeUnfold
<1>1. ASSUME NEW u \in Users, GrantAdmin(u) PROVE TypeOK'
  BY <1>1 DEF GrantAdmin, matching, TypeOK, Roles
<1>2. ASSUME NEW u \in Users, RevokeAdmin(u) PROVE TypeOK'
  BY <1>2, MatchAssumption DEF RevokeAdmin, matching, TypeOK, Roles
<1>3. ASSUME NEW u \in Users, DisableAccount(u) PROVE TypeOK'
  <2>1. status' \in [Users -> {"active", "disabled"}]
    BY <1>3 DEF DisableAccount, TypeOK
  <2>2. CASE CloseOpenFor(u, "account_disabled") /\ RevokeWhere(PairsOf(u))
    <3>1. "account_disabled" \in Reasons  BY DEF Reasons, SafetyReasons
    <3>2. TypeProposals' /\ interest' \in [Suggestions -> Interests]
      BY <2>2, <3>1, CloseOpenForType DEF TypeOK
    <3>3. auth' \in [Pairs -> Authorization]
      BY <2>2, RevokeType DEF TypeOK
    <3>. QED  BY <1>3, <2>1, <3>2, <3>3, TypeFold DEF DisableAccount, TypeOK
  <2>3. CASE /\ RevokeWhere({p \in Pairs : \E s \in Sides : auth[p].bound[s].counselor = u})
             /\ UNCHANGED matching
    <3>1. auth' \in [Pairs -> Authorization]
      BY <2>3, RevokeType DEF TypeOK
    <3>. QED  BY <1>3, <2>1, <2>3, <3>1 DEF DisableAccount, matching, TypeOK
  <2>4. CASE UNCHANGED <<auth, matching>>
    BY <1>3, <2>1, <2>4 DEF DisableAccount, matching, TypeOK
  <2>. QED  BY <1>3, <2>2, <2>3, <2>4 DEF DisableAccount
<1>4. ASSUME NEW u \in Users, ReactivateAccount(u) PROVE TypeOK'
  BY <1>4 DEF ReactivateAccount, matching, TypeOK
<1>5. ASSUME NEW u \in Users, Expire(u) PROVE TypeOK'
  <2>1. evidence' \in [Users -> Evidence]
    BY <1>5, EvidenceType DEF Expire, TypeOK
  <2>. QED  BY <1>5, <2>1 DEF Expire, matching, TypeOK
<1>6. ASSUME NEW u \in Users, UpdateOrdinary(u) PROVE TypeOK'
  BY <1>6, SetEvidenceType DEF UpdateOrdinary
<1>7. ASSUME NEW u \in Users, UpdateEntitlement(u) PROVE TypeOK'
  BY <1>7, SetEvidenceType DEF UpdateEntitlement
<1>8. ASSUME NEW u \in Users, ApplyHold(u) \/ ReleaseHold(u) PROVE TypeOK'
  BY <1>8, SetEvidenceType DEF ApplyHold, ReleaseHold
<1>9. ASSUME NEW u \in Users, NEW c \in Users, RecordCounselorDecision(c, u)
      PROVE  TypeOK'
  BY <1>9, SetEvidenceType DEF RecordCounselorDecision
<1>10. ASSUME NEW u \in Users, NEW c \in Users, AssignCounselor(u, c) PROVE TypeOK'
  <2>1. evidence' \in [Users -> Evidence]
    BY <1>10 DEF AssignCounselor, TypeOK, Evidence
  <2>2. assignment' \in [Users -> Assignment]
    BY <1>10 DEF AssignCounselor, TypeOK, Assignment
  <2>3. TypeProposals' /\ interest' \in [Suggestions -> Interests]
    BY <1>10, ReevaluateType DEF AssignCounselor, TypeOK
  <2>4. auth' \in [Pairs -> Authorization]
    BY <1>10, RevokeType DEF AssignCounselor, TypeOK
  <2>. QED  BY <1>10, <2>1, <2>2, <2>3, <2>4, TypeFold DEF AssignCounselor, TypeOK
<1>11. ASSUME NEW u \in Users, MemberToCounselor(u) PROVE TypeOK'
  <2>1. /\ evidence' \in [Users -> Evidence]
        /\ assignment' \in [Users -> Assignment]
        /\ role' \in [Users -> Roles]
    BY <1>11 DEF MemberToCounselor, TypeOK, Evidence, Assignment, Roles
  <2>2. "member_role_changed" \in Reasons  BY DEF Reasons
  <2>3. TypeProposals' /\ interest' \in [Suggestions -> Interests]
    BY <1>11, <2>2, CloseOpenForType DEF MemberToCounselor, TypeOK
  <2>4. auth' \in [Pairs -> Authorization]
    BY <1>11, RevokeType DEF MemberToCounselor, TypeOK
  <2>. QED  BY <1>11, <2>1, <2>3, <2>4, TypeFold DEF MemberToCounselor, TypeOK
<1>12. ASSUME NEW u \in Users, CounselorToMember(u) PROVE TypeOK'
  <2>1. /\ evidence' \in [Users -> Evidence]
        /\ role' \in [Users -> Roles]
    BY <1>12 DEF CounselorToMember, TypeOK, Evidence, Roles
  <2>2. TypeProposals' /\ interest' \in [Suggestions -> Interests]
    BY <1>12, ReevaluateType DEF CounselorToMember, TypeOK
  <2>. QED  BY <1>12, <2>1, <2>2, TypeFold DEF CounselorToMember, TypeOK
<1>13. ASSUME NEW u \in Users, NEW target \in Modes, AssignCommunity(u, target)
       PROVE  TypeOK'
  <2>. DEFINE why == [i \in Ids |-> "community_reassigned"]
  <2>1. \A i \in OpenOf({u}) : why[i] \in Reasons
    BY DEF OpenOf, OpenIds, Reasons
  <2>. HIDE DEF why
  <2>2. TypeProposals'
    BY <1>13, <2>1, CloseAllType DEF AssignCommunity, why
  <2>3. interest' \in [Suggestions -> Interests]
    BY <1>13, WithdrawType DEF AssignCommunity, TypeOK
  <2>4. auth' \in [Pairs -> Authorization]
    BY <1>13, RevokeType DEF AssignCommunity, TypeOK
  <2>5. mode' \in [Users -> Modes]
    BY <1>13 DEF AssignCommunity, TypeOK
  <2>. QED  BY <1>13, <2>2, <2>3, <2>4, <2>5, TypeFold DEF AssignCommunity, TypeOK
<1>. QED  BY <1>1, <1>2, <1>3, <1>4, <1>5, <1>6, <1>7, <1>8, <1>9, <1>10, <1>11,
             <1>12, <1>13 DEF RosterNext

LEMMA ProposalFields ==
    ASSUME TypeOK, NEW i \in Ids, NEW s \in Sides,
           NEW st \in OpenStatuses \cup {"closed"}, NEW why \in Reasons,
           NEW yes \in BOOLEAN,
           NEW ds \in [Sides -> {"pending", "approved", "declined"}],
           NEW answer \in {"accepted", "declined"}
    PROVE  /\ [proposals[i] EXCEPT !.decisions = ds] \in Proposal
           /\ [[proposals[i] EXCEPT !.decisions = ds] EXCEPT
                   !.status = st, !.reason = why] \in Proposal
           /\ [[proposals[i] EXCEPT !.decisions = ds] EXCEPT
                   !.status = st, !.introduced = yes] \in Proposal
           /\ [proposals[i] EXCEPT !.responses[s] = answer] \in Proposal
           /\ [[proposals[i] EXCEPT !.responses[s] = answer] EXCEPT
                   !.status = st, !.reason = why] \in Proposal
           /\ [[proposals[i] EXCEPT !.responses[s] = answer] EXCEPT
                   !.status = st] \in Proposal
<1>1. proposals[i] \in Proposal
  BY DEF TypeOK
<1>2. [proposals[i] EXCEPT !.decisions = ds] \in Proposal
  BY <1>1 DEF Proposal
<1>3. [proposals[i] EXCEPT !.responses[s] = answer] \in Proposal
  BY <1>1 DEF Proposal
<1>4. \A r \in Proposal :
         /\ [r EXCEPT !.status = st, !.reason = why] \in Proposal
         /\ [r EXCEPT !.status = st, !.introduced = yes] \in Proposal
         /\ [r EXCEPT !.status = st] \in Proposal
  BY DEF Proposal
<1>. QED  BY <1>2, <1>3, <1>4

LEMMA NewProposalType ==
    ASSUME TypeOK, NEW i \in Ids
    PROVE  NewProposal(i) \in Proposal
<1>1. Absent \in Proposal
  BY DEF Absent, Both, Proposal, Reasons, Sides
<1>2. \A s \in Sides : assignment[Pair(i)[s]].counselor \in Users \cup {None}
  BY PartsInUsers DEF TypeOK, Assignment
<1>. QED  BY <1>1, <1>2 DEF NewProposal, Proposal, OpenStatuses

LEMMA SweepType ==
    ASSUME auth \in [Pairs -> Authorization], NEW S, SweepAuthorizations(S)
    PROVE  auth' \in [Pairs -> Authorization]
BY DEF SweepAuthorizations, Authorization

LEMMA GenerateType ==
    ASSUME TypeOK, GenerateCandidates
    PROVE  TypeOK'
<1>1. PICK reason \in [Lost -> LossReasons], new \in SUBSET Ids : Generate(reason, new)
  BY DEF GenerateCandidates, Admissible
<1>2. Lost \subseteq Ids
  BY DEF Lost, OpenOf, OpenIds
<1>3. proposals' \in [Ids -> Proposal]
  <2>1. ASSUME NEW i \in Lost
        PROVE  [proposals[i] EXCEPT !.status = "closed", !.reason = reason[i]]
                  \in Proposal
    <3>1. reason[i] \in Reasons
      BY DEF LossReasons, Reasons, SafetyReasons
    <3>2. proposals[i] \in Proposal
      BY <1>2 DEF TypeOK
    <3>. QED  BY <3>1, <3>2 DEF Proposal
  <2>2. \A i \in Ids : proposals[i] \in Proposal
    BY DEF TypeOK
  <2>3. \A i \in new : NewProposal(i) \in Proposal
    BY NewProposalType
  <2>. QED  BY <1>1, <2>1, <2>2, <2>3 DEF Generate
<1>4. claims' \in SUBSET (Ids \X Users)
  BY <1>1 DEF Generate, ClaimsOf, TypeOK
<1>5. auth' \in [Pairs -> Authorization]
  BY <1>1, SweepType DEF Generate, TypeOK
<1>6. interest' \in [Suggestions -> Interests]
  BY <1>1, WithdrawType DEF Generate, TypeOK
<1>7. UNCHANGED <<roster, flags>>
  BY <1>1 DEF Generate
<1>. QED  BY <1>3, <1>4, <1>5, <1>6, <1>7 DEF TypeOK, roster

LEMMA ReconcileType ==
    ASSUME TypeOK, NEW i \in Ids, AccessLapsed(i)
    PROVE  TypeOK'
<1>. DEFINE lapsed == {m \in Parts(i) : ~Eligible(m)}
            first == IF Pair(i)[1] \in lapsed THEN Pair(i)[1] ELSE Pair(i)[2]
            entitlement == [j \in Ids |-> "entitlement_lapsed"]
            loss == [j \in Ids |-> LossReason(first)]
<1>1. /\ \A j \in {i} : entitlement[j] \in Reasons
      /\ \A j \in {i} \cup OpenOf(lapsed) : loss[j] \in Reasons
  BY LossReasonType DEF Reasons, OpenOf, OpenIds
<1>2. \/ CloseAll({i}, entitlement) /\ UNCHANGED interest
      \/ CloseAll({i} \cup OpenOf(lapsed), loss) /\ Withdraw(lapsed)
  BY DEF AccessLapsed, Reconcile
<1>. HIDE DEF lapsed, first, entitlement, loss
<1>3. TypeProposals' /\ interest' \in [Suggestions -> Interests]
  BY <1>1, <1>2, TypeUnfold, CloseAllType, WithdrawType DEF TypeOK
<1>. QED  BY <1>3, TypeFold DEF AccessLapsed, roster, TypeOK

LEMMA ReviewType ==
    ASSUME TypeOK, NEW c \in Users, NEW i \in Ids,
           NEW decision \in {"approved", "declined"}, ReviewCandidate(c, i, decision)
    PROVE  TypeOK'
<1>. DEFINE ds == [s \in Sides |-> IF s \in {t \in Sides : proposals[i].counselors[t] = c}
                                   THEN decision ELSE proposals[i].decisions[s]]
<1>1. ds \in [Sides -> {"pending", "approved", "declined"}]
  BY DEF TypeOK, Proposal
<1>2. PICK r \in Proposal : proposals' = [proposals EXCEPT ![i] = r]
  <2>1. \/ proposals' = [proposals EXCEPT ![i] =
              [[proposals[i] EXCEPT !.decisions = ds] EXCEPT
                  !.status = "closed", !.reason = "counselor_declined"]]
        \/ proposals' = [proposals EXCEPT ![i] = [proposals[i] EXCEPT !.decisions = ds]]
        \/ proposals' = [proposals EXCEPT ![i] =
              [[proposals[i] EXCEPT !.decisions = ds] EXCEPT
                  !.status = "introduced", !.introduced = TRUE]]
    BY DEF ReviewCandidate
  <2>. HIDE DEF ds
  <2>2. /\ "closed" \in OpenStatuses \cup {"closed"}
        /\ "introduced" \in OpenStatuses \cup {"closed"}
        /\ "counselor_declined" \in Reasons
        /\ 1 \in Sides
    BY DEF OpenStatuses, Reasons, Sides
  <2>. QED  BY <1>1, <2>1, <2>2, ProposalFields
<1>3. proposals' \in [Ids -> Proposal] /\ claims' \in SUBSET (Ids \X Users)
  BY <1>2 DEF ReviewCandidate, TypeOK
<1>. QED  BY <1>3 DEF ReviewCandidate, roster, TypeOK

LEMMA RespondType ==
    ASSUME TypeOK, NEW i \in Ids, NEW s \in Sides,
           NEW decision \in {"accepted", "declined"},
           RespondToIntroduction(i, s, decision)
    PROVE  TypeOK'
<1>1. PICK r \in Proposal : proposals' = [proposals EXCEPT ![i] = r]
  <2>1. \/ proposals' = [proposals EXCEPT ![i] =
              [[proposals[i] EXCEPT !.responses[s] = decision] EXCEPT
                  !.status = "closed", !.reason = "member_declined"]]
        \/ proposals' = [proposals EXCEPT ![i] =
              [proposals[i] EXCEPT !.responses[s] = decision]]
        \/ proposals' = [proposals EXCEPT ![i] =
              [[proposals[i] EXCEPT !.responses[s] = decision] EXCEPT
                  !.status = "active"]]
    BY DEF RespondToIntroduction
  <2>2. /\ "closed" \in OpenStatuses \cup {"closed"}
        /\ "active" \in OpenStatuses \cup {"closed"}
        /\ "member_declined" \in Reasons
        /\ proposals[i].decisions \in [Sides -> {"pending", "approved", "declined"}]
    BY DEF OpenStatuses, Reasons, TypeOK, Proposal
  <2>. QED  BY <2>1, <2>2, ProposalFields
<1>2. proposals' \in [Ids -> Proposal] /\ claims' \in SUBSET (Ids \X Users)
  BY <1>1 DEF RespondToIntroduction, TypeOK
<1>. QED  BY <1>2 DEF RespondToIntroduction, roster, TypeOK

LEMMA FlagType ==
    ASSUME TypeOK, NEW kind \in {"block", "report"}, NEW s \in Suggestions,
           Flag(kind, s)
    PROVE  TypeOK'
<1>. DEFINE why == [i \in Ids |-> IF kind = "block" THEN "member_block"
                                                    ELSE "member_report"]
<1>1. PICK latest \in Ids : CloseAll({latest} \cap OpenIds, why)
  BY DEF Flag, Existing
<1>2. \A i \in {latest} \cap OpenIds : why[i] \in Reasons
  BY DEF OpenIds, Reasons, SafetyReasons
<1>. HIDE DEF why
<1>3. TypeProposals'
  BY <1>1, <1>2, TypeUnfold, CloseAllType
<1>4. flags' \in SUBSET Flags
  <2>1. s[1] \in Users /\ s[2] \in Users
    BY MatchAssumption DEF Suggestions
  <2>. QED  BY <2>1 DEF Flag, Flags, TypeOK
<1>. QED  BY <1>3, <1>4, TypeFold DEF Flag, roster, TypeOK

LEMMA RematchType ==
    ASSUME TypeOK, RematchNext
    PROVE  TypeOK'
<1>1. ASSUME NEW p \in Pairs, RequestRematch(p) PROVE TypeOK'
  <2>1. \A s \in Sides : assignment[p[s]] \in Assignment
    BY MatchAssumption DEF Sides, TypeOK
  <2>2. auth' \in [Pairs -> Authorization]
    <3>1. [status |-> "pending", bound |-> [s \in Sides |-> assignment[p[s]]],
           ok |-> Both(FALSE)] \in Authorization
      BY <2>1 DEF Authorization, Both
    <3>. QED  BY <1>1, <3>1 DEF RequestRematch, TypeOK
  <2>. QED  BY <1>1, <2>2 DEF RequestRematch, roster, TypeOK
<1>2. ASSUME NEW p \in Pairs, NEW s \in Sides, ApproveRematch(p, s) PROVE TypeOK'
  <2>1. CASE RevokeWhere({p})
    <3>1. auth' \in [Pairs -> Authorization]
      BY <2>1, RevokeType DEF TypeOK
    <3>. QED  BY <1>2, <3>1 DEF ApproveRematch, roster, TypeOK
  <2>. DEFINE ok == [auth[p].ok EXCEPT ![s] = TRUE]
              st == IF ok = Both(TRUE) THEN "approved" ELSE "pending"
  <2>2. CASE auth' = [auth EXCEPT ![p] = [auth[p] EXCEPT !.ok = ok, !.status = st]]
    <3>1. ok \in [Sides -> BOOLEAN] /\ st \in {"approved", "pending"}
      BY DEF TypeOK, Authorization
    <3>. HIDE DEF ok, st
    <3>2. [auth[p] EXCEPT !.ok = ok, !.status = st] \in Authorization
      BY <3>1 DEF TypeOK, Authorization
    <3>3. auth' \in [Pairs -> Authorization]
      BY <2>2, <3>2 DEF TypeOK
    <3>. QED  BY <1>2, <3>3 DEF ApproveRematch, roster, TypeOK
  <2>. QED  BY <1>2, <2>1, <2>2 DEF ApproveRematch
<1>3. CASE CandidateGenerationDiagnostics
  BY <1>3, SweepType DEF CandidateGenerationDiagnostics, roster, TypeOK
<1>. QED  BY <1>1, <1>2, <1>3 DEF RematchNext

LEMMA SelfPacedType ==
    ASSUME TypeOK, SelfPacedNext
    PROVE  TypeOK'
<1>1. ASSUME NEW s \in Suggestions, NEW choice \in {"interested", "dismissed"},
             ExpressAlone(s, choice)
      PROVE  TypeOK'
  <2>1. interest' \in [Suggestions -> Interests]
    BY <1>1 DEF ExpressAlone, TypeOK, Interests
  <2>2. auth' \in [Pairs -> Authorization]
    BY <1>1, SweepType DEF ExpressAlone, TypeOK
  <2>. QED  BY <1>1, <2>1, <2>2 DEF ExpressAlone, roster, TypeOK
<1>2. ASSUME NEW s \in Suggestions, ExpressMutual(s) PROVE TypeOK'
  <2>1. PICK i \in Ids :
          /\ proposals' = [proposals EXCEPT ![i] = SelfPacedProposal]
          /\ claims' = claims \cup ClaimsOf({i})
          /\ SweepAuthorizations(IF History(Pair(i)) THEN {Pair(i)} ELSE {})
    BY <1>2 DEF ExpressMutual
  <2>2. SelfPacedProposal \in Proposal
    BY DEF SelfPacedProposal, Proposal, Both, OpenStatuses, Reasons
  <2>3. proposals' \in [Ids -> Proposal]
    BY <2>1, <2>2 DEF TypeOK
  <2>5. claims' \in SUBSET (Ids \X Users)
    BY <2>1 DEF ClaimsOf, TypeOK
  <2>6. auth' \in [Pairs -> Authorization]
    BY <2>1, SweepType DEF TypeOK
  <2>7. interest' \in [Suggestions -> Interests]
    BY <1>2 DEF ExpressMutual, TypeOK, Interests
  <2>. QED  BY <1>2, <2>3, <2>5, <2>6, <2>7 DEF ExpressMutual, roster, TypeOK
<1>. QED  BY <1>1, <1>2 DEF SelfPacedNext

LEMMA TypeInit == Init => TypeOK
<1>. SUFFICES ASSUME Init PROVE TypeOK
  OBVIOUS
<1>1. role \in [Users -> Roles]
  BY MatchAssumption DEF Init, Roles
<1>2. evidence \in [Users -> Evidence]
  BY DEF Init, Evidence
<1>3. assignment \in [Users -> Assignment]
  BY DEF Init, Assignment
<1>4. proposals \in [Ids -> Proposal]
  BY DEF Init, Proposal, Absent, Both, Reasons
<1>5. auth \in [Pairs -> Authorization]
  BY DEF Init, Authorization, Both, Assignment
<1>. QED  BY <1>1, <1>2, <1>3, <1>4, <1>5 DEF Init, TypeOK, Interests

LEMMA TypeStep == TypeOK /\ [Next]_vars => TypeOK'
<1>. SUFFICES ASSUME TypeOK, [Next]_vars PROVE TypeOK'
  OBVIOUS
<1>1. CASE RosterNext
  BY <1>1, RosterType
<1>2. CASE IntroductionsNext
  BY <1>2, GenerateType, ReconcileType, ReviewType, RespondType, FlagType
  DEF IntroductionsNext, BlockMember, ReportMember
<1>3. CASE RematchNext
  BY <1>3, RematchType
<1>4. CASE SelfPacedNext
  BY <1>4, SelfPacedType
<1>5. ASSUME NEW u \in Users, ReadProgress(u) PROVE TypeOK'
  <2>1. TypeProposals' /\ interest' \in [Suggestions -> Interests]
    BY <1>5, TypeUnfold, ReevaluateType DEF ReadProgress, TypeOK
  <2>. QED  BY <1>5, <2>1, TypeFold DEF ReadProgress, TypeOK
<1>6. CASE UNCHANGED vars
  BY <1>6 DEF vars, TypeOK
<1>. QED  BY <1>1, <1>2, <1>3, <1>4, <1>5, <1>6 DEF Next, MatchNext

\* Whatever the Center, every stored value keeps its type.
THEOREM TypeCorrect == Spec => []TypeOK
BY TypeInit, TypeStep, PTL DEF Spec

-----------------------------------------------------------------------------
(* Every transaction is one of three kinds of step on the proposals: a     *)
(* turnover, the advance of one proposal, or a self-paced match.  Both the *)
(* exclusivity of proposals and the refinement follow from the kinds.      *)

Released(lost) == {c \in claims : c[1] \notin lost}

Turns(lost, new) ==
    /\ lost \subseteq OpenIds
    /\ new \subseteq {i \in Ids : IsNext(i)}
    /\ Disjoint(new)
    /\ ClaimsFree(new, lost)
    /\ \A i \in Ids :
          proposals'[i].status = IF i \in lost THEN "closed"
                                 ELSE IF i \in new THEN "pending_review"
                                 ELSE proposals[i].status
    /\ \A i \in Ids : proposals[i].status = "closed" => proposals'[i] = proposals[i]
    /\ claims' = Released(lost) \cup ClaimsOf(new)

Moves(i) ==
    /\ i \in Ids
    /\ <<proposals[i].status, proposals'[i].status>> \in
          {<<"pending_review", "introduced">>, <<"introduced", "active">>}
    /\ \A j \in Ids \ {i} : proposals'[j] = proposals[j]
    /\ claims' = claims

Joins(i) ==
    /\ i \in Ids
    /\ IsNext(i)
    /\ ClaimsFree({i}, {})
    /\ proposals'[i].status = "active"
    /\ \A j \in Ids \ {i} : proposals'[j] = proposals[j]
    /\ claims' = claims \cup ClaimsOf({i})

Kind == (\E lost, new : Turns(lost, new)) \/ (\E i : Moves(i) \/ Joins(i))

LEMMA StillKind ==
    ASSUME TypeOK, UNCHANGED <<proposals, claims>>
    PROVE  Kind
<1>1. Turns({}, {})
  BY DEF Turns, Disjoint, ClaimsFree, Released, ClaimsOf, TypeOK
<1>. QED  BY <1>1 DEF Kind

LEMMA CloseAllKind ==
    ASSUME TypeOK, NEW S, S \subseteq OpenIds, NEW reason, CloseAll(S, reason)
    PROVE  Kind
<1>1. \A i \in Ids : proposals[i] \in Proposal
  BY DEF TypeOK
<1>2. \A i \in Ids : i \in S => proposals'[i].status = "closed"
  BY <1>1 DEF CloseAll, Proposal
<1>3. \A i \in Ids : i \notin S => proposals'[i] = proposals[i]
  BY DEF CloseAll
<1>4. \A i \in S : proposals[i].status # "closed"
  BY DEF OpenIds, OpenStatuses
<1>5. claims' = Released(S) \cup ClaimsOf({})
  BY DEF CloseAll, Released, ClaimsOf
<1>6. Turns(S, {})
  BY <1>2, <1>3, <1>4, <1>5 DEF Turns, Disjoint, ClaimsFree
<1>. QED  BY <1>6 DEF Kind

LEMMA CloseOpenForKind ==
    ASSUME TypeOK, NEW m, NEW reason, CloseOpenFor(m, reason)
    PROVE  Kind
<1>1. OpenOf({m}) \subseteq OpenIds
  BY DEF OpenOf
<1>. QED  BY <1>1, CloseAllKind DEF CloseOpenFor

LEMMA ReevaluateKind ==
    ASSUME TypeOK, NEW m, Reevaluate(m)
    PROVE  Kind
BY StillKind, CloseOpenForKind DEF Reevaluate

LEMMA RosterKind ==
    ASSUME TypeOK, RosterNext
    PROVE  Kind
<1>1. ASSUME NEW u \in Users,
             GrantAdmin(u) \/ RevokeAdmin(u) \/ ReactivateAccount(u) \/ Expire(u)
      PROVE  Kind
  BY <1>1, StillKind DEF GrantAdmin, RevokeAdmin, ReactivateAccount, Expire, matching
<1>2. ASSUME NEW u \in Users, DisableAccount(u) PROVE Kind
  BY <1>2, StillKind, CloseOpenForKind DEF DisableAccount, matching
<1>3. ASSUME NEW u \in Users, NEW field, NEW value, SetEvidence(u, field, value)
      PROVE  Kind
  BY <1>3, ReevaluateKind DEF SetEvidence
<1>4. ASSUME NEW u \in Users,
             \/ UpdateOrdinary(u) \/ UpdateEntitlement(u) \/ ApplyHold(u)
             \/ ReleaseHold(u) \/ \E c \in Users : RecordCounselorDecision(c, u)
      PROVE  Kind
  BY <1>3, <1>4 DEF UpdateOrdinary, UpdateEntitlement, ApplyHold, ReleaseHold,
                    RecordCounselorDecision
<1>5. ASSUME NEW u \in Users,
             \/ MemberToCounselor(u) \/ CounselorToMember(u)
             \/ \E c \in Users : AssignCounselor(u, c)
      PROVE  Kind
  BY <1>5, ReevaluateKind, CloseOpenForKind
  DEF MemberToCounselor, CounselorToMember, AssignCounselor
<1>6. ASSUME NEW u \in Users, NEW target \in Modes, AssignCommunity(u, target)
      PROVE  Kind
  <2>1. OpenOf({u}) \subseteq OpenIds
    BY DEF OpenOf
  <2>. QED  BY <1>6, <2>1, CloseAllKind DEF AssignCommunity
<1>. QED  BY <1>1, <1>2, <1>4, <1>5, <1>6 DEF RosterNext

LEMMA GenerateKind ==
    ASSUME TypeOK, GenerateCandidates
    PROVE  Kind
<1>1. PICK reason \in [Lost -> LossReasons], new \in SUBSET Ids :
        /\ \A i \in new : IsNext(i)
        /\ Disjoint(new)
        /\ ClaimsFree(new, Lost)
        /\ Generate(reason, new)
  BY DEF GenerateCandidates, Admissible
<1>2. Lost \subseteq OpenIds
  BY DEF Lost, OpenOf
<1>3. \A i \in Ids : proposals[i] \in Proposal
  BY DEF TypeOK
<1>4. /\ \A i \in Lost : proposals[i].status \in OpenStatuses
      /\ \A i \in new : proposals[i].status = "absent"
      /\ "absent" \notin OpenStatuses /\ "closed" \notin OpenStatuses
  BY <1>1, <1>2 DEF OpenIds, OpenStatuses, IsNext
<1>5. /\ \A i \in new : proposals'[i].status = "pending_review"
      /\ \A i \in Lost : i \in Ids => proposals'[i].status = "closed"
      /\ \A i \in Ids : i \notin new /\ i \notin Lost => proposals'[i] = proposals[i]
  <2>1. ASSUME NEW i \in new PROVE proposals'[i].status = "pending_review"
    <3>. i \in Ids /\ i \notin Lost
      BY <1>1, <1>4, <2>1
    <3>1. proposals'[i] = NewProposal(i)
      BY <1>1, <2>1 DEF Generate
    <3>2. NewProposal(i).status = "pending_review"
      BY DEF NewProposal, Absent
    <3>. QED  BY <3>1, <3>2
  <2>2. ASSUME NEW i \in Lost, i \in Ids PROVE proposals'[i].status = "closed"
    <3>1. i \notin new
      BY <1>4
    <3>2. proposals'[i] = [proposals[i] EXCEPT !.status = "closed",
                                               !.reason = reason[i]]
      BY <1>1, <2>2, <3>1 DEF Generate
    <3>. QED  BY <1>3, <2>2, <3>2 DEF Proposal
  <2>. QED  BY <1>1, <2>1, <2>2 DEF Generate
<1>6. claims' = Released(Lost) \cup ClaimsOf(new)
  BY <1>1 DEF Generate, Released, ClaimsOf
<1>7. Turns(Lost, new)
  <2>1. new \subseteq {i \in Ids : IsNext(i)}
    BY <1>1
  <2>2. \A i \in Ids : proposals'[i].status = IF i \in Lost THEN "closed"
                                 ELSE IF i \in new THEN "pending_review"
                                 ELSE proposals[i].status
    BY <1>5
  <2>3. \A i \in Ids : proposals[i].status = "closed" => proposals'[i] = proposals[i]
    BY <1>4, <1>5
  <2>. QED  BY <1>1, <1>2, <1>6, <2>1, <2>2, <2>3 DEF Turns
<1>. QED  BY <1>7 DEF Kind

\* A step that rewrites one open proposal and keeps it open at its stage, or
\* closes it and releases its claims.
LEMMA OneKind ==
    ASSUME TypeOK, NEW i \in OpenIds, NEW r, proposals' = [proposals EXCEPT ![i] = r],
           \/ r.status = "closed" /\ claims' = {c \in claims : c[1] # i}
           \/ r.status = proposals[i].status /\ claims' = claims
           \/ /\ <<proposals[i].status, r.status>> \in
                    {<<"pending_review", "introduced">>, <<"introduced", "active">>}
              /\ claims' = claims
    PROVE  Kind
<1>1. /\ i \in Ids
      /\ proposals[i].status # "closed"
      /\ proposals'[i] = r
      /\ \A j \in Ids \ {i} : proposals'[j] = proposals[j]
  BY DEF OpenIds, OpenStatuses, TypeOK
<1>2. CASE r.status = "closed" /\ claims' = {c \in claims : c[1] # i}
  <2>1. claims' = Released({i}) \cup ClaimsOf({})
    BY <1>2 DEF Released, ClaimsOf
  <2>2. \A j \in Ids : proposals'[j].status = IF j \in {i} THEN "closed"
                                 ELSE IF j \in {} THEN "pending_review"
                                 ELSE proposals[j].status
    BY <1>1, <1>2
  <2>3. \A j \in Ids : proposals[j].status = "closed" => proposals'[j] = proposals[j]
    BY <1>1
  <2>4. Disjoint({}) /\ ClaimsFree({}, {i})
    BY DEF Disjoint, ClaimsFree
  <2>5. Turns({i}, {})
    BY <2>1, <2>2, <2>3, <2>4 DEF Turns
  <2>. QED  BY <2>5 DEF Kind
<1>3. CASE r.status = proposals[i].status /\ claims' = claims
  <2>1. claims' = Released({}) \cup ClaimsOf({})
    BY <1>3 DEF Released, ClaimsOf
  <2>2. Turns({}, {})
    BY <1>1, <1>3, <2>1 DEF Turns, Disjoint, ClaimsFree
  <2>. QED  BY <2>2 DEF Kind
<1>4. CASE /\ <<proposals[i].status, r.status>> \in
                    {<<"pending_review", "introduced">>, <<"introduced", "active">>}
           /\ claims' = claims
  <2>1. Moves(i)
    BY <1>1, <1>4 DEF Moves
  <2>. QED  BY <2>1 DEF Kind
<1>. QED  BY <1>2, <1>3, <1>4

LEMMA ReviewKind ==
    ASSUME TypeOK, NEW c \in Users, NEW i \in Ids,
           NEW decision \in {"approved", "declined"}, ReviewCandidate(c, i, decision)
    PROVE  Kind
<1>. DEFINE ds == [s \in Sides |-> IF s \in {t \in Sides : proposals[i].counselors[t] = c}
                                   THEN decision ELSE proposals[i].decisions[s]]
            reviewed == [proposals[i] EXCEPT !.decisions = ds]
            closed == [reviewed EXCEPT !.status = "closed",
                                       !.reason = "counselor_declined"]
            introduced == [reviewed EXCEPT !.status = "introduced",
                                           !.introduced = TRUE]
<1>1. \/ proposals' = [proposals EXCEPT ![i] = closed]
            /\ claims' = {r \in claims : r[1] # i}
      \/ proposals' = [proposals EXCEPT ![i] = reviewed] /\ claims' = claims
      \/ proposals' = [proposals EXCEPT ![i] = introduced] /\ claims' = claims
  BY DEF ReviewCandidate
<1>2. proposals[i] \in Proposal /\ proposals[i].status = "pending_review"
  BY DEF ReviewCandidate, TypeOK
<1>3. i \in OpenIds
  BY <1>2 DEF OpenIds, OpenStatuses
<1>4. /\ reviewed.status = "pending_review"
      /\ closed.status = "closed"
      /\ introduced.status = "introduced"
  <2>. HIDE DEF ds
  <2>. QED  BY <1>2 DEF Proposal
<1>. HIDE DEF reviewed, closed, introduced
<1>. QED  BY <1>1, <1>2, <1>3, <1>4, OneKind

LEMMA RespondKind ==
    ASSUME TypeOK, NEW i \in Ids, NEW s \in Sides,
           NEW decision \in {"accepted", "declined"},
           RespondToIntroduction(i, s, decision)
    PROVE  Kind
<1>. DEFINE answered == [proposals[i] EXCEPT !.responses[s] = decision]
            closed == [answered EXCEPT !.status = "closed", !.reason = "member_declined"]
            active == [answered EXCEPT !.status = "active"]
<1>1. \/ proposals' = [proposals EXCEPT ![i] = closed]
            /\ claims' = {r \in claims : r[1] # i}
      \/ proposals' = [proposals EXCEPT ![i] = answered] /\ claims' = claims
      \/ proposals' = [proposals EXCEPT ![i] = active] /\ claims' = claims
  BY DEF RespondToIntroduction
<1>2. proposals[i] \in Proposal /\ proposals[i].status = "introduced"
  BY DEF RespondToIntroduction, TypeOK
<1>3. i \in OpenIds
  BY <1>2 DEF OpenIds, OpenStatuses
<1>4. /\ answered.status = "introduced"
      /\ closed.status = "closed"
      /\ active.status = "active"
  BY <1>2 DEF Proposal
<1>. HIDE DEF answered, closed, active
<1>. QED  BY <1>1, <1>2, <1>3, <1>4, OneKind

LEMMA IntroductionsKind ==
    ASSUME TypeOK, IntroductionsNext
    PROVE  Kind
<1>1. ASSUME NEW i \in Ids, AccessLapsed(i) PROVE Kind
  <2>1. i \in OpenIds
    BY <1>1 DEF AccessLapsed
  <2>2. \A ms : {i} \cup OpenOf(ms) \subseteq OpenIds
    BY <2>1 DEF OpenOf
  <2>3. \E S, reason : S \subseteq OpenIds /\ CloseAll(S, reason)
    BY <1>1, <2>1, <2>2 DEF AccessLapsed, Reconcile
  <2>. QED  BY <2>3, CloseAllKind
<1>2. ASSUME NEW kind, NEW s, Flag(kind, s) PROVE Kind
  <2>1. \E latest, reason : CloseAll({latest} \cap OpenIds, reason)
    BY <1>2 DEF Flag
  <2>. QED  BY <2>1, CloseAllKind
<1>. QED  BY <1>1, <1>2, GenerateKind, ReviewKind, RespondKind
          DEF IntroductionsNext, BlockMember, ReportMember

LEMMA SuggestionOfPair ==
    ASSUME NEW s \in Suggestions, NEW i \in Ids, Pair(i) = PairOf(s)
    PROVE  Parts(i) = {s[1], s[2]} /\ s[1] \in Users /\ s[2] \in Users
BY MatchAssumption DEF Suggestions, PairOf, Reverse, Pair, Parts, Ids

LEMMA SelfPacedKind ==
    ASSUME TypeOK, SelfPacedNext
    PROVE  Kind
<1>1. ASSUME NEW s, NEW choice, ExpressAlone(s, choice) PROVE Kind
  BY <1>1, StillKind DEF ExpressAlone
<1>2. ASSUME NEW s \in Suggestions, ExpressMutual(s) PROVE Kind
  <2>1. PICK i \in Ids :
          /\ Pair(i) = PairOf(s)
          /\ IsNext(i)
          /\ proposals' = [proposals EXCEPT ![i] = SelfPacedProposal]
          /\ claims' = claims \cup ClaimsOf({i})
    BY <1>2 DEF ExpressMutual
  <2>2. Parts(i) = {s[1], s[2]} /\ s[1] \in Users /\ s[2] \in Users
    BY <2>1, SuggestionOfPair
  <2>4. ClaimsFree({i}, {})
    BY <1>2, <2>2 DEF ExpressMutual, ClaimsFree
  <2>5. /\ proposals'[i].status = "active"
        /\ \A j \in Ids \ {i} : proposals'[j] = proposals[j]
    BY <2>1 DEF TypeOK, SelfPacedProposal
  <2>6. Joins(i)
    BY <2>1, <2>4, <2>5 DEF Joins
  <2>. QED  BY <2>6 DEF Kind
<1>. QED  BY <1>1, <1>2 DEF SelfPacedNext

LEMMA StepKind == TypeOK /\ [Next]_vars => Kind
<1>. SUFFICES ASSUME TypeOK, [Next]_vars PROVE Kind
  OBVIOUS
<1>1. CASE RematchNext
  BY <1>1, StillKind
  DEF RematchNext, RequestRematch, ApproveRematch, CandidateGenerationDiagnostics
<1>2. ASSUME NEW u \in Users, ReadProgress(u) PROVE Kind
  BY <1>2, ReevaluateKind DEF ReadProgress
<1>3. CASE UNCHANGED vars
  BY <1>3, StillKind DEF vars
<1>. QED  BY <1>1, <1>2, <1>3, RosterKind, IntroductionsKind, SelfPacedKind
          DEF Next, MatchNext

-----------------------------------------------------------------------------
(* Exclusivity.  Neither half is inductive alone: that a new proposal is   *)
(* disjoint from the open ones is only checked against the claims, and     *)
(* that the claims are those of the open proposals says nothing of two     *)
(* open proposals sharing a member.                                        *)

Exclusive == ClaimsMatchOpen /\ OneOpenPerMember

\* A claimed proposal shares no member with one that found its claims free.
LEMMA FreeOfClaims ==
    ASSUME TypeOK, Exclusive, NEW lost, NEW new \in SUBSET Ids, ClaimsFree(new, lost),
           NEW i \in OpenIds \ lost, NEW j \in new
    PROVE  Parts(i) \cap Parts(j) = {}
<1>. SUFFICES ASSUME NEW m \in Parts(i) \cap Parts(j) PROVE FALSE
  OBVIOUS
<1>1. i \in Ids /\ m \in Users
  BY PartsInUsers DEF OpenIds
<1>2. <<i, m>> \in claims
  BY <1>1 DEF Exclusive, ClaimsMatchOpen
<1>. QED  BY <1>2 DEF ClaimsFree

LEMMA ExclusiveTurn ==
    ASSUME TypeOK, Exclusive, NEW lost, NEW new, Turns(lost, new)
    PROVE  Exclusive'
<1>1. /\ lost \subseteq OpenIds
      /\ new \in SUBSET Ids
      /\ \A i \in new : proposals[i].status = "absent"
      /\ Disjoint(new)
      /\ ClaimsFree(new, lost)
      /\ claims' = Released(lost) \cup ClaimsOf(new)
  BY DEF Turns, IsNext
<1>2. new \cap lost = {}
  BY <1>1 DEF OpenIds, OpenStatuses
<1>3. OpenIds' = (OpenIds \ lost) \cup new
  BY <1>1, <1>2 DEF Turns, OpenIds, OpenStatuses
<1>4. OneOpenPerMember'
  <2>. SUFFICES ASSUME NEW i \in OpenIds', NEW j \in OpenIds', i # j
                PROVE  Parts(i) \cap Parts(j) = {}
    BY DEF OneOpenPerMember, Parts
  <2>1. CASE i \in new /\ j \in new
    BY <2>1, <1>1 DEF Disjoint
  <2>2. CASE i \in OpenIds \ lost /\ j \in OpenIds \ lost
    BY <2>2 DEF Exclusive, OneOpenPerMember
  <2>3. CASE i \in OpenIds \ lost /\ j \in new
    BY <2>3, <1>1, FreeOfClaims
  <2>4. CASE i \in new /\ j \in OpenIds \ lost
    BY <2>4, <1>1, FreeOfClaims
  <2>. QED  BY <1>3, <2>1, <2>2, <2>3, <2>4
<1>5. ClaimsMatchOpen'
  <2>1. claims = {c \in Ids \X Users : c[1] \in OpenIds /\ c[2] \in Parts(c[1])}
    BY DEF Exclusive, ClaimsMatchOpen
  <2>2. claims' = {c \in Ids \X Users :
                     c[1] \in (OpenIds \ lost) \cup new /\ c[2] \in Parts(c[1])}
    BY <1>1, <1>2, <2>1 DEF Released, ClaimsOf
  <2>. QED  BY <1>3, <2>2 DEF ClaimsMatchOpen, Parts
<1>. QED  BY <1>4, <1>5 DEF Exclusive

LEMMA ExclusiveMove ==
    ASSUME TypeOK, Exclusive, NEW i, Moves(i)
    PROVE  Exclusive'
<1>1. OpenIds' = OpenIds
  BY DEF Moves, OpenIds, OpenStatuses
<1>. QED  BY <1>1 DEF Moves, Exclusive, ClaimsMatchOpen, OneOpenPerMember, Parts

LEMMA ExclusiveJoin ==
    ASSUME TypeOK, Exclusive, NEW i, Joins(i)
    PROVE  Exclusive'
<1>1. i \in Ids /\ i \notin OpenIds
  BY DEF Joins, IsNext, OpenIds, OpenStatuses
<1>2. OpenIds' = OpenIds \cup {i}
  BY <1>1 DEF Joins, OpenIds, OpenStatuses
<1>3. \A j \in OpenIds : Parts(j) \cap Parts(i) = {}
  BY <1>1, FreeOfClaims DEF Joins
<1>4. OneOpenPerMember'
  BY <1>2, <1>3 DEF Exclusive, OneOpenPerMember, Parts
<1>5. ClaimsMatchOpen'
  <2>1. claims = {c \in Ids \X Users : c[1] \in OpenIds /\ c[2] \in Parts(c[1])}
    BY DEF Exclusive, ClaimsMatchOpen
  <2>2. claims' = {c \in Ids \X Users :
                     c[1] \in OpenIds \cup {i} /\ c[2] \in Parts(c[1])}
    BY <1>1, <2>1 DEF Joins, ClaimsOf
  <2>. QED  BY <1>2, <2>2 DEF ClaimsMatchOpen, Parts
<1>. QED  BY <1>4, <1>5 DEF Exclusive

LEMMA ExclusiveInit == Init => Exclusive
BY DEF Init, Exclusive, ClaimsMatchOpen, OneOpenPerMember, OpenIds, OpenStatuses, Absent

LEMMA ExclusiveStep == TypeOK /\ Exclusive /\ [Next]_vars => Exclusive'
BY StepKind, ExclusiveTurn, ExclusiveMove, ExclusiveJoin DEF Kind

LEMMA ExclusiveCorrect == Spec => [](TypeOK /\ Exclusive)
BY TypeInit, TypeStep, ExclusiveInit, ExclusiveStep, PTL DEF Spec

\* Every closure releases the claims of its members and every creation takes
\* them, in every Center and whatever the order of operations.
THEOREM ClaimsCorrect == Spec => []ClaimsMatchOpen
<1>1. Exclusive => ClaimsMatchOpen
  BY DEF Exclusive
<1>. QED  BY <1>1, ExclusiveCorrect, PTL

\* No member is ever in two open proposals, however they were opened.
THEOREM OneOpenCorrect == Spec => []OneOpenPerMember
<1>1. Exclusive => OneOpenPerMember
  BY DEF Exclusive
<1>. QED  BY <1>1, ExclusiveCorrect, PTL

\* A closed proposal is never reopened, re-labelled or altered again by a
\* transaction that finds it closed; a transaction is one step here (see
\* ClosedIsFinal).
THEOREM ClosedIsFinalCorrect == Spec => ClosedIsFinal
<1>1. ASSUME TypeOK, Kind, NEW i \in Ids, proposals[i].status = "closed"
      PROVE  proposals'[i] = proposals[i]
  <2>1. ASSUME NEW lost, NEW new, Turns(lost, new) PROVE proposals'[i] = proposals[i]
    BY <1>1, <2>1 DEF Turns
  <2>2. ASSUME NEW j, Moves(j) \/ Joins(j) PROVE proposals'[i] = proposals[i]
    BY <1>1, <2>2 DEF Moves, Joins, IsNext
  <2>. QED  BY <1>1, <2>1, <2>2 DEF Kind
<1>2. TypeOK /\ [Next]_vars =>
        \A i \in Ids : proposals[i].status = "closed" => proposals'[i] = proposals[i]
  BY <1>1, StepKind
<1>. QED  BY <1>2, TypeCorrect, PTL DEF Spec, ClosedIsFinal
=============================================================================
