--------------------------- MODULE StandingProofs ---------------------------
(***************************************************************************)
(* Why an open proposal still stands: who reviews it, what was decided,    *)
(* whether its members may be matched, and what bars or authorizes the     *)
(* next one of its pair.  Proved for every Center; the steps of Matching   *)
(* are first reduced to what may become of one proposal, of one member, of *)
(* one interest and of one authorization.                                  *)
(***************************************************************************)
EXTENDS PromiseProofs

-----------------------------------------------------------------------------
(* What may become of one proposal.                                        *)

Keeps(i) == proposals'[i] = proposals[i]

Closes(i) == proposals[i].status \in OpenStatuses /\ proposals'[i].status = "closed"

\* Who waits for the answer to an interest of its own.
Waits(m) == \E s \in Suggestions : s[1] = m /\ interest[s] = "interested"

Opens(i) ==
    /\ proposals[i].status = "absent"
    /\ ~SafetyHistory(Pair(i))
    /\ History(Pair(i)) => (Usable(Pair(i)) /\ auth'[Pair(i)].status = "consumed")
    /\ \A m \in Parts(i) : /\ Eligible(m)
                           /\ SignedIn(m, "member") \/ (role[m] = "member" /\ Waits(m))
    /\ proposals'[i] \in {NewProposal(i), SelfPacedProposal}
    /\ UNCHANGED roster

Reviews(i) ==
    /\ PairReady(i)
    /\ proposals[i].status = "pending_review"
    /\ proposals'[i].status = IF AllApproved(proposals'[i].decisions)
                              THEN "introduced" ELSE "pending_review"
    /\ \A s \in Sides : proposals'[i].decisions[s] = "declined" =>
                            proposals[i].decisions[s] = "declined"
    /\ proposals'[i].status = "introduced" => proposals'[i].introduced
    /\ \A f \in {"counselors", "responses", "reason"} :
          proposals'[i][f] = proposals[i][f]
    /\ UNCHANGED roster

Answers(i) ==
    /\ PairReady(i)
    /\ proposals[i].status = "introduced"
    /\ proposals'[i].status = IF proposals'[i].responses = Both("accepted")
                              THEN "active" ELSE "introduced"
    /\ \A s \in Sides : proposals'[i].responses[s] = "declined" =>
                            proposals[i].responses[s] = "declined"
    /\ \A f \in {"counselors", "decisions", "reason", "introduced"} :
          proposals'[i][f] = proposals[i][f]
    /\ UNCHANGED roster

Fate(i) == Keeps(i) \/ Closes(i) \/ Opens(i) \/ Reviews(i) \/ Answers(i)

Fates == \A i \in Ids : Fate(i)

LEMMA StillFates ==
    ASSUME UNCHANGED proposals
    PROVE  Fates
BY DEF Fates, Fate, Keeps

LEMMA CloseAllFates ==
    ASSUME TypeOK, NEW S, S \subseteq OpenIds, NEW reason, CloseAll(S, reason)
    PROVE  Fates
<1>. SUFFICES ASSUME NEW i \in Ids PROVE Keeps(i) \/ Closes(i)
  BY DEF Fates, Fate
<1>1. CASE i \in S
  <2>1. proposals'[i] = [proposals[i] EXCEPT !.status = "closed", !.reason = reason[i]]
    BY <1>1 DEF CloseAll
  <2>2. proposals[i] \in Proposal /\ proposals[i].status \in OpenStatuses
    BY <1>1 DEF TypeOK, OpenIds
  <2>. QED  BY <2>1, <2>2 DEF Closes, Proposal
<1>2. CASE i \notin S
  BY <1>2 DEF CloseAll, Keeps
<1>. QED  BY <1>1, <1>2

LEMMA CloseOpenForFates ==
    ASSUME TypeOK, NEW m, NEW reason, CloseOpenFor(m, reason)
    PROVE  Fates
<1>1. OpenOf({m}) \subseteq OpenIds
  BY DEF OpenOf
<1>. QED  BY <1>1, CloseAllFates DEF CloseOpenFor

LEMMA ReevaluateFates ==
    ASSUME TypeOK, NEW m, Reevaluate(m)
    PROVE  Fates
BY StillFates, CloseOpenForFates DEF Reevaluate

LEMMA RosterFates ==
    ASSUME TypeOK, RosterNext
    PROVE  Fates
<1>1. ASSUME NEW u \in Users,
             GrantAdmin(u) \/ RevokeAdmin(u) \/ ReactivateAccount(u) \/ Expire(u)
      PROVE  Fates
  BY <1>1, StillFates DEF GrantAdmin, RevokeAdmin, ReactivateAccount, Expire, matching
<1>2. ASSUME NEW u \in Users, DisableAccount(u) PROVE Fates
  BY <1>2, StillFates, CloseOpenForFates DEF DisableAccount, matching
<1>3. ASSUME NEW u \in Users, NEW field, NEW value, SetEvidence(u, field, value)
      PROVE  Fates
  BY <1>3, ReevaluateFates DEF SetEvidence
<1>4. ASSUME NEW u \in Users,
             \/ UpdateOrdinary(u) \/ UpdateEntitlement(u) \/ ApplyHold(u)
             \/ ReleaseHold(u) \/ \E c \in Users : RecordCounselorDecision(c, u)
      PROVE  Fates
  BY <1>3, <1>4 DEF UpdateOrdinary, UpdateEntitlement, ApplyHold, ReleaseHold,
                    RecordCounselorDecision
<1>5. ASSUME NEW u \in Users,
             \/ MemberToCounselor(u) \/ CounselorToMember(u)
             \/ \E c \in Users : AssignCounselor(u, c)
      PROVE  Fates
  BY <1>5, ReevaluateFates, CloseOpenForFates
  DEF MemberToCounselor, CounselorToMember, AssignCounselor
<1>6. ASSUME NEW u \in Users, NEW target \in Modes, AssignCommunity(u, target)
      PROVE  Fates
  <2>1. OpenOf({u}) \subseteq OpenIds
    BY DEF OpenOf
  <2>. QED  BY <1>6, <2>1, CloseAllFates DEF AssignCommunity
<1>. QED  BY <1>1, <1>2, <1>4, <1>5, <1>6 DEF RosterNext

\* Everybody a run of the generation may propose is an active, ready member.
LEMMA CandidatesReady ==
    ASSUME NEW late \in SUBSET Freed, NEW m \in Free \cup late
    PROVE  SignedIn(m, "member") /\ Eligible(m)
<1>1. m \in Pool \ Lapsed
  BY DEF Free, Freed
<1>. QED  BY <1>1 DEF Pool, Lapsed

LEMMA GenerateFates ==
    ASSUME TypeOK, GenerateCandidates
    PROVE  Fates
<1>1. PICK late \in SUBSET Freed, reason \in [Lost -> LossReasons] :
        \E new \in SUBSET Admissible(Free \cup late) : Generate(reason, new)
  BY DEF GenerateCandidates
<1>2. PICK new \in SUBSET Admissible(Free \cup late) : Generate(reason, new)
  BY <1>1
<1>3. /\ proposals' = [i \in Ids |->
            CASE i \in new -> NewProposal(i)
              [] i \in Lost -> [proposals[i] EXCEPT !.status = "closed",
                                                    !.reason = reason[i]]
              [] OTHER -> proposals[i]]
      /\ SweepAuthorizations({p \in Pairs : History(p) /\ \E i \in new : Pair(i) = p})
      /\ UNCHANGED roster
  BY <1>2 DEF Generate
<1>. SUFFICES ASSUME NEW i \in Ids PROVE Fate(i)
  BY DEF Fates
<1>4. CASE i \in new
  <2>1. /\ Parts(i) \subseteq Free \cup late
        /\ proposals[i].status = "absent"
        /\ ~SafetyHistory(Pair(i))
        /\ History(Pair(i)) => Usable(Pair(i))
    BY <1>4 DEF Admissible, IsNext
  <2>2. \A m \in Parts(i) : SignedIn(m, "member") /\ Eligible(m)
    BY <2>1, CandidatesReady
  <2>3. proposals'[i] = NewProposal(i)
    <3>1. i \notin Lost
      BY <2>1 DEF Lost, OpenOf, OpenIds, OpenStatuses
    <3>. QED  BY <1>3, <1>4, <3>1
  <2>4. ASSUME History(Pair(i)) PROVE auth'[Pair(i)].status = "consumed"
    <3>1. Pair(i) \in Pairs /\ auth[Pair(i)].status = "approved"
      BY <2>1, <2>4, PartsInUsers DEF Usable
    <3>3. auth[Pair(i)] \in Authorization
      BY <3>1 DEF TypeOK
    <3>2. auth'[Pair(i)] = [auth[Pair(i)] EXCEPT !.status = "consumed"]
      BY <1>3, <1>4, <2>4, <3>1 DEF SweepAuthorizations
    <3>. QED  BY <3>3, <3>2 DEF Authorization
  <2>5. Opens(i)
    BY <1>3, <2>1, <2>2, <2>3, <2>4 DEF Opens
  <2>. QED  BY <2>5 DEF Fate
<1>5. CASE i \notin new /\ i \in Lost
  <2>1. proposals'[i] = [proposals[i] EXCEPT !.status = "closed", !.reason = reason[i]]
    BY <1>3, <1>5
  <2>2. proposals[i] \in Proposal /\ proposals[i].status \in OpenStatuses
    BY <1>5 DEF TypeOK, Lost, OpenOf, OpenIds
  <2>. QED  BY <2>1, <2>2 DEF Fate, Closes, Proposal
<1>6. CASE i \notin new /\ i \notin Lost
  BY <1>3, <1>6 DEF Fate, Keeps
<1>. QED  BY <1>4, <1>5, <1>6

LEMMA ReviewFates ==
    ASSUME TypeOK, NEW c \in Users, NEW i \in Ids,
           NEW decision \in {"approved", "declined"}, ReviewCandidate(c, i, decision)
    PROVE  Fates
<1>. DEFINE ds == [s \in Sides |-> IF s \in {t \in Sides : proposals[i].counselors[t] = c}
                                   THEN decision ELSE proposals[i].decisions[s]]
            reviewed == [proposals[i] EXCEPT !.decisions = ds]
            closed == [reviewed EXCEPT !.status = "closed",
                                       !.reason = "counselor_declined"]
            introduced == [reviewed EXCEPT !.status = "introduced",
                                           !.introduced = TRUE]
<1>1. /\ \/ proposals' = [proposals EXCEPT ![i] = closed]
         \/ /\ decision = "approved"
            /\ ~AllApproved(ds)
            /\ proposals' = [proposals EXCEPT ![i] = reviewed]
         \/ /\ decision = "approved"
            /\ AllApproved(ds)
            /\ proposals' = [proposals EXCEPT ![i] = introduced]
      /\ PairReady(i)
      /\ UNCHANGED roster
  BY DEF ReviewCandidate
<1>2. proposals[i] \in Proposal /\ proposals[i].status = "pending_review"
  BY DEF ReviewCandidate, TypeOK
<1>3. \A s \in Sides : ds[s] \in {decision, proposals[i].decisions[s]}
  OBVIOUS
<1>. HIDE DEF ds
<1>4. ASSUME NEW r, proposals' = [proposals EXCEPT ![i] = r]
      PROVE  /\ proposals'[i] = r
             /\ \A j \in Ids \ {i} : Keeps(j)
  BY <1>4 DEF TypeOK, Keeps
<1>5. CASE proposals' = [proposals EXCEPT ![i] = closed]
  <2>1. closed.status = "closed"
    BY <1>2 DEF Proposal
  <2>. HIDE DEF closed
  <2>2. Closes(i)
    BY <1>2, <1>4, <1>5, <2>1 DEF Closes, OpenStatuses
  <2>. QED  BY <1>4, <1>5, <2>2 DEF Fates, Fate
<1>6. CASE decision = "approved" /\ ~AllApproved(ds)
             /\ proposals' = [proposals EXCEPT ![i] = reviewed]
  <2>1. /\ reviewed.status = "pending_review"
        /\ reviewed.decisions = ds
        /\ \A f \in {"counselors", "responses", "reason"} :
              reviewed[f] = proposals[i][f]
    BY <1>2 DEF Proposal
  <2>. HIDE DEF reviewed
  <2>2. proposals'[i] = reviewed
    BY <1>4, <1>6
  <2>3. Reviews(i)
    BY <1>1, <1>2, <1>3, <1>6, <2>1, <2>2 DEF Reviews
  <2>. QED  BY <1>4, <1>6, <2>3 DEF Fates, Fate
<1>7. CASE decision = "approved" /\ AllApproved(ds)
             /\ proposals' = [proposals EXCEPT ![i] = introduced]
  <2>1. /\ introduced.status = "introduced" /\ introduced.introduced
        /\ introduced.decisions = ds
        /\ \A f \in {"counselors", "responses", "reason"} :
              introduced[f] = proposals[i][f]
    BY <1>2 DEF Proposal
  <2>. HIDE DEF introduced
  <2>2. proposals'[i] = introduced
    BY <1>4, <1>7
  <2>3. Reviews(i)
    BY <1>1, <1>2, <1>3, <1>7, <2>1, <2>2 DEF Reviews
  <2>. QED  BY <1>4, <1>7, <2>3 DEF Fates, Fate
<1>. QED  BY <1>1, <1>5, <1>6, <1>7

LEMMA RespondFates ==
    ASSUME TypeOK, NEW i \in Ids, NEW s \in Sides,
           NEW decision \in {"accepted", "declined"},
           RespondToIntroduction(i, s, decision)
    PROVE  Fates
<1>. DEFINE other == proposals[i].responses[3 - s]
            rs == [proposals[i].responses EXCEPT ![s] = decision]
            answered == [proposals[i] EXCEPT !.responses[s] = decision]
            closed == [answered EXCEPT !.status = "closed", !.reason = "member_declined"]
            active == [answered EXCEPT !.status = "active"]
<1>1. /\ \/ proposals' = [proposals EXCEPT ![i] = closed]
         \/ /\ decision = "accepted" /\ other = "none"
            /\ proposals' = [proposals EXCEPT ![i] = answered]
         \/ /\ decision = "accepted" /\ other = "accepted"
            /\ proposals' = [proposals EXCEPT ![i] = active]
      /\ PairReady(i)
      /\ UNCHANGED roster
  BY DEF RespondToIntroduction
<1>2. proposals[i] \in Proposal /\ proposals[i].status = "introduced"
  BY DEF RespondToIntroduction, TypeOK
<1>3. proposals[i].responses \in [Sides -> {"none", "accepted", "declined"}]
  BY <1>2 DEF Proposal
<1>4. /\ \A t \in Sides : rs[t] \in {decision, proposals[i].responses[t]}
      /\ other = "none" => rs # Both("accepted")
      /\ other = "accepted" /\ decision = "accepted" => rs = Both("accepted")
  BY <1>3 DEF Sides, Both
<1>5. ASSUME NEW r, proposals' = [proposals EXCEPT ![i] = r]
      PROVE  /\ proposals'[i] = r
             /\ \A j \in Ids \ {i} : Keeps(j)
  BY <1>5 DEF TypeOK, Keeps
<1>6. /\ answered.status = "introduced"
      /\ closed.status = "closed"
      /\ active.status = "active"
      /\ \A r \in {answered, active} :
            /\ r.responses = rs
            /\ \A f \in {"counselors", "decisions", "reason", "introduced"} :
                  r[f] = proposals[i][f]
  BY <1>2 DEF Proposal
<1>. HIDE DEF other, rs, answered, closed, active
<1>7. CASE proposals' = [proposals EXCEPT ![i] = closed]
  <2>1. Closes(i)
    BY <1>2, <1>5, <1>6, <1>7 DEF Closes, OpenStatuses
  <2>. QED  BY <1>5, <1>7, <2>1 DEF Fates, Fate
<1>8. CASE decision = "accepted" /\ other = "none"
             /\ proposals' = [proposals EXCEPT ![i] = answered]
  <2>1. proposals'[i] = answered
    BY <1>5, <1>8
  <2>2. Answers(i)
    BY <1>1, <1>2, <1>4, <1>6, <1>8, <2>1 DEF Answers
  <2>. QED  BY <1>5, <1>8, <2>2 DEF Fates, Fate
<1>9. CASE decision = "accepted" /\ other = "accepted"
             /\ proposals' = [proposals EXCEPT ![i] = active]
  <2>1. proposals'[i] = active
    BY <1>5, <1>9
  <2>2. Answers(i)
    BY <1>1, <1>2, <1>4, <1>6, <1>9, <2>1 DEF Answers
  <2>. QED  BY <1>5, <1>9, <2>2 DEF Fates, Fate
<1>. QED  BY <1>1, <1>7, <1>8, <1>9

LEMMA IntroductionsFates ==
    ASSUME TypeOK, IntroductionsNext
    PROVE  Fates
<1>1. ASSUME NEW i \in Ids, AccessLapsed(i) PROVE Fates
  <2>1. i \in OpenIds
    BY <1>1 DEF AccessLapsed
  <2>2. \A ms : {i} \cup OpenOf(ms) \subseteq OpenIds
    BY <2>1 DEF OpenOf
  <2>3. \E S, reason : S \subseteq OpenIds /\ CloseAll(S, reason)
    BY <1>1, <2>1, <2>2 DEF AccessLapsed, Reconcile
  <2>. QED  BY <2>3, CloseAllFates
<1>2. ASSUME NEW kind, NEW s, Flag(kind, s) PROVE Fates
  <2>1. \E latest, reason : CloseAll({latest} \cap OpenIds, reason)
    BY <1>2 DEF Flag
  <2>. QED  BY <2>1, CloseAllFates
<1>. QED  BY <1>1, <1>2, GenerateFates, ReviewFates, RespondFates
          DEF IntroductionsNext, BlockMember, ReportMember

LEMMA ReverseSuggestion ==
    ASSUME NEW s \in Suggestions
    PROVE  /\ Reverse(s) \in Suggestions
           /\ Reverse(s)[1] = s[2] /\ Reverse(s)[2] = s[1]
           /\ s[1] # s[2] /\ s[1] \in Users /\ s[2] \in Users
           /\ Reverse(s) # s
           /\ PairOf(s) \in Pairs
BY MatchAssumption DEF Suggestions, Reverse, PairOf

LEMMA SelfPacedFates ==
    ASSUME TypeOK, SelfPacedNext
    PROVE  Fates
<1>1. ASSUME NEW s, NEW choice, ExpressAlone(s, choice) PROVE Fates
  BY <1>1, StillFates DEF ExpressAlone
<1>2. ASSUME NEW s \in Suggestions, ExpressMutual(s) PROVE Fates
  <2>1. PICK i \in Ids :
          /\ Pair(i) = PairOf(s)
          /\ IsNext(i)
          /\ proposals' = [proposals EXCEPT ![i] = SelfPacedProposal]
          /\ SweepAuthorizations(IF History(Pair(i)) THEN {Pair(i)} ELSE {})
    BY <1>2 DEF ExpressMutual
  <2>2. Parts(i) = {s[1], s[2]}
    BY <2>1, SuggestionOfPair
  <2>3. /\ SignedIn(s[1], "member")
        /\ role[s[2]] = "member"
        /\ \A m \in {s[1], s[2]} : Eligible(m)
        /\ ~SafetyHistory(Pair(i))
        /\ History(Pair(i)) => Usable(Pair(i))
        /\ interest[Reverse(s)] = "interested"
        /\ UNCHANGED roster
    BY <1>2, <2>1 DEF ExpressMutual, MayExpress, Reciprocated
  <2>4. Waits(s[2])
    BY <2>3, ReverseSuggestion DEF Waits
  <2>5. ASSUME History(Pair(i)) PROVE auth'[Pair(i)].status = "consumed"
    <3>1. Pair(i) \in Pairs /\ auth[Pair(i)].status = "approved"
      BY <2>3, <2>5, PartsInUsers DEF Usable
    <3>2. auth[Pair(i)] \in Authorization
      BY <3>1 DEF TypeOK
    <3>3. auth'[Pair(i)] = [auth[Pair(i)] EXCEPT !.status = "consumed"]
      BY <2>1, <2>5, <3>1 DEF SweepAuthorizations
    <3>. QED  BY <3>2, <3>3 DEF Authorization
  <2>6. /\ proposals'[i] = SelfPacedProposal
        /\ \A j \in Ids \ {i} : Keeps(j)
    BY <2>1 DEF TypeOK, Keeps
  <2>7. Opens(i)
    BY <2>1, <2>2, <2>3, <2>4, <2>5, <2>6 DEF Opens, IsNext
  <2>. QED  BY <2>6, <2>7 DEF Fates, Fate
<1>. QED  BY <1>1, <1>2 DEF SelfPacedNext

\* A step keeps, closes, opens, reviews or answers each proposal, and opens,
\* reviews and answers only while the members are ready.
LEMMA StepFates == TypeOK /\ [Next]_vars => Fates
<1>. SUFFICES ASSUME TypeOK, [Next]_vars PROVE Fates
  OBVIOUS
<1>1. CASE RematchNext
  BY <1>1, StillFates
  DEF RematchNext, RequestRematch, ApproveRematch, CandidateGenerationDiagnostics
<1>2. ASSUME NEW u \in Users, ReadProgress(u) PROVE Fates
  BY <1>2, ReevaluateFates DEF ReadProgress
<1>3. CASE UNCHANGED vars
  BY <1>3, StillFates DEF vars
<1>. QED  BY <1>1, <1>2, <1>3, RosterFates, IntroductionsFates, SelfPacedFates
          DEF Next, MatchNext

-----------------------------------------------------------------------------
(* What may become of one member, of one interest and of the flags.        *)

\* The member is left with no open proposal and no interest of its own.
Emptied(m) ==
    /\ \A i \in OpenIds' : m \notin Parts(i)
    /\ \A s \in Suggestions : s[1] = m => interest'[s] # "interested"

\* The counselor stays, no hold is applied, and the place is not lost.
Undisturbed(m) ==
    /\ assignment'[m].counselor = assignment[m].counselor
    /\ evidence'[m].held => evidence[m].held
    /\ InPlace(m) => InPlace(m)'

\* An interest is new only if the other side has none, and its member is
\* active then.
Expressed(s) ==
    interest'[s] = "interested" =>
        \/ interest[s] = "interested"
        \/ /\ SignedIn(s[1], "member")
           /\ interest'[Reverse(s)] # "interested"
           /\ UNCHANGED roster

Turn == /\ \A m \in Users : Emptied(m) \/ Undisturbed(m)
        /\ \A s \in Suggestions : Expressed(s)
        /\ flags \subseteq flags'

LEMMA RosterStays ==
    ASSUME UNCHANGED roster
    PROVE  \A m \in Users : Undisturbed(m)
BY DEF roster, Undisturbed, InPlace, SignedIn

LEMMA InterestStays ==
    ASSUME UNCHANGED interest
    PROVE  \A s \in Suggestions : Expressed(s)
BY DEF Expressed

LEMMA WithdrawExpresses ==
    ASSUME NEW ms, Withdraw(ms)
    PROVE  /\ \A s \in Suggestions : Expressed(s)
           /\ \A s \in Suggestions : s[1] \in ms => interest'[s] # "interested"
BY DEF Withdraw, Expressed

LEMMA CloseAllOpen ==
    ASSUME TypeOK, NEW S, NEW reason, CloseAll(S, reason)
    PROVE  OpenIds' = OpenIds \ S
<1>1. \A i \in Ids : i \notin S => proposals'[i] = proposals[i]
  BY DEF CloseAll
<1>2. \A i \in Ids : i \in S => proposals'[i].status = "closed"
  <2>. SUFFICES ASSUME NEW i \in Ids, i \in S PROVE proposals'[i].status = "closed"
    OBVIOUS
  <2>1. proposals[i] \in Proposal
    BY DEF TypeOK
  <2>2. proposals'[i] = [proposals[i] EXCEPT !.status = "closed", !.reason = reason[i]]
    BY DEF CloseAll
  <2>. QED  BY <2>1, <2>2 DEF Proposal
<1>. QED  BY <1>1, <1>2 DEF OpenIds, OpenStatuses

LEMMA CloseOpenForEmpties ==
    ASSUME TypeOK, NEW m, NEW reason, CloseOpenFor(m, reason)
    PROVE  Emptied(m) /\ \A s \in Suggestions : Expressed(s)
<1>1. OpenIds' = OpenIds \ OpenOf({m})
  BY CloseAllOpen DEF CloseOpenFor
<1>2. /\ \A s \in Suggestions : Expressed(s)
      /\ \A s \in Suggestions : s[1] = m => interest'[s] # "interested"
  BY WithdrawExpresses DEF CloseOpenFor
<1>. QED  BY <1>1, <1>2 DEF Emptied, OpenOf

\* A re-evaluation leaves a member that is not eligible with nothing open.
LEMMA ReevaluateEmpties ==
    ASSUME TypeOK, NEW m, Reevaluate(m)
    PROVE  /\ Eligible(m)' \/ Emptied(m)
           /\ \A s \in Suggestions : Expressed(s)
BY CloseOpenForEmpties, InterestStays DEF Reevaluate

LEMMA SetEvidenceTurn ==
    ASSUME TypeOK, NEW m \in Users, NEW field, NEW value, SetEvidence(m, field, value)
    PROVE  Turn
<1>1. ASSUME NEW u \in Users, u # m PROVE Undisturbed(u)
  BY <1>1 DEF SetEvidence, Undisturbed, InPlace, SignedIn, TypeOK
<1>2. Emptied(m) \/ Undisturbed(m)
  <2>1. CASE Eligible(m)'
    BY <2>1 DEF Eligible, SetEvidence, Undisturbed, InPlace, SignedIn
  <2>. QED  BY <2>1, ReevaluateEmpties DEF SetEvidence
<1>3. \A s \in Suggestions : Expressed(s)
  BY ReevaluateEmpties DEF SetEvidence
<1>. QED  BY <1>1, <1>2, <1>3 DEF Turn, SetEvidence

LEMMA RosterTurn ==
    ASSUME TypeOK, RosterNext
    PROVE  Turn
<1>1. ASSUME NEW u \in Users, GrantAdmin(u) \/ ReactivateAccount(u) \/ RevokeAdmin(u)
      PROVE  Turn
  <2>1. ASSUME NEW m \in Users PROVE InPlace(m) => InPlace(m)'
    BY <1>1, MatchAssumption
    DEF GrantAdmin, ReactivateAccount, RevokeAdmin, InPlace, SignedIn, TypeOK, Roles
  <2>. QED  BY <1>1, <2>1, InterestStays
            DEF GrantAdmin, ReactivateAccount, RevokeAdmin, matching, Turn, Undisturbed
<1>2. ASSUME NEW u \in Users, DisableAccount(u) PROVE Turn
  <2>1. ASSUME NEW m \in Users, m # u \/ role[u] # "member" PROVE Undisturbed(m)
    BY <1>2, <2>1 DEF DisableAccount, Undisturbed, InPlace, SignedIn, TypeOK
  <2>2. CASE CloseOpenFor(u, "account_disabled")
    BY <1>2, <2>1, <2>2, CloseOpenForEmpties DEF DisableAccount, Turn
  <2>3. CASE role[u] # "member" /\ UNCHANGED matching
    BY <1>2, <2>1, <2>3, InterestStays DEF DisableAccount, matching, Turn
  <2>. QED  BY <1>2, <2>2, <2>3 DEF DisableAccount, matching
<1>3. ASSUME NEW u \in Users, Expire(u) PROVE Turn
  <2>1. PICK field \in {"ordinary", "entitled", "cleared"} :
            evidence' = [evidence EXCEPT ![u][field] = FALSE]
    BY <1>3 DEF Expire
  <2>2. \A m \in Users : evidence'[m].held = evidence[m].held
    BY <2>1 DEF TypeOK, Evidence
  <2>. QED  BY <1>3, <2>2, InterestStays
            DEF Expire, matching, Turn, Undisturbed, InPlace, SignedIn
<1>4. ASSUME NEW u \in Users,
             \/ UpdateOrdinary(u) \/ UpdateEntitlement(u) \/ ApplyHold(u)
             \/ ReleaseHold(u) \/ \E c \in Users : RecordCounselorDecision(c, u)
      PROVE  Turn
  BY <1>4, SetEvidenceTurn DEF UpdateOrdinary, UpdateEntitlement, ApplyHold,
                               ReleaseHold, RecordCounselorDecision
<1>5. ASSUME NEW u \in Users, NEW c \in Users, AssignCounselor(u, c) PROVE Turn
  <2>1. ASSUME NEW m \in Users, m # u PROVE Undisturbed(m)
    BY <1>5, <2>1 DEF AssignCounselor, Undisturbed, InPlace, SignedIn, TypeOK
  <2>2. ~Eligible(u)'
    BY <1>5 DEF AssignCounselor, Eligible, TypeOK, Evidence
  <2>. QED  BY <1>5, <2>1, <2>2, ReevaluateEmpties DEF AssignCounselor, Turn
<1>6. ASSUME NEW u \in Users, MemberToCounselor(u) PROVE Turn
  <2>1. ASSUME NEW m \in Users, m # u PROVE Undisturbed(m)
    BY <1>6, <2>1 DEF MemberToCounselor, Undisturbed, InPlace, SignedIn, TypeOK
  <2>. QED  BY <1>6, <2>1, CloseOpenForEmpties DEF MemberToCounselor, Turn
<1>7. ASSUME NEW u \in Users, CounselorToMember(u) PROVE Turn
  <2>1. ASSUME NEW m \in Users, m # u PROVE Undisturbed(m)
    BY <1>7, <2>1 DEF CounselorToMember, Undisturbed, InPlace, SignedIn, TypeOK
  <2>2. ~Eligible(u)'
    BY <1>7 DEF CounselorToMember, Eligible, TypeOK, Evidence
  <2>. QED  BY <1>7, <2>1, <2>2, ReevaluateEmpties DEF CounselorToMember, Turn
<1>8. ASSUME NEW u \in Users, NEW target \in Modes, AssignCommunity(u, target)
      PROVE  Turn
  BY <1>8, WithdrawExpresses
  DEF AssignCommunity, Turn, Undisturbed, InPlace, SignedIn
<1>. QED  BY <1>1, <1>2, <1>3, <1>4, <1>5, <1>6, <1>7, <1>8 DEF RosterNext

LEMMA SelfPacedTurn ==
    ASSUME TypeOK, SelfPacedNext
    PROVE  Turn
<1>1. ASSUME NEW s \in Suggestions, NEW choice, ExpressAlone(s, choice) PROVE Turn
  <2>1. /\ interest' = [interest EXCEPT ![s] = choice]
        /\ SignedIn(s[1], "member")
        /\ choice = "interested" => interest[Reverse(s)] # "interested"
        /\ UNCHANGED <<roster, flags>>
    BY <1>1 DEF ExpressAlone, MayExpress, Reciprocated
  <2>2. Expressed(s)
    BY <2>1, ReverseSuggestion DEF Expressed, TypeOK
  <2>3. ASSUME NEW t \in Suggestions, t # s PROVE Expressed(t)
    BY <2>1, <2>3 DEF Expressed, TypeOK
  <2>. QED  BY <2>1, <2>2, <2>3, RosterStays DEF Turn
<1>2. ASSUME NEW s \in Suggestions, ExpressMutual(s) PROVE Turn
  <2>1. ASSUME NEW t \in Suggestions PROVE Expressed(t)
    BY <1>2 DEF ExpressMutual, Expressed, TypeOK
  <2>. QED  BY <1>2, <2>1, RosterStays DEF ExpressMutual, Turn
<1>. QED  BY <1>1, <1>2 DEF SelfPacedNext

LEMMA IntroductionsTurn ==
    ASSUME TypeOK, IntroductionsNext
    PROVE  Turn
<1>1. CASE GenerateCandidates
  BY <1>1, WithdrawExpresses, RosterStays DEF GenerateCandidates, Generate, Turn
<1>2. ASSUME NEW i \in Ids, AccessLapsed(i) PROVE Turn
  BY <1>2, WithdrawExpresses, InterestStays, RosterStays
  DEF AccessLapsed, Reconcile, Turn
<1>3. ASSUME NEW c, NEW i, NEW decision, ReviewCandidate(c, i, decision) PROVE Turn
  BY <1>3, InterestStays, RosterStays DEF ReviewCandidate, Turn
<1>4. ASSUME NEW i, NEW s, NEW decision, RespondToIntroduction(i, s, decision)
      PROVE  Turn
  BY <1>4, InterestStays, RosterStays DEF RespondToIntroduction, Turn
<1>5. ASSUME NEW kind, NEW s, Flag(kind, s) PROVE Turn
  BY <1>5, InterestStays, RosterStays DEF Flag, Turn
<1>. QED  BY <1>1, <1>2, <1>3, <1>4, <1>5 DEF IntroductionsNext, BlockMember, ReportMember

\* A step empties a member or leaves it undisturbed, adds no interest that
\* the other side has, and takes no flag back.
LEMMA StepTurn == TypeOK /\ [Next]_vars => Turn
<1>. SUFFICES ASSUME TypeOK, [Next]_vars PROVE Turn
  OBVIOUS
<1>1. CASE RematchNext
  BY <1>1, InterestStays, RosterStays
  DEF RematchNext, RequestRematch, ApproveRematch, CandidateGenerationDiagnostics, Turn
<1>2. ASSUME NEW u \in Users, ReadProgress(u) PROVE Turn
  BY <1>2, ReevaluateEmpties
  DEF ReadProgress, Turn, Undisturbed, InPlace, SignedIn
<1>3. CASE UNCHANGED vars
  BY <1>3, InterestStays, RosterStays DEF vars, roster, Turn
<1>. QED  BY <1>1, <1>2, <1>3, RosterTurn, IntroductionsTurn, SelfPacedTurn
          DEF Next, MatchNext

-----------------------------------------------------------------------------
(* What may become of one authorization.                                   *)

\* Still live under the assignments it was bound to, or requested just now.
Bound(p) ==
    Live(p)' =>
        \/ /\ Live(p)
           /\ auth'[p].bound = auth[p].bound
           /\ \A s \in Sides : assignment'[p[s]] = assignment[p[s]]
        \/ /\ RematchValid(p)
           /\ auth'[p].bound = [s \in Sides |-> assignment[p[s]]]
           /\ UNCHANGED roster

Bounds == \A p \in Pairs : Bound(p)

LEMMA MembersOfPair ==
    ASSUME NEW p \in Pairs, NEW s \in Sides
    PROVE  p[s] \in Users /\ p[s] \in {p[1], p[2]}
BY MatchAssumption DEF Sides

LEMMA SameBounds ==
    ASSUME UNCHANGED <<auth, assignment>>
    PROVE  Bounds
BY DEF Bounds, Bound, Live

LEMMA RevokeBounds ==
    ASSUME TypeOK, NEW S, RevokeWhere(S), NEW m,
           \A u \in Users : u # m => assignment'[u] = assignment[u],
           UNCHANGED assignment \/ PairsOf(m) \subseteq S
    PROVE  Bounds
<1>. SUFFICES ASSUME NEW p \in Pairs, Live(p)'
              PROVE  /\ Live(p)
                     /\ auth'[p].bound = auth[p].bound
                     /\ \A s \in Sides : assignment'[p[s]] = assignment[p[s]]
  BY DEF Bounds, Bound
<1>1. auth[p] \in Authorization
  BY DEF TypeOK
<1>2. ~(Live(p) /\ p \in S)
  <2>1. SUFFICES ASSUME Live(p), p \in S PROVE FALSE
    OBVIOUS
  <2>2. auth'[p] = [auth[p] EXCEPT !.status = "revoked"]
    BY <2>1 DEF RevokeWhere
  <2>. QED  BY <1>1, <2>2 DEF Live, Authorization
<1>3. auth'[p] = auth[p]
  BY <1>2 DEF RevokeWhere
<1>4. Live(p) /\ p \notin S
  BY <1>2, <1>3 DEF Live
<1>5. \A s \in Sides : assignment'[p[s]] = assignment[p[s]]
  BY <1>4, MembersOfPair DEF PairsOf
<1>. QED  BY <1>3, <1>4, <1>5

LEMMA RosterBounds ==
    ASSUME TypeOK, LiveAuthorizationCurrent, RosterNext
    PROVE  Bounds
<1>1. ASSUME NEW u \in Users,
             GrantAdmin(u) \/ RevokeAdmin(u) \/ ReactivateAccount(u) \/ Expire(u)
      PROVE  Bounds
  BY <1>1, SameBounds DEF GrantAdmin, RevokeAdmin, ReactivateAccount, Expire
<1>2. ASSUME NEW u \in Users, DisableAccount(u) PROVE Bounds
  BY <1>2, SameBounds, RevokeBounds DEF DisableAccount
<1>3. ASSUME NEW u \in Users,
             \/ UpdateOrdinary(u) \/ UpdateEntitlement(u) \/ ApplyHold(u)
             \/ ReleaseHold(u) \/ \E c \in Users : RecordCounselorDecision(c, u)
      PROVE  Bounds
  BY <1>3, SameBounds DEF UpdateOrdinary, UpdateEntitlement, ApplyHold, ReleaseHold,
                          RecordCounselorDecision, SetEvidence
<1>4. ASSUME NEW u \in Users, NEW c \in Users, AssignCounselor(u, c) PROVE Bounds
  <2>1. \A m \in Users : m # u => assignment'[m] = assignment[m]
    BY <1>4 DEF AssignCounselor, TypeOK
  <2>. QED  BY <1>4, <2>1, RevokeBounds DEF AssignCounselor
<1>5. ASSUME NEW u \in Users, MemberToCounselor(u) PROVE Bounds
  <2>1. \A m \in Users : m # u => assignment'[m] = assignment[m]
    BY <1>5 DEF MemberToCounselor, TypeOK
  <2>2. CASE RevokeWhere(PairsOf(u))
    BY <2>1, <2>2, RevokeBounds
  <2>3. CASE assignment[u].counselor = None /\ UNCHANGED auth
    <3>. SUFFICES ASSUME NEW p \in Pairs, Live(p)
                  PROVE  \A s \in Sides : assignment'[p[s]] = assignment[p[s]]
      BY <2>3 DEF Bounds, Bound, Live
    <3>1. \A s \in Sides : /\ auth[p].bound[s] = assignment[p[s]]
                           /\ auth[p].bound[s].counselor # None
      BY DEF LiveAuthorizationCurrent, BoundNow
    <3>. QED  BY <2>1, <2>3, <3>1, MembersOfPair
  <2>. QED  BY <1>5, <2>2, <2>3 DEF MemberToCounselor
<1>6. ASSUME NEW u \in Users, CounselorToMember(u) PROVE Bounds
  BY <1>6, SameBounds DEF CounselorToMember
<1>7. ASSUME NEW u \in Users, NEW target \in Modes, AssignCommunity(u, target)
      PROVE  Bounds
  BY <1>7, RevokeBounds DEF AssignCommunity
<1>. QED  BY <1>1, <1>2, <1>3, <1>4, <1>5, <1>6, <1>7 DEF RosterNext

\* Consuming or revoking what was approved makes nothing live.
LEMMA SpentBounds ==
    ASSUME TypeOK, UNCHANGED roster,
           \A p \in Pairs : \/ auth'[p] = auth[p]
                            \/ \E st \in {"consumed", "revoked"} :
                                  auth'[p] = [auth[p] EXCEPT !.status = st]
    PROVE  Bounds
<1>. SUFFICES ASSUME NEW p \in Pairs, Live(p)' PROVE auth'[p] = auth[p]
  BY DEF Bounds, Bound, Live, roster
<1>1. auth[p] \in Authorization
  BY DEF TypeOK
<1>2. \A st : [auth[p] EXCEPT !.status = st].status = st
  BY <1>1 DEF Authorization
<1>. QED  BY <1>2 DEF Live

LEMMA SweepBounds ==
    ASSUME TypeOK, UNCHANGED roster, NEW S, SweepAuthorizations(S)
    PROVE  Bounds
BY SpentBounds DEF SweepAuthorizations

LEMMA GenerateBounds ==
    ASSUME TypeOK, GenerateCandidates
    PROVE  Bounds
<1>1. PICK new \in SUBSET Ids : \E reason : Generate(reason, new)
  BY DEF GenerateCandidates, Admissible
<1>. QED  BY <1>1, SweepBounds DEF Generate

LEMMA RematchBounds ==
    ASSUME TypeOK, RematchNext
    PROVE  Bounds
<1>1. ASSUME NEW p \in Pairs, RequestRematch(p) PROVE Bounds
  <2>1. ASSUME NEW q \in Pairs, q # p PROVE auth'[q] = auth[q]
    BY <1>1, <2>1 DEF RequestRematch, TypeOK
  <2>2. auth'[p].bound = [s \in Sides |-> assignment[p[s]]]
    BY <1>1 DEF RequestRematch, TypeOK
  <2>. QED  BY <1>1, <2>1, <2>2 DEF RequestRematch, Bounds, Bound, Live, roster
<1>2. ASSUME NEW p \in Pairs, NEW s \in Sides, ApproveRematch(p, s) PROVE Bounds
  <2>0. UNCHANGED assignment
    BY <1>2 DEF ApproveRematch, roster
  <2>1. CASE RevokeWhere({p})
    BY <2>0, <2>1, RevokeBounds
  <2>. DEFINE ok == [auth[p].ok EXCEPT ![s] = TRUE]
              st == IF ok = Both(TRUE) THEN "approved" ELSE "pending"
  <2>2. CASE auth' = [auth EXCEPT ![p] = [auth[p] EXCEPT !.ok = ok, !.status = st]]
    <3>1. auth[p] \in Authorization /\ Live(p)
      BY <1>2 DEF TypeOK, ApproveRematch, Live
    <3>. HIDE DEF ok, st
    <3>2. auth'[p].bound = auth[p].bound
      BY <2>2, <3>1 DEF TypeOK, Authorization
    <3>3. \A q \in Pairs : q # p => auth'[q] = auth[q]
      BY <2>2 DEF TypeOK
    <3>. QED  BY <2>0, <3>1, <3>2, <3>3 DEF Bounds, Bound, Live
  <2>. QED  BY <1>2, <2>1, <2>2 DEF ApproveRematch
<1>3. CASE CandidateGenerationDiagnostics
  BY <1>3, SweepBounds DEF CandidateGenerationDiagnostics
<1>. QED  BY <1>1, <1>2, <1>3 DEF RematchNext

\* No step leaves an authorization live whose assignments it replaces.
LEMMA StepBounds == TypeOK /\ LiveAuthorizationCurrent /\ [Next]_vars => Bounds
<1>. SUFFICES ASSUME TypeOK, LiveAuthorizationCurrent, [Next]_vars PROVE Bounds
  OBVIOUS
<1>1. CASE IntroductionsNext
  <2>1. ASSUME NEW i, AccessLapsed(i) PROVE Bounds
    BY <2>1, SameBounds DEF AccessLapsed, roster
  <2>2. ASSUME NEW c, NEW i, NEW decision, ReviewCandidate(c, i, decision)
        PROVE  Bounds
    BY <2>2, SameBounds DEF ReviewCandidate, roster
  <2>3. ASSUME NEW i, NEW s, NEW decision, RespondToIntroduction(i, s, decision)
        PROVE  Bounds
    BY <2>3, SameBounds DEF RespondToIntroduction, roster
  <2>4. ASSUME NEW kind, NEW s, Flag(kind, s) PROVE Bounds
    BY <2>4, SameBounds DEF Flag, roster
  <2>. QED  BY <1>1, <2>1, <2>2, <2>3, <2>4, GenerateBounds
            DEF IntroductionsNext, BlockMember, ReportMember
<1>2. CASE SelfPacedNext
  BY <1>2, SweepBounds DEF SelfPacedNext, ExpressAlone, ExpressMutual
<1>3. ASSUME NEW u \in Users, ReadProgress(u) PROVE Bounds
  BY <1>3, SameBounds DEF ReadProgress
<1>4. CASE UNCHANGED vars
  BY <1>4, SameBounds DEF vars
<1>. QED  BY <1>1, <1>2, <1>3, <1>4, RosterBounds, RematchBounds DEF Next, MatchNext

LEMMA AuthorizationInit == Init => LiveAuthorizationCurrent
BY DEF Init, LiveAuthorizationCurrent, Live

LEMMA AuthorizationStep ==
    TypeOK /\ LiveAuthorizationCurrent /\ [Next]_vars => LiveAuthorizationCurrent'
<1>. SUFFICES ASSUME TypeOK, LiveAuthorizationCurrent, [Next]_vars,
                     NEW p \in Pairs, Live(p)'
              PROVE  (/\ BoundNow(p)
                      /\ auth[p].bound[1].counselor # auth[p].bound[2].counselor
                      /\ None \notin {auth[p].bound[s].counselor : s \in Sides})'
  BY DEF LiveAuthorizationCurrent
<1>1. Bound(p)
  BY StepBounds DEF Bounds
<1>2. CASE /\ Live(p)
           /\ auth'[p].bound = auth[p].bound
           /\ \A s \in Sides : assignment'[p[s]] = assignment[p[s]]
  BY <1>2 DEF LiveAuthorizationCurrent, BoundNow
<1>3. CASE /\ RematchValid(p)
           /\ auth'[p].bound = [s \in Sides |-> assignment[p[s]]]
           /\ UNCHANGED roster
  BY <1>3 DEF RematchValid, BoundNow, roster, Sides
<1>. QED  BY <1>1, <1>2, <1>3 DEF Bound

\* The approvals a repeat proposal counts on were always given by the two
\* distinct current counselors, under the very assignments they were asked
\* under: reassignment, role changes, a disabled account and a change of
\* community revoke what they make stale (_revoke_rematch_authorizations).
THEOREM LiveAuthorizationCorrect == Spec => []LiveAuthorizationCurrent
<1>1. Spec => [](TypeOK /\ LiveAuthorizationCurrent)
  BY TypeInit, TypeStep, AuthorizationInit, AuthorizationStep, PTL DEF Spec
<1>. QED  BY <1>1, PTL

-----------------------------------------------------------------------------
(* The standing of every open proposal.                                    *)

\* Only a closed proposal has a reason to be closed.
ReasonOfClosed ==
    \A i \in Ids : proposals[i].reason # "none" => proposals[i].status = "closed"

\* The inductive invariant.  That an open proposal is of active members rests
\* on the same for whoever waits for an answer to an interest, and that a
\* repeat is authorized on what holds of a live authorization.
Standing ==
    /\ StageJustified
    /\ ReasonOfClosed
    /\ OpenReviewedByCurrent
    /\ HeldHasNoOpen
    /\ OpenIsOfActive
    /\ NoMissedMatch
    /\ LiveAuthorizationCurrent

LEMMA NewFields ==
    ASSUME NEW i \in Ids
    PROVE  /\ NewProposal(i).status = "pending_review"
           /\ \A s \in Sides :
                 NewProposal(i).counselors[s] = assignment[Pair(i)[s]].counselor
           /\ NewProposal(i).decisions = Both("pending")
           /\ NewProposal(i).responses = Both("none")
           /\ NewProposal(i).reason = "none"
BY DEF NewProposal, Absent

LEMMA SelfPacedFields ==
    /\ SelfPacedProposal.status = "active"
    /\ SelfPacedProposal.counselors = Both(None)
    /\ SelfPacedProposal.decisions = Both("approved")
    /\ SelfPacedProposal.responses = Both("accepted")
    /\ SelfPacedProposal.reason = "none"
BY DEF SelfPacedProposal

\* What is open after a step was open before, or is opened by it.
LEMMA OpenBefore ==
    ASSUME TypeOK, Fates, NEW i \in OpenIds'
    PROVE  /\ i \in Ids
           /\ \/ i \in OpenIds /\ (Keeps(i) \/ Reviews(i) \/ Answers(i))
              \/ Opens(i)
<1>1. i \in Ids /\ proposals'[i].status \in OpenStatuses
  BY DEF OpenIds
<1>2. Fate(i) /\ ~Closes(i)
  BY <1>1 DEF Fates, Closes, OpenStatuses
<1>3. CASE Keeps(i)
  BY <1>1, <1>3 DEF Keeps, OpenIds
<1>4. CASE Reviews(i) \/ Answers(i)
  BY <1>1, <1>4 DEF Reviews, Answers, OpenIds, OpenStatuses
<1>. QED  BY <1>1, <1>2, <1>3, <1>4 DEF Fate

LEMMA JustifiedStep ==
    ASSUME TypeOK, Fates, StageJustified
    PROVE  StageJustified'
<1>. DEFINE Justified(r) ==
               /\ (r.status = "pending_review") = (r.decisions # Both("approved"))
               /\ (r.status = "active") = (r.responses = Both("accepted"))
               /\ \A s \in Sides : /\ r.decisions[s] # "declined"
                                   /\ r.responses[s] # "declined"
<1>1. \A i \in OpenIds : Justified(proposals[i])
  BY DEF StageJustified
<1>2. SUFFICES ASSUME NEW i \in OpenIds' PROVE Justified(proposals'[i])
  BY DEF StageJustified
<1>3. CASE i \in OpenIds /\ Keeps(i)
  BY <1>1, <1>3 DEF Keeps
<1>4. CASE i \in OpenIds /\ Reviews(i)
  BY <1>1, <1>4 DEF Reviews, AllApproved
<1>5. CASE i \in OpenIds /\ Answers(i)
  BY <1>1, <1>5 DEF Answers
<1>6. CASE Opens(i)
  <2>1. i \in Ids
    BY OpenBefore
  <2>2. Both("pending") # Both("approved") /\ Both("none") # Both("accepted")
    BY DEF Both, Sides
  <2>. HIDE DEF Justified
  <2>3. Justified(NewProposal(i))
    BY <2>1, <2>2, NewFields DEF Both, Justified
  <2>4. Justified(SelfPacedProposal)
    BY SelfPacedFields DEF Both, Justified
  <2>. QED  BY <1>6, <2>3, <2>4 DEF Opens
<1>. QED  BY <1>3, <1>4, <1>5, <1>6, OpenBefore

LEMMA ReasonStep ==
    ASSUME TypeOK, Fates, ReasonOfClosed
    PROVE  ReasonOfClosed'
<1>. SUFFICES ASSUME NEW i \in Ids, proposals'[i].reason # "none"
              PROVE  proposals'[i].status = "closed"
  BY DEF ReasonOfClosed
<1>1. CASE Keeps(i)
  BY <1>1 DEF Keeps, ReasonOfClosed
<1>2. CASE Closes(i)
  BY <1>2 DEF Closes
<1>3. CASE Opens(i)
  BY <1>3, NewFields, SelfPacedFields DEF Opens
<1>4. CASE Reviews(i) \/ Answers(i)
  <2>1. proposals'[i].reason = proposals[i].reason /\ proposals[i].status # "closed"
    BY <1>4 DEF Reviews, Answers
  <2>. QED  BY <2>1 DEF ReasonOfClosed
<1>. QED  BY <1>1, <1>2, <1>3, <1>4 DEF Fates, Fate

\* Members of a proposal that is open after a step are left undisturbed.
LEMMA OpenUndisturbed ==
    ASSUME TypeOK, Fates, Turn, NEW i \in OpenIds', NEW m \in Parts(i)
    PROVE  m \in Users /\ Undisturbed(m)
<1>1. i \in Ids
  BY OpenBefore
<1>2. m \in Users
  BY <1>1, PartsInUsers
<1>. QED  BY <1>2 DEF Turn, Emptied

LEMMA ReviewedByCurrentStep ==
    ASSUME TypeOK, Fates, Turn, OpenReviewedByCurrent
    PROVE  OpenReviewedByCurrent'
<1>. SUFFICES ASSUME NEW i \in OpenIds', NEW s \in Sides
              PROVE  proposals'[i].counselors[s] \in
                        {None, assignment'[Pair(i)[s]].counselor}
  BY DEF OpenReviewedByCurrent, Pair
<1>1. Pair(i)[s] \in Parts(i)
  BY DEF Pair, Parts, Sides
<1>2. assignment'[Pair(i)[s]].counselor = assignment[Pair(i)[s]].counselor
  BY <1>1, OpenUndisturbed DEF Undisturbed
<1>3. CASE i \in OpenIds /\ (Keeps(i) \/ Reviews(i) \/ Answers(i))
  <2>1. proposals'[i].counselors = proposals[i].counselors
    BY <1>3 DEF Keeps, Reviews, Answers
  <2>. QED  BY <1>2, <1>3, <2>1 DEF OpenReviewedByCurrent
<1>4. CASE Opens(i)
  <2>1. i \in Ids
    BY OpenBefore
  <2>2. CASE proposals'[i] = NewProposal(i)
    <3>1. proposals'[i].counselors[s] = assignment[Pair(i)[s]].counselor
      BY <2>1, <2>2, NewFields
    <3>. QED  BY <1>2, <3>1
  <2>3. CASE proposals'[i] = SelfPacedProposal
    <3>1. proposals'[i].counselors[s] = None
      BY <2>3, SelfPacedFields DEF Both
    <3>. QED  BY <3>1
  <2>. QED  BY <1>4, <2>2, <2>3 DEF Opens
<1>. QED  BY <1>3, <1>4, OpenBefore

LEMMA HeldStep ==
    ASSUME TypeOK, Fates, Turn, HeldHasNoOpen
    PROVE  HeldHasNoOpen'
<1>. SUFFICES ASSUME NEW m \in Users, evidence'[m].held, NEW i \in OpenIds',
                     m \in Parts(i)
              PROVE  FALSE
  BY DEF HeldHasNoOpen, OpenOf, Parts
<1>1. evidence[m].held
  BY OpenUndisturbed DEF Undisturbed
<1>2. i \notin OpenIds
  BY <1>1 DEF HeldHasNoOpen, OpenOf
<1>3. Opens(i)
  BY <1>2, OpenBefore
<1>. QED  BY <1>1, <1>3 DEF Opens, Eligible

LEMMA ActiveStep ==
    ASSUME TypeOK, Fates, Turn, OpenIsOfActive
    PROVE  OpenIsOfActive'
<1>1. ASSUME NEW i \in OpenIds', NEW m \in Parts(i) PROVE InPlace(m)'
  <2>1. InPlace(m) => InPlace(m)'
    BY <1>1, OpenUndisturbed DEF Undisturbed
  <2>2. CASE i \in OpenIds
    BY <2>1, <2>2, <1>1 DEF OpenIsOfActive
  <2>3. CASE Opens(i)
    <3>1. SignedIn(m, "member") \/ (role[m] = "member" /\ Waits(m))
      BY <1>1, <2>3 DEF Opens
    <3>2. Waits(m) => InPlace(m)
      BY DEF Waits, OpenIsOfActive
    <3>. QED  BY <2>1, <3>1, <3>2 DEF InPlace, SignedIn
  <2>. QED  BY <1>1, <2>2, <2>3, OpenBefore
<1>2. ASSUME NEW s \in Suggestions, interest'[s] = "interested" PROVE InPlace(s[1])'
  <2>1. s[1] \in Users
    BY ReverseSuggestion
  <2>2. Undisturbed(s[1]) /\ Expressed(s)
    BY <1>2, <2>1 DEF Turn, Emptied
  <2>3. InPlace(s[1])
    BY <1>2, <2>2 DEF Expressed, OpenIsOfActive, InPlace
  <2>. QED  BY <2>2, <2>3 DEF Undisturbed
<1>. QED  BY <1>1, <1>2 DEF OpenIsOfActive, Parts

LEMMA NoMissedStep ==
    ASSUME Turn, NoMissedMatch
    PROVE  NoMissedMatch'
<1>. SUFFICES ASSUME NEW s \in Suggestions, interest'[s] = "interested",
                     interest'[Reverse(s)] = "interested"
              PROVE  FALSE
  BY DEF NoMissedMatch, Reverse
<1>1. Reverse(s) \in Suggestions /\ Reverse(Reverse(s)) = s
  BY MatchAssumption DEF Suggestions, Reverse
<1>2. interest[s] = "interested" /\ interest[Reverse(s)] = "interested"
  BY <1>1 DEF Turn, Expressed
<1>. QED  BY <1>2 DEF NoMissedMatch

LEMMA StandingInit == Init => Standing
<1>. SUFFICES ASSUME Init PROVE Standing
  OBVIOUS
<1>1. \A i \in Ids : proposals[i] = Absent
  BY DEF Init
<1>2. Absent.status = "absent" /\ Absent.reason = "none"
  BY DEF Absent
<1>3. OpenIds = {}
  BY <1>1, <1>2 DEF OpenIds, OpenStatuses
<1>4. OpenOf({}) = {} /\ \A m : OpenOf({m}) = {}
  BY <1>3 DEF OpenOf
<1>5. \A s \in Suggestions : interest[s] = "absent"
  BY DEF Init
<1>. QED  BY <1>1, <1>2, <1>3, <1>4, <1>5, AuthorizationInit
          DEF Standing, StageJustified, ReasonOfClosed, OpenReviewedByCurrent,
              HeldHasNoOpen, OpenIsOfActive, NoMissedMatch

LEMMA StandingStep == TypeOK /\ Standing /\ [Next]_vars => Standing'
<1>. SUFFICES ASSUME TypeOK, Standing, [Next]_vars PROVE Standing'
  OBVIOUS
<1>1. Fates /\ Turn
  BY StepFates, StepTurn
<1>. QED  BY <1>1, JustifiedStep, ReasonStep, ReviewedByCurrentStep, HeldStep,
             ActiveStep, NoMissedStep, AuthorizationStep DEF Standing

LEMMA StandingCorrect == Spec => [](TypeOK /\ Standing)
BY TypeInit, TypeStep, StandingInit, StandingStep, PTL DEF Spec

\* Introduced means approved on both sides and matched means accepted on both,
\* and nothing declined stays open: review_candidate and
\* respond_to_introduction move a proposal exactly when the second answer is
\* in, in whichever order the two sides come.
THEOREM StageJustifiedCorrect == Spec => []StageJustified
<1>1. Standing => StageJustified
  BY DEF Standing
<1>. QED  BY <1>1, StandingCorrect, PTL

\* No open proposal waits for, or was approved by, a counselor that was
\* replaced since: assign_counselor takes the clearance, and with it every
\* open proposal of the member.
THEOREM OpenReviewedCorrect == Spec => []OpenReviewedByCurrent
<1>1. Standing => OpenReviewedByCurrent
  BY DEF Standing
<1>. QED  BY <1>1, StandingCorrect, PTL

\* From apply_hold to release_hold the member has no open proposal, also when
\* its role changes in between or the other side expresses interest.
THEOREM HeldHasNoOpenCorrect == Spec => []HeldHasNoOpen
<1>1. Standing => HeldHasNoOpen
  BY DEF Standing
<1>. QED  BY <1>1, StandingCorrect, PTL

\* Members of open proposals, and those who wait for an answer to an
\* interest, are active members; the only exceptions are the accounts the
\* allow-list of resolve_identity promoted or sent back to counselor.
THEOREM OpenIsOfActiveCorrect == Spec => []OpenIsOfActive
<1>1. Standing => OpenIsOfActive
  BY DEF Standing
<1>. QED  BY <1>1, StandingCorrect, PTL

\* Two interests never wait for each other: set_suggestion_interest turns the
\* second into the match, and every withdrawal takes both rows.
THEOREM NoMissedMatchCorrect == Spec => []NoMissedMatch
<1>1. Standing => NoMissedMatch
  BY DEF Standing
<1>. QED  BY <1>1, StandingCorrect, PTL

-----------------------------------------------------------------------------
(* What a step may never do.                                               *)

LEMMA AdvanceReadyStep ==
    ASSUME TypeOK, Fates, NEW i \in Ids,
           proposals'[i].status \in {"introduced", "active"},
           proposals'[i].status # proposals[i].status
    PROVE  \A m \in Parts(i) : Eligible(m)
<1>1. ~Keeps(i) /\ ~Closes(i)
  BY DEF Keeps, Closes
<1>2. Opens(i) \/ Reviews(i) \/ Answers(i)
  BY <1>1 DEF Fates, Fate
<1>. QED  BY <1>2 DEF Opens, Reviews, Answers, PairReady

\* Nobody is introduced or matched who is not ready at that very moment: the
\* readiness stored by an earlier step is never what a review, a response or
\* an interest relies on.
THEOREM AdvanceNeedsReadyCorrect == Spec => AdvanceNeedsReady
<1>1. TypeOK /\ [Next]_vars =>
        \A i \in Ids :
          (/\ proposals'[i].status \in {"introduced", "active"}
           /\ proposals'[i].status # proposals[i].status) =>
              \A m \in Parts(i) : Eligible(m)
  BY StepFates, AdvanceReadyStep
<1>. QED  BY <1>1, TypeCorrect, PTL DEF Spec, AdvanceNeedsReady

\* What is created is created by Opens.
LEMMA CreatedOpens ==
    ASSUME Fates, NEW i \in Ids, Created(i)
    PROVE  Opens(i)
<1>1. ~Keeps(i) /\ ~Closes(i) /\ ~Reviews(i) /\ ~Answers(i)
  BY DEF Created, Keeps, Closes, Reviews, Answers, OpenStatuses
<1>. QED  BY <1>1 DEF Fates, Fate

LEMMA SafetyBarsStep ==
    ASSUME Fates, Turn, ReasonOfClosed, NEW p \in Pairs, SafetyHistory(p)
    PROVE  SafetyHistory(p)' /\ \A i \in Ids : Pair(i) = p => ~Created(i)
<1>1. ASSUME NEW i \in Ids, proposals[i].reason \in SafetyReasons
      PROVE  proposals'[i].reason \in SafetyReasons
  <2>1. proposals[i].status = "closed"
    BY <1>1 DEF ReasonOfClosed, SafetyReasons
  <2>2. Keeps(i)
    BY <2>1 DEF Fates, Fate, Closes, Opens, Reviews, Answers, OpenStatuses
  <2>. QED  BY <1>1, <2>2 DEF Keeps
<1>2. flags \subseteq flags'
  BY DEF Turn
<1>3. SafetyHistory(p)'
  BY <1>1, <1>2 DEF SafetyHistory, Pair
<1>4. \A i \in Ids : Created(i) => ~SafetyHistory(Pair(i))
  BY CreatedOpens DEF Opens
<1>. QED  BY <1>3, <1>4

\* A block, a report, a hold, a disabled account or lost readiness is never
\* forgotten and bars every later proposal of the pair, on every path that
\* creates one: generation, an authorized rematch, reciprocal interest.  A
\* transaction is one step here (see SafetyBarsProposal).
THEOREM SafetyBarsCorrect == Spec => SafetyBarsProposal
<1>1. Standing => ReasonOfClosed
  BY DEF Standing
<1>2. TypeOK /\ Standing /\ [Next]_vars =>
        \A p \in Pairs : SafetyHistory(p) =>
          SafetyHistory(p)' /\ \A i \in Ids : Pair(i) = p => ~Created(i)
  BY <1>1, StepFates, StepTurn, SafetyBarsStep
<1>. QED  BY <1>2, StandingCorrect, PTL DEF Spec, SafetyBarsProposal

LEMMA RepeatStep ==
    ASSUME TypeOK, Fates, LiveAuthorizationCurrent,
           NEW i \in Ids, Created(i), History(Pair(i)), NEW p, p = Pair(i)
    PROVE  /\ auth[p].status = "approved"
           /\ auth'[p].status = "consumed"
           /\ auth[p].ok = Both(TRUE)
           /\ assignment[p[1]].counselor # assignment[p[2]].counselor
           /\ \A s \in Sides : SignedIn(assignment[p[s]].counselor, "counselor")
<1>1. Usable(p) /\ auth'[p].status = "consumed"
  BY CreatedOpens DEF Opens
<1>2. p \in Pairs /\ auth[p] \in Authorization
  BY PartsInUsers DEF TypeOK
<1>3. auth[p].ok = Both(TRUE)
  <2>1. auth[p].ok \in [Sides -> BOOLEAN] /\ \A s \in Sides : auth[p].ok[s] = TRUE
    BY <1>1, <1>2 DEF Usable, Authorization
  <2>. QED  BY <2>1 DEF Both
<1>4. /\ auth[p].status = "approved"
      /\ \A s \in Sides : auth[p].bound[s] = assignment[p[s]]
      /\ \A s \in Sides : SignedIn(auth[p].bound[s].counselor, "counselor")
  BY <1>1 DEF Usable, BoundNow
<1>5. auth[p].bound[1].counselor # auth[p].bound[2].counselor
  BY <1>2, <1>4 DEF LiveAuthorizationCurrent, Live
<1>. QED  BY <1>1, <1>3, <1>4, <1>5 DEF Sides

\* A pair that was proposed before is proposed again only by consuming an
\* authorization that two distinct, active and current counselors approved
\* (_approved_rematch_authorizations), and one authorization is worth one
\* proposal.
THEOREM RepeatIsAuthorizedCorrect == Spec => RepeatIsAuthorized
<1>1. Standing => LiveAuthorizationCurrent
  BY DEF Standing
<1>2. TypeOK /\ Standing /\ [Next]_vars =>
        \A i \in Ids : (Created(i) /\ History(Pair(i))) =>
          LET p == Pair(i) IN
          /\ auth[p].status = "approved"
          /\ auth'[p].status = "consumed"
          /\ auth[p].ok = Both(TRUE)
          /\ assignment[p[1]].counselor # assignment[p[2]].counselor
          /\ \A s \in Sides : SignedIn(assignment[p[s]].counselor, "counselor")
  BY <1>1, StepFates, RepeatStep
<1>. QED  BY <1>2, StandingCorrect, PTL DEF Spec, RepeatIsAuthorized

\* Once barred, for ever barred, as far as a transaction is one step: of a
\* bar that rests on closed_reason alone, overlapping closers can take it
\* away (SafetyClosureStands of Journeys).
THEOREM BarIsForEver ==
    ASSUME NEW p \in Pairs
    PROVE  Spec => [](SafetyHistory(p) => []SafetyHistory(p))
<1>1. Standing => ReasonOfClosed
  BY DEF Standing
<1>2. TypeOK /\ Standing /\ [Next]_vars /\ SafetyHistory(p) => SafetyHistory(p)'
  BY <1>1, StepFates, StepTurn, SafetyBarsStep
<1>. QED  BY <1>2, StandingCorrect, PTL DEF Spec

-----------------------------------------------------------------------------
(* What a block or a report leaves open.                                   *)

\* introduced_at is set by the introduction and never taken back.
IntroducedIsMarked ==
    \A i \in Ids :
        /\ proposals[i].status \in {"introduced", "active"} => proposals[i].introduced
        /\ proposals[i].introduced => proposals[i].status # "absent"

LEMMA MarkedStep ==
    ASSUME Fates, IntroducedIsMarked
    PROVE  IntroducedIsMarked'
<1>. SUFFICES ASSUME NEW i \in Ids
     PROVE  /\ proposals'[i].status \in {"introduced", "active"} => proposals'[i].introduced
            /\ proposals'[i].introduced => proposals'[i].status # "absent"
  BY DEF IntroducedIsMarked
<1>1. /\ proposals[i].status \in {"introduced", "active"} => proposals[i].introduced
      /\ proposals[i].introduced => proposals[i].status # "absent"
  BY DEF IntroducedIsMarked
<1>2. CASE Keeps(i)
  BY <1>1, <1>2 DEF Keeps
<1>3. CASE Closes(i)
  BY <1>3 DEF Closes
<1>4. CASE Opens(i)
  <2>1. CASE proposals'[i] = NewProposal(i)
    BY <2>1, NewFields
  <2>2. CASE proposals'[i] = SelfPacedProposal
    <3>1. SelfPacedProposal.introduced /\ SelfPacedProposal.status = "active"
      BY DEF SelfPacedProposal
    <3>. QED  BY <2>2, <3>1
  <2>. QED  BY <1>4, <2>1, <2>2 DEF Opens
<1>5. CASE Reviews(i)
  BY <1>5 DEF Reviews
<1>6. CASE Answers(i)
  <2>1. proposals'[i].introduced = proposals[i].introduced
    BY <1>6 DEF Answers
  <2>2. proposals[i].introduced /\ proposals'[i].status # "absent"
    BY <1>1, <1>6 DEF Answers
  <2>. QED  BY <2>1, <2>2
<1>. QED  BY <1>2, <1>3, <1>4, <1>5, <1>6 DEF Fates, Fate

\* Only block_member and report_member insert a flag.
LEMMA FlagsOnlyByFlag ==
    ASSUME [Next]_vars, flags' # flags
    PROVE  \E kind \in {"block", "report"}, s \in Suggestions : Flag(kind, s)
<1>1. ASSUME RosterNext PROVE UNCHANGED flags
  BY <1>1 DEF RosterNext, GrantAdmin, RevokeAdmin, DisableAccount, ReactivateAccount,
     Expire, UpdateOrdinary, UpdateEntitlement, ApplyHold, ReleaseHold, SetEvidence,
     MemberToCounselor, CounselorToMember, AssignCounselor, RecordCounselorDecision,
     AssignCommunity
<1>2. ASSUME RematchNext \/ SelfPacedNext \/ \E u \in Users : ReadProgress(u)
      PROVE  UNCHANGED flags
  BY <1>2 DEF RematchNext, RequestRematch, ApproveRematch, CandidateGenerationDiagnostics,
     SelfPacedNext, ExpressAlone, ExpressMutual, ReadProgress
<1>3. GenerateCandidates => UNCHANGED flags
  BY DEF GenerateCandidates, Generate
<1>5. ASSUME NEW i \in Ids,
             \/ AccessLapsed(i)
             \/ \E c \in Users, decision \in {"approved", "declined"} :
                   ReviewCandidate(c, i, decision)
             \/ \E s \in Sides, decision \in {"accepted", "declined"} :
                   RespondToIntroduction(i, s, decision)
      PROVE  UNCHANGED flags
  BY <1>5 DEF AccessLapsed, ReviewCandidate, RespondToIntroduction
<1>4. UNCHANGED vars => UNCHANGED flags
  BY DEF vars
<1>. QED  BY <1>1, <1>2, <1>3, <1>4, <1>5
          DEF Next, MatchNext, IntroductionsNext, BlockMember, ReportMember

\* Two proposals with the same people are of the same pair.
LEMMA SameParts ==
    ASSUME NEW i \in Ids, NEW j \in Ids, Parts(i) = Parts(j)
    PROVE  Pair(i) = Pair(j)
<1>1. /\ Pair(i) \in Pairs /\ Pair(j) \in Pairs
      /\ Pairs \subseteq Users \X Users /\ \A p \in Pairs : <<p[2], p[1]>> \notin Pairs
  BY MatchAssumption DEF Ids, Pair
<1>2. PICK p, q : p = Pair(i) /\ q = Pair(j)
  OBVIOUS
<1>3. {p[1], p[2]} = {q[1], q[2]} /\ p = <<p[1], p[2]>> /\ q = <<q[1], q[2]>>
  BY <1>1, <1>2 DEF Parts, Pair
<1>4. CASE p[1] = q[1]
  BY <1>2, <1>3, <1>4
<1>5. CASE p[1] # q[1]
  <2>1. p[1] = q[2] /\ p[2] = q[1]
    BY <1>3, <1>5
  <2>. QED  BY <1>1, <1>2, <1>3, <2>1
<1>. QED  BY <1>4, <1>5

LEMMA FlagStep ==
    ASSUME TypeOK, RoundsInTurn, IntroducedIsMarked, [Next]_vars,
           NEW i \in OpenIds, Flagged(i), proposals'[i].status # "closed"
    PROVE  /\ proposals[i].status = "pending_review"
           /\ \E j \in Ids : Pair(j) = Pair(i) /\ j[2] < i[2] /\ proposals[j].introduced
<1>1. PICK kind \in {"block", "report"}, s \in Suggestions : Flag(kind, s)
  BY FlagsOnlyByFlag DEF Flagged
<1>2. PICK latest, reason :
         latest \in Existing(PairOf(s)) /\ CloseAll({latest} \cap OpenIds, reason)
  BY <1>1 DEF Flag
<1>3. /\ latest \in Ids /\ Pair(latest) = PairOf(s) /\ proposals[latest].introduced
      /\ \A j \in Ids : (Pair(j) = PairOf(s) /\ proposals[j].introduced) => j[2] <= latest[2]
  BY <1>2 DEF Existing
<1>4. i \in Ids /\ proposals[i] \in Proposal /\ proposals[i].status \in OpenStatuses
  BY DEF OpenIds, TypeOK
<1>5. Pair(i) = Pair(latest)
  <2>1. Parts(i) = {s[1], s[2]}
    BY <1>1 DEF Flagged, Flag
  <2>2. Parts(latest) = {s[1], s[2]}
    BY <1>3, SuggestionOfPair
  <2>. QED  BY <1>3, <1>4, <2>1, <2>2, SameParts
<1>6. i # latest
  <2>. SUFFICES ASSUME i = latest PROVE proposals'[i].status = "closed"
    OBVIOUS
  <2>1. proposals'[i] = [proposals[i] EXCEPT !.status = "closed", !.reason = reason[i]]
    BY <1>2, <1>4 DEF CloseAll
  <2>. QED  BY <1>4, <2>1 DEF Proposal
<1>7. i[2] \in Int /\ latest[2] \in Int /\ i[2] # latest[2]
  <2>1. i \in Pairs \X (1..MaxRounds) /\ latest \in Pairs \X (1..MaxRounds)
    BY <1>3, <1>4 DEF Ids
  <2>. QED  BY <1>5, <1>6, <2>1 DEF Pair
<1>8. ~(i[2] < latest[2])
  BY <1>3, <1>4, <1>5 DEF RoundsInTurn, IntroducedIsMarked, OpenStatuses
<1>9. latest[2] < i[2]
  BY <1>7, <1>8
<1>10. ~proposals[i].introduced
  BY <1>3, <1>4, <1>5, <1>7, <1>9
<1>11. proposals[i].status = "pending_review"
  BY <1>4, <1>10 DEF IntroducedIsMarked, OpenStatuses
<1>. QED  BY <1>3, <1>5, <1>9, <1>11

\* block_member and report_member end the introduction or the match of the
\* two, the latest of the pair, whatever was closed and proposed again before.
\* What is left to the statement of the README they do not meet is a repeat
\* under review.
THEOREM FlagSparesOnlyReviewCorrect == Spec => FlagSparesOnlyReview
<1>1. Init => IntroducedIsMarked
  BY DEF Init, IntroducedIsMarked, Absent
<1>2. TypeOK /\ IntroducedIsMarked /\ [Next]_vars => IntroducedIsMarked'
  BY StepFates, MarkedStep
<1>3. TypeOK /\ RoundsInTurn /\ IntroducedIsMarked /\ [Next]_vars =>
        \A i \in OpenIds : (Flagged(i) /\ proposals'[i].status # "closed") =>
          /\ proposals[i].status = "pending_review"
          /\ \E j \in Ids : Pair(j) = Pair(i) /\ j[2] < i[2] /\ proposals[j].introduced
  BY FlagStep
<1>. QED  BY <1>1, <1>2, <1>3, TypeCorrect, RoundsCorrect, PTL
          DEF Spec, FlagSparesOnlyReview
=============================================================================
