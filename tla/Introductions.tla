--------------------------- MODULE Introductions ----------------------------
(***************************************************************************)
(* Counselor-based matching: candidate generation, counselor review, the   *)
(* members' responses, the reconciliation done on access, and the safety   *)
(* actions of a member on somebody it was introduced to.                   *)
(***************************************************************************)
EXTENDS MatchState

NewProposal(i) ==
    [Absent EXCEPT !.status = "pending_review",
                   !.counselors = [s \in Sides |-> assignment[Pair(i)[s]].counselor]]

\* The unique index on participant claims: no member of the new proposals
\* holds a claim that this transaction does not release.
ClaimsFree(new, lost) ==
    \A i \in new, c \in claims : c[2] \in Parts(i) => c[1] \in lost

\* Mutant: a repeat needs no authorization.
AdmissibleRepeat(S) ==
    {i \in Ids : Parts(i) \subseteq S /\ IsNext(i) /\ ~SafetyHistory(Pair(i))}

\* Mutant: the safety history of the pair is not looked up.
AdmissibleUnsafe(S) ==
    {i \in Ids : /\ Parts(i) \subseteq S
                 /\ IsNext(i)
                 /\ History(Pair(i)) => Usable(Pair(i))}

\* The pairs that may be proposed among the candidates S, as next proposals.
Admissible(S) ==
    {i \in Ids : /\ Parts(i) \subseteq S
                 /\ IsNext(i)
                 /\ ~SafetyHistory(Pair(i))
                 /\ History(Pair(i)) => Usable(Pair(i))}

\* Mutant: only the pair itself is not proposed twice.
DisjointPairs(new) == \A i, j \in new : i # j => Pair(i) # Pair(j)

\* No member is proposed twice in one run.
Disjoint(new) == \A i, j \in new : i # j => Parts(i) \cap Parts(j) = {}

\* Greedy by score keeps adding pairs until every admissible one is taken
\* or shares a member with a taken one; the scores are not modelled.
Maximal(new, S) ==
    \A i \in Admissible(S) : i \in new \/ \E j \in new : Parts(i) \cap Parts(j) # {}

(***************************************************************************)
(* generate_candidates.  Every member of the pool is re-evaluated in an    *)
(* order the query leaves open: a lapsed member loses its open proposals,  *)
(* and the partner it frees is a candidate only if the order reaches that  *)
(* partner later ("late").                                                 *)
(***************************************************************************)
Pool == {m \in Users : SignedIn(m, "member") /\ mode[m] = "counselor_based"}
Lapsed == {m \in Pool : ~Eligible(m)}
Lost == OpenOf(Lapsed)
Free == {m \in Pool \ Lapsed : OpenOf({m}) = {}}
Freed == {m \in Pool \ Lapsed : OpenOf({m}) # {} /\ OpenOf({m}) \subseteq Lost}
LossReasons == {"hold_applied", "readiness_lost"}

\* The lost proposals are closed for the reasons given, the new ones opened,
\* claimed, and the authorizations of repeated pairs consumed.
Generate(reason, new) ==
    /\ proposals' = [i \in Ids |->
          CASE i \in new -> NewProposal(i)
            [] i \in Lost -> [proposals[i] EXCEPT !.status = "closed",
                                                  !.reason = reason[i]]
            [] OTHER -> proposals[i]]
    /\ claims' = {c \in claims : c[1] \notin Lost} \cup ClaimsOf(new)
    /\ SweepAuthorizations({p \in Pairs : History(p) /\ \E i \in new : Pair(i) = p})
    /\ Withdraw(Lapsed)
    /\ UNCHANGED <<roster, flags>>

GenerateCandidates ==
    \E late \in SUBSET Freed, reason \in [Lost -> LossReasons] :
    \E new \in SUBSET Admissible(Free \cup late) :
        /\ \A i \in Lost : \E m \in Lapsed \cap Parts(i) : reason[i] = LossReason(m)
        /\ Disjoint(new)
        /\ Maximal(new, Free \cup late)
        /\ ClaimsFree(new, Lost)
        /\ Generate(reason, new)

(***************************************************************************)
(* _reconcile_entitlement_lapse of an open proposal that is not ready: a   *)
(* lapsed subscription closes that proposal only; otherwise both members   *)
(* are re-evaluated in pair order, which fails if one is no longer a       *)
(* member.                                                                 *)
(***************************************************************************)
Reconcile(i) ==
    LET lapsed == {m \in Parts(i) : ~Eligible(m)}
        first == IF Pair(i)[1] \in lapsed THEN Pair(i)[1] ELSE Pair(i)[2]
    IN
    IF \E m \in Parts(i) : ~evidence[m].entitled
    THEN /\ CloseAll({i}, [j \in Ids |-> "entitlement_lapsed"])
         /\ UNCHANGED interest
    ELSE /\ \A m \in Parts(i) : role[m] = "member"
         /\ CloseAll({i} \cup OpenOf(lapsed), [j \in Ids |-> LossReason(first)])
         /\ Withdraw(lapsed)

\* Any reader or operation of an open proposal whose pair is not ready:
\* get_introduction, get_matched_pair, messages, journeys, review, response.
AccessLapsed(i) ==
    /\ i \in OpenIds
    /\ ~PairReady(i)
    /\ Reconcile(i)
    /\ UNCHANGED <<roster, auth, flags>>

OtherOpen(i) == OpenOf(Parts(i)) \ {i}

\* Mutant: one approval is enough.
AnyApproved(decisions) == \E s \in Sides : decisions[s] = "approved"

AllApproved(decisions) == decisions = Both("approved")

\* review_candidate of a ready pair.
ReviewCandidate(c, i, decision) ==
    LET mine == {s \in Sides : proposals[i].counselors[s] = c}
        decisions == [s \in Sides |->
            IF s \in mine THEN decision ELSE proposals[i].decisions[s]]
        reviewed == [proposals[i] EXCEPT !.decisions = decisions]
    IN
    /\ SignedIn(c, "counselor")
    /\ proposals[i].status = "pending_review"
    /\ PairReady(i)
    /\ mine # {}
    /\ \A s \in mine : proposals[i].decisions[s] = "pending"
    /\ \/ /\ decision = "declined"
          /\ proposals' = [proposals EXCEPT
                ![i] = [reviewed EXCEPT !.status = "closed",
                                        !.reason = "counselor_declined"]]
          /\ claims' = {r \in claims : r[1] # i}
       \/ /\ decision = "approved"
          /\ ~AllApproved(decisions)
          /\ proposals' = [proposals EXCEPT ![i] = reviewed]
          /\ UNCHANGED claims
       \/ /\ decision = "approved"
          /\ AllApproved(decisions)
          /\ OtherOpen(i) = {}
          /\ proposals' = [proposals EXCEPT
                ![i] = [reviewed EXCEPT !.status = "introduced",
                                        !.introduced = TRUE]]
          /\ UNCHANGED claims
    /\ UNCHANGED <<roster, auth, interest, flags>>

\* respond_to_introduction of a ready pair, by the member of side s.
RespondToIntroduction(i, s, decision) ==
    LET other == proposals[i].responses[3 - s]
        answered == [proposals[i] EXCEPT !.responses[s] = decision]
    IN
    /\ SignedIn(Pair(i)[s], "member")
    /\ proposals[i].status = "introduced"
    /\ PairReady(i)
    /\ proposals[i].responses[s] = "none"
    /\ \/ /\ "declined" \in {decision, other}
          /\ proposals' = [proposals EXCEPT
                ![i] = [answered EXCEPT !.status = "closed",
                                        !.reason = "member_declined"]]
          /\ claims' = {r \in claims : r[1] # i}
       \/ /\ decision = "accepted"
          /\ other = "none"
          /\ proposals' = [proposals EXCEPT ![i] = answered]
          /\ UNCHANGED claims
       \/ /\ decision = "accepted"
          /\ other = "accepted"
          /\ OtherOpen(i) = {}
          /\ proposals' = [proposals EXCEPT
                ![i] = [answered EXCEPT !.status = "active"]]
          /\ UNCHANGED claims
    /\ UNCHANGED <<roster, auth, interest, flags>>

\* Mutant: the first introduction of the pair is looked up.
FirstIntroduced(p) ==
    {i \in Ids : /\ Pair(i) = p /\ proposals[i].introduced
                 /\ \A j \in Ids : Pair(j) = p /\ proposals[j].introduced => i[2] <= j[2]}

\* _existing_proposal: the latest proposal of the pair that was introduced.
Existing(p) ==
    {i \in Ids : /\ Pair(i) = p /\ proposals[i].introduced
                 /\ \A j \in Ids : Pair(j) = p /\ proposals[j].introduced => j[2] <= i[2]}

\* block_member and report_member: only the existing proposal is closed.
Flag(kind, s) ==
    /\ SignedIn(s[1], "member")
    /\ role[s[2]] = "member"
    /\ \E latest \in Existing(PairOf(s)) :
          CloseAll({latest} \cap OpenIds,
                   [i \in Ids |-> IF kind = "block" THEN "member_block"
                                                    ELSE "member_report"])
    /\ flags' = flags \cup {<<kind, s[1], s[2]>>}
    /\ UNCHANGED <<roster, auth, interest>>

BlockMember(s) == Flag("block", s)
ReportMember(s) == Flag("report", s)

IntroductionsNext ==
    \/ GenerateCandidates
    \/ \E i \in Ids :
          \/ AccessLapsed(i)
          \/ \E c \in Users, decision \in {"approved", "declined"} :
                ReviewCandidate(c, i, decision)
          \/ \E s \in Sides, decision \in {"accepted", "declined"} :
                RespondToIntroduction(i, s, decision)
    \/ \E s \in Suggestions : BlockMember(s) \/ ReportMember(s)
=============================================================================
