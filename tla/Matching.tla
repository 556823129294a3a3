------------------------------ MODULE Matching ------------------------------
(***************************************************************************)
(* The matching core of MatchWell as one specification: the roster, the    *)
(* counselor-based introductions, rematch authorization and self-paced     *)
(* matching over one stored state.  One action is one transaction.         *)
(***************************************************************************)
EXTENDS Roster, Introductions, Rematch, SelfPaced

\* A Center with every invited member fully onboarded and cleared by some
\* counselor, in either community, before the first proposal.
Init ==
    /\ role = Invited
    /\ status = [u \in Users |-> "active"]
    /\ mode \in {f \in [Users -> Modes] :
                    \A u \in Users : Invited[u] = "counselor" => f[u] = "counselor_based"}
    /\ evidence = [u \in Users |->
          LET onboarded == Invited[u] = "member" IN
          [ordinary |-> onboarded, entitled |-> onboarded, held |-> FALSE,
           cleared |-> onboarded]]
    /\ assignment \in {f \in [Users -> [counselor : Users \cup {None}, id : {0}]] :
          \A u \in Users :
             IF Invited[u] = "member"
             THEN f[u].counselor # None /\ Invited[f[u].counselor] = "counselor"
             ELSE f[u].counselor = None}
    /\ proposals = [i \in Ids |-> Absent]
    /\ claims = {}
    /\ auth = [p \in Pairs |->
          [status |-> "absent", bound |-> Both([counselor |-> None, id |-> 0]),
           ok |-> Both(FALSE)]]
    /\ interest = [s \in Suggestions |-> "absent"]
    /\ flags = {}

MatchNext ==
    \/ IntroductionsNext
    \/ RematchNext
    \/ SelfPacedNext
    \/ \E u \in Users : ReadProgress(u)

Next == RosterNext \/ MatchNext

Spec == Init /\ [][Next]_vars

-----------------------------------------------------------------------------

\* Every variable holds a value of its stored type (persistence/models.py).
TypeOK ==
    /\ role \in [Users -> Roles]
    /\ status \in [Users -> {"active", "disabled"}]
    /\ mode \in [Users -> Modes]
    /\ evidence \in [Users -> Evidence]
    /\ assignment \in [Users -> Assignment]
    /\ proposals \in [Ids -> Proposal]
    /\ claims \in SUBSET (Ids \X Users)
    /\ auth \in [Pairs -> Authorization]
    /\ interest \in [Suggestions -> Interests]
    /\ flags \in SUBSET Flags

\* The participant claims are exactly the members of the open proposals:
\* every closure releases both, every creation takes both.  A claim left
\* behind would bar a member from matching for ever; a missing one would let
\* two operations match the same member twice.
ClaimsMatchOpen ==
    claims = {c \in Ids \X Users : c[1] \in OpenIds /\ c[2] \in Parts(c[1])}

\* A member is in at most one open proposal, whichever operations opened
\* them (generation, rematch, reciprocal self-paced interest).
OneOpenPerMember ==
    \A i, j \in OpenIds : i # j => Parts(i) \cap Parts(j) = {}

\* The counselors an open counselor-based proposal waits for are the current
\* counselors of its members: reassignment cannot leave a proposal behind
\* that the new counselor never reviewed.
OpenReviewedByCurrent ==
    \A i \in OpenIds : \A s \in Sides :
        proposals[i].counselors[s] \in {None, assignment[Pair(i)[s]].counselor}

\* An introduction was approved for both members and a match accepted by
\* both; a pending proposal has had neither a decline nor an answer.
StageJustified ==
    \A i \in OpenIds :
        /\ (proposals[i].status = "pending_review") =
              (proposals[i].decisions # Both("approved"))
        /\ (proposals[i].status = "active") =
              (proposals[i].responses = Both("accepted"))
        /\ \A s \in Sides : /\ proposals[i].decisions[s] # "declined"
                            /\ proposals[i].responses[s] # "declined"

\* Two members who are both interested are matched: no pair of rows stays
\* "interested" in both directions, whatever was dismissed, withdrawn and
\* expressed again in between.
NoMissedMatch ==
    \A s \in Suggestions :
        ~(interest[s] = "interested" /\ interest[Reverse(s)] = "interested")

\* A live authorization names two distinct counselors, each the current
\* counselor of its member through the very assignment it was requested
\* under; only approvals given under these count.
LiveAuthorizationCurrent ==
    \A p \in Pairs : Live(p) =>
        /\ BoundNow(p)
        /\ auth[p].bound[1].counselor # auth[p].bound[2].counselor
        /\ None \notin {auth[p].bound[s].counselor : s \in Sides}

\* A closed proposal is history: no operation that finds it closed reopens
\* it, changes why it was closed or touches what was decided.  This is so at
\* the grain of this module, one step per transaction.  Closers that overlap
\* may both have read the proposal open, and then the later one does rewrite
\* closed_reason: SafetyClosureStands of Journeys, which the code violates.
ClosedIsFinal ==
    [][\A i \in Ids : proposals[i].status = "closed" =>
                          proposals'[i] = proposals[i]]_vars

\* The step creates a proposal.
Created(i) == proposals[i].status = "absent" /\ proposals'[i].status # "absent"

\* A block, a report or a closure for safety bars the pair for ever: nothing
\* that follows hides it, and no proposal of the pair is created again,
\* generated or self-paced, authorized or not.  Like ClosedIsFinal this is of
\* transactions that do not overlap: when two do, the reason that bars the
\* pair may be overwritten by one that does not.  A block or a report is a
\* row of its own and bars the pair in any case.
SafetyBarsProposal ==
    [][\A p \in Pairs : SafetyHistory(p) =>
          SafetyHistory(p)' /\ \A i \in Ids : Pair(i) = p => ~Created(i)]_vars

\* Being flagged by the step.
Flagged(i) == \E f \in flags' \ flags : {f[2], f[3]} = Parts(i)

\* A block or a report ends the introduction or the match of the two.  What
\* it may leave open is a repeat that waits for review, of a pair that was
\* introduced in an earlier round.
FlagSparesOnlyReview ==
    [][\A i \in OpenIds : (Flagged(i) /\ proposals'[i].status # "closed") =>
          /\ proposals[i].status = "pending_review"
          /\ \E j \in Ids : Pair(j) = Pair(i) /\ j[2] < i[2] /\ proposals[j].introduced]_vars

\* A repeat proposal uses up an authorization approved for both sides by two
\* distinct counselors, each still active and still assigned to its member.
RepeatIsAuthorized ==
    [][\A i \in Ids : (Created(i) /\ History(Pair(i))) =>
          LET p == Pair(i) IN
          /\ auth[p].status = "approved"
          /\ auth'[p].status = "consumed"
          /\ auth[p].ok = Both(TRUE)
          /\ assignment[p[1]].counselor # assignment[p[2]].counselor
          /\ \A s \in Sides : SignedIn(assignment[p[s]].counselor, "counselor")]_vars

\* A proposal moves forward (review, introduction, match) only while both
\* members are ready at that moment, also when evidence expired with no
\* handler running.
AdvanceNeedsReady ==
    [][\A i \in Ids :
          (/\ proposals'[i].status \in {"introduced", "active"}
           /\ proposals'[i].status # proposals[i].status) =>
              \A m \in Parts(i) : Eligible(m)]_vars

\* Whoever is under a hold has no open proposal: applying the hold closes
\* them, and nothing opens one before its release, whatever becomes of the
\* role in between.
HeldHasNoOpen == \A m \in Users : evidence[m].held => OpenOf({m}) = {}

\* An active member, or somebody the allow-list made an administrator and
\* perhaps sent back to the counselor's role of the invitation.
InPlace(m) ==
    \/ SignedIn(m, "member")
    \/ role[m] = "admin"
    \/ role[m] = "counselor" /\ Invited[m] = "counselor"

\* Disabling an account and both changes of role close every stage and
\* withdraw the interest: but for the allow-list, whoever is in an open
\* proposal or waits for an answer to an interest is an active member.
OpenIsOfActive ==
    /\ \A i \in OpenIds : \A m \in Parts(i) : InPlace(m)
    /\ \A s \in Suggestions : interest[s] = "interested" => InPlace(s[1])

-----------------------------------------------------------------------------
\* The abstract promise: one bond per proposal, its stage the status.
E == INSTANCE Engagement WITH
        Bonds <- Ids,
        Between <- [i \in Ids |-> Parts(i)],
        Earlier <- [i \in Ids |-> {j \in Ids : Pair(j) = Pair(i) /\ j[2] < i[2]}],
        stage <- [i \in Ids |-> proposals[i].status]

\* Matching keeps the promise of Engagement: every transaction is a turnover,
\* one advance, one self-paced match, or leaves the stages alone.
KeepsPromise == E!Promise

-----------------------------------------------------------------------------
\* Statements of the README that the code does not meet.

\* README.md: blocks and reports "close any open proposal or introduction".
FlaggedPairHasNoOpen ==
    \A i \in OpenIds, f \in flags : {f[2], f[3]} # Parts(i)

\* README.md: a "role change closes conversation access immediately".
OpenIsBetweenMembers ==
    \A i \in OpenIds : \A m \in Parts(i) : role[m] = "member"
=============================================================================
