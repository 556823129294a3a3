------------------------------ MODULE SelfPaced -----------------------------
(***************************************************************************)
(* Self-paced matching: set_suggestion_interest.  The rows of interest of  *)
(* a pair are locked with both members, so the second of two reciprocal    *)
(* interests opens the match.                                              *)
(***************************************************************************)
EXTENDS MatchState

SelfPacedProposal ==
    [status |-> "active", counselors |-> Both(None),
     decisions |-> Both("approved"), responses |-> Both("accepted"),
     introduced |-> TRUE, reason |-> "none"]

\* The guards of _set_suggestion_interest_once on the way to a write.
MayExpress(s, choice) ==
    /\ SignedIn(s[1], "member")
    /\ role[s[2]] = "member"
    /\ mode[s[1]] = "self_paced" /\ mode[s[2]] = "self_paced"
    /\ interest[s] \notin {choice, "matched", "withdrawn"}
    /\ \A m \in {s[1], s[2]} : Eligible(m) /\ OpenOf({m}) = {}
    /\ ~SafetyHistory(PairOf(s))
    /\ History(PairOf(s)) => Usable(PairOf(s))

\* Mutant: the member's own row is read, not the other's.
ReciprocatedBySelf(s, choice) ==
    choice = "interested" /\ interest[s] = "interested"

\* The other member has expressed the same interest already.
Reciprocated(s, choice) ==
    choice = "interested" /\ interest[Reverse(s)] = "interested"

\* A dismissal, or an interest the other member has not expressed.
ExpressAlone(s, choice) ==
    /\ MayExpress(s, choice)
    /\ ~Reciprocated(s, choice)
    /\ interest' = [interest EXCEPT ![s] = choice]
    /\ SweepAuthorizations({})
    /\ UNCHANGED <<roster, proposals, claims, flags>>

\* The reciprocal interest: an active match, claimed for both.
ExpressMutual(s) ==
    /\ MayExpress(s, "interested")
    /\ Reciprocated(s, "interested")
    /\ \A c \in claims : c[2] \notin {s[1], s[2]}
    /\ \E i \in Ids :
          /\ Pair(i) = PairOf(s)
          /\ IsNext(i)
          /\ proposals' = [proposals EXCEPT ![i] = SelfPacedProposal]
          /\ claims' = claims \cup ClaimsOf({i})
          /\ SweepAuthorizations(IF History(Pair(i)) THEN {Pair(i)} ELSE {})
    /\ interest' = [interest EXCEPT ![s] = "matched", ![Reverse(s)] = "matched"]
    /\ UNCHANGED <<roster, flags>>

SelfPacedNext ==
    \E s \in Suggestions :
        \/ \E choice \in {"interested", "dismissed"} : ExpressAlone(s, choice)
        \/ ExpressMutual(s)
=============================================================================
