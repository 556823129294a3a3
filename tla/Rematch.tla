------------------------------- MODULE Rematch ------------------------------
(***************************************************************************)
(* Authorization of a repeat proposal for a pair that was proposed before: *)
(* Member Operations request it, the current counselor of each member      *)
(* approves it, and the next proposal of the pair consumes it.             *)
(***************************************************************************)
EXTENDS MatchState

\* _validate_rematch_pair
RematchValid(p) ==
    /\ \A s \in Sides :
          /\ SignedIn(p[s], "member")
          /\ OpenOf({p[s]}) = {}
          /\ Eligible(p[s])
          /\ assignment[p[s]].counselor # None
          /\ SignedIn(assignment[p[s]].counselor, "counselor")
    /\ History(p)
    /\ ~SafetyHistory(p)
    /\ assignment[p[1]].counselor # assignment[p[2]].counselor
    /\ mode[p[1]] = mode[p[2]]

\* request_rematch_authorization; a live but stale authorization is revoked
\* first, which the new row stands for here.
RequestRematch(p) ==
    /\ RematchValid(p)
    /\ ~(Live(p) /\ BoundNow(p))
    /\ auth' = [auth EXCEPT ![p] =
          [status |-> "pending", bound |-> [s \in Sides |-> assignment[p[s]]],
           ok |-> Both(FALSE)]]
    /\ UNCHANGED <<roster, proposals, claims, interest, flags>>

\* approve_rematch_authorization by the counselor of side s.
ApproveRematch(p, s) ==
    LET ok == [auth[p].ok EXCEPT ![s] = TRUE] IN
    /\ auth[p].status = "pending"
    /\ IF ~BoundNow(p)
       THEN RevokeWhere({p})
       ELSE /\ RematchValid(p)
            /\ ~auth[p].ok[s]
            /\ auth' = [auth EXCEPT ![p] =
                  [@ EXCEPT !.ok = ok,
                            !.status = IF ok = Both(TRUE) THEN "approved" ELSE "pending"]]
    /\ UNCHANGED <<roster, proposals, claims, interest, flags>>

\* candidate_generation_diagnostics re-evaluates nobody, but its reading of
\* the authorizations sweeps them; so does list_self_paced_suggestions, whose
\* re-evaluations are those of ReadProgress.
CandidateGenerationDiagnostics ==
    /\ SweepAuthorizations({})
    /\ UNCHANGED <<roster, proposals, claims, interest, flags>>

RematchNext ==
    \/ \E p \in Pairs : RequestRematch(p) \/ \E s \in Sides : ApproveRematch(p, s)
    \/ CandidateGenerationDiagnostics
=============================================================================
