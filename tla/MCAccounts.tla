---------------------------- MODULE MCAccounts -----------------------------
(***************************************************************************)
(* Small instances of Accounts.  MaxEvents bounds, in one behaviour, the   *)
(* restarts, the expiries and the changes of accounts that commands make.  *)
(***************************************************************************)
EXTENDS Accounts, TLC

CONSTANTS MaxEvents, ann, bob, cyd, s1, s2

VARIABLE events

mcvars == <<vars, events>>

Interchangeable == Permutations(People) \cup Permutations(Sessions)

MCInit == Init /\ events = 0

Counted ==
    \/ (\E s \in Sessions : Command(s)) /\ account' # account
    \/ \E emails \in SUBSET People : Deploy(emails)
    \/ \E i \in DOMAIN invitations : Expire(i)

Uncounted ==
    \/ (\E s \in Sessions : Command(s)) /\ UNCHANGED account
    \/ \E s \in Sessions : Rerun(s)

MCNext ==
    \/ Counted /\ events < MaxEvents /\ events' = events + 1
    \/ Uncounted /\ UNCHANGED events

MCSpec == MCInit /\ [][MCNext]_mcvars
=============================================================================
