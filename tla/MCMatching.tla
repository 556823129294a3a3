----------------------------- MODULE MCMatching -----------------------------
(***************************************************************************)
(* Small instances of Matching.  MaxUpsets bounds the steps of the roster  *)
(* and of time in one behaviour, MaxFlags the block and report rows; what  *)
(* members and counselors do about proposals is bounded by MaxRounds only. *)
(***************************************************************************)
EXTENDS Matching, TLC

CONSTANTS MaxUpsets, MaxFlags, FlagKinds, StartModes, w1, w2, m1, c1, c2

VARIABLE upsets

mcvars == <<vars, upsets>>

OnePair == {<<w1, m1>>}
SharedPair == {<<w1, m1>>, <<w2, m1>>}
MCInvited == [u \in Users |-> IF u \in {c1, c2} THEN "counselor" ELSE "member"]

Interchangeable == Permutations({c1, c2})
Rivals == Permutations({w1, w2})

MCInit ==
    /\ Init
    /\ \E start \in StartModes : \A u \in Users : role[u] = "member" => mode[u] = start
    /\ upsets = 0

MCNext ==
    /\ \/ RosterNext /\ upsets < MaxUpsets /\ upsets' = upsets + 1
       \/ MatchNext /\ UNCHANGED upsets
    /\ Cardinality(flags') <= MaxFlags
    /\ \A f \in flags' : f[1] \in FlagKinds

MCSpec == MCInit /\ [][MCNext]_mcvars
=============================================================================
