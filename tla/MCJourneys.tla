----------------------------- MODULE MCJourneys -----------------------------
(***************************************************************************)
(* Small instances of Journeys.  MaxEvents bounds, in one behaviour, the   *)
(* changes of the roster and what the members write, together.             *)
(***************************************************************************)
EXTENDS Journeys, TLC

CONSTANTS MaxEvents, talk, pray, day30, anna, ben, c1, c2, s1, s2

VARIABLE upsets

mcvars == <<vars, upsets>>

MCDueAfter == [k \in Milestones |-> 2]

Interchangeable ==
    Permutations(Sessions) \cup Permutations(Members) \cup Permutations(Counselors)

\* The number of check-ins submitted is in the note of the last one.
Written ==
    LET last(k, m) == IF checkIns[k][m] = None THEN 0 ELSE checkIns[k][m].note IN
    Len(messages) + Cardinality(done)
        + MapThenSumSet(LAMBDA km : last(km[1], km[2]), Milestones \X Members)

MCInit == Init /\ upsets = 0

MCNext ==
    /\ \/ Upset /\ upsets' = upsets + 1
       \/ (Tick \/ \E s \in Sessions : Activity(s)) /\ UNCHANGED upsets
    /\ upsets' + Written' <= MaxEvents

MCSpec == MCInit /\ [][MCNext]_mcvars
=============================================================================
