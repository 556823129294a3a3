--------------------------- MODULE PromiseProofs ----------------------------
(***************************************************************************)
(* Matching implements Engagement, for every Center: the initial states    *)
(* start with no bond, and every kind of step is a move of Engagement.     *)
(***************************************************************************)
EXTENDS MatchingProofs

stageOf == [i \in Ids |-> proposals[i].status]

LEMMA OpenIsOpen == E!Open = OpenIds
BY DEF E!Open, OpenIds, OpenStatuses

\* A proposal that is the next of its pair and finds its claims free, but for
\* those of the proposals closed in the same step, may start.
LEMMA MayStartNext ==
    ASSUME TypeOK, Exclusive, NEW lost \in SUBSET Ids, NEW new \in SUBSET Ids,
           ClaimsFree(new, lost), NEW i \in new, IsNext(i)
    PROVE  E!MayStart(i, lost)
<1>. DEFINE earlier == {j \in Ids : Pair(j) = Pair(i) /\ j[2] < i[2]}
<1>1. stageOf[i] = "absent"
  BY DEF stageOf, IsNext
<1>2. ASSUME NEW j \in earlier PROVE stageOf[j] = "closed" \/ j \in lost
  <2>1. j \in Ids /\ Pair(j) = Pair(i) /\ proposals[j].status # "absent"
    BY <1>2 DEF IsNext
  <2>2. proposals[j] \in Proposal
    BY <2>1 DEF TypeOK
  <2>3. CASE proposals[j].status = "closed"
    BY <2>1, <2>3 DEF stageOf
  <2>4. CASE j \in OpenIds /\ j \notin lost
    <3>1. Parts(j) \cap Parts(i) = {}
      BY <2>4, FreeOfClaims
    <3>2. Parts(j) = Parts(i) /\ i[1][1] \in Parts(i)
      BY <2>1 DEF Parts, Pair
    <3>. QED  BY <3>1, <3>2
  <2>. QED  BY <2>1, <2>2, <2>3, <2>4 DEF Proposal, OpenIds
<1>3. ASSUME NEW j \in OpenIds \ lost PROVE Parts(i) \cap Parts(j) = {}
  BY <1>3, FreeOfClaims
<1>4. \A j \in OpenIds : j \in Ids
  BY DEF OpenIds
<1>. QED  BY <1>1, <1>2, <1>3, <1>4, OpenIsOpen DEF E!MayStart, stageOf

LEMMA TurnIsTurnover ==
    ASSUME TypeOK, Exclusive, NEW lost, NEW new, Turns(lost, new)
    PROVE  E!Move
<1>1. lost \in SUBSET OpenIds /\ new \in SUBSET Ids /\ lost \in SUBSET Ids
  BY DEF Turns, OpenIds
<1>2. \A i \in new : E!MayStart(i, lost)
  BY <1>1, MayStartNext DEF Turns
<1>3. \A i, j \in new : i # j => Parts(i) \cap Parts(j) = {}
  BY DEF Turns, Disjoint
<1>4. stageOf' = [i \in Ids |-> IF i \in lost THEN "closed"
                                ELSE IF i \in new THEN "pending_review"
                                ELSE stageOf[i]]
  BY DEF Turns, stageOf
<1>5. new \in SUBSET {i \in Ids : stageOf[i] = "absent"}
  BY <1>1 DEF Turns, IsNext, stageOf
<1>6. E!Turnover(lost, new)
  BY <1>1, <1>2, <1>3, <1>4, OpenIsOpen DEF E!Turnover, stageOf
<1>. QED  BY <1>1, <1>5, <1>6, OpenIsOpen DEF E!Move, stageOf

LEMMA MoveIsAdvance ==
    ASSUME TypeOK, NEW i, Moves(i)
    PROVE  E!Move
<1>1. i \in Ids /\ stageOf' = [stageOf EXCEPT ![i] = proposals'[i].status]
  BY DEF Moves, stageOf
<1>2. E!Advance(i)
  BY <1>1 DEF Moves, E!Advance, stageOf
<1>. QED  BY <1>1, <1>2 DEF E!Move

LEMMA JoinIsMatch ==
    ASSUME TypeOK, Exclusive, NEW i, Joins(i)
    PROVE  E!Move
<1>1. i \in Ids /\ stageOf' = [stageOf EXCEPT ![i] = "active"]
  BY DEF Joins, stageOf
<1>2. E!MayStart(i, {})
  BY <1>1, MayStartNext DEF Joins
<1>3. E!Match(i)
  BY <1>1, <1>2 DEF E!Match, stageOf
<1>. QED  BY <1>1, <1>3 DEF E!Move

LEMMA StepIsMove == TypeOK /\ Exclusive /\ [Next]_vars => E!Move
BY StepKind, TurnIsTurnover, MoveIsAdvance, JoinIsMatch DEF Kind

\* Every proposal lives the life of a bond: next of its pair only when the
\* earlier ones are closed, between people who are free, and forward only.
THEOREM PromiseKept == Spec => KeepsPromise
<1>1. Init => E!Start
  BY DEF Init, E!Start, Absent
<1>. QED  BY <1>1, StepIsMove, ExclusiveCorrect, PTL DEF Spec, KeepsPromise, E!Promise

-----------------------------------------------------------------------------
(* One after the other.                                                    *)

\* The rounds before the latest of a pair are closed.
RoundsInTurn ==
    \A i, j \in Ids :
        (Pair(j) = Pair(i) /\ j[2] < i[2] /\ proposals[i].status # "absent") =>
            proposals[j].status = "closed"

\* A move of Engagement closes what was open, starts what may start, and
\* moves forward nothing that is closed.
LEMMA MoveKeepsTurn ==
    ASSUME RoundsInTurn, E!Move
    PROVE  RoundsInTurn'
<1>. DEFINE earlier(i) == {j \in Ids : Pair(j) = Pair(i) /\ j[2] < i[2]}
<1>1. /\ \A b \in Ids : stageOf[b] = proposals[b].status
      /\ \A b \in Ids : stageOf'[b] = proposals'[b].status
  BY DEF stageOf
<1>2. \A i \in Ids : \A d \in earlier(i) : stageOf[i] # "absent" => stageOf[d] = "closed"
  BY <1>1 DEF RoundsInTurn
<1>3. ASSUME NEW gone \in SUBSET OpenIds, NEW new, E!Turnover(gone, new)
      PROVE  \A i \in Ids : \A d \in earlier(i) : stageOf'[i] # "absent" => stageOf'[d] = "closed"
  <2>1. \A i \in Ids : stageOf'[i] = IF i \in gone THEN "closed"
                                     ELSE IF i \in new THEN "pending_review"
                                     ELSE stageOf[i]
    BY <1>3 DEF E!Turnover, stageOf
  <2>2. \A i \in new : i \in Ids =>
          /\ stageOf[i] = "absent"
          /\ \A d \in earlier(i) : stageOf[d] = "closed" \/ d \in gone
    BY <1>3 DEF E!Turnover, E!MayStart, stageOf
  <2>3. \A i \in gone : i \in Ids /\ stageOf[i] # "absent"
    BY <1>1 DEF OpenIds, OpenStatuses
  <2>4. \A d \in Ids : stageOf[d] = "closed" \/ d \in gone => stageOf'[d] = "closed"
    BY <2>1, <2>2
  <2>. QED  BY <1>2, <2>1, <2>2, <2>3, <2>4
<1>4. ASSUME NEW b \in Ids, E!Advance(b) \/ E!Match(b)
      PROVE  \A i \in Ids : \A d \in earlier(i) : stageOf'[i] # "absent" => stageOf'[d] = "closed"
  <2>1. PICK to : stageOf' = [stageOf EXCEPT ![b] = to]
    BY <1>4 DEF E!Advance, E!Match, stageOf
  <2>2. \A i \in Ids \ {b} : stageOf'[i] = stageOf[i]
    BY <2>1 DEF stageOf
  <2>3. stageOf[b] # "closed"
    BY <1>4 DEF E!Advance, E!Match, E!MayStart, stageOf
  <2>4. stageOf[b] = "absent" => \A d \in earlier(b) : stageOf[d] = "closed"
    BY <1>4 DEF E!Advance, E!Match, E!MayStart, stageOf
  <2>. QED  BY <1>2, <2>2, <2>3, <2>4
<1>. QED  BY <1>1, <1>3, <1>4, OpenIsOpen DEF E!Move, RoundsInTurn, stageOf

\* A repeat comes after everything the pair has had is closed, whoever closes
\* and opens in one transaction.
THEOREM RoundsCorrect == Spec => []RoundsInTurn
<1>1. Init => RoundsInTurn
  BY DEF Init, RoundsInTurn, Absent
<1>2. TypeOK /\ Exclusive /\ RoundsInTurn /\ [Next]_vars => RoundsInTurn'
  BY StepIsMove, MoveKeepsTurn
<1>. QED  BY <1>1, <1>2, ExclusiveCorrect, PTL DEF Spec
=============================================================================
