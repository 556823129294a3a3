---------------------------- MODULE Conversation ----------------------------
(***************************************************************************)
(* What a match promises the pair: as long as it is active everything they *)
(* write is kept, one write at a time and in the order of its times, and   *)
(* nothing is written once it ended.                                       *)
(***************************************************************************)
EXTENDS Integers, Sequences

CONSTANTS Members, Tasks, Milestones, None

VARIABLES
    status,    \* "active", then "closed" for good
    start,     \* of the guided journey
    done,      \* completed activities
    answers,   \* latest answers of each milestone and member
    messages

Begin ==
    /\ status = "active"
    /\ start = None
    /\ done = {}
    /\ answers = [k \in Milestones |-> [m \in Members |-> None]]
    /\ messages = <<>>

\* A message comes after all others.
Say(m) ==
    /\ messages' # <<>>
    /\ LET new == messages'[Len(messages')] IN
          /\ messages' = Append(messages, new)
          /\ new.from = m
          /\ \A i \in DOMAIN messages : messages[i].at < new.at
    /\ UNCHANGED <<start, done, answers>>

\* A journey starts once.
SetOut ==
    /\ start = None
    /\ start' \in Nat
    /\ UNCHANGED <<done, answers, messages>>

\* A member completes an activity of the journey, or takes it back.
Mark(m, task) ==
    /\ start # None
    /\ done' \in {done \cup {<<task, m>>}, done \ {<<task, m>>}}
    /\ UNCHANGED <<start, answers, messages>>

\* A member answers for the first time, or replaces the answers: none is lost
\* to another that is written at the same time, and the first time stands.
Reply(m, k) ==
    /\ start # None
    /\ LET old == answers[k][m]
           new == answers'[k][m]
       IN
          /\ answers' = [answers EXCEPT ![k][m] = new]
          /\ new # None
          /\ new.note = IF old = None THEN 1 ELSE old.note + 1
          /\ old # None => new.at = old.at
    /\ UNCHANGED <<start, done, messages>>

Write ==
    /\ status = "active"
    /\ \/ SetOut
       \/ \E m \in Members : \/ Say(m)
                             \/ \E task \in Tasks : Mark(m, task)
                             \/ \E k \in Milestones : Reply(m, k)
    /\ UNCHANGED status

End ==
    /\ status' = "closed"
    /\ UNCHANGED <<start, done, answers, messages>>

Promise == Begin /\ [][Write \/ End]_<<status, start, done, answers, messages>>
=============================================================================
