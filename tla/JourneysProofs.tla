--------------------------- MODULE JourneysProofs ---------------------------
(***************************************************************************)
(* Proofs about Journeys for any number of sessions, counselors, tasks and *)
(* milestones, and without a bound on what the members write.              *)
(***************************************************************************)
EXTENDS Journeys, FiniteSetTheorems, TLAPS

Message == [from : Members, at : Nat]
Fields == {"op", "step", "who", "arg", "saw"}

Typed ==
    /\ now \in Nat
    /\ pair.status \in {"active", "closed"}
    /\ journey \in Nat \cup {None}
    /\ done \in SUBSET (Tasks \X Members)
    /\ checkIns \in [Milestones -> [Members -> Answer \cup {None}]]
    /\ journey = None => \A k \in Milestones, m \in Members : checkIns[k][m] = None
    /\ messages \in Seq(Message)
    /\ counselor \in [Members -> Counselors \cup {None}]
    /\ lapsed \in [Members -> SUBSET Lacks]
    /\ holds \in [Members -> Nat]
    /\ lock \in [Rows -> Sessions \cup {None}]
    /\ shared \in [Users -> SUBSET Sessions]
    /\ DOMAIN tx = Sessions

Interlock == \A u \in Users : lock[u] = None \/ shared[u] \subseteq {lock[u]}

\* Whoever is past the check of the pair holds its row, and it is active.
Within(t) == t.step \in {"inside", "reconcile", "viewing"}

TxOK(s) ==
    /\ DOMAIN tx[s] = Fields
    /\ Within(tx[s]) => lock["pair"] = s /\ pair.status = "active"
    /\ tx[s].op \in {"send", "task", "checkin"} => tx[s].who \in Members
    /\ tx[s].op = "task" => tx[s].arg \in [task : Tasks, completed : BOOLEAN]
    /\ tx[s].op = "checkin" => tx[s].arg \in [milestone : Milestones, share : BOOLEAN]
    /\ tx[s].op \in {"task", "checkin"} => journey # None
    /\ At(s, "list", "viewing") => tx[s].saw = checkIns
    /\ tx[s].op \in Closers =>
          /\ ~Within(tx[s]) /\ tx[s].who \in Members
          /\ tx[s].saw = "none" => pair.status = "closed"
    /\ tx[s].op = "lapse" => tx[s].arg \in Lacks
    /\ tx[s].op = "reassign" => tx[s].arg \in Counselors

\* The inductive invariant.
Inv ==
    /\ Typed
    /\ Interlock
    /\ \A s \in Sessions : TxOK(s)
    /\ EnforcedIsClosed
    /\ MessagesInOrder
    /\ CheckInNotEarly

-----------------------------------------------------------------------------
(* Locks and transactions.                                                 *)

LEMMA IdleFields ==
    /\ DOMAIN Idle = Fields /\ Idle.op = "idle" /\ Idle.step = "idle"
    /\ Idle.op \notin Closers /\ ~Within(Idle)
BY DEF Idle, Fields, Closers, Within

LEMMA SomeRows == "pair" \in Rows /\ Users \subseteq Rows /\ Members \subseteq Users
BY DEF Rows, Users

LEMMA FinishFrees ==
    ASSUME Inv, NEW s \in Sessions, Finish(s)
    PROVE  /\ tx'[s] = Idle /\ \A x \in Sessions \ {s} : tx'[x] = tx[x]
           /\ lock' \in [Rows -> Sessions \cup {None}]
           /\ shared' \in [Users -> SUBSET Sessions]
           /\ DOMAIN tx' = Sessions
           /\ \A r \in Rows, x \in Sessions \ {s} : lock[r] = x => lock'[r] = x
           /\ Interlock'
<1>1. /\ tx' = [tx EXCEPT ![s] = Idle]
      /\ lock' = [r \in Rows |-> IF lock[r] = s THEN None ELSE lock[r]]
      /\ shared' = [u \in Users |-> shared[u] \ {s}]
  BY DEF Finish
<1>2. /\ lock \in [Rows -> Sessions \cup {None}] /\ shared \in [Users -> SUBSET Sessions]
      /\ DOMAIN tx = Sessions
  BY DEF Inv, Typed
<1>3. Interlock'
  <2>. SUFFICES ASSUME NEW u \in Users PROVE lock'[u] = None \/ shared'[u] \subseteq {lock'[u]}
    BY DEF Interlock
  <2>1. lock[u] = None \/ shared[u] \subseteq {lock[u]}
    BY DEF Inv, Interlock
  <2>2. u \in Rows
    BY SomeRows
  <2>. QED  BY <1>1, <2>1, <2>2
<1>. QED  BY <1>1, <1>2, <1>3, PairAssumption

\* What a step of s must leave alone for another session.
LEMMA OtherKept ==
    ASSUME Inv, NEW s \in Sessions, NEW x \in Sessions \ {s}, tx'[x] = tx[x],
           lock["pair"] = x =>
               lock'["pair"] = x /\ pair'.status = pair.status /\ checkIns' = checkIns,
           pair.status = "closed" => pair'.status = "closed",
           journey # None => journey' # None
    PROVE  TxOK(x)'
<1>1. TxOK(x)
  BY DEF Inv
<1>2. At(x, "list", "viewing") => Within(tx[x])
  BY DEF At, Within
<1>. QED  BY <1>1, <1>2 DEF TxOK, Within, At

LEMMA IdleOK ==
    ASSUME NEW s, tx'[s] = Idle
    PROVE  TxOK(s)'
BY IdleFields DEF TxOK, At, Closers, Within

\* Commit or rollback of a step that leaves the pair, the journey and the
\* check-ins alone.
LEMMA FinishKeepsTx ==
    ASSUME Inv, NEW s \in Sessions, Finish(s),
           lock["pair"] \notin {s, None} => pair'.status = pair.status /\ checkIns' = checkIns,
           pair.status = "closed" => pair'.status = "closed",
           journey # None => journey' # None
    PROVE  \A x \in Sessions : TxOK(x)'
<1>1. TxOK(s)'
  BY FinishFrees, IdleOK
<1>2. ASSUME NEW x \in Sessions \ {s} PROVE TxOK(x)'
  <2>1. tx'[x] = tx[x] /\ (lock["pair"] = x => lock'["pair"] = x)
    BY FinishFrees, SomeRows
  <2>2. lock["pair"] = x => pair'.status = pair.status /\ checkIns' = checkIns
    BY PairAssumption
  <2>. QED  BY <2>1, <2>2, OtherKept
<1>. QED  BY <1>1, <1>2

\* Nothing but the transaction ends.
LEMMA FinishKeeps ==
    ASSUME Inv, NEW s \in Sessions, Finish(s), UNCHANGED <<now, pair, roster, data>>
    PROVE  Inv'
<1>1. \A x \in Sessions : TxOK(x)'
  BY FinishKeepsTx DEF data
<1>2. Typed' /\ Interlock'
  BY FinishFrees DEF Inv, Typed, roster, data
<1>. QED  BY <1>1, <1>2 DEF Inv, EnforcedIsClosed, MessagesInOrder, CheckInNotEarly,
             roster, data

\* Nothing but the transaction goes on.
LEMMA GotoKeeps ==
    ASSUME Inv, NEW s \in Sessions, NEW t, Goto(s, t), TxOK(s)',
           UNCHANGED <<now, pair, roster, data>>,
           lock' \in [Rows -> Sessions \cup {None}],
           shared' \in [Users -> SUBSET Sessions], Interlock',
           \A x \in Sessions \ {s} : lock["pair"] = x => lock'["pair"] = x
    PROVE  Inv'
<1>1. DOMAIN tx' = Sessions /\ \A x \in Sessions \ {s} : tx'[x] = tx[x]
  BY DEF Inv, Typed, Goto
<1>2. \A x \in Sessions \ {s} : TxOK(x)'
  BY <1>1, OtherKept DEF data
<1>3. Typed'
  BY <1>1 DEF Inv, Typed, roster, data
<1>. QED  BY <1>2, <1>3 DEF Inv, EnforcedIsClosed, MessagesInOrder, CheckInNotEarly,
             roster, data

\* One more row is locked by s.
LEMMA LockKeeps ==
    ASSUME Inv, NEW s \in Sessions, NEW r \in Rows, Against(s, r) = {},
           lock' = [lock EXCEPT ![r] = s], UNCHANGED shared
    PROVE  /\ lock' \in [Rows -> Sessions \cup {None}]
           /\ shared' \in [Users -> SUBSET Sessions] /\ Interlock'
           /\ \A x \in Sessions \ {s} : lock["pair"] = x => lock'["pair"] = x
<1>1. /\ lock \in [Rows -> Sessions \cup {None}] /\ shared \in [Users -> SUBSET Sessions]
      /\ Users \subseteq Rows
  BY SomeRows DEF Inv, Typed
<1>2. lock[r] \in {None, s} /\ (r \in Users => shared[r] \subseteq {s})
  BY <1>1 DEF Against, Holder
<1>3. Interlock'
  <2>. SUFFICES ASSUME NEW u \in Users PROVE lock'[u] = None \/ shared'[u] \subseteq {lock'[u]}
    BY DEF Interlock
  <2>1. lock[u] = None \/ shared[u] \subseteq {lock[u]}
    BY DEF Inv, Interlock
  <2>. QED  BY <1>1, <1>2, <2>1
<1>. QED  BY <1>1, <1>2, <1>3, PairAssumption

-----------------------------------------------------------------------------
(* Operations of the pair.                                                 *)

LEMMA EnterKeeps ==
    ASSUME Inv, NEW s \in Sessions, NEW t, Enter(s, t), DOMAIN t = Fields,
           t.op \notin Closers, t.op \notin {"lapse", "reassign"},
           t.op \in {"send", "task", "checkin"} => t.who \in Members,
           t.op = "task" => t.arg \in [task : Tasks, completed : BOOLEAN],
           t.op = "checkin" => t.arg \in [milestone : Milestones, share : BOOLEAN],
           t.op \in {"task", "checkin"} => journey # None
    PROVE  Inv'
<1>1. /\ UNCHANGED <<now, pair, roster, data>> /\ Against(s, "pair") = {}
      /\ pair.status \in {"active", "closed"}
  BY DEF Enter, Inv, Typed
<1>2. CASE pair.status = "closed"
  BY <1>1, <1>2, FinishKeeps DEF Enter
<1>3. CASE pair.status # "closed"
  <2>1. PICK step \in {"inside", "reconcile"} : Goto(s, [t EXCEPT !.step = step])
    BY <1>3 DEF Enter
  <2>2. PICK u : u = [t EXCEPT !.step = step]
    OBVIOUS
  <2>3. /\ DOMAIN u = Fields /\ u.op = t.op /\ u.who = t.who /\ u.arg = t.arg
        /\ u.step = step
    BY <2>2 DEF Fields
  <2>4. lock' = [lock EXCEPT !["pair"] = s] /\ UNCHANGED shared
    BY <1>3 DEF Enter, PairLock
  <2>5. tx'[s] = u /\ lock'["pair"] = s
    BY <2>1, <2>2, <2>4, SomeRows DEF Goto, Inv, Typed
  <2>6. TxOK(s)'
    BY <1>1, <1>3, <2>3, <2>5 DEF TxOK, At, data
  <2>. QED  BY <1>1, <2>1, <2>4, <2>6, LockKeeps, GotoKeeps, SomeRows
<1>. QED  BY <1>2, <1>3

LEMMA BeginsFields ==
    ASSUME NEW op, NEW who, NEW arg
    PROVE  /\ DOMAIN Begins(op, who, arg) = Fields /\ Begins(op, who, arg).op = op
           /\ Begins(op, who, arg).step = "begun" /\ Begins(op, who, arg).who = who
           /\ Begins(op, who, arg).arg = arg
BY DEF Begins, Fields

\* Operations that start with the row of the pair.
LEMMA EnteringKeeps ==
    ASSUME Inv, NEW s \in Sessions,
           \/ ReadPair(s)
           \/ \E m \in Members : SendMessage(s, m)
           \/ \E c \in Counselors : AssignJourney(s, c)
    PROVE  Inv'
<1>1. PICK op, who :
         op \in {"read", "send", "assign"} /\ Enter(s, Begins(op, who, None)) /\ (op = "send" => who \in Members)
  BY DEF ReadPair, SendMessage, AssignJourney
<1>. QED  BY <1>1, BeginsFields, EnterKeeps DEF Closers

LEMMA BeginOnJourneyKeeps ==
    ASSUME Inv, NEW s \in Sessions, NEW op \in {"task", "checkin"}, NEW m \in Members, NEW arg,
           BeginOnJourney(s, op, m, arg),
           op = "task" => arg \in [task : Tasks, completed : BOOLEAN],
           op = "checkin" => arg \in [milestone : Milestones, share : BOOLEAN]
    PROVE  Inv'
<1>1. PICK t : t = Begins(op, m, arg)
  OBVIOUS
<1>2. /\ DOMAIN t = Fields /\ t.op = op /\ t.step = "begun" /\ t.who = m /\ t.arg = arg
  BY <1>1, BeginsFields
<1>3. /\ journey # None /\ Against(s, "journey") = {} /\ lock' = [lock EXCEPT !["journey"] = s]
      /\ Goto(s, t) /\ UNCHANGED <<now, pair, roster, data, shared>>
  BY <1>1 DEF BeginOnJourney, Take
<1>4. tx'[s] = t
  BY <1>3 DEF Goto, Inv, Typed
<1>5. TxOK(s)'
  BY <1>2, <1>3, <1>4 DEF TxOK, At, Within, Closers, data
<1>6. "journey" \in Rows
  BY DEF Rows
<1>. QED  BY <1>3, <1>5, <1>6, LockKeeps, GotoKeeps

LEMMA OnJourneyKeeps ==
    ASSUME Inv, NEW s \in Sessions, NEW m \in Members,
           \/ \E task \in Tasks, completed \in BOOLEAN : BeginTask(s, m, task, completed)
           \/ \E k \in Milestones, share \in BOOLEAN : BeginCheckIn(s, m, k, share)
    PROVE  Inv'
BY BeginOnJourneyKeeps DEF BeginTask, BeginCheckIn

\* The next statement of an operation that holds no row of the pair yet.
LEMMA GoOnKeeps ==
    ASSUME Inv, NEW s \in Sessions, EnterFromJourney(s) \/ LockListed(s)
    PROVE  Inv'
<1>1. Enter(s, tx[s]) /\ tx[s].op \in {"task", "checkin", "list"} /\ TxOK(s)
  BY DEF EnterFromJourney, LockListed, At, Inv
<1>. QED  BY <1>1, EnterKeeps DEF TxOK, Closers

LEMMA ListKeeps ==
    ASSUME Inv, NEW s \in Sessions, NEW c \in Counselors, ListJourneys(s, c)
    PROVE  Inv'
<1>1. PICK t : t = Begins("list", c, None)
  OBVIOUS
<1>2. DOMAIN t = Fields /\ t.op = "list" /\ t.step = "begun"
  BY <1>1, BeginsFields
<1>3. Goto(s, t) /\ UNCHANGED <<now, pair, roster, data, locks>>
  BY <1>1 DEF ListJourneys
<1>4. tx'[s] = t
  BY <1>3 DEF Goto, Inv, Typed
<1>5. TxOK(s)'
  BY <1>2, <1>4 DEF TxOK, At, Within, Closers
<1>6. UNCHANGED <<lock, shared>>
  BY <1>3 DEF locks
<1>. QED  BY <1>3, <1>5, <1>6, GotoKeeps DEF Inv, Typed, Interlock

LEMMA ReadCheckInsKeeps ==
    ASSUME Inv, NEW s \in Sessions, ReadCheckIns(s)
    PROVE  Inv'
<1>1. PICK t : t = [tx[s] EXCEPT !.step = "viewing", !.saw = checkIns]
  OBVIOUS
<1>2. /\ TxOK(s) /\ At(s, "list", "inside")
      /\ Goto(s, t) /\ UNCHANGED <<now, pair, roster, data, locks>>
  BY <1>1 DEF ReadCheckIns, Inv
<1>3. DOMAIN t = Fields /\ t.op = "list" /\ t.step = "viewing" /\ t.saw = checkIns
  BY <1>1, <1>2 DEF TxOK, Fields, At
<1>4. tx'[s] = t
  BY <1>2 DEF Goto, Inv, Typed
<1>5. UNCHANGED <<lock, shared, pair, checkIns>>
  BY <1>2 DEF locks, data
<1>6. lock["pair"] = s /\ pair.status = "active"
  BY <1>2 DEF TxOK, Within, At
<1>7. TxOK(s)'
  BY <1>3, <1>4, <1>5, <1>6 DEF TxOK, At, Closers
<1>. QED  BY <1>2, <1>5, <1>7, GotoKeeps DEF Inv, Typed, Interlock

LEMMA EndingKeeps ==
    ASSUME Inv, NEW s \in Sessions, EndRead(s) \/ ShowJourney(s) \/ Rollback(s)
    PROVE  Inv'
BY FinishKeeps DEF EndRead, ShowJourney, Rollback

\* The session that is past the check is alone with the pair.
LEMMA AtPair ==
    ASSUME Inv, NEW s \in Sessions, Within(tx[s])
    PROVE  /\ lock["pair"] = s /\ pair.status = "active" /\ DOMAIN tx[s] = Fields
           /\ lock["pair"] \in {s, None}
BY DEF Inv, TxOK

LEMMA ReconcileKeeps ==
    ASSUME Inv, NEW s \in Sessions, Reconcile(s)
    PROVE  Inv'
<1>1. /\ Finish(s) /\ UNCHANGED <<now, roster, data>>
      /\ \E reason : Close(reason)
  BY DEF Reconcile
<1>2. pair'.status = "closed"
  BY <1>1 DEF Close
<1>3. Within(tx[s])
  BY DEF Reconcile, Within
<1>4. lock["pair"] \in {s, None} /\ UNCHANGED journey
  BY <1>1, <1>3, AtPair DEF data
<1>5. \A x \in Sessions : TxOK(x)'
  BY <1>1, <1>2, <1>4, FinishKeepsTx
<1>6. Typed' /\ Interlock'
  BY <1>1, <1>2, FinishFrees DEF Inv, Typed, roster, data
<1>. QED  BY <1>1, <1>2, <1>5, <1>6 DEF Inv, EnforcedIsClosed, MessagesInOrder,
             CheckInNotEarly, roster, data

LEMMA ReadingsType == Readings \subseteq Nat
BY DEF Readings

\* The time a message gets is past those of all messages before.
LEMMA SentLast ==
    ASSUME Inv, NEW t \in Nat
    PROVE  SentAt(t) \in Nat /\ \A i \in DOMAIN messages : messages[i].at < SentAt(t)
<1>. DEFINE sent == {messages[i].at : i \in DOMAIN messages}
            n == Len(messages)
<1>1. messages \in Seq(Message) /\ \A i \in DOMAIN messages : messages[i].at \in Nat
  <2>1. messages \in Seq(Message)
    BY DEF Inv, Typed
  <2>2. \A i \in DOMAIN messages : messages[i] \in Message
    BY <2>1
  <2>. QED  BY <2>1, <2>2 DEF Message
<1>2. CASE n = 0
  <2>1. DOMAIN messages = {}
    BY <1>1, <1>2
  <2>2. sent = {}
    BY <2>1
  <2>. QED  BY <2>1, <2>2 DEF SentAt
<1>3. CASE n # 0
  <2>1. n \in DOMAIN messages /\ \A i \in DOMAIN messages : i <= n /\ i \in Nat /\ n \in Nat
    BY <1>1, <1>3
  <2>2. \A i \in DOMAIN messages : messages[i].at <= messages[n].at
    BY <1>1, <2>1 DEF Inv, MessagesInOrder
  <2>3. messages[n].at \in sent /\ \A y \in sent : messages[n].at >= y
    BY <1>1, <2>1, <2>2
  <2>4. Max(sent) \in sent /\ \A y \in sent : Max(sent) >= y
    BY <2>3 DEF Max
  <2>5. Max(sent) \in Nat /\ \A i \in DOMAIN messages : messages[i].at <= Max(sent)
    BY <1>1, <2>4
  <2>6. SentAt(t) = IF t <= Max(sent) THEN Max(sent) + 1 ELSE t
    BY <2>3 DEF SentAt
  <2>. HIDE DEF sent
  <2>7. SentAt(t) \in Nat /\ SentAt(t) > Max(sent)
    BY <2>5, <2>6
  <2>. QED  BY <1>1, <2>5, <2>7
<1>. QED  BY <1>2, <1>3

LEMMA StoreMessageKeeps ==
    ASSUME Inv, NEW s \in Sessions, StoreMessage(s)
    PROVE  Inv'
<1>1. PICK t \in Readings :
         messages' = Append(messages, [from |-> tx[s].who, at |-> SentAt(t)])
  BY DEF StoreMessage
<1>2. /\ Finish(s) /\ UNCHANGED <<now, pair, roster, journey, done, checkIns>>
      /\ tx[s].op = "send"
  BY DEF StoreMessage, At
<1>3. SentAt(t) \in Nat /\ \A i \in DOMAIN messages : messages[i].at < SentAt(t)
  BY ReadingsType, SentLast
<1>4. tx[s].who \in Members /\ messages \in Seq(Message)
  BY <1>2 DEF Inv, Typed, TxOK
<1>5. PICK m : m = [from |-> tx[s].who, at |-> SentAt(t)]
  OBVIOUS
<1>6. m \in Message /\ m.at = SentAt(t)
  BY <1>3, <1>4, <1>5 DEF Message
<1>7. messages' = Append(messages, m)
  BY <1>1, <1>5
<1>8. messages' \in Seq(Message)
  BY <1>4, <1>6, <1>7
<1>9. MessagesInOrder'
  <2>1. /\ DOMAIN messages' = 1..(Len(messages) + 1) /\ Len(messages) \in Nat
        /\ DOMAIN messages = 1..Len(messages)
        /\ \A i \in DOMAIN messages : messages'[i] = messages[i]
        /\ messages'[Len(messages) + 1] = m
    BY <1>4, <1>6, <1>7
  <2>. SUFFICES ASSUME NEW i \in DOMAIN messages', NEW j \in DOMAIN messages', i < j
       PROVE  messages'[i].at < messages'[j].at
    BY DEF MessagesInOrder
  <2>2. i \in DOMAIN messages
    BY <2>1
  <2>3. CASE j \in DOMAIN messages
    BY <2>1, <2>2, <2>3 DEF Inv, MessagesInOrder
  <2>4. CASE j \notin DOMAIN messages
    BY <1>3, <1>6, <2>1, <2>2, <2>4
  <2>. QED  BY <2>3, <2>4
<1>10. \A x \in Sessions : TxOK(x)'
  BY <1>2, FinishKeepsTx
<1>11. Typed' /\ Interlock'
  BY <1>2, <1>8, FinishFrees DEF Inv, Typed, roster
<1>. QED  BY <1>2, <1>9, <1>10, <1>11 DEF Inv, EnforcedIsClosed, CheckInNotEarly, roster

LEMMA SetTaskKeeps ==
    ASSUME Inv, NEW s \in Sessions, SetTask(s)
    PROVE  Inv'
<1>1. /\ Finish(s) /\ UNCHANGED <<now, pair, roster, journey, checkIns, messages>>
      /\ tx[s].op = "task"
  BY DEF SetTask, At
<1>2. tx[s].who \in Members /\ tx[s].arg.task \in Tasks /\ done \in SUBSET (Tasks \X Members)
  BY <1>1 DEF Inv, Typed, TxOK
<1>3. done' \in SUBSET (Tasks \X Members)
  BY <1>2 DEF SetTask
<1>4. \A x \in Sessions : TxOK(x)'
  BY <1>1, FinishKeepsTx
<1>5. Typed' /\ Interlock'
  BY <1>1, <1>3, FinishFrees DEF Inv, Typed, roster
<1>. QED  BY <1>1, <1>4, <1>5 DEF Inv, EnforcedIsClosed, MessagesInOrder, CheckInNotEarly,
             roster

\* Before the week no reminder state but "scheduled": a day is no longer.
LEMMA NotScheduled ==
    ASSUME NEW due \in Nat, NEW t \in Nat, ReminderState(due, FALSE, t) # "scheduled"
    PROVE  t >= Open(due)
<1>1. DayLength \in Nat /\ DayLength > 0 /\ Week \in Nat /\ Week >= DayLength
  BY PairAssumption
<1>2. t >= Open(due) \/ Day(t) >= Day(due)
  <2>1. Day(t) \in Int /\ Day(due) \in Int
    BY <1>1 DEF Day
  <2>. QED  BY <2>1 DEF ReminderState
<1>3. CASE Day(t) >= Day(due)
  <2>1. PICK q : q = Day(t)
    OBVIOUS
  <2>2. PICK r : r = Day(due)
    OBVIOUS
  <2>3. q \in Int /\ DayLength * q <= t
    BY <1>1, <2>1 DEF Day
  <2>4. r \in Int /\ due < DayLength * r + DayLength
    BY <1>1, <2>2 DEF Day
  <2>5. DayLength * q >= DayLength * r
    BY <1>1, <1>3, <2>1, <2>2, <2>3, <2>4
  <2>6. PICK x, y : x = DayLength * q /\ y = DayLength * r /\ x \in Int /\ y \in Int
    BY <1>1, <2>3, <2>4
  <2>. QED  BY <1>1, <2>3, <2>4, <2>5, <2>6 DEF Open
<1>. QED  BY <1>2, <1>3

LEMMA SubmitKeeps ==
    ASSUME Inv, NEW s \in Sessions, SubmitCheckIn(s)
    PROVE  Inv'
<1>1. PICK k, m, old : k = tx[s].arg.milestone /\ m = tx[s].who /\ old = checkIns[k][m]
  OBVIOUS
<1>2. /\ Finish(s) /\ UNCHANGED <<now, pair, roster, journey, done, messages>>
      /\ At(s, "checkin", "inside")
  BY DEF SubmitCheckIn
<1>3. /\ k \in Milestones /\ m \in Members /\ tx[s].arg.share \in BOOLEAN
      /\ journey \in Nat /\ checkIns \in [Milestones -> [Members -> Answer \cup {None}]]
      /\ DueAfter[k] \in Nat
  BY <1>1, <1>2, PairAssumption DEF Inv, Typed, TxOK, At
<1>4. PICK t, a : t \in Readings /\
         \/ UNCHANGED checkIns
         \/ /\ checkIns' = [checkIns EXCEPT ![k][m] = a]
            /\ \/ /\ old = None
                  /\ ReminderState(journey + DueAfter[k], FALSE, t) # "scheduled"
                  /\ a = [at |-> t, note |-> 1, share |-> tx[s].arg.share,
                          concern |-> 1 = 1]
               \/ /\ old # None
                  /\ a = [at |-> old.at, note |-> old.note + 1, share |-> tx[s].arg.share,
                          concern |-> old.note + 1 = 1]
  BY <1>1 DEF SubmitCheckIn
<1>5. CheckInNotEarly
  BY DEF Inv
<1>6. CASE UNCHANGED checkIns
  BY <1>2, <1>6, FinishKeeps DEF data
<1>7. CASE checkIns' = [checkIns EXCEPT ![k][m] = a] /\ checkIns' # checkIns
  <2>1. a \in Answer /\ a.at >= Open(journey + DueAfter[k])
    <3>1. CASE old = None
      <4>0. PICK due : due = journey + DueAfter[k]
        OBVIOUS
      <4>3. t \in Nat /\ due \in Nat
        BY <1>3, <1>4, <4>0, ReadingsType
      <4>4. ReminderState(due, FALSE, t) # "scheduled"
        BY <1>4, <1>7, <3>1, <4>0
      <4>1. t \in Nat /\ t >= Open(journey + DueAfter[k])
        BY <4>0, <4>3, <4>4, NotScheduled
      <4>2. a = [at |-> t, note |-> 1, share |-> tx[s].arg.share, concern |-> TRUE]
        BY <1>4, <1>7, <3>1
      <4>. QED  BY <1>3, <4>1, <4>2 DEF Answer
    <3>2. CASE old # None
      <4>1. old \in Answer /\ old.at >= Open(journey + DueAfter[k])
        BY <1>1, <1>3, <1>5, <3>2 DEF CheckInNotEarly
      <4>2. a = [at |-> old.at, note |-> old.note + 1, share |-> tx[s].arg.share,
                 concern |-> old.note + 1 = 1]
        BY <1>4, <1>7, <3>2
      <4>3. old.at \in Nat /\ old.note \in Nat /\ old.note + 1 \in Nat
        BY <4>1 DEF Answer
      <4>4. a.at = old.at
        BY <4>2
      <4>. QED  BY <1>3, <4>1, <4>2, <4>3, <4>4 DEF Answer
    <3>. QED  BY <3>1, <3>2
  <2>2. /\ checkIns' \in [Milestones -> [Members -> Answer \cup {None}]]
        /\ \A l \in Milestones, n \in Members :
              checkIns'[l][n] = IF l = k /\ n = m THEN a ELSE checkIns[l][n]
    BY <1>3, <1>7, <2>1
  <2>3. CheckInNotEarly'
    BY <1>2, <1>5, <2>1, <2>2 DEF CheckInNotEarly
  <2>4. lock["pair"] \in {s, None}
    BY <1>2, AtPair DEF At, Within
  <2>5. \A x \in Sessions : TxOK(x)'
    BY <1>2, <2>4, FinishKeepsTx
  <2>8. journey' # None
    BY <1>2, <1>3, PairAssumption
  <2>6. Typed' /\ Interlock'
    BY <1>2, <2>2, <2>8, FinishFrees DEF Inv, Typed, roster
  <2>. QED  BY <1>2, <2>3, <2>5, <2>6 DEF Inv, EnforcedIsClosed, MessagesInOrder, roster
<1>. QED  BY <1>4, <1>6, <1>7

LEMMA StartJourneyKeeps ==
    ASSUME Inv, NEW s \in Sessions, StartJourney(s)
    PROVE  Inv'
<1>1. /\ Finish(s) /\ UNCHANGED <<now, pair, roster, done, checkIns, messages>>
      /\ At(s, "assign", "inside")
      /\ journey' = journey \/ (journey = None /\ journey' \in Readings)
  BY DEF StartJourney
<1>2. /\ journey' \in Nat \cup {None} /\ (journey # None => journey' = journey)
      /\ journey' # None \/ journey' = journey
  BY <1>1, ReadingsType, PairAssumption DEF Inv, Typed
<1>3. \A x \in Sessions : TxOK(x)'
  BY <1>1, <1>2, FinishKeepsTx
<1>4. Typed' /\ Interlock'
  BY <1>1, <1>2, FinishFrees DEF Inv, Typed, roster
<1>5. journey = None => \A k \in Milestones, m \in Members : checkIns[k][m] = None
  BY DEF Inv, Typed
<1>6. CheckInNotEarly'
  BY <1>1, <1>2, <1>5 DEF Inv, CheckInNotEarly
<1>. QED  BY <1>1, <1>3, <1>4, <1>6 DEF Inv, EnforcedIsClosed, MessagesInOrder, roster

-----------------------------------------------------------------------------
(* Operations that close the pair.                                         *)

LEMMA BeginCloseOK ==
    ASSUME Inv, NEW s \in Sessions, NEW op \in Closers, NEW m \in Members, NEW arg,
           BeginClose(s, op, m, arg),
           op = "lapse" => arg \in Lacks, op = "reassign" => arg \in Counselors
    PROVE  /\ \E t : Goto(s, t)
           /\ UNCHANGED <<now, pair, roster, data>> /\ TxOK(s)'
<1>1. PICK saw : saw = IF SeenOpen THEN ReasonOf(op, m) ELSE "none"
  OBVIOUS
<1>2. PICK t : t = [Begins(op, m, arg) EXCEPT !.saw = saw]
  OBVIOUS
<1>3. /\ DOMAIN t = Fields /\ t.op = op /\ t.step = "begun" /\ t.who = m /\ t.arg = arg
      /\ t.saw = saw
  BY <1>2, BeginsFields DEF Fields
<1>4. Goto(s, t) /\ UNCHANGED <<now, pair, roster, data>>
  BY <1>1, <1>2 DEF BeginClose
<1>5. tx'[s] = t
  BY <1>4 DEF Goto, Inv, Typed
<1>6. ReasonOf(op, m) # "none"
  BY DEF ReasonOf
<1>7. saw = "none" => pair.status = "closed"
  BY <1>1, <1>6 DEF SeenOpen, Inv, Typed
<1>8. pair'.status = pair.status
  BY <1>4
<1>9. TxOK(s)'
  BY <1>3, <1>5, <1>7, <1>8 DEF TxOK, At, Within, Closers
<1>. QED  BY <1>4, <1>9

LEMMA BeginHoldKeeps ==
    ASSUME Inv, NEW s \in Sessions, NEW m \in Members, BeginHold(s, m)
    PROVE  Inv'
<1>1. /\ BeginClose(s, "hold", m, None) /\ shared' = [shared EXCEPT ![m] = @ \cup {s}]
      /\ UNCHANGED lock /\ MayRefer(s, {m})
  BY DEF BeginHold
<1>2. /\ lock \in [Rows -> Sessions \cup {None}] /\ shared \in [Users -> SUBSET Sessions]
      /\ m \in Users /\ m \in Rows
  BY SomeRows DEF Inv, Typed
<1>3. lock[m] \in {None, s}
  BY <1>1, <1>2 DEF MayRefer, AgainstShared, Holder
<1>4. Interlock'
  <2>. SUFFICES ASSUME NEW u \in Users PROVE lock'[u] = None \/ shared'[u] \subseteq {lock'[u]}
    BY DEF Interlock
  <2>1. lock[u] = None \/ shared[u] \subseteq {lock[u]}
    BY DEF Inv, Interlock
  <2>. QED  BY <1>1, <1>2, <1>3, <2>1
<1>5. "hold" \in Closers
  BY DEF Closers
<1>6. (\E t : Goto(s, t)) /\ UNCHANGED <<now, pair, roster, data>> /\ TxOK(s)'
  BY <1>1, <1>5, BeginCloseOK
<1>7. shared' \in [Users -> SUBSET Sessions]
  BY <1>1, <1>2
<1>. QED  BY <1>1, <1>2, <1>4, <1>6, <1>7, GotoKeeps

LEMMA BeginRemovalKeeps ==
    ASSUME Inv, NEW s \in Sessions, NEW m \in Members, NEW op \in {"demote", "disable"},
           BeginRemoval(s, op, m)
    PROVE  Inv'
<1>1. /\ BeginClose(s, op, m, None) /\ Against(s, m) = {}
      /\ lock' = [lock EXCEPT ![m] = s] /\ UNCHANGED shared
  BY DEF BeginRemoval, Take
<1>2. op \in Closers /\ m \in Rows /\ op # "lapse" /\ op # "reassign"
  BY SomeRows DEF Closers
<1>3. (\E t : Goto(s, t)) /\ UNCHANGED <<now, pair, roster, data>> /\ TxOK(s)'
  BY <1>1, <1>2, BeginCloseOK
<1>. QED  BY <1>1, <1>2, <1>3, LockKeeps, GotoKeeps

LEMMA BeginReassignKeeps ==
    ASSUME Inv, NEW s \in Sessions, NEW m \in Members, NEW c \in Counselors,
           BeginReassign(s, m, c)
    PROVE  Inv'
<1>1. /\ BeginClose(s, "reassign", m, c) /\ Against(s, m) = {} /\ Against(s, c) = {}
      /\ lock' = [lock EXCEPT ![m] = s, ![c] = s] /\ UNCHANGED shared
  BY DEF BeginReassign
<1>2. /\ lock \in [Rows -> Sessions \cup {None}] /\ shared \in [Users -> SUBSET Sessions]
      /\ m \in Users /\ c \in Users /\ Users \subseteq Rows
  BY SomeRows DEF Inv, Typed, Users
<1>3. \A r \in {m, c} : lock[r] \in {None, s} /\ shared[r] \subseteq {s}
  BY <1>1, <1>2 DEF Against, Holder
<1>4. lock' \in [Rows -> Sessions \cup {None}]
      /\ \A r \in Rows : lock'[r] = IF r \in {m, c} THEN s ELSE lock[r]
  BY <1>1, <1>2
<1>5. Interlock'
  <2>. SUFFICES ASSUME NEW u \in Users PROVE lock'[u] = None \/ shared'[u] \subseteq {lock'[u]}
    BY DEF Interlock
  <2>1. lock[u] = None \/ shared[u] \subseteq {lock[u]}
    BY DEF Inv, Interlock
  <2>. QED  BY <1>1, <1>2, <1>3, <1>4, <2>1
<1>6. "reassign" \in Closers
  BY DEF Closers
<1>7. (\E t : Goto(s, t)) /\ UNCHANGED <<now, pair, roster, data>> /\ TxOK(s)'
  BY <1>1, <1>6, BeginCloseOK
<1>8. \A x \in Sessions \ {s} : lock["pair"] = x => lock'["pair"] = x
  BY <1>3, <1>4, SomeRows, PairAssumption
<1>. QED  BY <1>1, <1>2, <1>4, <1>5, <1>7, <1>8, GotoKeeps

LEMMA BeginOtherKeeps ==
    ASSUME Inv, NEW s \in Sessions, NEW m \in Members,
           BeginBlock(s, m) \/ \E lack \in Lacks : BeginLapse(s, m, lack)
    PROVE  Inv'
<1>1. PICK op, arg :
         /\ op \in {"block", "lapse"}
         /\ BeginClose(s, op, m, arg) /\ (op = "lapse" => arg \in Lacks)
         /\ UNCHANGED <<lock, shared>>
  BY DEF BeginBlock, BeginLapse, locks
<1>2. op \in Closers /\ op # "reassign"
  BY <1>1 DEF Closers
<1>3. (\E t : Goto(s, t)) /\ UNCHANGED <<now, pair, roster, data>> /\ TxOK(s)'
  BY <1>1, <1>2, BeginCloseOK
<1>. QED  BY <1>1, <1>3, GotoKeeps DEF Inv, Typed, Interlock

\* Whatever the closing transaction found, the pair is closed with it.
LEMMA EndCloseCloses ==
    ASSUME Inv, NEW s \in Sessions, EndClose(s)
    PROVE  /\ pair'.status = "closed"
           /\ lock["pair"] \notin {s, None} => pair' = pair
<1>1. TxOK(s) /\ tx[s].op \in Closers
  BY DEF Inv, EndClose
<1>2. CASE tx[s].saw = "none"
  BY <1>1, <1>2 DEF EndClose, TxOK
<1>3. CASE tx[s].saw # "none"
  <2>1. Close(tx[s].saw) /\ Against(s, "pair") = {}
    BY <1>3 DEF EndClose
  <2>2. lock["pair"] \in {s, None}
    BY <2>1 DEF Against, Holder
  <2>. QED  BY <2>1, <2>2 DEF Close
<1>. QED  BY <1>2, <1>3

LEMMA EndCloseKeeps ==
    ASSUME Inv, NEW s \in Sessions, EndClose(s)
    PROVE  Inv'
<1>1. Finish(s) /\ UNCHANGED <<now, data>>
  BY DEF EndClose
<1>2. /\ TxOK(s) /\ tx[s].who \in Members
      /\ tx[s].op = "reassign" => tx[s].arg \in Counselors
      /\ tx[s].op = "lapse" => tx[s].arg \in Lacks
  BY DEF Inv, EndClose, TxOK
<1>. DEFINE only(op) == IF tx[s].op = op THEN {tx[s].who} ELSE {}
<1>3. holds' \in [Members -> Nat]
  <2>1. holds' = [m \in Members |-> holds[m] + Cardinality(only("hold") \cap {m})]
    BY DEF EndClose
  <2>2. ASSUME NEW m \in Members PROVE Cardinality(only("hold") \cap {m}) \in Nat
    <3>1. only("hold") \cap {m} = {} \/ only("hold") \cap {m} = {m}
      OBVIOUS
    <3>2. Cardinality({}) = 0 /\ Cardinality({m}) = 1
      BY FS_Singleton, FS_EmptySet
    <3>. HIDE DEF only
    <3>. QED  BY <3>1, <3>2
  <2>3. \A m \in Members : holds[m] \in Nat
    BY DEF Inv, Typed
  <2>. HIDE DEF only
  <2>. QED  BY <2>1, <2>2, <2>3
<1>4. counselor' \in [Members -> Counselors \cup {None}]
  <2>1. counselor' = [m \in Members |->
          IF m \in only("reassign") THEN tx[s].arg
          ELSE IF m \in only("demote") THEN None ELSE counselor[m]]
    BY DEF EndClose
  <2>. QED  BY <1>2, <2>1 DEF Inv, Typed
<1>5. lapsed' \in [Members -> SUBSET Lacks]
  <2>1. lapsed' = [m \in Members |-> lapsed[m] \cup
          (IF m \in only("lapse") THEN {tx[s].arg} ELSE {}) \cup
          (IF m \in only("reassign") \cup only("demote") THEN {"readiness"} ELSE {})]
    BY DEF EndClose
  <2>2. \A m \in Members : lapsed[m] \subseteq Lacks
    BY DEF Inv, Typed
  <2>3. \A m \in Members : m \in only("lapse") => tx[s].arg \in Lacks
    BY <1>2
  <2>. HIDE DEF only
  <2>. QED  BY <2>1, <2>2, <2>3 DEF Lacks
<1>6. \A x \in Sessions : TxOK(x)'
  BY <1>1, EndCloseCloses, FinishKeepsTx DEF data
<1>7. Typed' /\ Interlock'
  BY <1>1, <1>3, <1>4, <1>5, EndCloseCloses, FinishFrees DEF Inv, Typed, data
<1>. QED  BY <1>1, <1>6, <1>7, EndCloseCloses
          DEF Inv, EnforcedIsClosed, MessagesInOrder, CheckInNotEarly, data

-----------------------------------------------------------------------------
(* What happens besides, and all steps.                                    *)

LEMMA AsideKeeps ==
    ASSUME Inv, NEW m \in Members, Tick \/ Expire(m) \/ Renew(m) \/ ReleaseHold(m)
    PROVE  Inv'
<1>1. UNCHANGED <<pair, counselor, gone, flagged, data, locks, tx>>
  BY DEF Tick, Expire, Renew, ReleaseHold, roster
<1>2. UNCHANGED <<pair, counselor, gone, flagged, journey, done, checkIns, messages,
                  lock, shared, tx>>
  BY <1>1 DEF data, locks
<1>. DEFINE P == /\ now' \in Nat /\ lapsed' \in [Members -> SUBSET Lacks]
                 /\ holds' \in [Members -> Nat]
                 /\ \A n \in Members : holds'[n] > 0 => holds[n] > 0
<1>0. /\ now \in Nat /\ lapsed \in [Members -> SUBSET Lacks] /\ holds \in [Members -> Nat]
      /\ lapsed[m] \subseteq Lacks
  BY DEF Inv, Typed
<1>3. ASSUME Tick PROVE P
  BY <1>0, <1>3 DEF Tick, roster
<1>4. ASSUME Expire(m) PROVE P
  <2>1. PICK lack \in Lacks : lapsed' = [lapsed EXCEPT ![m] = lapsed[m] \cup {lack}]
    BY <1>4 DEF Expire
  <2>2. lapsed[m] \cup {lack} \in SUBSET Lacks
    BY <1>0
  <2>3. lapsed' \in [Members -> SUBSET Lacks]
    BY <1>0, <2>1, <2>2
  <2>. QED  BY <1>0, <1>4, <2>3 DEF Expire
<1>8. ASSUME Renew(m) PROVE P
  BY <1>0, <1>8 DEF Renew
<1>9. ASSUME ReleaseHold(m) PROVE P
  BY <1>0, <1>9 DEF ReleaseHold
<1>10. P
  BY <1>3, <1>4, <1>8, <1>9
<1>5. ASSUME NEW x \in Sessions PROVE TxOK(x)'
  BY <1>2 DEF Inv, TxOK, At, Within
<1>6. Typed' /\ Interlock'
  BY <1>2, <1>10 DEF Inv, Typed, Interlock
<1>7. EnforcedIsClosed'
  BY <1>2, <1>10 DEF Inv, EnforcedIsClosed
<1>. QED  BY <1>2, <1>5, <1>6, <1>7 DEF Inv, MessagesInOrder, CheckInNotEarly

LEMMA UpsetKeeps == ASSUME Inv, Upset PROVE Inv'
BY AsideKeeps, BeginHoldKeeps, BeginOtherKeeps, BeginRemovalKeeps, BeginReassignKeeps DEF Upset

LEMMA ActivityKeeps ==
    ASSUME Inv, NEW s \in Sessions, Activity(s)
    PROVE  Inv'
BY EnteringKeeps, OnJourneyKeeps, ListKeeps, ReconcileKeeps, EndingKeeps, StoreMessageKeeps,
   GoOnKeeps, SetTaskKeeps, SubmitKeeps, StartJourneyKeeps, ReadCheckInsKeeps, EndCloseKeeps
DEF Activity

LEMMA InvStutter == ASSUME Inv, UNCHANGED vars PROVE Inv'
<1>1. UNCHANGED <<now, pair, counselor, lapsed, holds, gone, flagged, journey, done,
                  checkIns, messages, lock, shared, tx>>
  BY DEF vars, roster, data, locks
<1>2. ASSUME NEW x \in Sessions PROVE TxOK(x)'
  BY <1>1 DEF Inv, TxOK, At, Within
<1>. QED  BY <1>1, <1>2 DEF Inv, Typed, Interlock, EnforcedIsClosed, MessagesInOrder,
             CheckInNotEarly

LEMMA InvInit == Init => Inv
<1>. SUFFICES ASSUME Init PROVE Inv
  OBVIOUS
<1>1. Typed
  BY DEF Init, Typed
<1>2. Interlock
  BY SomeRows DEF Init, Interlock
<1>3. \A x \in Sessions : TxOK(x)
  BY IdleFields DEF Init, TxOK, At, Closers, Within
<1>4. EnforcedIsClosed /\ CheckInNotEarly /\ MessagesInOrder
  BY DEF Init, EnforcedIsClosed, CheckInNotEarly, MessagesInOrder
<1>. QED  BY <1>1, <1>2, <1>3, <1>4 DEF Inv

LEMMA SomeMember == \E m : m \in Members
<1>1. Cardinality(Members) = 2
  BY PairAssumption
<1>2. Cardinality({}) = 0
  BY FS_EmptySet
<1>. QED  BY <1>1, <1>2

LEMMA InvNext == Inv /\ [Next]_vars => Inv'
<1>1. ASSUME Inv, Tick PROVE Inv'
  BY <1>1, SomeMember, AsideKeeps
<1>. QED  BY <1>1, UpsetKeeps, ActivityKeeps, InvStutter DEF Next

\* The inductive invariant holds always.
THEOREM InvAlways == Spec => []Inv
BY InvInit, InvNext, PTL DEF Spec

\* Rows keep their types, and exclusive and shared locks exclude each other.
THEOREM TypeCorrect == Spec => []TypeOK
<1>1. Inv => TypeOK
  BY DEF Inv, Typed, Interlock, TypeOK
<1>. QED  BY <1>1, InvAlways, PTL

\* The order of sent_at is the order of commits.
THEOREM MessagesInOrderCorrect == Spec => []MessagesInOrder
<1>1. Inv => MessagesInOrder
  BY DEF Inv
<1>. QED  BY <1>1, InvAlways, PTL

\* No check-in was first submitted before the week of its due date, if a week
\* is no shorter than a day.
THEOREM CheckInNotEarlyCorrect == Spec => []CheckInNotEarly
<1>1. Inv => CheckInNotEarly
  BY DEF Inv
<1>. QED  BY <1>1, InvAlways, PTL

\* Whoever is held, flagged or removed has no open match.
THEOREM EnforcedIsClosedCorrect == Spec => []EnforcedIsClosed
<1>1. Inv => EnforcedIsClosed
  BY DEF Inv
<1>. QED  BY <1>1, InvAlways, PTL

\* A reflection is shown only to the counselor its member has at that moment,
\* as it then reads.
THEOREM ShownIsCurrentCorrect == Spec => []ShownIsCurrent
<1>1. Inv => ShownIsCurrent
  <2>. SUFFICES ASSUME Inv, NEW s \in Sessions, At(s, "list", "viewing"),
                       NEW m \in Members, NEW k \in Milestones,
                       ToShow(s)[m].checkIns[k].reflection # None
       PROVE  /\ counselor[m] = tx[s].who /\ checkIns[k][m].share
              /\ checkIns[k][m].note = ToShow(s)[m].checkIns[k].reflection
    BY DEF ShownIsCurrent
  <2>1. tx[s].saw = checkIns
    BY DEF Inv, TxOK
  <2>2. ToShow(s)[m].checkIns[k].reflection =
           IF checkIns[k][m] # None /\ counselor[m] = tx[s].who /\ checkIns[k][m].share
           THEN checkIns[k][m].note ELSE None
    BY <2>1 DEF ToShow, CounselorView
  <2>. QED  BY <2>2
<1>. QED  BY <1>1, InvAlways, PTL

-----------------------------------------------------------------------------
(* Closed is closed.                                                       *)

\* The only steps that write what the members share are within the pair.
LEMMA WritersAreWithin ==
    ASSUME Next
    PROVE  UNCHANGED data \/ \E s \in Sessions : Within(tx[s])
<1>1. CASE Tick \/ Upset
  <2>1. CASE Tick
    BY <2>1 DEF Tick
  <2>2. ASSUME NEW m \in Members, Expire(m) \/ Renew(m) \/ ReleaseHold(m)
        PROVE  UNCHANGED data
    BY <2>2 DEF Expire, Renew, ReleaseHold
  <2>3. ASSUME NEW m, NEW s, NEW op, NEW arg, BeginClose(s, op, m, arg)
        PROVE  UNCHANGED data
    BY <2>3 DEF BeginClose
  <2>4. ASSUME NEW m \in Members, NEW s \in Sessions,
               \/ BeginHold(s, m) \/ BeginBlock(s, m)
               \/ BeginRemoval(s, "demote", m) \/ BeginRemoval(s, "disable", m)
               \/ \E c \in Counselors : BeginReassign(s, m, c)
               \/ \E lack \in Lacks : BeginLapse(s, m, lack)
        PROVE  UNCHANGED data
    BY <2>3, <2>4 DEF BeginHold, BeginBlock, BeginRemoval, BeginReassign, BeginLapse
  <2>. QED  BY <1>1, <2>1, <2>2, <2>4 DEF Upset
<1>2. ASSUME NEW s \in Sessions, Activity(s)
      PROVE  UNCHANGED data \/ Within(tx[s])
  <2>1. CASE \E m \in Members :
                \/ SendMessage(s, m)
                \/ \E task \in Tasks, completed \in BOOLEAN : BeginTask(s, m, task, completed)
                \/ \E k \in Milestones, share \in BOOLEAN : BeginCheckIn(s, m, k, share)
    BY <2>1 DEF SendMessage, BeginTask, BeginCheckIn, BeginOnJourney, Enter
  <2>2. CASE \E c \in Counselors : AssignJourney(s, c) \/ ListJourneys(s, c)
    BY <2>2 DEF AssignJourney, ListJourneys, Enter
  <2>3. CASE ReadPair(s) \/ Reconcile(s) \/ EndRead(s) \/ EnterFromJourney(s)
             \/ LockListed(s) \/ ReadCheckIns(s) \/ ShowJourney(s) \/ EndClose(s)
             \/ Rollback(s)
    BY <2>3 DEF ReadPair, Reconcile, EndRead, EnterFromJourney, LockListed, ReadCheckIns,
       ShowJourney, EndClose, Rollback, Enter
  <2>4. CASE StoreMessage(s) \/ SetTask(s) \/ SubmitCheckIn(s) \/ StartJourney(s)
    BY <2>4 DEF StoreMessage, SetTask, SubmitCheckIn, StartJourney, At, Within
  <2>. QED  BY <1>2, <2>1, <2>2, <2>3, <2>4 DEF Activity
<1>. QED  BY <1>1, <1>2 DEF Next

\* No message, activity, check-in or journey commits after the closure did.
THEOREM NothingAfterCloseCorrect == Spec => NothingAfterClose
<1>1. Inv /\ [Next]_vars => [pair.status = "closed" => UNCHANGED data]_vars
  <2>. SUFFICES ASSUME Inv, Next, pair.status = "closed" PROVE UNCHANGED data
    OBVIOUS
  <2>1. \A s \in Sessions : ~Within(tx[s])
    BY DEF Inv, TxOK
  <2>. QED  BY <2>1, WritersAreWithin
<1>. QED  BY <1>1, InvAlways, PTL DEF Spec, NothingAfterClose

-----------------------------------------------------------------------------
(* Privacy.                                                                *)

LEMMA PartnerIsOther ==
    ASSUME NEW m \in Members
    PROVE  Partner(m) \in Members /\ Partner(m) # m
<1>1. \E p \in Members : p # m
  <2>1. Members # {m}
    <3>1. Cardinality({m}) = 1
      BY FS_Singleton
    <3>. QED  BY <3>1, PairAssumption
  <2>. QED  BY <2>1
<1>. QED  BY <1>1 DEF Partner

\* What a counselor sees is the same with other private reflections, what a
\* member sees with other check-ins and individual activities of the partner.
THEOREM PrivateStaysPrivateCorrect == Spec => []PrivateStaysPrivate
<1>1. ASSUME Inv, NEW c \in Counselors
      PROVE  CounselorView(c, counselor, done, checkIns) =
                 CounselorView(c, counselor, done, Redacted(c))
  <2>1. PICK red : red = Redacted(c)
    OBVIOUS
  <2>2. ASSUME NEW m \in Members, NEW k \in Milestones
        PROVE  /\ red[k][m] = None <=> checkIns[k][m] = None
               /\ checkIns[k][m] # None =>
                     /\ counselor[m] = c => red[k][m].concern = checkIns[k][m].concern
                     /\ counselor[m] = c => red[k][m].share = checkIns[k][m].share
                     /\ counselor[m] = c /\ checkIns[k][m].share =>
                           red[k][m].note = checkIns[k][m].note
    <3>1. PICK a : a = checkIns[k][m]
      OBVIOUS
    <3>2. a \in Answer \cup {None} /\ None \notin Answer
      BY <1>1, <3>1, PairAssumption DEF Inv, Typed
    <3>3. red[k][m] = IF a = None THEN None
                      ELSE IF counselor[m] # c THEN [a EXCEPT !.concern = FALSE, !.note = 0]
                      ELSE IF ~a.share THEN [a EXCEPT !.note = 0] ELSE a
      BY <2>1, <3>1 DEF Redacted
    <3>4. CASE a = None
      BY <3>1, <3>3, <3>4
    <3>5. CASE a # None
      <4>1. a \in Answer
        BY <3>2, <3>5
      <4>2. PICK b : b = red[k][m]
        OBVIOUS
      <4>3. b \in Answer
        <5>1. [a EXCEPT !.concern = FALSE, !.note = 0] \in Answer
          BY <4>1 DEF Answer
        <5>2. [a EXCEPT !.note = 0] \in Answer
          BY <4>1 DEF Answer
        <5>. QED  BY <3>3, <3>5, <4>1, <4>2, <5>1, <5>2
      <4>4. counselor[m] = c => b.concern = a.concern /\ b.share = a.share
                                /\ (a.share => b.note = a.note)
        BY <3>3, <3>5, <4>1, <4>2 DEF Answer
      <4>. QED  BY <3>1, <3>2, <3>5, <4>2, <4>3, <4>4
    <3>. QED  BY <3>4, <3>5
  <2>3. CounselorView(c, counselor, done, checkIns) = CounselorView(c, counselor, done, red)
    <3>. DEFINE Shows(answers, k, m) ==
            LET a == answers[k][m]
                mine == counselor[m] = c
            IN
            [submitted |-> a # None,
             concern |-> IF a # None /\ mine THEN a.concern ELSE None,
             reflection |-> IF a # None /\ mine /\ a.share THEN a.note ELSE None]
    <3>1. \A m \in Members, k \in Milestones : Shows(checkIns, k, m) = Shows(red, k, m)
      BY <2>2
    <3>2. \A answers : CounselorView(c, counselor, done, answers) =
             [m \in Members |-> [completed |-> Cardinality({t \in Tasks : <<t, m>> \in done}),
                                 checkIns |-> [k \in Milestones |-> Shows(answers, k, m)]]]
      BY DEF CounselorView
    <3>. HIDE DEF Shows
    <3>. QED  BY <3>1, <3>2
  <2>. QED  BY <2>1, <2>3
<1>2. ASSUME Inv, NEW m \in Members,
             NEW rows \in SUBSET ((Tasks \ SharedTasks) \X {Partner(m)})
      PROVE  LET others == {r \in done : r[1] \in SharedTasks \/ r[2] = m} IN
             MemberView(m, done, checkIns) =
                 MemberView(m, others \cup rows, Without(Partner(m)))
  <2>1. PICK p : p = Partner(m)
    OBVIOUS
  <2>2. PICK all : all = {r \in done : r[1] \in SharedTasks \/ r[2] = m} \cup rows
    OBVIOUS
  <2>3. p # m
    BY <2>1, PartnerIsOther
  <2>4. \A t \in Tasks : <<t, m>> \in all <=> <<t, m>> \in done
    BY <2>1, <2>2, <2>3
  <2>5. \A t \in SharedTasks : <<t, p>> \in all <=> <<t, p>> \in done
    BY <2>1, <2>2
  <2>6. \A k \in Milestones : Without(p)[k][m] = checkIns[k][m]
    BY <1>2, <2>3 DEF Without, Inv, Typed
  <2>7. MemberView(m, done, checkIns) = MemberView(m, all, Without(p))
    <3>. DEFINE Task(set, t) == [mine |-> <<t, m>> \in set,
                                 partner |-> t \in SharedTasks /\ <<t, p>> \in set]
    <3>1. \A t \in Tasks : Task(done, t) = Task(all, t)
      BY <2>4, <2>5
    <3>2. \A set, answers : MemberView(m, set, answers) =
             [tasks |-> [t \in Tasks |-> Task(set, t)],
              checkIns |-> [k \in Milestones |-> answers[k][m]]]
      BY <2>1 DEF MemberView
    <3>. HIDE DEF Task
    <3>3. [t \in Tasks |-> Task(done, t)] = [t \in Tasks |-> Task(all, t)]
      BY <3>1
    <3>4. [k \in Milestones |-> checkIns[k][m]] = [k \in Milestones |-> Without(p)[k][m]]
      BY <2>6
    <3>. QED  BY <3>2, <3>3, <3>4
  <2>. QED  BY <2>1, <2>2, <2>7
<1>3. Inv => PrivateStaysPrivate
  BY <1>1, <1>2 DEF PrivateStaysPrivate
<1>. QED  BY <1>3, InvAlways, PTL

-----------------------------------------------------------------------------
(* The conversation.                                                       *)

\* Each writing statement is the one write of the promise.
LEMMA StoreMessageIsSay ==
    ASSUME Inv, NEW s \in Sessions, StoreMessage(s)
    PROVE  C!Write
<1>1. PICK t \in Readings :
         messages' = Append(messages, [from |-> tx[s].who, at |-> SentAt(t)])
  BY DEF StoreMessage
<1>2. /\ UNCHANGED <<pair, journey, done, checkIns>> /\ Within(tx[s])
      /\ tx[s].op = "send"
  BY DEF StoreMessage, At, Within
<1>3. SentAt(t) \in Nat /\ \A i \in DOMAIN messages : messages[i].at < SentAt(t)
  BY ReadingsType, SentLast
<1>4. tx[s].who \in Members /\ messages \in Seq(Message)
  BY <1>2 DEF Inv, Typed, TxOK
<1>5. PICK new : new = [from |-> tx[s].who, at |-> SentAt(t)]
  OBVIOUS
<1>6. new \in Message /\ new.from = tx[s].who /\ new.at = SentAt(t)
  BY <1>3, <1>4, <1>5 DEF Message
<1>7. /\ messages' = Append(messages, new) /\ messages' # <<>>
      /\ messages'[Len(messages')] = new
  BY <1>1, <1>4, <1>5, <1>6
<1>8. C!Say(tx[s].who)
  BY <1>2, <1>3, <1>6, <1>7 DEF C!Say
<1>. QED  BY <1>2, <1>4, <1>8, AtPair DEF C!Write, Status

LEMMA SetTaskIsMark ==
    ASSUME Inv, NEW s \in Sessions, SetTask(s)
    PROVE  C!Write \/ UNCHANGED <<pair, data>>
<1>1. /\ UNCHANGED <<pair, journey, checkIns, messages>> /\ Within(tx[s])
      /\ tx[s].op = "task"
  BY DEF SetTask, At, Within, roster
<1>2. tx[s].who \in Members /\ tx[s].arg.task \in Tasks
  BY <1>1 DEF Inv, TxOK
<1>3. journey # None
  BY <1>1 DEF Inv, TxOK
<1>4. CASE UNCHANGED done
  BY <1>1, <1>4 DEF data
<1>5. CASE done' # done
  <2>1. C!Mark(tx[s].who, tx[s].arg.task)
    BY <1>1, <1>3, <1>5 DEF C!Mark, SetTask
  <2>. QED  BY <1>1, <1>2, <2>1, AtPair DEF C!Write, Status
<1>. QED  BY <1>4, <1>5

LEMMA SubmitIsReply ==
    ASSUME Inv, NEW s \in Sessions, SubmitCheckIn(s)
    PROVE  C!Write \/ UNCHANGED <<pair, data>>
<1>1. PICK k, m, old : k = tx[s].arg.milestone /\ m = tx[s].who /\ old = checkIns[k][m]
  OBVIOUS
<1>2. /\ UNCHANGED <<pair, journey, done, messages>> /\ Within(tx[s])
      /\ tx[s].op = "checkin"
  BY DEF SubmitCheckIn, At, Within
<1>3. /\ k \in Milestones /\ m \in Members /\ journey # None
      /\ checkIns \in [Milestones -> [Members -> Answer \cup {None}]]
      /\ tx[s].arg.share \in BOOLEAN
  BY <1>1, <1>2 DEF Inv, Typed, TxOK
<1>4. PICK t, new : t \in Readings /\
         \/ UNCHANGED checkIns
         \/ /\ checkIns' = [checkIns EXCEPT ![k][m] = new]
            /\ \/ /\ old = None
                  /\ new = [at |-> t, note |-> 1, share |-> tx[s].arg.share,
                            concern |-> 1 = 1]
               \/ /\ old # None
                  /\ new = [at |-> old.at, note |-> old.note + 1,
                            share |-> tx[s].arg.share, concern |-> old.note + 1 = 1]
  BY <1>1 DEF SubmitCheckIn
<1>5. CASE UNCHANGED checkIns
  BY <1>2, <1>5 DEF data
<1>6. CASE checkIns' = [checkIns EXCEPT ![k][m] = new] /\ checkIns' # checkIns
  <2>1. /\ new \in Answer /\ new.note = IF old = None THEN 1 ELSE old.note + 1
        /\ old # None => new.at = old.at
    <3>1. old # None => old \in Answer
      BY <1>1, <1>3
    <3>2. CASE old = None
      <4>1. new = [at |-> t, note |-> 1, share |-> tx[s].arg.share, concern |-> TRUE]
        BY <1>4, <1>6, <3>2
      <4>2. t \in Nat
        BY <1>4, ReadingsType
      <4>. QED  BY <1>3, <3>2, <4>1, <4>2 DEF Answer
    <3>3. CASE old # None
      <4>1. new = [at |-> old.at, note |-> old.note + 1, share |-> tx[s].arg.share,
                   concern |-> old.note + 1 = 1]
        BY <1>4, <1>6, <3>3
      <4>2. old.at \in Nat /\ old.note \in Nat /\ old.note + 1 \in Nat
        BY <3>1, <3>3 DEF Answer
      <4>. QED  BY <1>3, <3>3, <4>1, <4>2 DEF Answer
    <3>. QED  BY <3>2, <3>3
  <2>2. checkIns'[k][m] = new /\ new # None
    BY <1>3, <1>6, <2>1, PairAssumption
  <2>3. C!Reply(m, k)
    BY <1>1, <1>2, <1>3, <1>6, <2>1, <2>2 DEF C!Reply
  <2>. QED  BY <1>2, <1>3, <2>3, AtPair DEF C!Write, Status
<1>. QED  BY <1>4, <1>5, <1>6

LEMMA StartIsSetOut ==
    ASSUME Inv, NEW s \in Sessions, StartJourney(s)
    PROVE  C!Write \/ UNCHANGED <<pair, data>>
<1>1. /\ UNCHANGED <<pair, done, checkIns, messages>> /\ Within(tx[s])
      /\ journey' = journey \/ (journey = None /\ journey' \in Readings)
  BY DEF StartJourney, At, Within
<1>2. CASE UNCHANGED journey
  BY <1>1, <1>2 DEF data
<1>3. CASE journey = None /\ journey' \in Readings
  BY <1>1, <1>3, ReadingsType, AtPair DEF C!SetOut, C!Write, Status
<1>. QED  BY <1>1, <1>2, <1>3

\* A closing statement is the end, also when the pair was closed before.
LEMMA ClosingIsEnd ==
    ASSUME Inv, NEW s \in Sessions, Reconcile(s) \/ EndClose(s)
    PROVE  C!End \/ UNCHANGED <<pair, data>>
<1>1. UNCHANGED data /\ (UNCHANGED pair \/ \E reason : Close(reason))
  BY DEF Reconcile, EndClose
<1>2. ASSUME NEW reason, Close(reason) PROVE C!End
  BY <1>1, <1>2 DEF Close, C!End, Status, data
<1>. QED  BY <1>1, <1>2

LEMMA StepIsWriteOrEnd ==
    ASSUME Inv, [Next]_vars
    PROVE  C!Write \/ C!End \/ UNCHANGED <<pair, data>>
<1>1. CASE Tick \/ UNCHANGED vars
  BY <1>1 DEF Tick, vars
<1>2. CASE Upset
  <2>1. ASSUME NEW m \in Members, Expire(m) \/ Renew(m) \/ ReleaseHold(m)
        PROVE  UNCHANGED <<pair, data>>
    BY <2>1 DEF Expire, Renew, ReleaseHold
  <2>2. ASSUME NEW m, NEW s, NEW op, NEW arg, BeginClose(s, op, m, arg)
        PROVE  UNCHANGED <<pair, data>>
    BY <2>2 DEF BeginClose
  <2>3. ASSUME NEW m \in Members, NEW s \in Sessions,
               \/ BeginHold(s, m) \/ BeginBlock(s, m)
               \/ BeginRemoval(s, "demote", m) \/ BeginRemoval(s, "disable", m)
               \/ \E c \in Counselors : BeginReassign(s, m, c)
               \/ \E lack \in Lacks : BeginLapse(s, m, lack)
        PROVE  UNCHANGED <<pair, data>>
    BY <2>2, <2>3 DEF BeginHold, BeginBlock, BeginRemoval, BeginReassign, BeginLapse
  <2>. QED  BY <1>2, <2>1, <2>3 DEF Upset
<1>3. ASSUME NEW s \in Sessions, Activity(s)
      PROVE  C!Write \/ C!End \/ UNCHANGED <<pair, data>>
  <2>1. CASE \E m \in Members :
                \/ SendMessage(s, m)
                \/ \E task \in Tasks, completed \in BOOLEAN : BeginTask(s, m, task, completed)
                \/ \E k \in Milestones, share \in BOOLEAN : BeginCheckIn(s, m, k, share)
    BY <2>1 DEF SendMessage, BeginTask, BeginCheckIn, BeginOnJourney, Enter
  <2>2. CASE \E c \in Counselors : AssignJourney(s, c) \/ ListJourneys(s, c)
    BY <2>2 DEF AssignJourney, ListJourneys, Enter
  <2>3. CASE ReadPair(s) \/ EndRead(s) \/ EnterFromJourney(s) \/ LockListed(s)
             \/ ReadCheckIns(s) \/ ShowJourney(s) \/ Rollback(s)
    BY <2>3 DEF ReadPair, EndRead, EnterFromJourney, LockListed, ReadCheckIns, ShowJourney,
       Rollback, Enter
  <2>4. CASE StoreMessage(s) \/ SetTask(s) \/ SubmitCheckIn(s) \/ StartJourney(s)
    BY <2>4, StoreMessageIsSay, SetTaskIsMark, SubmitIsReply, StartIsSetOut
  <2>5. CASE Reconcile(s) \/ EndClose(s)
    BY <2>5, ClosingIsEnd
  <2>. QED  BY <1>3, <2>1, <2>2, <2>3, <2>4, <2>5 DEF Activity
<1>. QED  BY <1>1, <1>2, <1>3 DEF Next

\* However the transactions of send_message, set_journey_task_completion,
\* submit_journey_check_in, assign_guided_journey and of everything that
\* closes a pair interleave, wait and roll back, what the pair has written
\* changes by whole operations: no message overtakes another, no answer is
\* lost to another, and none is written once the match has ended.
THEOREM ConversationKept == Spec => KeepsConversation
<1>1. Init => C!Begin
  BY DEF Init, C!Begin, Status
<1>2. UNCHANGED <<pair, data>> => UNCHANGED <<Status, journey, done, checkIns, messages>>
  BY DEF Status, data
<1>3. Inv /\ [Next]_vars =>
         [C!Write \/ C!End]_<<Status, journey, done, checkIns, messages>>
  BY <1>2, StepIsWriteOrEnd
<1>. QED  BY <1>1, <1>3, InvAlways, PTL DEF Spec, KeepsConversation, C!Promise

-----------------------------------------------------------------------------
(* The history of the pair.                                                *)

\* A transaction that ends overlaps nothing, the others stay what they are.
LEMMA FinishSettles ==
    ASSUME Inv, NEW s \in Sessions, Finish(s), NEW x \in Sessions, ~Overlapping(x)
    PROVE  ~Overlapping(x)'
BY FinishFrees, IdleFields DEF Overlapping

LEMMA GotoSettles ==
    ASSUME Inv, NEW s \in Sessions, NEW t, Goto(s, t), t.op \in Closers => t.saw = "none",
           NEW x \in Sessions, ~Overlapping(x)
    PROVE  ~Overlapping(x)'
<1>1. tx'[s] = t /\ \A y \in Sessions \ {s} : tx'[y] = tx[y]
  BY DEF Inv, Typed, Goto
<1>. QED  BY <1>1 DEF Overlapping

LEMMA EnterSettles ==
    ASSUME Inv, NEW s \in Sessions, NEW t, Enter(s, t), pair.status = "closed",
           NEW x \in Sessions, ~Overlapping(x)
    PROVE  UNCHANGED pair /\ ~Overlapping(x)'
BY FinishSettles DEF Enter

LEMMA ActivitySettles ==
    ASSUME Inv, NEW s \in Sessions, Activity(s), pair.status = "closed",
           ~Overlapping(s), NEW x \in Sessions, ~Overlapping(x)
    PROVE  UNCHANGED pair /\ ~Overlapping(x)'
<1>1. ~Within(tx[s])
  BY DEF Inv, TxOK
<1>2. CASE \/ \E m \in Members : SendMessage(s, m)
           \/ \E c \in Counselors : AssignJourney(s, c)
           \/ ReadPair(s) \/ EnterFromJourney(s) \/ LockListed(s)
  BY <1>2, EnterSettles DEF SendMessage, AssignJourney, ReadPair, EnterFromJourney, LockListed
<1>3. CASE \/ \E m \in Members :
                 \/ \E task \in Tasks, completed \in BOOLEAN : BeginTask(s, m, task, completed)
                 \/ \E k \in Milestones, share \in BOOLEAN : BeginCheckIn(s, m, k, share)
           \/ \E c \in Counselors : ListJourneys(s, c)
  <2>1. ASSUME NEW op \in {"task", "checkin", "list"}, NEW who, NEW arg,
               Goto(s, Begins(op, who, arg))
        PROVE  ~Overlapping(x)'
    <3>1. Begins(op, who, arg).op \notin Closers
      BY BeginsFields DEF Closers
    <3>. QED  BY <2>1, <3>1, GotoSettles
  <2>2. CASE \E m \in Members :
                \/ \E task \in Tasks, completed \in BOOLEAN : BeginTask(s, m, task, completed)
                \/ \E k \in Milestones, share \in BOOLEAN : BeginCheckIn(s, m, k, share)
    BY <2>1, <2>2 DEF BeginTask, BeginCheckIn, BeginOnJourney
  <2>3. CASE \E c \in Counselors : ListJourneys(s, c)
    BY <2>1, <2>3 DEF ListJourneys
  <2>. QED  BY <1>3, <2>2, <2>3
<1>4. CASE Reconcile(s) \/ EndRead(s) \/ StoreMessage(s) \/ SetTask(s) \/ SubmitCheckIn(s)
           \/ StartJourney(s) \/ ReadCheckIns(s) \/ ShowJourney(s)
  BY <1>1, <1>4 DEF Reconcile, EndRead, StoreMessage, SetTask, SubmitCheckIn, StartJourney,
     ReadCheckIns, ShowJourney, At, Within
<1>5. CASE Rollback(s)
  BY <1>5, FinishSettles DEF Rollback
<1>6. CASE EndClose(s)
  BY <1>6, FinishSettles DEF EndClose, Overlapping
<1>. QED  BY <1>2, <1>3, <1>4, <1>5, <1>6 DEF Activity

\* A closure that begins after the match was closed sees nothing to close.
LEMMA UpsetSettles ==
    ASSUME Inv, Upset, pair.status = "closed"
    PROVE  UNCHANGED pair /\ \A x \in Sessions : ~Overlapping(x) => ~Overlapping(x)'
<1>1. ASSUME NEW s \in Sessions, NEW op, NEW m, NEW arg, BeginClose(s, op, m, arg)
      PROVE  UNCHANGED pair /\ \A x \in Sessions : ~Overlapping(x) => ~Overlapping(x)'
  <2>1. PICK t : t = [Begins(op, m, arg) EXCEPT !.saw = "none"]
    OBVIOUS
  <2>2. Goto(s, t) /\ UNCHANGED pair
    BY <1>1, <2>1 DEF BeginClose, SeenOpen
  <2>3. t.saw = "none"
    BY <2>1 DEF Begins
  <2>. QED  BY <2>2, <2>3, GotoSettles
<1>2. ASSUME NEW m \in Members, NEW s \in Sessions,
             \/ BeginHold(s, m) \/ BeginBlock(s, m)
             \/ BeginRemoval(s, "demote", m) \/ BeginRemoval(s, "disable", m)
             \/ \E c \in Counselors : BeginReassign(s, m, c)
             \/ \E lack \in Lacks : BeginLapse(s, m, lack)
      PROVE  UNCHANGED pair /\ \A x \in Sessions : ~Overlapping(x) => ~Overlapping(x)'
  BY <1>1, <1>2 DEF BeginHold, BeginBlock, BeginRemoval, BeginReassign, BeginLapse
<1>3. ASSUME NEW m \in Members, Expire(m) \/ Renew(m) \/ ReleaseHold(m)
      PROVE  UNCHANGED pair /\ \A x \in Sessions : ~Overlapping(x) => ~Overlapping(x)'
  BY <1>3 DEF Expire, Renew, ReleaseHold, Overlapping
<1>. QED  BY <1>2, <1>3 DEF Upset

\* The reason of a closure is rewritten, as _close_open_proposals_for_member
\* does to what it read without a lock, only by a transaction that overlapped
\* the first closure: the history is immutable from the end of these on.
THEOREM HistorySettlesCorrect == Spec => HistorySettles
<1>1. ASSUME Inv, [Next]_vars, pair.status = "closed", \A s \in Sessions : ~Overlapping(s)
      PROVE  UNCHANGED pair /\ \A s \in Sessions : ~Overlapping(s)'
  <2>1. CASE Tick \/ UNCHANGED vars
    BY <1>1, <2>1 DEF Tick, vars, Overlapping
  <2>2. CASE Upset
    BY <1>1, <2>2, UpsetSettles
  <2>3. CASE \E s \in Sessions : Activity(s)
    BY <1>1, <2>3, ActivitySettles
  <2>. QED  BY <1>1, <2>1, <2>2, <2>3 DEF Next
<1>. QED  BY <1>1, InvAlways, PTL DEF Spec, HistorySettles
=============================================================================
