---------------------------- MODULE BillingProofs ---------------------------
(***************************************************************************)
(* Proofs about Billing for any number of workers, any provider events and *)
(* any number of failures, corrections and changes of role.                *)
(***************************************************************************)
EXTENDS Billing, TLAPS

Statuses == {"absent", "active", "grace", "canceled", "suspended", "incomplete",
             "complimentary"}
Row == [status : Statuses, period : Nat, cancel : BOOLEAN, grace : Nat, last : Nat]
Outcomes == {"none", "unrecognized", "unresolvable", "applied", "out_of_order_event",
             "already_suspended_or_canceled"}
Entry == [job : Events \cup Corrections, status : Statuses, time : Nat]
Transaction ==
    [step : {"idle", "received", "apply", "answer"},
     job : Events \cup Corrections \cup {"none"}, seen : Row]

Typed ==
    /\ event \in [Events -> Catalog]
    /\ row \in Row
    /\ receipts \in [Events -> Outcomes]
    /\ history \in Seq(Entry)
    /\ worker \in [Workers -> Transaction]
    /\ acked \subseteq Events
    /\ isMember \in BOOLEAN

\* A delivery holds the only uncommitted receipt of its event; an answer has a
\* committed one; only events with a transition get as far as the row.
WorkerOK(w) ==
    LET t == worker[w] IN
    t.job \in Events =>
        /\ t.step \in {"received", "apply"} => receipts[t.job] = "none"
        /\ t.step = "answer" => receipts[t.job] # "none"
        /\ t.step = "apply" => event[t.job].kind \notin {"unrecognized", "unresolvable"}

OneDelivery ==
    \A v, w \in Workers : worker[v].job \in Events /\ worker[v].job = worker[w].job => v = w

\* The inductive invariant.
Inv ==
    /\ Typed
    /\ \A w \in Workers : WorkerOK(w)
    /\ OneDelivery
    /\ AppliedOnce /\ ProviderOrder /\ HistoryExplainsRow /\ AckedIsRecorded

-----------------------------------------------------------------------------
(* The rows that transitions write.                                        *)

LEMMA EventType ==
    ASSUME Typed, NEW id \in Events
    PROVE  /\ event[id].kind \in {"checkout", "updated", "deleted", "paid",
                 "payment_failed", "refund", "unrecognized", "unresolvable"}
           /\ event[id].time \in Nat \ {0}
           /\ event[id].period \in Nat
           /\ event[id].cancel \in BOOLEAN
BY BillingAssumption DEF Typed

LEMMA RowAfterType ==
    ASSUME Typed, NEW id \in Events, NEW seen \in Row,
           event[id].kind \notin {"refund", "unrecognized", "unresolvable"}
    PROVE  RowAfter(event[id], seen) \in Row
<1>. DEFINE e == event[id]
<1>1. StatusAfter(e) \in Statuses
  BY EventType DEF StatusAfter, Normalize, Statuses
<1>2. CancelAfter(e, seen) \in BOOLEAN
  BY EventType DEF CancelAfter, Row
<1>3. GraceWindow(e, seen) \in Nat
  BY EventType, BillingAssumption DEF GraceWindow, Row
<1>. QED  BY <1>1, <1>2, <1>3, EventType DEF RowAfter, Row

LEMMA RowCorrectedType ==
    ASSUME Typed, NEW op \in Corrections, NEW seen \in Row
    PROVE  RowCorrected(op, seen) \in Row
<1>1. CASE op = "grant"
  BY <1>1 DEF RowCorrected, NoRow, Typed, Row, Statuses
<1>2. CASE op = "suspend"
  BY <1>2 DEF RowCorrected, Typed, Row, Statuses
<1>. QED  BY <1>1, <1>2 DEF Corrections

-----------------------------------------------------------------------------
(* Steps that leave row, history and receipts alone.                       *)

\* Worker w goes to t; the rest of what the invariant speaks of stays.
LEMMA WorkerMoves ==
    ASSUME Inv, NEW w \in Workers, NEW t \in Transaction,
           worker' = [worker EXCEPT ![w] = t],
           UNCHANGED <<event, row, receipts, history>>,
           isMember' \in BOOLEAN,
           acked' \subseteq Events, \A e \in acked' : receipts[e] # "none",
           t.job \in Events =>
               /\ t.step \in {"received", "apply"} => receipts[t.job] = "none"
               /\ t.step = "answer" => receipts[t.job] # "none"
               /\ t.step = "apply" =>
                     event[t.job].kind \notin {"unrecognized", "unresolvable"}
               /\ \A v \in Workers \ {w} : worker[v].job # t.job
    PROVE  Inv'
<1>1. Typed'
  BY DEF Inv, Typed
<1>2. ASSUME NEW v \in Workers PROVE WorkerOK(v)'
  BY <1>2 DEF Inv, Typed, WorkerOK
<1>3. OneDelivery'
  BY DEF Inv, Typed, OneDelivery
<1>4. (AppliedOnce /\ ProviderOrder /\ HistoryExplainsRow /\ AckedIsRecorded)'
  BY DEF Inv, AppliedOnce, ProviderOrder, HistoryExplainsRow, AckedIsRecorded, Provided
<1>. QED  BY <1>1, <1>2, <1>3, <1>4 DEF Inv

LEMMA DeliverKeeps ==
    ASSUME Inv, NEW w \in Workers, NEW e \in Events, Deliver(w, e)
    PROVE  Inv'
<1>. DEFINE t == [step |-> IF Recorded(e) THEN "answer" ELSE "received",
                  job |-> e, seen |-> NoRow]
<1>1. t \in Transaction
  BY DEF Transaction, NoRow, Row, Statuses
<1>2. worker' = [worker EXCEPT ![w] = t]
  BY DEF Deliver
<1>3. receipts[e] # "none" <=> t.step = "answer"
  BY DEF Recorded
<1>. HIDE DEF t
<1>4. t.job = e /\ t.step # "apply" /\ (t.step = "received" <=> t.step # "answer")
  BY DEF t
<1>. QED  BY <1>1, <1>2, <1>3, <1>4, WorkerMoves
          DEF Deliver, Inv, Typed, AckedIsRecorded

LEMMA ReadKeeps ==
    ASSUME Inv, NEW w \in Workers, Read(w)
    PROVE  Inv'
<1>. DEFINE t == [worker[w] EXCEPT !.step = "apply", !.seen = row]
<1>1. t \in Transaction /\ t.job = worker[w].job /\ t.step = "apply"
  BY DEF Inv, Typed, Transaction
<1>2. worker' = [worker EXCEPT ![w] = t] /\ worker[w].step = "received"
  BY DEF Read, Inv, Typed
<1>. HIDE DEF t
<1>3. t.job \in Events => receipts[t.job] = "none" /\
                          event[t.job].kind \notin {"unrecognized", "unresolvable"}
  BY <1>1, <1>2 DEF Inv, WorkerOK, Read
<1>4. t.job \in Events => \A v \in Workers \ {w} : worker[v].job # t.job
  BY <1>1 DEF Inv, OneDelivery
<1>5. /\ UNCHANGED <<event, row, receipts, history>> /\ isMember' \in BOOLEAN
      /\ acked' \subseteq Events /\ \A e \in acked' : receipts[e] # "none"
  BY DEF Read, Inv, Typed, AckedIsRecorded
<1>. QED  BY <1>1, <1>2, <1>3, <1>4, <1>5, WorkerMoves

\* A worker is idle again, after a rollback or an answer.
LEMMA IdleKeeps ==
    ASSUME Inv, NEW w \in Workers, worker' = [worker EXCEPT ![w] = Idle],
           UNCHANGED <<event, row, receipts, history, isMember>>,
           acked' \subseteq Events, \A e \in acked' : receipts[e] # "none"
    PROVE  Inv'
<1>1. Idle \in Transaction /\ Idle.job \notin Events
  BY BillingAssumption DEF Idle, Transaction, NoRow, Row, Statuses
<1>. QED  BY <1>1, WorkerMoves DEF Inv, Typed

LEMMA AnswerKeeps ==
    ASSUME Inv, NEW w \in Workers, Answer(w)
    PROVE  Inv'
<1>1. \A e \in {worker[w].job} \cap Events : receipts[e] # "none"
  BY DEF Answer, Inv, WorkerOK
<1>2. acked' \subseteq Events /\ \A e \in acked' : receipts[e] # "none"
  BY <1>1 DEF Answer, Inv, Typed, AckedIsRecorded
<1>. QED  BY <1>2, IdleKeeps DEF Answer

LEMMA StartCorrectionKeeps ==
    ASSUME Inv, NEW w \in Workers, NEW op \in Corrections, StartCorrection(w, op)
    PROVE  Inv'
<1>. DEFINE t == [step |-> "received", job |-> op, seen |-> NoRow]
<1>1. t \in Transaction /\ t.job \notin Events
  BY BillingAssumption DEF Transaction, NoRow, Row, Statuses
<1>2. worker' = [worker EXCEPT ![w] = t]
  BY DEF StartCorrection
<1>. QED  BY <1>1, <1>2, WorkerMoves DEF StartCorrection, Inv, Typed, AckedIsRecorded

-----------------------------------------------------------------------------
(* Receipts and transitions.                                               *)

\* Worker w commits a receipt and has yet to answer; no other worker runs the
\* same event.
LEMMA ReceiptKeeps ==
    ASSUME Inv, NEW w \in Workers, worker[w].job \in Events,
           worker[w].step \in {"received", "apply"},
           NEW outcome \in Outcomes \ {"none"},
           receipts' = [receipts EXCEPT ![worker[w].job] = outcome],
           Goto(w, "answer"),
           UNCHANGED <<event, acked, isMember>>,
           row' \in Row, history' \in Seq(Entry)
    PROVE  /\ Typed' /\ (\A v \in Workers : WorkerOK(v))'
           /\ OneDelivery' /\ AckedIsRecorded'
<1>. DEFINE t == [worker[w] EXCEPT !.step = "answer"]
<1>1. t \in Transaction /\ t.job = worker[w].job /\ t.step = "answer"
  BY DEF Inv, Typed, Transaction
<1>2. worker' = [worker EXCEPT ![w] = t]
  BY DEF Goto, Inv, Typed
<1>. HIDE DEF t
<1>3. Typed'
  BY <1>1, <1>2 DEF Inv, Typed
<1>4. \A e \in Events : receipts'[e] = IF e = worker[w].job THEN outcome ELSE receipts[e]
  BY DEF Inv, Typed
<1>5. \A v \in Workers : v # w /\ worker[v].job \in Events => worker[v].job # worker[w].job
  BY DEF Inv, OneDelivery
<1>6. ASSUME NEW v \in Workers PROVE WorkerOK(v)'
  <2>1. CASE v = w
    BY <1>1, <1>2, <1>4, <2>1 DEF WorkerOK, Inv, Typed
  <2>2. CASE v # w
    BY <1>2, <1>4, <1>5, <2>2 DEF WorkerOK, Inv, Typed
  <2>. QED  BY <2>1, <2>2
<1>7. OneDelivery'
  BY <1>1, <1>2 DEF Inv, Typed, OneDelivery
<1>8. AckedIsRecorded'
  BY <1>4 DEF Inv, Typed, AckedIsRecorded
<1>. QED  BY <1>3, <1>6, <1>7, <1>8

\* A receipt alone.
LEMMA RecordKeeps ==
    ASSUME Inv, NEW w \in Workers, worker[w].job \in Events,
           worker[w].step \in {"received", "apply"},
           NEW outcome \in Outcomes \ {"none"}, Record(w, outcome)
    PROVE  Inv'
<1>1. UNCHANGED <<row, history, event, acked, isMember>>
  BY DEF Record
<1>2. /\ Typed' /\ (\A v \in Workers : WorkerOK(v))' /\ OneDelivery' /\ AckedIsRecorded'
  BY <1>1, ReceiptKeeps DEF Record, Inv, Typed
<1>3. receipts[worker[w].job] = "none"
  BY DEF Inv, WorkerOK
<1>4. AppliedOnce'
  <2>1. \A n \in Provided : history[n].job \in Events /\ history[n].job # worker[w].job
    BY <1>3 DEF Inv, AppliedOnce, Provided
  <2>. QED  BY <1>1, <2>1 DEF Record, Inv, Typed, AppliedOnce, Provided
<1>5. ProviderOrder' /\ HistoryExplainsRow'
  BY <1>1 DEF Inv, ProviderOrder, HistoryExplainsRow, Provided
<1>. QED  BY <1>2, <1>4, <1>5 DEF Inv

\* The history grows by an entry that explains the new row.
LEMMA Appended ==
    ASSUME Typed, ProviderOrder, HistoryExplainsRow,
           NEW new \in Entry, history' = Append(history, new),
           row' \in Row, new.status = row'.status,
           \/ new.job \in Events /\ new.time = row'.last /\ row.last <= row'.last
           \/ new.job \notin Events /\ row'.last = row.last
    PROVE  /\ history' \in Seq(Entry)
           /\ Provided' = Provided \cup (IF new.job \in Events THEN {Len(history) + 1} ELSE {})
           /\ \A n \in Provided : history'[n] = history[n]
           /\ history'[Len(history) + 1] = new
           /\ ProviderOrder' /\ HistoryExplainsRow'
<1>. DEFINE k == Len(history)
<1>1. history \in Seq(Entry) /\ k \in Nat
  BY DEF Typed
<1>2. /\ history' \in Seq(Entry) /\ Len(history') = k + 1
      /\ \A n \in 1..k : history'[n] = history[n]
      /\ history'[k + 1] = new
  BY <1>1
<1>3. 1..(k + 1) = (1..k) \cup {k + 1} /\ k + 1 \notin 1..k
  BY <1>1
<1>4. Provided' = Provided \cup (IF new.job \in Events THEN {k + 1} ELSE {})
  BY <1>2, <1>3 DEF Provided
<1>5. /\ Provided \subseteq 1..k
      /\ \A n \in Provided : history'[n] = history[n] /\ history[n] \in Entry
  BY <1>1, <1>2 DEF Provided
<1>6. \A n \in Provided : history[n].time <= row.last /\ history[n].time \in Nat
  BY <1>5 DEF HistoryExplainsRow, Entry
<1>7. row.last \in Nat /\ row'.last \in Nat /\ row.last <= row'.last
  BY DEF Typed, Row
<1>8. ProviderOrder'
  <2>. SUFFICES ASSUME NEW n \in Provided', NEW m \in Provided', n < m
                PROVE  history'[n].time <= history'[m].time
    BY DEF ProviderOrder
  <2>1. CASE n \in Provided /\ m \in Provided
    BY <1>5, <2>1 DEF ProviderOrder
  <2>2. CASE n \in Provided /\ m = k + 1 /\ new.job \in Events
    BY <1>2, <1>5, <1>6, <1>7, <2>2
  <2>3. CASE n = k + 1
    BY <1>1, <1>4, <1>5, <2>3
  <2>. QED  BY <1>4, <2>1, <2>2, <2>3
<1>9. HistoryExplainsRow'
  <2>1. history' # <<>> => row'.status = history'[Len(history')].status
    BY <1>2
  <2>2. \A n \in Provided' : history'[n].time <= row'.last
    BY <1>2, <1>4, <1>5, <1>6, <1>7
  <2>3. row'.last # 0 => \E n \in Provided' : history'[n].time = row'.last
    <3>1. CASE new.job \in Events
      BY <1>2, <1>4, <3>1
    <3>2. CASE new.job \notin Events
      BY <1>4, <1>5, <3>2 DEF HistoryExplainsRow
    <3>. QED  BY <3>1, <3>2
  <2>. QED  BY <2>1, <2>2, <2>3 DEF HistoryExplainsRow
<1>. QED  BY <1>2, <1>4, <1>5, <1>8, <1>9

\* A transition comes with the receipt of its event, which had none before.
LEMMA ApplyKeeps ==
    ASSUME Inv, NEW w \in Workers, Apply(w)
    PROVE  Inv'
<1>. DEFINE id == worker[w].job
            e == event[id]
            seen == worker[w].seen
<1>1. id \in Events /\ worker[w].step = "apply" /\ seen \in Row
  BY DEF Apply, Inv, Typed, Transaction
<1>2. e.kind \notin {"unrecognized", "unresolvable"} /\ receipts[id] = "none"
  BY <1>1 DEF Inv, WorkerOK
<1>3. CASE ~isMember
  BY <1>1, <1>3, IdleKeeps DEF Apply, Rollback, Inv, Typed, AckedIsRecorded
<1>4. CASE isMember
  <2>1. /\ receipts' = [receipts EXCEPT ![id] = "applied"] /\ Goto(w, "answer")
        /\ UNCHANGED <<event, acked, isMember>>
    BY <1>4 DEF Apply
  <2>2. "applied" \in Outcomes \ {"none"}
    BY DEF Outcomes
  <2>3. \A x \in Events : receipts'[x] = IF x = id THEN "applied" ELSE receipts[x]
    BY <2>1 DEF Inv, Typed
  <2>4. \A n \in Provided : history[n].job \in Events /\ history[n].job # id
    BY <1>2 DEF Inv, AppliedOnce, Provided
  <2>5. CASE e.kind = "refund"
    <3>1. UNCHANGED <<row, history>>
      BY <1>4, <2>5 DEF Apply
    <3>2. AppliedOnce' /\ ProviderOrder' /\ HistoryExplainsRow'
      BY <2>3, <2>4, <3>1
      DEF Inv, AppliedOnce, ProviderOrder, HistoryExplainsRow, Provided
    <3>3. row' \in Row /\ history' \in Seq(Entry)
      BY <3>1 DEF Inv, Typed
    <3>. QED  BY <1>1, <2>1, <2>2, <3>2, <3>3, ReceiptKeeps DEF Inv
  <2>6. CASE e.kind # "refund"
    <3>. DEFINE new == [job |-> id, status |-> row'.status, time |-> e.time]
    <3>1. row' = RowAfter(e, seen) /\ history' = Append(history, new) /\ ~Stale(e, seen)
      BY <1>4, <2>6 DEF Apply
    <3>2. row' \in Row
      BY <1>1, <1>2, <2>6, <3>1, RowAfterType DEF Inv
    <3>3. e.time \in Nat \ {0}
      BY <1>1, EventType DEF Inv
    <3>4. new \in Entry
      BY <1>1, <3>2, <3>3 DEF Entry, Row
    <3>5. row'.last = e.time
      BY <3>1 DEF RowAfter
    <3>6. row.last <= row'.last
      BY <3>1, <3>3, <3>5 DEF Stale, Inv, Typed, Row
    <3>7. new.job = id /\ new.status = row'.status /\ new.time = row'.last
      BY <3>5
    <3>. HIDE DEF new
    <3>8. /\ history' \in Seq(Entry) /\ Provided' = Provided \cup {Len(history) + 1}
          /\ \A n \in Provided : history'[n] = history[n]
          /\ history'[Len(history) + 1] = new
          /\ ProviderOrder' /\ HistoryExplainsRow'
      BY <1>1, <3>1, <3>2, <3>4, <3>6, <3>7, Appended DEF Inv
    <3>9. AppliedOnce'
      BY <1>1, <2>3, <2>4, <3>7, <3>8 DEF Inv, AppliedOnce
    <3>. QED  BY <1>1, <2>1, <2>2, <3>2, <3>8, <3>9, ReceiptKeeps DEF Inv
  <2>. QED  BY <2>5, <2>6
<1>. QED  BY <1>3, <1>4 DEF Inv, Typed

\* A correction is no provider event and leaves the clock of the row.
LEMMA ApplyCorrectionKeeps ==
    ASSUME Inv, NEW w \in Workers, ApplyCorrection(w)
    PROVE  Inv'
<1>. DEFINE op == worker[w].job
            seen == worker[w].seen
            new == [job |-> op, status |-> row'.status, time |-> 0]
<1>1. op \in Corrections /\ op \notin Events /\ seen \in Row
  BY BillingAssumption DEF ApplyCorrection, Inv, Typed, Transaction
<1>2. worker' = [worker EXCEPT ![w] = Idle] /\ UNCHANGED <<event, receipts, acked, isMember>>
  BY DEF ApplyCorrection
<1>3. CASE ~isMember
  BY <1>2, <1>3, IdleKeeps DEF ApplyCorrection, Inv, Typed, AckedIsRecorded
<1>4. CASE isMember
  <2>1. row' = RowCorrected(op, seen) /\ history' = Append(history, new)
    BY <1>4 DEF ApplyCorrection
  <2>2. row' \in Row
    BY <1>1, <2>1, RowCorrectedType DEF Inv
  <2>3. new \in Entry
    BY <1>1, <2>2 DEF Entry, Row
  <2>4. row'.last = row.last
    BY <1>1, <2>1 DEF RowCorrected, NoRow, Row
  <2>5. new.job = op /\ new.status = row'.status
    OBVIOUS
  <2>. HIDE DEF new
  <2>6. /\ history' \in Seq(Entry) /\ Provided' = Provided
        /\ \A n \in Provided : history'[n] = history[n]
        /\ ProviderOrder' /\ HistoryExplainsRow'
    BY <1>1, <2>1, <2>2, <2>3, <2>4, <2>5, Appended DEF Inv
  <2>7. AppliedOnce' /\ AckedIsRecorded'
    BY <1>2, <2>6 DEF Inv, AppliedOnce, AckedIsRecorded
  <2>8. Idle \in Transaction /\ Idle.job \notin Events
    BY BillingAssumption DEF Idle, Transaction, NoRow, Row, Statuses
  <2>9. Typed'
    BY <1>2, <2>2, <2>6, <2>8 DEF Inv, Typed
  <2>10. ASSUME NEW v \in Workers PROVE WorkerOK(v)'
    BY <1>2, <2>8 DEF Inv, Typed, WorkerOK
  <2>11. OneDelivery'
    BY <1>2, <2>8 DEF Inv, Typed, OneDelivery
  <2>. QED  BY <2>6, <2>7, <2>9, <2>10, <2>11 DEF Inv
<1>. QED  BY <1>3, <1>4

-----------------------------------------------------------------------------

LEMMA InvInit == Init => Inv
<1>. SUFFICES ASSUME Init PROVE Inv
  OBVIOUS
<1>1. Idle \in Transaction /\ Idle.job \notin Events /\ NoRow \in Row
  BY BillingAssumption DEF Idle, Transaction, NoRow, Row, Statuses
<1>2. Typed
  BY <1>1 DEF Init, Typed, Outcomes
<1>3. \A w \in Workers : WorkerOK(w)
  BY <1>1 DEF Init, WorkerOK
<1>4. OneDelivery
  BY <1>1 DEF Init, OneDelivery
<1>5. AppliedOnce /\ ProviderOrder /\ HistoryExplainsRow /\ AckedIsRecorded
  BY DEF Init, AppliedOnce, ProviderOrder, HistoryExplainsRow, AckedIsRecorded,
         Provided, NoRow
<1>. QED  BY <1>2, <1>3, <1>4, <1>5 DEF Inv

LEMMA InvNext == Inv /\ [Next]_vars => Inv'
<1>. SUFFICES ASSUME Inv, [Next]_vars PROVE Inv'
  OBVIOUS
<1>1. ASSUME NEW w \in Workers, Fail(w) PROVE Inv'
  BY <1>1, IdleKeeps DEF Fail, Rollback, Inv, Typed, AckedIsRecorded
<1>2. ASSUME NEW w \in Workers, RecordUnplaced(w) PROVE Inv'
  BY <1>2, RecordKeeps DEF RecordUnplaced, Outcomes
<1>3. ASSUME NEW w \in Workers, RecordUnapplied(w) PROVE Inv'
  BY <1>3, RecordKeeps DEF RecordUnapplied, Outcomes
<1>4. ASSUME NEW w \in Workers, Run(w) PROVE Inv'
  BY <1>2, <1>3, <1>4, ReadKeeps, ApplyKeeps, AnswerKeeps, ApplyCorrectionKeeps DEF Run
<1>5. ASSUME UNCHANGED <<event, row, receipts, history, worker, acked>>, isMember' \in BOOLEAN
      PROVE  Inv'
  <2>1. Typed' /\ (\A w \in Workers : WorkerOK(w))' /\ OneDelivery'
    BY <1>5 DEF Inv, Typed, WorkerOK, OneDelivery
  <2>2. (AppliedOnce /\ ProviderOrder /\ HistoryExplainsRow /\ AckedIsRecorded)'
    BY <1>5 DEF Inv, AppliedOnce, ProviderOrder, HistoryExplainsRow, AckedIsRecorded, Provided
  <2>. QED  BY <2>1, <2>2 DEF Inv
<1>6. CASE ChangeRole
  BY <1>5, <1>6 DEF ChangeRole, Inv, Typed
<1>7. CASE UNCHANGED vars
  BY <1>5, <1>7 DEF vars, Inv, Typed
<1>. QED  BY <1>1, <1>4, <1>6, <1>7, DeliverKeeps, StartCorrectionKeeps DEF Next

\* Every behaviour keeps the invariant.
LEMMA InvAlways == Spec => []Inv
BY InvInit, InvNext, PTL DEF Spec

\* Rows, receipts and workers keep their types, whatever Stripe sends.
THEOREM TypeCorrect == Spec => []TypeOK
<1>1. Inv => TypeOK
  BY DEF Inv, Typed, TypeOK, Row, Statuses, Outcomes, Transaction
<1>. QED  BY <1>1, InvAlways, PTL

\* process_billing_webhook_event applies each event at most once, for any
\* number of concurrent deliveries, retries and losses.
THEOREM AppliedOnceCorrect == Spec => []AppliedOnce
<1>1. Inv => AppliedOnce
  BY DEF Inv
<1>. QED  BY <1>1, InvAlways, PTL

\* _transition_subscription keeps the provider's order, corrections between.
THEOREM ProviderOrderCorrect == Spec => []ProviderOrder
<1>1. Inv => ProviderOrder
  BY DEF Inv
<1>. QED  BY <1>1, InvAlways, PTL

\* The subscription is what its history says last.
THEOREM HistoryExplainsRowCorrect == Spec => []HistoryExplainsRow
<1>1. Inv => HistoryExplainsRow
  BY DEF Inv
<1>. QED  BY <1>1, InvAlways, PTL

\* The webhook's success answer follows the commit of the receipt.
THEOREM AckedIsRecordedCorrect == Spec => []AckedIsRecorded
<1>1. Inv => AckedIsRecorded
  BY DEF Inv
<1>. QED  BY <1>1, InvAlways, PTL

-----------------------------------------------------------------------------
(* What a worker that was not overtaken writes.                            *)

\* Leaving a transition unraced: it was lost, refused or rolled back, or it
\* wrote the row that its event or its correction makes of the present one.
LEMMA UnracedStep ==
    ASSUME Inv, [Next]_vars, NEW w \in Workers, Unraced(w)
    PROVE  \/ row' = row
           \/ /\ worker[w].job \in Events
              /\ row' = RowAfter(event[worker[w].job], row)
              /\ ~ClosedToFailure(event[worker[w].job], row)
           \/ /\ worker[w].job \notin Events
              /\ row' = RowCorrected(worker[w].job, row)
<1>. DEFINE Done == \/ row' = row
                    \/ /\ worker[w].job \in Events
                       /\ row' = RowAfter(event[worker[w].job], row)
                       /\ ~ClosedToFailure(event[worker[w].job], row)
                    \/ /\ worker[w].job \notin Events
                       /\ row' = RowCorrected(worker[w].job, row)
<1>1. worker[w].step = "apply" /\ worker'[w].step # "apply" /\ worker[w].seen = row
  BY DEF Unraced
<1>2. worker \in [Workers -> Transaction]
  BY DEF Inv, Typed
<1>3. ASSUME NEW v \in Workers, Apply(v) PROVE Done
  <2>1. v = w
    BY <1>1, <1>2, <1>3 DEF Apply, Rollback, Goto
  <2>. QED  BY <1>1, <1>3, <2>1 DEF Apply
<1>4. ASSUME NEW v \in Workers, ApplyCorrection(v) PROVE Done
  <2>1. v = w
    BY <1>1, <1>2, <1>4 DEF ApplyCorrection
  <2>. QED  BY <1>1, <1>4, <2>1, BillingAssumption DEF ApplyCorrection
<1>5. ASSUME NEW v \in Workers,
             \/ Read(v) \/ RecordUnplaced(v) \/ RecordUnapplied(v) \/ Answer(v) \/ Fail(v)
             \/ \E e \in Events : Deliver(v, e)
             \/ \E op \in Corrections : StartCorrection(v, op)
      PROVE  Done
  BY <1>5 DEF Read, RecordUnplaced, RecordUnapplied, Record, Answer, Fail, Deliver,
              StartCorrection
<1>6. ASSUME ChangeRole \/ UNCHANGED vars PROVE Done
  BY <1>6 DEF ChangeRole, vars
<1>. HIDE DEF Done
<1>7. ASSUME NEW v \in Workers, Run(v) PROVE Done
  BY <1>3, <1>4, <1>5, <1>7 DEF Run
<1>8. ASSUME Next PROVE Done
  BY <1>5, <1>6, <1>7, <1>8 DEF Next
<1>9. Done
  BY <1>6, <1>8
<1>. QED  BY <1>9 DEF Done

\* _grace_window: repeated failures do not move the deadline.
THEOREM GraceKeepsDeadlineCorrect == Spec => GraceKeepsDeadline
<1>1. ASSUME Inv, [Next]_vars, NEW w \in Workers, Unraced(w),
             row.status = "grace", row'.status = "grace"
      PROVE  row'.grace = row.grace
  <2>1. row \in Row
    BY <1>1 DEF Inv, Typed
  <2>2. CASE row' = RowAfter(event[worker[w].job], row)
    BY <1>1, <2>2 DEF RowAfter, GraceWindow
  <2>3. CASE row' = RowCorrected(worker[w].job, row)
    BY <1>1, <2>1, <2>3 DEF RowCorrected, NoRow, Row
  <2>. QED  BY <1>1, <2>2, <2>3, UnracedStep
<1>2. Inv /\ [Next]_vars => [\A w \in Workers :
          Unraced(w) /\ row.status = "grace" /\ row'.status = "grace" =>
              row'.grace = row.grace]_vars
  BY <1>1
<1>. QED  BY <1>2, InvAlways, PTL DEF GraceKeepsDeadline, Spec

\* _apply_billing_event: a failed payment leaves what was closed closed.
THEOREM FailedPaymentNeverRevivesCorrect == Spec => FailedPaymentNeverRevives
<1>1. ASSUME Inv, [Next]_vars, NEW w \in Workers, Unraced(w),
             row.status \in {"suspended", "canceled"}, row'.status = "grace",
             worker[w].job \in Events
      PROVE  event[worker[w].job].kind # "payment_failed"
  <2>1. CASE row' = RowAfter(event[worker[w].job], row)
    BY <1>1, UnracedStep DEF ClosedToFailure
  <2>. QED  BY <1>1, <2>1, UnracedStep DEF ClosedToFailure
<1>2. Inv /\ [Next]_vars => [\A w \in Workers :
          /\ Unraced(w) /\ row.status \in {"suspended", "canceled"}
          /\ row'.status = "grace" /\ worker[w].job \in Events
          => event[worker[w].job].kind # "payment_failed"]_vars
  BY <1>1
<1>. QED  BY <1>2, InvAlways, PTL DEF FailedPaymentNeverRevives, Spec

\* A checkout keeps what the row it read says of period and cancellation.
THEOREM ReadCheckoutPreservesCorrect == Spec => ReadCheckoutPreserves
<1>1. ASSUME Inv, [Next]_vars, NEW w \in Workers, Unraced(w)
      PROVE  Preserved(worker[w].job)
  <2>1. CASE row' = row
    BY <2>1 DEF Preserved
  <2>2. CASE worker[w].job \in Events /\ row' = RowAfter(event[worker[w].job], row)
    BY <2>2 DEF Preserved, RowAfter, CancelAfter
  <2>3. CASE worker[w].job \notin Events
    BY <2>3 DEF Preserved
  <2>. QED  BY <1>1, <2>1, <2>2, <2>3, UnracedStep
<1>2. Inv /\ [Next]_vars => [\A w \in Workers : Unraced(w) => Preserved(worker[w].job)]_vars
  BY <1>1
<1>. QED  BY <1>2, InvAlways, PTL DEF ReadCheckoutPreserves, Spec

-----------------------------------------------------------------------------
(* Billing implements Subscription.                                        *)

LEMMA SaidFields ==
    ASSUME NEW id \in Events
    PROVE  /\ Said[id].kind = event[id].kind
           /\ Said[id].time = event[id].time
           /\ Said[id].gives = Gives(event[id])
BY DEF Said

LEMMA KnownCases ==
    ASSUME NEW id \in Events
    PROVE  /\ receipts[id] = "none" => Known[id] = "none"
           /\ receipts[id] = "applied" /\ Gives(event[id]) # "nothing" =>
                 Known[id] = "taken"
           /\ receipts[id] # "none" /\ (receipts[id] # "applied" \/ Gives(event[id]) = "nothing")
                 => Known[id] = "noted"
BY DEF Known

\* What an event gives is a status, unless it is one that gives none.
LEMMA GivesStatus ==
    ASSUME Inv, NEW id \in Events
    PROVE  /\ event[id].kind \in {"refund", "unrecognized", "unresolvable"}
                 => Gives(event[id]) = "nothing"
           /\ event[id].kind \notin {"refund", "unrecognized", "unresolvable"}
                 => Gives(event[id]) = StatusAfter(event[id]) /\ Gives(event[id]) # "nothing"
<1>1. event[id].kind \notin {"refund", "unrecognized", "unresolvable"} =>
        StatusAfter(event[id]) \in Statuses
  BY EventType DEF Inv, StatusAfter, Normalize, Statuses
<1>. QED  BY <1>1 DEF Gives, Statuses

\* A new receipt of one event is an outcome of that event alone.
LEMMA KnownStep ==
    ASSUME Inv, NEW id \in Events, receipts[id] = "none",
           NEW outcome \in Outcomes \ {"none"},
           receipts' = [receipts EXCEPT ![id] = outcome], UNCHANGED event
    PROVE  /\ UNCHANGED Said
           /\ Known[id] = "none"
           /\ Known' = [Known EXCEPT ![id] =
                 IF outcome = "applied" /\ Gives(event[id]) # "nothing"
                 THEN "taken" ELSE "noted"]
<1>1. UNCHANGED Said
  BY DEF Said, Gives, StatusAfter
<1>2. \A x \in Events : receipts'[x] = IF x = id THEN outcome ELSE receipts[x]
  BY DEF Inv, Typed
<1>3. \A x \in Events : Gives(event'[x]) = Gives(event[x])
  OBVIOUS
<1>. DEFINE Of(r, g) == CASE r = "none" -> "none"
                          [] r = "applied" /\ g # "nothing" -> "taken"
                          [] OTHER -> "noted"
<1>4. /\ Known = [x \in Events |-> Of(receipts[x], Gives(event[x]))]
      /\ Known' = [x \in Events |-> Of(receipts'[x], Gives(event[x]))]
  BY <1>3 DEF Known
<1>5. \A g : Of(outcome, g) = IF outcome = "applied" /\ g # "nothing"
                              THEN "taken" ELSE "noted"
  OBVIOUS
<1>. HIDE DEF Of
<1>6. Known' = [Known EXCEPT ![id] = Of(outcome, Gives(event[id]))]
  BY <1>2, <1>4
<1>7. Known[id] = "none"
  BY KnownCases
<1>. QED  BY <1>1, <1>5, <1>6, <1>7

LEMMA RecordIsNote ==
    ASSUME Inv, NEW w \in Workers, worker[w].job \in Events,
           worker[w].step \in {"received", "apply"},
           NEW outcome \in Outcomes \ {"none", "applied"}, Record(w, outcome),
           LET e == event[worker[w].job] IN
              \/ e.kind \in {"unrecognized", "unresolvable", "payment_failed"}
              \/ e.time < row.last
    PROVE  S!Move
<1>. DEFINE id == worker[w].job
<1>1. receipts[id] = "none"
  BY DEF Inv, WorkerOK
<1>2. /\ receipts' = [receipts EXCEPT ![id] = outcome]
      /\ UNCHANGED <<event, row>>
  BY DEF Record
<1>3. /\ UNCHANGED Said
      /\ Known[id] = "none"
      /\ Known' = [Known EXCEPT ![id] = "noted"]
  BY <1>1, <1>2, KnownStep
<1>4. \/ Said[id].gives = "nothing"
      \/ Said[id].time < row.last
      \/ Said[id].kind = "payment_failed"
  BY SaidFields, GivesStatus
<1>5. S!Note(id)
  BY <1>2, <1>3, <1>4 DEF S!Note
<1>. QED  BY <1>3, <1>5 DEF S!Move

\* A transition of a member's subscription takes its event; a refund is noted.
LEMMA ApplyIsTake ==
    ASSUME Inv, NEW w \in Workers, Apply(w)
    PROVE  S!Move \/ UNCHANGED <<event, row, receipts>>
<1>. DEFINE id == worker[w].job
            e == event[id]
<1>1. id \in Events /\ worker[w].step = "apply"
  BY DEF Apply
<1>2. receipts[id] = "none" /\ e.kind \notin {"unrecognized", "unresolvable"}
  BY <1>1 DEF Inv, WorkerOK
<1>3. CASE ~isMember
  BY <1>3 DEF Apply
<1>4. CASE isMember
  <2>1. receipts' = [receipts EXCEPT ![id] = "applied"] /\ UNCHANGED event
    BY <1>4 DEF Apply
  <2>2. /\ UNCHANGED Said
        /\ Known[id] = "none"
        /\ Known' = [Known EXCEPT ![id] = IF Gives(e) # "nothing" THEN "taken" ELSE "noted"]
    BY <1>1, <1>2, <2>1, KnownStep DEF Outcomes
  <2>3. CASE e.kind = "refund"
    <3>1. UNCHANGED row
      BY <1>4, <2>3 DEF Apply
    <3>2. Gives(e) = "nothing" /\ Said[id].gives = "nothing"
      BY <1>1, <2>3, SaidFields, GivesStatus
    <3>3. S!Note(id)
      BY <2>2, <3>1, <3>2 DEF S!Note
    <3>. QED  BY <1>1, <2>2, <3>3 DEF S!Move
  <2>4. CASE e.kind # "refund"
    <3>1. row' = RowAfter(e, worker[w].seen) /\ ~Stale(e, worker[w].seen)
      BY <1>4, <2>4 DEF Apply
    <3>2. row'.status = StatusAfter(e) /\ row'.last = e.time
      BY <3>1 DEF RowAfter
    <3>3. row.last <= e.time
      BY <1>1, <3>1, EventType DEF Stale, Inv, Typed, Row
    <3>4. Gives(e) = StatusAfter(e) /\ Gives(e) # "nothing"
      BY <1>1, <1>2, <2>4, GivesStatus
    <3>5. Said[id].gives = Gives(e) /\ Said[id].time = e.time
      BY <1>1, SaidFields
    <3>6. S!Take(id)
      BY <2>2, <3>2, <3>3, <3>4, <3>5 DEF S!Take
    <3>. QED  BY <1>1, <2>2, <3>6 DEF S!Move
  <2>. QED  BY <2>3, <2>4
<1>. QED  BY <1>3, <1>4

LEMMA CorrectionIsCorrect ==
    ASSUME Inv, NEW w \in Workers, ApplyCorrection(w)
    PROVE  S!Move \/ UNCHANGED <<event, row, receipts>>
<1>. DEFINE op == worker[w].job
            seen == worker[w].seen
<1>1. op \in Corrections /\ seen \in Row /\ UNCHANGED <<event, receipts>>
  BY DEF ApplyCorrection, Inv, Typed, Transaction
<1>2. CASE ~isMember
  BY <1>1, <1>2 DEF ApplyCorrection
<1>3. CASE isMember
  <2>1. row' = RowCorrected(op, seen)
    BY <1>3 DEF ApplyCorrection
  <2>2. row'.last = row.last /\ row'.status \in {"suspended", "complimentary"}
    BY <1>1, <2>1 DEF RowCorrected, NoRow, Row
  <2>3. UNCHANGED <<Said, Known>>
    BY <1>1 DEF Said, Known, Gives, StatusAfter
  <2>. QED  BY <2>2, <2>3 DEF S!Correct, S!Move
<1>. QED  BY <1>2, <1>3

LEMMA StepIsMove ==
    ASSUME Inv, [Next]_vars
    PROVE  [S!Move]_<<Said, row.status, row.last, Known>>
<1>1. ASSUME UNCHANGED <<event, row, receipts>>
      PROVE  UNCHANGED <<Said, row.status, row.last, Known>>
  BY <1>1 DEF Said, Known, Gives, StatusAfter
<1>2. ASSUME NEW w \in Workers,
             \/ Read(w) \/ Answer(w) \/ Fail(w)
             \/ \E e \in Events : Deliver(w, e)
             \/ \E op \in Corrections : StartCorrection(w, op)
      PROVE  UNCHANGED <<event, row, receipts>>
  BY <1>2 DEF Read, Answer, Fail, Deliver, StartCorrection
<1>3. ASSUME ChangeRole \/ UNCHANGED vars PROVE UNCHANGED <<event, row, receipts>>
  BY <1>3 DEF ChangeRole, vars
<1>4. ASSUME NEW w \in Workers, RecordUnplaced(w) PROVE S!Move
  BY <1>4, RecordIsNote DEF RecordUnplaced, Outcomes
<1>5. ASSUME NEW w \in Workers, RecordUnapplied(w) PROVE S!Move
  BY <1>5, RecordIsNote DEF RecordUnapplied, Outcomes, ClosedToFailure, Stale
<1>6. ASSUME NEW w \in Workers, Run(w)
      PROVE  S!Move \/ UNCHANGED <<event, row, receipts>>
  BY <1>2, <1>4, <1>5, <1>6, ApplyIsTake, CorrectionIsCorrect DEF Run
<1>7. S!Move \/ UNCHANGED <<event, row, receipts>>
  BY <1>2, <1>3, <1>6 DEF Next
<1>. QED  BY <1>1, <1>7

\* However deliveries, corrections, failures and retries interleave between
\* the unlocked read and the locked transition, the status, the provider's
\* clock and the receipts of process_billing_webhook_event change as if each
\* event were handled in one indivisible step.  Only the paid-through date,
\* the cancellation and the grace deadline can show that it is not.
THEOREM SubscriptionKept == Spec => KeepsSubscription
<1>1. Init => S!Start
  BY DEF Init, S!Start, NoRow, Known
<1>2. Inv /\ [Next]_vars => [S!Move]_<<Said, row.status, row.last, Known>>
  BY StepIsMove
<1>. QED  BY <1>1, <1>2, InvAlways, PTL DEF Spec, KeepsSubscription, S!Promise
=============================================================================
