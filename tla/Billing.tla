------------------------------- MODULE Billing ------------------------------
(***************************************************************************)
(* The subscription of one member under concurrent billing webhooks and    *)
(* administrator corrections.  The database runs READ COMMITTED, so a      *)
(* transaction is several steps here:                                      *)
(*                                                                         *)
(*   Deliver   insert the receipt (its unique key makes a second delivery  *)
(*             of the event wait for, or find, the first)                  *)
(*   Read      read the subscription row without a lock                    *)
(*   Apply     lock the row, check the order of events, write, re-evaluate *)
(*             and commit; what is written comes partly from Read          *)
(*   Answer    tell the provider, who retries until it is told             *)
(***************************************************************************)
EXTENDS Integers, Sequences

CONSTANTS
    Workers,        \* concurrent transactions
    Events,         \* provider event ids
    Catalog,        \* what an event may say
    GracePeriod,    \* length of the grace period
    MaxFails,       \* bound: transactions lost to a database or process error
    MaxCorrections, \* bound: administrator grants and suspensions
    MaxRoleChanges  \* bound: times the account leaves or regains its role

Corrections == {"suspend", "grant"}

ASSUME BillingAssumption ==
    /\ Events \cap (Corrections \cup {"none"}) = {}
    /\ GracePeriod \in Nat \ {0}
    /\ {MaxFails, MaxCorrections, MaxRoleChanges} \subseteq Nat
    /\ \A e \in Catalog :
          /\ e.kind \in {"checkout", "updated", "deleted", "paid", "payment_failed",
                         "refund", "unrecognized", "unresolvable"}
          /\ e.time \in Nat \ {0}
          /\ e.period \in Nat
          /\ e.cancel \in BOOLEAN

VARIABLES
    event,    \* what each provider event says
    row,      \* the committed subscriptions row
    receipts, \* the committed receipt of each event, "none" before it
    history,  \* entitlement history, oldest first
    worker,   \* the transaction each worker runs
    acked,    \* events the provider was told about
    isMember, \* the account still has the role member
    fails, corrections, roleChanges

vars == <<event, row, receipts, history, worker, acked, isMember, fails,
          corrections, roleChanges>>

\* period, grace and last are times; 0 stands for NULL.
NoRow == [status |-> "absent", period |-> 0, cancel |-> FALSE, grace |-> 0, last |-> 0]

Idle == [step |-> "idle", job |-> "none", seen |-> NoRow]

\* Mutant: an unknown status is stored as it came.
NormalizeKnown(provider) ==
    CASE provider \in {"active", "trialing"} -> "active"
      [] provider = "past_due" -> "grace"
      [] provider \in {"canceled", "unpaid", "incomplete_expired"} -> "canceled"
      [] provider = "paused" -> "suspended"
      [] OTHER -> provider

\* _normalize_provider_status
Normalize(provider) ==
    CASE provider \in {"active", "trialing"} -> "active"
      [] provider = "past_due" -> "grace"
      [] provider \in {"canceled", "unpaid", "incomplete_expired"} -> "canceled"
      [] provider = "paused" -> "suspended"
      [] OTHER -> "incomplete"

StatusAfter(e) ==
    CASE e.kind \in {"checkout", "paid"} -> "active"
      [] e.kind = "updated" -> Normalize(e.provider)
      [] e.kind = "deleted" -> "canceled"
      [] e.kind = "payment_failed" -> "grace"

\* Mutant: every failed payment starts the period again.
GraceRestarted(e, seen) == e.time + GracePeriod

\* _grace_window: a running grace period is kept, never restarted.
GraceWindow(e, seen) ==
    IF seen.status = "grace" THEN seen.grace ELSE e.time + GracePeriod

\* Mutant: every event sets the flag.
CancelFromEvent(e, seen) == IF e.kind = "deleted" THEN TRUE ELSE e.cancel

\* Only the subscription's own events change the scheduled cancellation.
CancelAfter(e, seen) ==
    CASE e.kind = "updated" -> e.cancel
      [] e.kind = "deleted" -> TRUE
      [] OTHER -> seen.cancel

\* The values _apply_billing_event hands to _transition_subscription, from
\* the event and the row as it was read before the lock.
RowAfter(e, seen) ==
    [status |-> StatusAfter(e),
     period |-> IF e.period # 0 /\ e.kind # "payment_failed" THEN e.period
                                                             ELSE seen.period,
     cancel |-> CancelAfter(e, seen),
     grace |-> IF StatusAfter(e) = "grace" THEN GraceWindow(e, seen) ELSE 0,
     last |-> e.time]

\* Mutant: the clock of the row is written back as it was read.
RowCorrectedAsRead(op, seen) ==
    IF op = "grant"
    THEN [NoRow EXCEPT !.status = "complimentary", !.last = seen.last]
    ELSE [seen EXCEPT !.status = "suspended", !.grace = 0]

\* grant_complimentary_entitlement and suspend_entitlement: no event time.
RowCorrected(op, seen) ==
    IF op = "grant"
    THEN [NoRow EXCEPT !.status = "complimentary", !.last = row.last]
    ELSE [seen EXCEPT !.status = "suspended", !.grace = 0, !.last = row.last]

Init ==
    /\ event \in [Events -> Catalog]
    /\ row = NoRow
    /\ receipts = [e \in Events |-> "none"]
    /\ history = <<>>
    /\ worker = [w \in Workers |-> Idle]
    /\ acked = {}
    /\ isMember = TRUE
    /\ fails = 0 /\ corrections = 0 /\ roleChanges = 0

\* Mutant: only an acknowledged event is known again.
Acknowledged(e) == e \in acked

\* The unique key of the receipts finds the event.
Recorded(e) == receipts[e] # "none"

\* Mutant: the order is checked on the row as it was read.
StaleAsRead(e, seen) == e.time < seen.last

\* _transition_subscription, on the locked row: older than its last event.
Stale(e, seen) == e.time < row.last

\* Mutant: a canceled subscription only.
ClosedIfCanceled(e, seen) == e.kind = "payment_failed" /\ seen.status = "canceled"

\* A failed payment leaves a closed subscription closed.
ClosedToFailure(e, seen) ==
    e.kind = "payment_failed" /\ seen.status \in {"suspended", "canceled"}

Goto(w, step) == worker' = [worker EXCEPT ![w].step = step]

\* Mutant: a refused event is answered like a recorded one.
RollbackAndAnswer(w) == Goto(w, "answer")

\* The transaction ends without a trace and without a success answer.
Rollback(w) == worker' = [worker EXCEPT ![w] = Idle]

\* process_billing_webhook_event up to the receipt, which is not committed
\* yet: an in-flight receipt of the same event makes this delivery wait.
Deliver(w, e) ==
    /\ worker[w].step = "idle"
    /\ \A v \in Workers : worker[v].job # e
    /\ worker' = [worker EXCEPT ![w] =
          [step |-> IF Recorded(e) THEN "answer" ELSE "received",
           job |-> e, seen |-> NoRow]]
    /\ UNCHANGED <<event, row, receipts, history, acked, isMember, fails,
                   corrections, roleChanges>>

\* Commit with a receipt that changed no subscription.
Record(w, outcome) ==
    /\ receipts' = [receipts EXCEPT ![worker[w].job] = outcome]
    /\ Goto(w, "answer")
    /\ UNCHANGED <<event, row, history, acked, isMember, fails, corrections,
                   roleChanges>>

Read(w) ==
    /\ worker[w].step = "received"
    /\ worker[w].job \in Events => event[worker[w].job].kind \notin
          {"unrecognized", "unresolvable"}
    /\ worker' = [worker EXCEPT ![w].step = "apply", ![w].seen = row]
    /\ UNCHANGED <<event, row, receipts, history, acked, isMember, fails,
                   corrections, roleChanges>>

\* An event nobody can place is recorded unapplied.
RecordUnplaced(w) ==
    /\ worker[w].step = "received"
    /\ worker[w].job \in Events
    /\ LET kind == event[worker[w].job].kind IN
          /\ kind \in {"unrecognized", "unresolvable"}
          /\ Record(w, kind)

\* The receipt says why an event changes nothing: the failed payment of a
\* closed subscription, or an event older than the row.
RecordUnapplied(w) ==
    /\ worker[w].step = "apply"
    /\ worker[w].job \in Events
    /\ LET e == event[worker[w].job] IN
          \/ /\ ClosedToFailure(e, worker[w].seen)
             /\ Record(w, "already_suspended_or_canceled")
          \/ /\ e.kind # "refund"
             /\ ~ClosedToFailure(e, worker[w].seen)
             /\ Stale(e, worker[w].seen)
             /\ Record(w, "out_of_order_event")

\* The transition itself.  Its _reevaluate fails for an account that is no
\* longer a member, which rolls the receipt back with everything else.
Apply(w) ==
    /\ worker[w].step = "apply"
    /\ worker[w].job \in Events
    /\ LET id == worker[w].job
           e == event[id]
           seen == worker[w].seen
       IN
       /\ e.kind # "refund" =>
             /\ ~Stale(e, seen)
             /\ ~ClosedToFailure(e, seen)
       /\ IF ~isMember
          THEN Rollback(w) /\ UNCHANGED <<row, receipts, history>>
          ELSE /\ receipts' = [receipts EXCEPT ![id] = "applied"]
               /\ IF e.kind = "refund"
                  THEN UNCHANGED <<row, history>>
                  ELSE /\ row' = RowAfter(e, seen)
                       /\ history' = Append(history,
                             [job |-> id, status |-> row'.status, time |-> e.time])
               /\ Goto(w, "answer")
    /\ UNCHANGED <<event, acked, isMember, fails, corrections, roleChanges>>

Answer(w) ==
    /\ worker[w].step = "answer"
    /\ acked' = acked \cup ({worker[w].job} \cap Events)
    /\ worker' = [worker EXCEPT ![w] = Idle]
    /\ UNCHANGED <<event, row, receipts, history, isMember, fails, corrections,
                   roleChanges>>

\* An administrator opens a correction, which reads and applies like the rest.
StartCorrection(w, op) ==
    /\ worker[w].step = "idle"
    /\ isMember
    /\ corrections < MaxCorrections
    /\ corrections' = corrections + 1
    /\ worker' = [worker EXCEPT ![w] = [step |-> "received", job |-> op, seen |-> NoRow]]
    /\ UNCHANGED <<event, row, receipts, history, acked, isMember, fails, roleChanges>>

ApplyCorrection(w) ==
    /\ worker[w].step = "apply"
    /\ worker[w].job \in Corrections
    /\ worker' = [worker EXCEPT ![w] = Idle]
    /\ IF isMember
       THEN /\ row' = RowCorrected(worker[w].job, worker[w].seen)
            /\ history' = Append(history,
                  [job |-> worker[w].job, status |-> row'.status, time |-> 0])
       ELSE UNCHANGED <<row, history>>
    /\ UNCHANGED <<event, receipts, acked, isMember, fails, corrections, roleChanges>>

\* A database error or the end of the process: an open transaction rolls
\* back (503, or no answer at all), a committed one loses its answer.
Fail(w) ==
    /\ worker[w].step # "idle"
    /\ fails < MaxFails
    /\ fails' = fails + 1
    /\ Rollback(w)
    /\ UNCHANGED <<event, row, receipts, history, acked, isMember, corrections,
                   roleChanges>>

\* The account is made a counselor or administrator, or a member again.
ChangeRole ==
    /\ roleChanges < MaxRoleChanges
    /\ roleChanges' = roleChanges + 1
    /\ isMember' = ~isMember
    /\ UNCHANGED <<event, row, receipts, history, worker, acked, fails, corrections>>

Run(w) ==
    \/ Read(w) \/ RecordUnplaced(w) \/ RecordUnapplied(w) \/ Apply(w)
    \/ Answer(w) \/ ApplyCorrection(w)

Next ==
    \/ \E w \in Workers :
          \/ Run(w) \/ Fail(w)
          \/ \E e \in Events : Deliver(w, e)
          \/ \E op \in Corrections : StartCorrection(w, op)
    \/ ChangeRole

Spec == Init /\ [][Next]_vars

\* Transactions end, and the provider retries an event until it is told.
Fairness ==
    /\ \A w \in Workers : WF_vars(Run(w))
    /\ \A e \in Events : SF_vars(e \notin acked /\ \E w \in Workers : Deliver(w, e))

FairSpec == Spec /\ Fairness

-----------------------------------------------------------------------------

TypeOK ==
    /\ event \in [Events -> Catalog]
    /\ row \in [status : {"absent", "active", "grace", "canceled", "suspended",
                          "incomplete", "complimentary"},
                period : Nat, cancel : BOOLEAN, grace : Nat, last : Nat]
    /\ receipts \in [Events -> {"none", "unrecognized", "unresolvable", "applied",
                                "out_of_order_event", "already_suspended_or_canceled"}]
    /\ \A w \in Workers :
          /\ worker[w].step \in {"idle", "received", "apply", "answer"}
          /\ worker[w].job \in Events \cup Corrections \cup {"none"}
    /\ acked \subseteq Events
    /\ isMember \in BOOLEAN

Provided == {n \in 1..Len(history) : history[n].job \in Events}

\* Each provider event changes the subscription at most once, and only one
\* whose receipt says "applied", however often it is delivered, whichever
\* deliveries overlap and whatever is lost.
AppliedOnce ==
    \A n \in Provided :
        /\ receipts[history[n].job] = "applied"
        /\ \A k \in Provided : history[k].job = history[n].job => k = n

\* The provider's transitions take effect in the order of its clock, although
\* an administrator may correct the row between them.
ProviderOrder ==
    \A n, k \in Provided : n < k => history[n].time <= history[k].time

\* The row is what the last entry of the history says, and its clock is that
\* of the provider's last transition.
HistoryExplainsRow ==
    /\ history # <<>> => row.status = history[Len(history)].status
    /\ \A n \in Provided : history[n].time <= row.last
    /\ row.last # 0 => \E n \in Provided : history[n].time = row.last

\* Nothing is acknowledged that a restart would forget.
AckedIsRecorded == \A e \in acked : receipts[e] # "none"

\* Every event is recorded in the end, if the account ends up a member.
EveryEventRecorded ==
    <>[]isMember => \A e \in Events : <>(receipts[e] # "none")

\* A worker leaves its locked transition having read the row as it still is.
Unraced(w) ==
    /\ worker[w].step = "apply" /\ worker'[w].step # "apply"
    /\ worker[w].seen = row

\* A running grace period keeps its deadline, unless its reader was overtaken:
\* repeated failures do not buy time.
GraceKeepsDeadline ==
    [][\A w \in Workers : Unraced(w) /\ row.status = "grace" /\ row'.status = "grace" =>
          row'.grace = row.grace]_vars

\* A failed payment never gives access back to a subscription that an
\* administrator suspended or the provider canceled before it was read.
FailedPaymentNeverRevives ==
    [][\A w \in Workers :
          /\ Unraced(w) /\ row.status \in {"suspended", "canceled"}
          /\ row'.status = "grace" /\ worker[w].job \in Events
          => event[worker[w].job].kind # "payment_failed"]_vars

Preserved(job) ==
    (job \in Events /\ event[job].kind = "checkout") =>
        /\ row'.cancel = row.cancel
        /\ event[job].period = 0 => row'.period = row.period

\* A checkout, even a late one, keeps the scheduled cancellation of the row it
\* read, and its paid-through date unless the event brings its own.
ReadCheckoutPreserves ==
    [][\A w \in Workers : Unraced(w) => Preserved(worker[w].job)]_vars

-----------------------------------------------------------------------------
\* The abstract promise.  An event that gives no status is a refund or one
\* that nobody can place; its receipt counts as a note.
Gives(e) == IF e.kind \in {"refund", "unrecognized", "unresolvable"} THEN "nothing"
                                                                     ELSE StatusAfter(e)

Said == [id \in Events |-> [kind |-> event[id].kind, time |-> event[id].time,
                            gives |-> Gives(event[id])]]
Known == [id \in Events |->
    CASE receipts[id] = "none" -> "none"
      [] receipts[id] = "applied" /\ Gives(event[id]) # "nothing" -> "taken"
      [] OTHER -> "noted"]

S == INSTANCE Subscription WITH
        says <- Said, status <- row.status, clock <- row.last, outcome <- Known

\* Billing keeps the promise of Subscription: reading without a lock, waiting,
\* failing and retrying never shows in the status, the clock or the receipts.
KeepsSubscription == S!Promise

-----------------------------------------------------------------------------
\* Statements of a test and of a runbook that the code does not meet.

\* The test: a checkout preserves the newer period and cancellation.
CheckoutPreserves ==
    [][Len(history') > Len(history) => Preserved(history'[Len(history')].job)]_vars

\* The runbook: a callback is a receipt row before anything else happens, so
\* an answered delivery has one.
AnsweredIsRecorded ==
    [][\A w \in Workers :
          (/\ worker[w].job \in Events
           /\ worker[w].step # "idle"
           /\ worker'[w].step = "idle"
           /\ fails' = fails) => receipts'[worker[w].job] # "none"]_vars
=============================================================================
