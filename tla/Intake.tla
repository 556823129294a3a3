------------------------------- MODULE Intake -------------------------------
(***************************************************************************)
(* A member's way to readiness: policies, profile, assessment, counselor   *)
(* decisions and their earnings, introductory session and screening, each  *)
(* transaction statement by statement.                                     *)
(*                                                                         *)
(* A command reads (Begin), flushes its rows and evaluates the evidence    *)
(* (Write), and commits them with the readiness decision (End).  SELECT .. *)
(* FOR UPDATE of the member keeps the row until commit; a row that names   *)
(* the member needs it free of another's such lock.  Rows of transactions  *)
(* that overlap are ordered by their commits, where the code orders them   *)
(* by the clock of each.  Subscription, holds, proposals and accounts are  *)
(* of other modules and do not change here.                                *)
(***************************************************************************)
EXTENDS Integers, Sequences, FiniteSets

CONSTANTS
    Counselors,      \* active counselors of the Center
    Sessions,        \* transactions in progress
    Events,          \* identifiers of screening events
    Catalog,         \* what each screening event says
    Agendas,         \* the commands, publications and expiries a behaviour mixes
    MaxVersion,      \* bound on versions of a policy
    MaxAssigned,     \* bound on assessment assignments
    MaxAssignments,  \* bound on counselor assignments
    Stamps,          \* bound on identities and times of rows told apart at once
    None             \* nobody, nothing

Policies == {"consent", "covenant", "assessment"}
SessionOps == {"session", "schedule", "cancel", "complete"}
Locking == {"covenant", "assign", "schedule", "cancel", "complete"}
Ops == SessionOps \cup Locking \cup
       {"consent", "profile", "submit", "progress", "decide", "screen"}
Expiring == {"assessment", "decision", "screening"}

\* The rows whose identity or time a readiness decision records.
Stamped == {"profile", "decision", "screening"}
Results == {"pending", "eligible", "ineligible"}

ASSUME IntakeAssumption ==
    /\ None \notin Counselors \cup Sessions \cup Events \cup Ops
    /\ None \notin Stamps
    /\ Catalog \in [Events ->
          [manual : BOOLEAN, status : Results \cup {None}, ref : STRING \cup {None}]]
    /\ \A e \in Events :
          Catalog[e].manual => None \notin {Catalog[e].status, Catalog[e].ref}
    /\ Agendas \subseteq
          [ops : SUBSET Ops, publish : SUBSET Policies, expire : SUBSET Expiring]
    /\ {MaxVersion, MaxAssigned, MaxAssignments} \subseteq Nat
    /\ MaxVersion > 0

VARIABLES
    agenda,    \* what this behaviour mixes
    db,        \* the committed rows of the member
    receipts,  \* screening_event_receipts: outcome of each event
    lock,      \* session that holds the member's row
    tx,        \* the transaction of each session
    first,     \* observation: who committed the first decision
    taken      \* observation: screening events in the order they were applied

vars == <<agenda, db, receipts, lock, tx, first, taken>>

Idle == [step |-> "idle", op |-> None, arg |-> None, seen |-> None, saw |-> None,
         stamp |-> None, shares |-> FALSE, assigns |-> 0, credits |-> FALSE,
         logs |-> FALSE, alone |-> TRUE]

-----------------------------------------------------------------------------
\* The evidence of readiness.

\* The newest assignment of the current assessment, 0 if there is none.
Current(d) ==
    LET S == {i \in DOMAIN d.assigned : d.assigned[i].def = d.current["assessment"]}
    IN IF S = {} THEN 0 ELSE CHOOSE i \in S : \A j \in S : j <= i

\* _ensure_current_assessment inserts an assignment.
Lacks(d) == Current(d) = 0 \/ d.assigned[Current(d)].expired

\* An assignment of version v is added, none for 0.
Assigned(d, v) ==
    [d EXCEPT !.assigned = IF v = 0 THEN @
        ELSE Append(@, [def |-> v, expired |-> FALSE, done |-> FALSE])]

HasProfile(d) == d.written["profile"] # None

\* _evidence.  The profile also shows age and faith.
Met(d) == [
    consent    |-> <<"consent", d.current["consent"]>> \in d.accepted,
    covenant   |-> <<"covenant", d.current["covenant"]>> \in d.accepted,
    profile    |-> HasProfile(d),
    assessment |-> ~Lacks(d) /\ d.assigned[Current(d)].done,
    counselor  |-> d.decision = [status |-> "approved", expired |-> FALSE],
    screening  |-> d.case # None /\ d.case.status = "eligible" /\ d.case.until = "later"]

Unmet(d) == {q \in DOMAIN Met(d) : ~Met(d)[q]}

\* What a readiness decision records: the unmet and _evidence_versions, where
\* an acceptance is the only one of its member and version.
Reading(d) == [unmet |-> Unmet(d), current |-> d.current, written |-> d.written,
               assessment |-> Current(d), assignment |-> d.assignment]

\* Mutant: progress compares only the eligibility.
SameEligibility(saw, log) == log # None /\ (saw.unmet = {} <=> log.unmet = {})

\* The comparison of only_if_changed.
Unchanged(saw, log) == saw = log

-----------------------------------------------------------------------------
\* The rows a transaction writes.

Result(e) == [status |-> Catalog[e].status,
              until  |-> IF Catalog[e].status = "eligible" THEN "later" ELSE "none",
              ref    |-> Catalog[e].ref]

\* Mutant: the year of eligibility is not cleared.
ScreenedKeepingYear(case, seen, e) ==
    IF case = None THEN Result(e)
    ELSE [Result(e) EXCEPT
             !.until = IF Catalog[e].status = "eligible" THEN "later" ELSE case.until]

\* The update names the columns that differ from the row as it was read; a
\* new year always differs.
Screened(case, seen, e) ==
    IF case = None THEN Result(e)
    ELSE [k \in DOMAIN case |->
             IF seen[k] = Result(e)[k] /\ ~(k = "until" /\ Result(e)[k] = "later")
             THEN case[k] ELSE Result(e)[k]]

\* The committed rows d with those of transaction t.
Effect(d, t) ==
    CASE t.op \in {"consent", "covenant"} ->
             [d EXCEPT !.accepted = @ \cup {<<t.op, t.arg>>}]
      [] t.op = "profile" -> [d EXCEPT !.written["profile"] = t.stamp]
      [] t.op = "submit" -> [d EXCEPT !.assigned[t.arg].done = TRUE]
      [] t.op = "assign" ->
             [d EXCEPT !.counselor = t.arg, !.assignment = @ + 1, !.decision = None,
                       !.written["decision"] = None]
      [] t.op = "decide" ->
             [d EXCEPT !.decision = IF t.arg.assignment # d.assignment THEN @
                                    ELSE [status |-> t.arg.status, expired |-> FALSE],
                       !.written["decision"] =
                           IF t.arg.assignment # d.assignment THEN @ ELSE t.stamp,
                       !.credits = IF t.credits THEN Append(@, t.arg.by) ELSE @]
      [] t.op = "screen" -> [d EXCEPT !.case = Screened(@, t.seen, t.arg),
                                      !.written["screening"] = t.stamp]
      [] t.op = "session" -> [d EXCEPT !.benefit =
             IF @ = None THEN [status |-> "available", by |-> None] ELSE @]
      [] t.op = "schedule" -> [d EXCEPT !.benefit = [status |-> "scheduled", by |-> t.arg]]
      [] t.op = "cancel" -> [d EXCEPT !.benefit.status = "cancelled"]
      [] t.op = "complete" -> [d EXCEPT !.benefit.status = "completed"]
      [] t.op = "progress" -> d

-----------------------------------------------------------------------------
\* Transactions.

Others(s) == {t \in Sessions \ {s} : tx[t].step # "idle"}
Free(s) == lock \in {None, s}

\* Mutant: the member's row is read without a lock.
LockNothing(s, op) == UNCHANGED lock

\* _member with for_update
LockMember(s, op) ==
    IF op \in Locking
    THEN lock = None /\ (\A t \in Sessions : ~tx[t].shares) /\ lock' = s
    ELSE UNCHANGED lock

\* The first statements of a command.
Begin(s, op, step, arg, seen) ==
    /\ tx[s] = Idle
    /\ op \in agenda.ops
    /\ LockMember(s, op)
    /\ tx' = [t \in Sessions |->
          IF t = s THEN [Idle EXCEPT !.step = step, !.op = op, !.arg = arg,
                                     !.seen = seen, !.alone = Others(s) = {}]
          ELSE IF t \in Others(s) THEN [tx[t] EXCEPT !.alone = FALSE] ELSE tx[t]]
    /\ UNCHANGED <<agenda, db, receipts, first, taken>>

\* accept_consent, accept_community_covenant: the page shows what is current.
Accept(s, policy) ==
    /\ <<policy, db.current[policy]>> \notin db.accepted
    /\ Begin(s, policy, "write", db.current[policy], None)

\* save_profile
SaveProfile(s) == Begin(s, "profile", "write", None, HasProfile(db))

\* get_progress, get_assessment, list_members, list_assigned_members
GetProgress(s) == Begin(s, "progress", "write", None, None)

\* submit_assessment answers the newest assignment, of whatever definition.
SubmitAssessment(s) ==
    LET i == Len(db.assigned) IN
    /\ i > 0 /\ ~db.assigned[i].expired
    /\ Begin(s, "submit", "write", i, None)

AssignCounselor(s, c) ==
    /\ db.counselor # c
    /\ db.assignment < MaxAssignments
    /\ Begin(s, "assign", "write", c, None)

RecordDecision(s, status) ==
    /\ db.counselor # None
    /\ Begin(s, "decide", "write",
             [by |-> db.counselor, assignment |-> db.assignment, status |-> status], None)

\* Mutant: an event is looked up by nothing.
NeverReceived(e) == FALSE

\* The unique receipt of an event.
Received(e) == receipts[e] # "none"

\* process_screening_provider_event up to the read of the case.
Resolved(e) == db.case # None /\ db.case.ref = Catalog[e].ref

\* Mutant: an unrecognized status is not sorted out.
OutcomeOfAny(e) == IF Catalog[e].manual \/ Resolved(e) THEN "applied" ELSE "unresolved"

Outcome(e) ==
    IF Catalog[e].manual THEN "applied"
    ELSE IF None \in {Catalog[e].status, Catalog[e].ref} THEN "unrecognized"
    ELSE IF Resolved(e) THEN "applied" ELSE "unresolved"

\* Another receipt of the same event, not yet committed, is waited for.
ReceiveScreening(s, e) ==
    /\ ~Received(e)
    /\ \A t \in Others(s) : ~(tx[t].op = "screen" /\ tx[t].arg = e)
    /\ Begin(s, "screen", IF Outcome(e) = "applied" THEN "write" ELSE "end", e, db.case)

-----------------------------------------------------------------------------
\* Introductory sessions: the benefit is created on first use and locked.

BenefitFree(s) == \A t \in Others(s) : tx[t].op \notin SessionOps
Status == IF db.benefit = None THEN "available" ELSE db.benefit.status

GetSession(s) ==
    /\ db.benefit # None => BenefitFree(s)
    /\ db.benefit = None => Free(s)
    /\ Begin(s, "session", "end", None, db.benefit)

ScheduleSession(s) ==
    /\ BenefitFree(s)
    /\ db.counselor # None
    /\ Status # "completed"
    /\ Begin(s, "schedule", "end", db.counselor, None)

CancelSession(s) ==
    /\ BenefitFree(s)
    /\ Status = "scheduled"
    /\ Begin(s, "cancel", "end", None, None)

\* By the counselor the session is booked with, while assigned.
CompleteSession(s) ==
    /\ BenefitFree(s)
    /\ Status = "scheduled"
    /\ db.benefit.by = db.counselor
    /\ Begin(s, "complete", "end", db.counselor, None)

-----------------------------------------------------------------------------
\* The flush of the rows and the evaluation.

\* A flushed row of another transaction is waited for.
Waits(s) == \E t \in Others(s) :
    tx[t].step = "end" /\ tx[t].op = tx[s].op /\
    \/ tx[s].op = "profile"
    \/ tx[s].op \in {"consent", "submit"} /\ tx[t].arg = tx[s].arg
    \/ tx[s].op = "screen" /\ tx[t].saw # None
    \/ tx[s].op = "decide" /\ tx[t].credits /\ tx[s].arg.status # "pending"

\* A row another transaction inserted meanwhile violates a unique index.
Violates(s) ==
    \/ tx[s].op = "consent" /\ <<"consent", tx[s].arg>> \in db.accepted
    \/ tx[s].op = "profile" /\ HasProfile(db) /\ ~tx[s].seen
    \/ tx[s].op = "screen" /\ tx[s].seen = None /\ db.case # None

\* The rows that name the member at the flush.
Names(s) ==
    \/ tx[s].op \in {"consent", "screen"}
    \/ tx[s].op = "profile" /\ ~HasProfile(db)
    \/ tx[s].op = "decide" /\ tx[s].arg.status # "pending"
    \/ Lacks(Effect(db, tx[s]))

\* Mutant: the pending decision is credited as well.
CreditsAny(s) == tx[s].op = "decide" /\ db.credits = <<>>

\* _maybe_credit_intake_earning: one credit of a member.
Credits(s) ==
    tx[s].op = "decide" /\ tx[s].arg.status # "pending" /\ db.credits = <<>>

\* Stamps of rows, of the latest decision, and of what is not yet committed.
InUse ==
    LET rows == {db} \cup ({db.log} \ {None}) \cup ({tx[s].saw : s \in Sessions} \ {None})
    IN {r.written[k] : r \in rows, k \in Stamped} \cup {tx[s].stamp : s \in Sessions}

\* The identity or time of the row a transaction writes is of no other row.
Fresh(s) ==
    IF tx[s].op \in {"profile", "decide", "screen"}
    THEN CHOOSE n \in Stamps : n \notin InUse ELSE None

Write(s) ==
    LET t == [tx[s] EXCEPT !.credits = Credits(s), !.stamp = Fresh(s)]
        d == Effect(db, t)
        v == IF Lacks(d) THEN d.current["assessment"] ELSE 0
        e == Assigned(d, v)
    IN
    /\ tx[s].step = "write"
    /\ ~Waits(s) /\ ~Violates(s)
    /\ Names(s) => Free(s)
    /\ Len(e.assigned) <= MaxAssigned /\ Stamps \ InUse # {}
    /\ tx' = [tx EXCEPT ![s] = [t EXCEPT
          !.step = "end", !.saw = Reading(e), !.assigns = v, !.shares = Names(s),
          !.logs = t.op = "progress" => ~Unchanged(Reading(e), db.log)]]
    /\ UNCHANGED <<agenda, db, receipts, lock, first, taken>>

\* Commit.  The readiness decision names the member too.
End(s) ==
    LET t == tx[s]
        applied == t.op = "screen" /\ t.saw # None
        rows == IF t.op = "screen" /\ ~applied THEN db ELSE Effect(db, t)
    IN
    /\ t.step = "end"
    /\ t.logs => Free(s)
    /\ t.op = "session" => db.benefit = t.seen
    /\ t.assigns # 0 => Len(db.assigned) < MaxAssigned
    /\ db' = [Assigned(rows, t.assigns) EXCEPT
                 !.log = IF t.logs THEN t.saw ELSE @]
    /\ receipts' = IF t.op = "screen"
                   THEN [receipts EXCEPT ![t.arg] = IF applied THEN "applied" ELSE "noted"]
                   ELSE receipts
    /\ taken' = IF applied THEN Append(taken, t.arg) ELSE taken
    /\ first' = IF first = None /\ t.op = "decide" /\ t.arg.status # "pending"
                THEN t.arg.by ELSE first
    /\ tx' = [tx EXCEPT ![s] = Idle]
    /\ lock' = IF lock = s THEN None ELSE lock
    /\ UNCHANGED agenda

\* A lost connection, a violated index, or the victim of a deadlock.
Rollback(s) ==
    /\ tx[s] # Idle
    /\ tx' = [tx EXCEPT ![s] = Idle]
    /\ lock' = IF lock = s THEN None ELSE lock
    /\ UNCHANGED <<agenda, db, receipts, first, taken>>

-----------------------------------------------------------------------------

\* Evidence changes under the transactions in progress.
Elsewhere(d) ==
    /\ db' = d
    /\ tx' = [s \in Sessions |->
          IF tx[s] = Idle THEN Idle ELSE [tx[s] EXCEPT !.alone = FALSE]]
    /\ UNCHANGED <<agenda, receipts, lock, first, taken>>

\* A new version becomes the active one.
Publish(policy) ==
    /\ policy \in agenda.publish
    /\ db.current[policy] < MaxVersion
    /\ Elsewhere([db EXCEPT !.current[policy] = @ + 1])

Expire(what) ==
    /\ what \in agenda.expire
    /\ \/ \E i \in DOMAIN db.assigned :
             /\ what = "assessment" /\ ~db.assigned[i].expired
             /\ Elsewhere([db EXCEPT !.assigned[i].expired = TRUE])
       \/ /\ what = "decision" /\ db.decision # None /\ ~db.decision.expired
          /\ Elsewhere([db EXCEPT !.decision.expired = TRUE])
       \/ /\ what = "screening" /\ db.case # None /\ db.case.until = "later"
          /\ Elsewhere([db EXCEPT !.case.until = "past"])

Init ==
    /\ agenda \in Agendas
    /\ db = [current |-> [p \in Policies |-> 1], accepted |-> {},
             written |-> [k \in Stamped |-> None], assigned |-> <<>>,
             counselor |-> None, assignment |-> 0, decision |-> None, case |-> None,
             benefit |-> None, credits |-> <<>>, log |-> None]
    /\ receipts = [e \in Events |-> "none"]
    /\ lock = None
    /\ tx = [s \in Sessions |-> Idle]
    /\ first = None
    /\ taken = <<>>

Command(s) ==
    \/ \E policy \in {"consent", "covenant"} : Accept(s, policy)
    \/ SaveProfile(s) \/ GetProgress(s) \/ SubmitAssessment(s)
    \/ \E c \in Counselors : AssignCounselor(s, c)
    \/ \E status \in {"pending", "approved", "declined"} : RecordDecision(s, status)
    \/ \E e \in Events : ReceiveScreening(s, e)
    \/ GetSession(s) \/ ScheduleSession(s) \/ CancelSession(s) \/ CompleteSession(s)

Next ==
    \/ \E s \in Sessions : Command(s) \/ Write(s) \/ End(s) \/ Rollback(s)
    \/ \E policy \in Policies : Publish(policy)
    \/ \E what \in Expiring : Expire(what)

Spec == Init /\ [][Next]_vars

-----------------------------------------------------------------------------

\* Rows and transactions keep their types.
TypeOK ==
    /\ db.accepted \subseteq {"consent", "covenant"} \X (1..MaxVersion)
    /\ db.assigned \in Seq([def : 1..MaxVersion, expired : BOOLEAN, done : BOOLEAN])
    /\ Len(db.assigned) <= MaxAssigned
    /\ db.counselor \in Counselors \cup {None}
    /\ db.counselor = None <=> db.assignment = 0
    /\ db.written \in [Stamped -> Stamps \cup {None}]
    /\ db.decision \in {None} \cup
          [status : {"pending", "approved", "declined"}, expired : BOOLEAN]
    /\ db.case \in {None} \cup
          [status : Results, until : {"none", "later", "past"}, ref : STRING]
    /\ db.benefit \in {None} \cup
          [status : {"available", "scheduled", "cancelled", "completed"},
           by : Counselors \cup {None}]
    /\ receipts \in [Events -> {"none", "noted", "applied"}]
    /\ lock \in Sessions \cup {None}
    /\ \A s \in Sessions : tx[s] # Idle => tx[s].op \in agenda.ops

\* README: one immutable credit for a member's first completed intake
\* decision.  Whatever decisions overlap, the counselor whose decision was the
\* first to commit has the one credit, and no pending decision earns any.
FirstDeciderIsPaid == db.credits = IF first = None THEN <<>> ELSE <<first>>

\* A session is completed only by the counselor it is booked with, who is at
\* that commit the assigned one; completed is final.
SessionEndsWithAssigned ==
    [][db'.benefit # db.benefit /\ "completed" \in {Status, Status'} =>
          /\ Status = "scheduled"
          /\ db'.benefit.by = db.benefit.by
          /\ db'.benefit.by = db'.counselor]_vars

\* A screening event is applied once, however often and concurrently it is
\* delivered; handled alone, it leaves exactly its own result, with a year of
\* eligibility if and only if it says eligible.
ScreeningOnce ==
    [][taken' # taken =>
          LET e == taken'[Len(taken')] IN
          /\ \A i \in DOMAIN taken : taken[i] # e
          /\ \A s \in Sessions : tx[s].arg = e /\ tx[s].op = "screen" /\ tx[s].alone =>
                 db'.case = [Result(e) EXCEPT !.ref = db'.case.ref]]_vars

\* Decisions of transactions that overlap each miss the other's rows, and
\* expiry writes nothing: whatever was missed, an evaluation that nothing
\* overlaps leaves a latest decision that agrees with the evidence.
LogCatchesUp ==
    [][\A s \in Sessions :
          End(s) /\ tx[s].saw # None /\ tx[s].alone => db'.log = Reading(db')]_vars
=============================================================================
