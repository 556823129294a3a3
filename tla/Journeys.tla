------------------------------ MODULE Journeys ------------------------------
(***************************************************************************)
(* One matched pair: its messages, its guided journey and the transactions *)
(* that close it, statement by statement.                                  *)
(*                                                                         *)
(* A session runs one transaction at a time.  SELECT .. FOR UPDATE and     *)
(* UPDATE take a row exclusively until commit; the insert of a row with a  *)
(* foreign key to a user takes that user's row shared.  A read without     *)
(* lock sees what is committed.  What a transaction writes appears with    *)
(* its last step.  PostgreSQL aborts one of the transactions that wait for *)
(* each other.                                                             *)
(***************************************************************************)
EXTENDS Integers, Sequences, FiniteSetsExt

CONSTANTS
    Members,     \* the two members of the pair
    Counselors,
    Sessions,    \* database sessions
    Tasks,       \* activities of the curriculum
    SharedTasks, \* those with the scope "shared"
    Milestones,
    DueAfter,    \* due time of a milestone, counted from the start
    DayLength,   \* units of time in a day
    Week,        \* units in the seven days before a due date
    MaxClock,    \* bound on time
    None         \* no journey, check-in, session or counselor

\* A submitted check-in; the note stands for its text.
Answer == [at : Nat, note : Nat, share : BOOLEAN, concern : BOOLEAN]

ASSUME PairAssumption ==
    /\ Cardinality(Members) = 2
    /\ SharedTasks \subseteq Tasks
    /\ DueAfter \in [Milestones -> Nat]
    /\ DayLength \in Nat \ {0}
    /\ Week \in Nat /\ Week >= DayLength
    /\ None \notin Nat \cup Sessions \cup Counselors \cup Answer
    /\ MaxClock \in Nat

VARIABLES
    now,        \* the latest clock of the application servers
    pair,       \* the proposal: status and reason of its closure
    counselor,  \* current counselor of each member
    lapsed,     \* what a member's readiness lacks, holds apart
    holds,      \* active hold rows of each member
    gone,       \* members that lost the role or were disabled
    flagged,    \* members that blocked the other
    journey,    \* start of the guided journey
    done,       \* completed activities, as rows <<task, member>>
    checkIns,   \* latest check-in of each milestone and member
    messages,   \* the messages in the order they were committed
    lock,       \* session that holds a row exclusively
    shared,     \* sessions that hold a user row shared
    tx          \* the transaction of each session

data == <<journey, done, checkIns, messages>>
roster == <<counselor, lapsed, holds, gone, flagged>>
locks == <<lock, shared>>
vars == <<now, pair, roster, data, locks, tx>>

Lacks == {"entitlement", "readiness"}
Users == Members \cup Counselors
Rows == {"pair", "journey"} \cup Users
Idle == [op |-> "idle", step |-> "idle", who |-> None, arg |-> None, saw |-> None]
Partner(m) == CHOOSE p \in Members : p # m

Day(t) == t \div DayLength
Open(due) == due - Week

\* Mutant: no check-in is scheduled for later.
ReminderAnyTime(due, submitted, t) ==
    IF submitted THEN "completed"
    ELSE IF Day(t) > Day(due) THEN "overdue"
    ELSE IF Day(t) = Day(due) THEN "due"
    ELSE "upcoming"

\* reminder_state compares the dates before the seven days.
ReminderState(due, submitted, t) ==
    IF submitted THEN "completed"
    ELSE IF Day(t) > Day(due) THEN "overdue"
    ELSE IF Day(t) = Day(due) THEN "due"
    ELSE IF t >= Open(due) THEN "upcoming"
    ELSE "scheduled"

\* The clocks of two servers differ by one unit at most.
Readings == {now - 1, now} \cap Nat

Ready == \A m \in Members : lapsed[m] = {} /\ holds[m] = 0

-----------------------------------------------------------------------------
\* Row locks.

Holder(r) == IF lock[r] = None THEN {} ELSE {lock[r]}

\* Sessions that keep s from taking row r exclusively, and shared.
Against(s, r) ==
    (Holder(r) \cup (IF r \in Users THEN shared[r] ELSE {})) \ {s}
AgainstShared(s, r) == Holder(r) \ {s}

Take(s, r) == Against(s, r) = {} /\ lock' = [lock EXCEPT ![r] = s]
\* Mutant: the inserted row refers to no user.
MayReferToNone(s, users) == TRUE

MayRefer(s, users) == \A u \in users : AgainstShared(s, u) = {}

\* Commit or rollback: every row is released.
Finish(s) ==
    /\ tx' = [tx EXCEPT ![s] = Idle]
    /\ lock' = [r \in Rows |-> IF lock[r] = s THEN None ELSE lock[r]]
    /\ shared' = [u \in Users |-> shared[u] \ {s}]

Goto(s, t) == tx' = [tx EXCEPT ![s] = t]
Begins(op, who, arg) ==
    [op |-> op, step |-> "begun", who |-> who, arg |-> arg, saw |-> None]
At(s, op, step) == tx[s].op = op /\ tx[s].step = step

-----------------------------------------------------------------------------
\* Operations of an active pair: they hold its row until they commit.

\* Mutant: the proposal is read without a lock.
PairRead(s) == lock

\* with_for_update on the proposal
PairLock(s) == [lock EXCEPT !["pair"] = s]

\* _active_participant_proposal and _active_counselor_proposal: a closed pair
\* ends the transaction, a lapsed one has to be reconciled.
Enter(s, t) ==
    /\ Against(s, "pair") = {}
    /\ IF pair.status = "closed"
       THEN Finish(s)
       ELSE /\ lock' = PairLock(s)
            /\ Goto(s, [t EXCEPT !.step = IF Ready THEN "inside" ELSE "reconcile"])
            /\ UNCHANGED shared
    /\ UNCHANGED <<now, pair, roster, data>>

Close(reason) == pair' = [status |-> "closed", reason |-> reason]

\* _reconcile_entitlement_lapse; the readiness decisions it inserts refer to
\* both members.
Reconcile(s) ==
    /\ tx[s].step = "reconcile"
    /\ IF \E m \in Members : "entitlement" \in lapsed[m]
       THEN Close("entitlement_lapsed")
       ELSE /\ MayRefer(s, Members)
            /\ \E m \in Members :
                  /\ Ready \/ lapsed[m] # {} \/ holds[m] > 0
                  /\ Close(IF holds[m] > 0 THEN "hold_applied" ELSE "readiness_lost")
    /\ Finish(s)
    /\ UNCHANGED <<now, roster, data>>

\* list_recent_messages, get_member_journey, list_conversation_statuses:
\* whoever reads, the pair is locked and reconciled.
ReadPair(s) == tx[s] = Idle /\ Enter(s, Begins("read", None, None))

EndRead(s) ==
    /\ At(s, "read", "inside")
    /\ Finish(s)
    /\ UNCHANGED <<now, pair, roster, data>>

SendMessage(s, m) == tx[s] = Idle /\ Enter(s, Begins("send", m, None))

\* Mutant: the time of the server as it is.
SentAtClock(t) == t

\* The reading t, or just after the latest message.
SentAt(t) ==
    LET sent == {messages[i].at : i \in DOMAIN messages} IN
    IF sent # {} /\ t <= Max(sent) THEN Max(sent) + 1 ELSE t

StoreMessage(s) ==
    /\ At(s, "send", "inside")
    /\ MayRefer(s, {tx[s].who})
    /\ \E t \in Readings :
          messages' = Append(messages, [from |-> tx[s].who, at |-> SentAt(t)])
    /\ Finish(s)
    /\ UNCHANGED <<now, pair, roster, journey, done, checkIns>>

\* _member_active_journey: the journey first, the proposal in a next step.
BeginOnJourney(s, op, m, arg) ==
    /\ tx[s] = Idle
    /\ journey # None
    /\ Take(s, "journey")
    /\ Goto(s, Begins(op, m, arg))
    /\ UNCHANGED <<now, pair, roster, data, shared>>

BeginTask(s, m, task, completed) ==
    BeginOnJourney(s, "task", m, [task |-> task, completed |-> completed])

BeginCheckIn(s, m, k, share) ==
    BeginOnJourney(s, "checkin", m, [milestone |-> k, share |-> share])

EnterFromJourney(s) ==
    /\ tx[s].op \in {"task", "checkin"}
    /\ tx[s].step = "begun"
    /\ Enter(s, tx[s])

\* set_journey_task_completion
SetTask(s) ==
    LET row == <<tx[s].arg.task, tx[s].who>> IN
    /\ At(s, "task", "inside")
    /\ \/ (row \in done) = tx[s].arg.completed
          /\ UNCHANGED done
       \/ /\ (row \in done) # tx[s].arg.completed
          /\ MayRefer(s, {tx[s].who})
          /\ done' = IF tx[s].arg.completed THEN done \cup {row} ELSE done \ {row}
    /\ Finish(s)
    /\ UNCHANGED <<now, pair, roster, journey, checkIns, messages>>

\* submit_journey_check_in: refused while scheduled; a later submission
\* replaces the answers and keeps the time of the first.
SubmitCheckIn(s) ==
    LET k == tx[s].arg.milestone
        m == tx[s].who
        old == checkIns[k][m]
        Answers(at, note) == [at |-> at, note |-> note, share |-> tx[s].arg.share,
                              concern |-> note = 1]
    IN
    /\ At(s, "checkin", "inside")
    /\ \E t \in Readings :
          \/ /\ old = None
             /\ ReminderState(journey + DueAfter[k], FALSE, t) = "scheduled"
             /\ UNCHANGED checkIns
          \/ /\ old = None
             /\ ReminderState(journey + DueAfter[k], FALSE, t) # "scheduled"
             /\ MayRefer(s, {m})
             /\ checkIns' = [checkIns EXCEPT ![k][m] = Answers(t, 1)]
          \/ /\ old # None
             /\ checkIns' = [checkIns EXCEPT ![k][m] = Answers(old.at, old.note + 1)]
    /\ Finish(s)
    /\ UNCHANGED <<now, pair, roster, journey, done, messages>>

\* assign_guided_journey, by the current counselor of either member.
AssignJourney(s, c) ==
    /\ tx[s] = Idle
    /\ \E m \in Members : counselor[m] = c
    /\ Enter(s, Begins("assign", c, None))

StartJourney(s) ==
    /\ At(s, "assign", "inside")
    /\ \/ /\ journey # None
          /\ UNCHANGED journey
       \/ /\ journey = None
          /\ MayRefer(s, {tx[s].who})
          /\ journey' \in Readings
    /\ Finish(s)
    /\ UNCHANGED <<now, pair, roster, done, checkIns, messages>>

-----------------------------------------------------------------------------
\* What a member and a counselor get to see.

\* Mutant: every activity of the partner is shown.
MemberViewOfPair(m, rows, answers) ==
    [tasks |-> [t \in Tasks |-> [mine |-> <<t, m>> \in rows,
                                 partner |-> <<t, Partner(m)>> \in rows]],
     checkIns |-> [k \in Milestones |-> answers[k][m]]]

\* _member_journey_view: of the partner only the shared activities.
MemberView(m, rows, answers) ==
    [tasks |-> [t \in Tasks |->
        [mine |-> <<t, m>> \in rows,
         partner |-> t \in SharedTasks /\ <<t, Partner(m)>> \in rows]],
     checkIns |-> [k \in Milestones |-> answers[k][m]]]

\* Mutant: what was shared is shown to the counselor of either member.
CounselorViewOfPair(c, current, rows, answers) ==
    [m \in Members |->
        [completed |-> Cardinality({t \in Tasks : <<t, m>> \in rows}),
         checkIns |-> [k \in Milestones |->
            LET a == answers[k][m] IN
            [submitted |-> a # None,
             concern |-> IF a # None /\ current[m] = c THEN a.concern ELSE None,
             reflection |-> IF a # None /\ a.share THEN a.note ELSE None]]]]

\* _counselor_journey_view: counts for both members, the signals of the own
\* member, and the reflection that this member shares.
CounselorView(c, current, rows, answers) ==
    [m \in Members |->
        [completed |-> Cardinality({t \in Tasks : <<t, m>> \in rows}),
         checkIns |-> [k \in Milestones |->
            LET a == answers[k][m]
                mine == current[m] = c
            IN
            [submitted |-> a # None,
             concern |-> IF a # None /\ mine THEN a.concern ELSE None,
             reflection |-> IF a # None /\ mine /\ a.share THEN a.note ELSE None]]]]

\* list_counselor_journeys: the own members first, then the locked pair.
ListJourneys(s, c) ==
    /\ tx[s] = Idle
    /\ \E m \in Members : counselor[m] = c
    /\ Goto(s, Begins("list", c, None))
    /\ UNCHANGED <<now, pair, roster, data, locks>>

LockListed(s) == At(s, "list", "begun") /\ Enter(s, tx[s])

\* What s is about to show: the assignments are read after the check-ins.
ToShow(s) == CounselorView(tx[s].who, counselor, done, tx[s].saw)

ReadCheckIns(s) ==
    /\ At(s, "list", "inside")
    /\ Goto(s, [tx[s] EXCEPT !.step = "viewing", !.saw = checkIns])
    /\ UNCHANGED <<now, pair, roster, data, locks>>

ShowJourney(s) ==
    /\ At(s, "list", "viewing")
    /\ Finish(s)
    /\ UNCHANGED <<now, pair, roster, data>>

-----------------------------------------------------------------------------
\* Operations that close the pair: they read the open proposals without a
\* lock and update them afterwards.

\* What the transaction keeps in hand about member m.
ReasonOf(op, m) ==
    CASE op = "block" -> "member_block"
      [] op = "demote" -> "member_role_changed"
      [] op = "disable" -> "account_disabled"
      [] op = "hold" -> "hold_applied"
      [] OTHER -> IF holds[m] > 0 THEN "hold_applied" ELSE "readiness_lost"

\* Mutant: only introductions are looked up.
FoundOpen == pair.status = "introduced"

\* _close_open_proposals_for_member, _existing_proposal: the unlocked read.
SeenOpen == pair.status = "active"

BeginClose(s, op, m, arg) ==
    /\ tx[s] = Idle
    /\ Goto(s, [Begins(op, m, arg) EXCEPT
          !.saw = IF SeenOpen THEN ReasonOf(op, m) ELSE "none"])
    /\ UNCHANGED <<now, pair, roster, data>>

\* apply_hold: the inserted hold refers to the member.
BeginHold(s, m) ==
    /\ m \notin gone
    /\ holds[m] = 0
    /\ MayRefer(s, {m})
    /\ BeginClose(s, "hold", m, None)
    /\ shared' = [shared EXCEPT ![m] = @ \cup {s}]
    /\ UNCHANGED lock

\* reassign_member_to_counselor and disable_account lock the account.
BeginRemoval(s, op, m) ==
    /\ m \notin gone
    /\ Take(s, m)
    /\ BeginClose(s, op, m, None)
    /\ UNCHANGED shared

\* assign_counselor locks the member and the counselor.
BeginReassign(s, m, c) ==
    /\ m \notin gone
    /\ counselor[m] # c
    /\ Against(s, m) = {} /\ Against(s, c) = {}
    /\ lock' = [lock EXCEPT ![m] = s, ![c] = s]
    /\ BeginClose(s, "reassign", m, c)
    /\ UNCHANGED shared

\* A webhook, a decision or an answer that ends readiness or entitlement.
BeginLapse(s, m, lack) ==
    /\ m \notin gone
    /\ lack \notin lapsed[m]
    /\ BeginClose(s, "lapse", m, lack)
    /\ UNCHANGED locks

\* block_member and report_member, by m of its partner.
BeginBlock(s, m) ==
    /\ m \notin gone /\ Partner(m) \notin gone
    /\ BeginClose(s, "block", m, None)
    /\ UNCHANGED locks

Closers == {"hold", "demote", "disable", "reassign", "lapse", "block"}

\* The users a closing transaction refers to in its last statements.
Refers(t) == CASE t.op = "block" -> Members
               [] t.op \in {"lapse", "reassign", "hold"} -> {t.who}
               [] OTHER -> {}

\* The update of what was seen open, whatever it is by now, and the commit.
EndClose(s) ==
    LET t == tx[s]
        only(op) == IF t.op = op THEN {t.who} ELSE {}
    IN
    /\ t.op \in Closers
    /\ t.saw # "none" => Against(s, "pair") = {}
    /\ MayRefer(s, Refers(t))
    /\ IF t.saw = "none" THEN UNCHANGED pair ELSE Close(t.saw)
    /\ holds' = [m \in Members |-> holds[m] + Cardinality(only("hold") \cap {m})]
    /\ gone' = gone \cup only("demote") \cup only("disable")
    /\ flagged' = flagged \cup only("block")
    /\ counselor' = [m \in Members |->
          IF m \in only("reassign") THEN t.arg
          ELSE IF m \in only("demote") THEN None ELSE counselor[m]]
    /\ lapsed' = [m \in Members |-> lapsed[m] \cup
          (IF m \in only("lapse") THEN {t.arg} ELSE {}) \cup
          (IF m \in only("reassign") \cup only("demote") THEN {"readiness"} ELSE {})]
    /\ Finish(s)
    /\ UNCHANGED <<now, data>>

-----------------------------------------------------------------------------
\* What happens besides, and the database.

Tick == /\ now < MaxClock
        /\ now' = now + 1
        /\ UNCHANGED <<pair, roster, data, locks, tx>>

\* A period, an assessment or a screening expires: no handler runs.
Expire(m) ==
    /\ \E lack \in Lacks \ lapsed[m] :
          lapsed' = [lapsed EXCEPT ![m] = @ \cup {lack}]
    /\ UNCHANGED <<now, pair, counselor, holds, gone, flagged, data, locks, tx>>

\* ... and is renewed.
Renew(m) ==
    /\ m \notin gone /\ holds[m] = 0 /\ lapsed[m] # {}
    /\ lapsed' = [lapsed EXCEPT ![m] = {}]
    /\ UNCHANGED <<now, pair, counselor, holds, gone, flagged, data, locks, tx>>

\* release_hold ends the latest hold row.
ReleaseHold(m) ==
    /\ holds[m] > 0
    /\ holds' = [holds EXCEPT ![m] = @ - 1]
    /\ UNCHANGED <<now, pair, counselor, lapsed, gone, flagged, data, locks, tx>>

\* A crash, a lost connection, or the victim PostgreSQL chooses among the
\* sessions that wait for each other: nothing of the transaction remains.
Rollback(s) ==
    /\ tx[s] # Idle
    /\ Finish(s)
    /\ UNCHANGED <<now, pair, roster, data>>

Init ==
    /\ now = 0
    /\ pair = [status |-> "active", reason |-> "none"]
    /\ counselor \in [Members -> Counselors]
    /\ lapsed = [m \in Members |-> {}]
    /\ holds = [m \in Members |-> 0]
    /\ gone = {} /\ flagged = {}
    /\ journey = None
    /\ done = {}
    /\ checkIns = [k \in Milestones |-> [m \in Members |-> None]]
    /\ messages = <<>>
    /\ lock = [r \in Rows |-> None]
    /\ shared = [u \in Users |-> {}]
    /\ tx = [s \in Sessions |-> Idle]

Activity(s) ==
    \/ \E m \in Members :
          \/ SendMessage(s, m)
          \/ \E task \in Tasks, completed \in BOOLEAN : BeginTask(s, m, task, completed)
          \/ \E k \in Milestones, share \in BOOLEAN : BeginCheckIn(s, m, k, share)
    \/ \E c \in Counselors : AssignJourney(s, c) \/ ListJourneys(s, c)
    \/ ReadPair(s) \/ Reconcile(s) \/ EndRead(s) \/ StoreMessage(s) \/ EnterFromJourney(s)
    \/ SetTask(s) \/ SubmitCheckIn(s) \/ StartJourney(s)
    \/ LockListed(s) \/ ReadCheckIns(s) \/ ShowJourney(s) \/ EndClose(s)
    \/ Rollback(s)

\* What an environment that wants to change the roster starts.
Upset ==
    \E m \in Members :
        \/ Expire(m) \/ Renew(m) \/ ReleaseHold(m)
        \/ \E s \in Sessions :
              \/ BeginHold(s, m) \/ BeginBlock(s, m)
              \/ BeginRemoval(s, "demote", m) \/ BeginRemoval(s, "disable", m)
              \/ \E c \in Counselors : BeginReassign(s, m, c)
              \/ \E lack \in Lacks : BeginLapse(s, m, lack)

Next == Tick \/ Upset \/ \E s \in Sessions : Activity(s)

Spec == Init /\ [][Next]_vars

-----------------------------------------------------------------------------

\* Rows keep their types; a user row is never held exclusively and shared by
\* two sessions at once.
TypeOK ==
    /\ pair.status \in {"active", "closed"}
    /\ journey \in Nat \cup {None}
    /\ done \in SUBSET (Tasks \X Members)
    /\ checkIns \in [Milestones -> [Members -> Answer \cup {None}]]
    /\ lapsed \in [Members -> SUBSET Lacks]
    /\ lock \in [Rows -> Sessions \cup {None}]
    /\ \A u \in Users : lock[u] = None \/ shared[u] \subseteq {lock[u]}

\* README: closing the match closes messaging and journey access at once.  No
\* message, activity, check-in or journey commits after the closure did,
\* whoever waited for whom.
NothingAfterClose == [][pair.status = "closed" => UNCHANGED data]_vars

\* The conversation is read in the order of sent_at: that order is the order
\* of commits, also when the clocks of the servers disagree.
MessagesInOrder ==
    \A i, j \in DOMAIN messages : i < j => messages[i].at < messages[j].at

\* A check-in was first submitted in the week before its due date or later,
\* counted from the one start of the journey both counselors may have asked
\* for.
CheckInNotEarly ==
    \A k \in Milestones, m \in Members :
        checkIns[k][m] # None => checkIns[k][m].at >= Open(journey + DueAfter[k])

\* A reflection is shown to nobody but the counselor its member has at that
\* moment, as it reads by then and only while the member shares it, although
\* the check-ins were read before the assignments.
ShownIsCurrent ==
    \A s \in Sessions : At(s, "list", "viewing") =>
        \A m \in Members, k \in Milestones :
            LET text == ToShow(s)[m].checkIns[k].reflection IN
            text # None => /\ counselor[m] = tx[s].who
                           /\ checkIns[k][m].share
                           /\ checkIns[k][m].note = text

\* The answers without what c must not learn, and without those of m.
Redacted(c) ==
    [k \in Milestones |-> [m \in Members |->
        LET a == checkIns[k][m] IN
        IF a = None THEN None
        ELSE IF counselor[m] # c THEN [a EXCEPT !.concern = FALSE, !.note = 0]
        ELSE IF ~a.share THEN [a EXCEPT !.note = 0] ELSE a]]
Without(m) == [k \in Milestones |-> [checkIns[k] EXCEPT ![m] = None]]

\* What is private does not show: a counselor's view is the same if the
\* reflections not shared with that counselor had another text, a member's
\* view if the partner's check-ins and individual activities were others.
PrivateStaysPrivate ==
    /\ \A c \in Counselors :
          CounselorView(c, counselor, done, checkIns) =
              CounselorView(c, counselor, done, Redacted(c))
    /\ \A m \in Members : \A rows \in SUBSET ((Tasks \ SharedTasks) \X {Partner(m)}) :
          LET others == {r \in done : r[1] \in SharedTasks \/ r[2] = m} IN
          MemberView(m, done, checkIns) =
              MemberView(m, others \cup rows, Without(Partner(m)))

\* Whoever is held, flagged or removed has no open match, from the commit of
\* that operation on and also if its session was the victim of a deadlock
\* before it was retried.
EnforcedIsClosed ==
    ((\E m \in Members : holds[m] > 0) \/ gone # {} \/ flagged # {}) => pair.status = "closed"

\* README: a safety or readiness closure bars the pair permanently, and the
\* history of closed proposals is immutable.  The reason is that history.
SafetyReasons ==
    {"member_block", "hold_applied", "readiness_lost", "account_disabled"}
SafetyClosureStands ==
    [][pair.reason \in SafetyReasons => pair'.reason \in SafetyReasons]_vars

\* Transactions that read the open match and have yet to close it.
Overlapping(s) == tx[s].op \in Closers /\ tx[s].saw # "none"

\* How far the history of closed proposals is immutable: once none of the
\* transactions that overlapped the closure is left, nothing rewrites it.
HistorySettles ==
    [][(pair.status = "closed" /\ \A s \in Sessions : ~Overlapping(s)) =>
          UNCHANGED pair /\ \A s \in Sessions : ~Overlapping(s)']_vars

-----------------------------------------------------------------------------
\* The abstract promise.
Status == pair.status

C == INSTANCE Conversation WITH status <- Status, start <- journey, answers <- checkIns

\* The match keeps the promise of Conversation: the steps of the transactions
\* of different sessions, their waits and rollbacks do not show in what the
\* pair has written.
KeepsConversation == C!Promise
=============================================================================
