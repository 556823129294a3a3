---------------------------- MODULE IntakeProofs ----------------------------
(***************************************************************************)
(* Proofs about Intake for any number of sessions, counselors, screening   *)
(* events and versions, and any mixture of commands.                       *)
(***************************************************************************)
EXTENDS Intake, TLAPS

Assignment == [def : 1..MaxVersion, expired : BOOLEAN, done : BOOLEAN]
Decision == [status : {"pending", "approved", "declined"}, expired : BOOLEAN]
Case == [status : Results, until : {"none", "later", "past"}, ref : STRING]
Benefit == [status : {"available", "scheduled", "cancelled", "completed"},
            by : Counselors \cup {None}]
Columns == {"current", "accepted", "written", "assigned", "counselor", "assignment",
            "decision", "case", "benefit", "credits", "log"}

DbOK(d) ==
    /\ DOMAIN d = Columns
    /\ d.current \in [Policies -> 1..MaxVersion]
    /\ d.accepted \subseteq {"consent", "covenant"} \X (1..MaxVersion)
    /\ d.assigned \in Seq(Assignment) /\ Len(d.assigned) <= MaxAssigned
    /\ d.counselor \in Counselors \cup {None}
    /\ d.assignment \in Nat
    /\ d.counselor = None <=> d.assignment = 0
    /\ d.written \in [Stamped -> Stamps \cup {None}]
    /\ d.decision \in {None} \cup Decision
    /\ d.case \in {None} \cup Case
    /\ d.benefit \in {None} \cup Benefit

Active(t) == t # Idle
Applies(t) == t.step = "write" \/ t.saw # None

\* What a command carries, over the rows d.
ArgOK(d, t) ==
    /\ t.op \in {"consent", "covenant"} => t.arg \in 1..MaxVersion
    /\ t.op = "submit" => t.arg \in DOMAIN d.assigned
    /\ t.op \in {"assign", "schedule"} => t.arg \in Counselors
    /\ t.op = "decide" => t.arg \in [by : Counselors, assignment : Nat,
                                     status : {"pending", "approved", "declined"}]
    /\ t.op = "screen" => t.arg \in Events /\ (Applies(t) => Result(t.arg) \in Case)

Shape(t) ==
    /\ DOMAIN t = DOMAIN Idle
    /\ t.stamp \in Stamps \cup {None}
    /\ Active(t) => /\ t.step \in {"write", "end"}
                    /\ t.op \in Ops /\ t.op \in agenda.ops
                    /\ t.assigns \in 0..MaxVersion
                    /\ ArgOK(db, t)

Deciding(t) == t.op = "decide" /\ t.step = "end" /\ t.arg.status # "pending"

\* A credit is due exactly while nobody has committed a decision.
DecidingOK(t) ==
    /\ t.credits => Deciding(t)
    /\ Deciding(t) => IF t.credits THEN db.credits = <<>> ELSE first # None

\* Nothing happens to a session that is being changed.
BookingOK(t) ==
    /\ t.op = "schedule" => Status # "completed"
    /\ t.op \in {"cancel", "complete"} => db.benefit # None /\ db.benefit.status = "scheduled"
    /\ t.op = "complete" => db.benefit.by = db.counselor

\* Nothing happens to what a transaction without company has read.
AloneOK(t) ==
    Active(t) /\ t.alone =>
        /\ t.op = "screen" => t.seen = db.case
        /\ t.step = "end" /\ t.saw # None =>
              /\ t.saw = Reading(Assigned(Effect(db, t), t.assigns))
              /\ ~t.logs => t.saw = db.log

SessionOK(t) ==
    /\ Shape(t) /\ DecidingOK(t) /\ BookingOK(t) /\ AloneOK(t)
    /\ t.op = "screen" => receipts[t.arg] = "none"

\* How transactions exclude each other.
Exclusion ==
    \A s, t \in Sessions : s # t =>
        /\ Active(tx[s]) /\ tx[s].alone => tx[t] = Idle
        /\ ~(tx[s].credits /\ tx[t].credits)
        /\ tx[s].op = "screen" /\ tx[t].op = "screen" => tx[s].arg # tx[t].arg
        /\ tx[s].op \in SessionOps \ {"session"} => tx[t].op \notin SessionOps

Holding == \A s \in Sessions : tx[s].op \in Locking => lock = s

Stored ==
    /\ agenda \in Agendas
    /\ DbOK(db)
    /\ receipts \in [Events -> {"none", "noted", "applied"}]
    /\ lock \in Sessions \cup {None}
    /\ DOMAIN tx = Sessions
    /\ taken \in Seq(Events)
    /\ \A i \in DOMAIN taken : receipts[taken[i]] # "none"

\* The inductive invariant.
Inv ==
    /\ Stored
    /\ FirstDeciderIsPaid
    /\ Exclusion
    /\ Holding
    /\ \A s \in Sessions : SessionOK(tx[s])

-----------------------------------------------------------------------------
(* What a transaction writes.                                              *)

LEMMA IdleFields ==
    /\ Idle.step = "idle" /\ Idle.op = None /\ Idle.arg = None /\ Idle.seen = None
    /\ Idle.saw = None /\ Idle.stamp = None /\ Idle.assigns = 0 /\ Idle.alone = TRUE
    /\ ~Idle.shares /\ ~Idle.credits /\ ~Idle.logs
    /\ DOMAIN Idle = {"step", "op", "arg", "seen", "saw", "stamp", "shares",
                      "assigns", "credits", "logs", "alone"}
    /\ None \notin Ops
BY IntakeAssumption DEF Idle

LEMMA ResultType ==
    ASSUME NEW e \in Events, None \notin {Catalog[e].status, Catalog[e].ref}
    PROVE  Result(e) \in Case
<1>1. Catalog[e].status \in Results /\ Catalog[e].ref \in STRING
  BY IntakeAssumption
<1>. QED  BY <1>1 DEF Result, Case

LEMMA ScreenedType ==
    ASSUME NEW case \in {None} \cup Case, NEW seen, NEW e \in Events, Result(e) \in Case
    PROVE  Screened(case, seen, e) \in Case
<1>1. CASE case = None
  BY <1>1 DEF Screened
<1>2. CASE case # None
  BY <1>2 DEF Screened, Case
<1>. QED  BY <1>1, <1>2

\* The columns a command may change; the other ones stay.
LEMMA EffectKeeps ==
    ASSUME NEW d, DbOK(d), NEW t, t.op \in Ops
    PROVE  /\ Effect(d, t).current = d.current /\ Effect(d, t).log = d.log
           /\ t.op # "decide" \/ ~t.credits => Effect(d, t).credits = d.credits
           /\ t.op = "decide" /\ t.credits =>
                 Effect(d, t).credits = Append(d.credits, t.arg.by)
           /\ t.op \notin SessionOps => Effect(d, t).benefit = d.benefit
           /\ t.op # "assign" => Effect(d, t).counselor = d.counselor
           /\ t.op # "screen" => Effect(d, t).case = d.case
           /\ t.op = "screen" => Effect(d, t).case = Screened(d.case, t.seen, t.arg)
BY DEF Effect, DbOK, Columns, Ops, SessionOps, Locking

LEMMA EffectBooks ==
    ASSUME NEW d, DbOK(d), NEW t
    PROVE  /\ t.op = "session" => Effect(d, t).benefit =
                 IF d.benefit = None THEN [status |-> "available", by |-> None] ELSE d.benefit
           /\ t.op = "schedule" =>
                 Effect(d, t).benefit = [status |-> "scheduled", by |-> t.arg]
           /\ t.op = "cancel" =>
                 Effect(d, t).benefit = [d.benefit EXCEPT !.status = "cancelled"]
           /\ t.op = "complete" =>
                 Effect(d, t).benefit = [d.benefit EXCEPT !.status = "completed"]
BY DEF Effect, DbOK, Columns

LEMMA EffectType ==
    ASSUME NEW d, DbOK(d), NEW t, t.op \in Ops, ArgOK(d, t),
           t.stamp \in Stamps \cup {None},
           t.op = "screen" => Result(t.arg) \in Case,
           t.op \in {"cancel", "complete"} => d.benefit # None
    PROVE  DbOK(Effect(d, t)) /\ DOMAIN Effect(d, t).assigned = DOMAIN d.assigned
<1>. DEFINE f == Effect(d, t)
<1>1. CASE t.op \in {"consent", "covenant"}
  <2>1. f = [d EXCEPT !.accepted = d.accepted \cup {<<t.op, t.arg>>}]
    BY <1>1 DEF Effect
  <2>2. <<t.op, t.arg>> \in {"consent", "covenant"} \X (1..MaxVersion)
    BY <1>1 DEF ArgOK
  <2>3. /\ DOMAIN f = Columns /\ f.current = d.current /\ f.assigned = d.assigned
        /\ f.written = d.written
        /\ f.counselor = d.counselor /\ f.assignment = d.assignment
        /\ f.decision = d.decision /\ f.case = d.case /\ f.benefit = d.benefit
        /\ f.accepted = d.accepted \cup {<<t.op, t.arg>>}
    BY <2>1 DEF DbOK, Columns
  <2>. HIDE DEF f
  <2>. QED  BY <2>2, <2>3 DEF DbOK, f
<1>2. CASE t.op \in {"profile", "progress"}
  BY <1>2 DEF Effect, DbOK, Columns
<1>3. CASE t.op = "submit"
  <2>1. f = [d EXCEPT !.assigned[t.arg].done = TRUE] /\ t.arg \in DOMAIN d.assigned
    BY <1>3 DEF Effect, ArgOK
  <2>2. /\ d.assigned \in Seq(Assignment) /\ d.assigned[t.arg] \in Assignment
        /\ DOMAIN d = Columns
    BY <2>1 DEF DbOK
  <2>3. [d.assigned[t.arg] EXCEPT !.done = TRUE] \in Assignment
    BY <2>2 DEF Assignment
  <2>4. f.assigned = [d.assigned EXCEPT ![t.arg] = [d.assigned[t.arg] EXCEPT !.done = TRUE]]
    BY <2>1, <2>2 DEF Columns
  <2>5. /\ f.assigned \in Seq(Assignment) /\ Len(f.assigned) = Len(d.assigned)
        /\ DOMAIN f.assigned = DOMAIN d.assigned
    BY <2>1, <2>2, <2>3, <2>4
  <2>6. /\ DOMAIN f = Columns /\ f.current = d.current /\ f.accepted = d.accepted
        /\ f.counselor = d.counselor /\ f.assignment = d.assignment
        /\ f.decision = d.decision /\ f.case = d.case /\ f.benefit = d.benefit
        /\ f.written = d.written
    BY <2>1, <2>2 DEF Columns
  <2>. HIDE DEF f
  <2>. QED  BY <2>5, <2>6 DEF DbOK, f
<1>4. CASE t.op = "assign"
  <2>1. t.arg \in Counselors /\ t.arg # None
    BY <1>4, IntakeAssumption DEF ArgOK
  <2>2. /\ DOMAIN f = Columns /\ f.current = d.current /\ f.accepted = d.accepted
        /\ f.counselor = t.arg /\ f.assignment = d.assignment + 1
        /\ f.decision = None /\ f.case = d.case /\ f.benefit = d.benefit
        /\ f.assigned = d.assigned
        /\ f.written = [d.written EXCEPT !["decision"] = None]
    BY <1>4 DEF Effect, DbOK, Columns
  <2>4. f.written \in [Stamped -> Stamps \cup {None}]
    BY <2>2 DEF DbOK
  <2>3. d.assignment + 1 \in Nat /\ d.assignment + 1 # 0
    BY DEF DbOK
  <2>. HIDE DEF f
  <2>. QED  BY <2>1, <2>2, <2>3, <2>4 DEF DbOK, f
<1>5. CASE t.op = "decide"
  <2>1. /\ DOMAIN f = Columns /\ f.current = d.current /\ f.accepted = d.accepted
        /\ f.counselor = d.counselor /\ f.assignment = d.assignment
        /\ f.assigned = d.assigned /\ f.case = d.case /\ f.benefit = d.benefit
        /\ f.decision = IF t.arg.assignment # d.assignment THEN d.decision
                         ELSE [status |-> t.arg.status, expired |-> FALSE]
        /\ f.written = [d.written EXCEPT !["decision"] =
                           IF t.arg.assignment # d.assignment THEN @ ELSE t.stamp]
    BY <1>5 DEF Effect, DbOK, Columns
  <2>2. f.decision \in {None} \cup Decision
    BY <1>5, <2>1 DEF DbOK, ArgOK, Decision
  <2>3. f.written \in [Stamped -> Stamps \cup {None}]
    BY <2>1 DEF DbOK, Stamped
  <2>. HIDE DEF f
  <2>. QED  BY <2>1, <2>2, <2>3 DEF DbOK, f
<1>6. CASE t.op = "screen"
  <2>1. t.arg \in Events /\ d.case \in {None} \cup Case
    BY <1>6 DEF ArgOK, DbOK
  <2>2. Screened(d.case, t.seen, t.arg) \in Case
    BY <1>6, <2>1, ScreenedType
  <2>. QED  BY <1>6, <2>2 DEF Effect, DbOK, Columns
<1>7. CASE t.op \in SessionOps
  <2>1. f.benefit \in {None} \cup Benefit
    <3>. d.benefit \in {None} \cup Benefit
      BY DEF DbOK
    <3>1. CASE t.op = "session"
      <4>1. f.benefit = IF d.benefit = None THEN [status |-> "available", by |-> None]
                        ELSE d.benefit
        BY <3>1, EffectBooks
      <4>. QED  BY <4>1 DEF Benefit
    <3>2. CASE t.op = "schedule"
      <4>1. f.benefit = [status |-> "scheduled", by |-> t.arg]
        BY <3>2, EffectBooks
      <4>. QED  BY <3>2, <4>1 DEF Benefit, ArgOK
    <3>3. CASE t.op \in {"cancel", "complete"}
      <4>1. PICK status \in {"cancelled", "completed"} :
               f.benefit = [d.benefit EXCEPT !.status = status]
        BY <3>3, EffectBooks
      <4>. QED  BY <3>3, <4>1 DEF Benefit
    <3>. QED  BY <1>7, <3>1, <3>2, <3>3 DEF SessionOps
  <2>2. /\ DOMAIN f = Columns /\ f.current = d.current /\ f.accepted = d.accepted
        /\ f.counselor = d.counselor /\ f.assignment = d.assignment
        /\ f.assigned = d.assigned /\ f.decision = d.decision /\ f.case = d.case
        /\ f.written = d.written
    BY <1>7 DEF Effect, DbOK, Columns, SessionOps
  <2>. HIDE DEF f
  <2>. QED  BY <2>1, <2>2 DEF DbOK, f
<1>. QED  BY <1>1, <1>2, <1>3, <1>4, <1>5, <1>6, <1>7 DEF Ops, Locking, SessionOps

LEMMA AssignedType ==
    ASSUME NEW d, DbOK(d), NEW v \in 0..MaxVersion,
           v # 0 => Len(d.assigned) < MaxAssigned
    PROVE  /\ DbOK(Assigned(d, v))
           /\ DOMAIN d.assigned \subseteq DOMAIN Assigned(d, v).assigned
           /\ \A k \in Columns \ {"assigned"} : Assigned(d, v)[k] = d[k]
<1>. DEFINE f == Assigned(d, v)
            new == [def |-> v, expired |-> FALSE, done |-> FALSE]
<1>1. DOMAIN d = Columns /\ d.assigned \in Seq(Assignment) /\ Len(d.assigned) <= MaxAssigned
  BY DEF DbOK
<1>2. DOMAIN f = Columns /\ \A k \in Columns \ {"assigned"} : f[k] = d[k]
  BY <1>1 DEF Assigned
<1>3. f.assigned = IF v = 0 THEN d.assigned ELSE Append(d.assigned, new)
  BY <1>1 DEF Assigned, Columns
<1>4. f.assigned \in Seq(Assignment) /\ Len(f.assigned) <= MaxAssigned
      /\ DOMAIN d.assigned \subseteq DOMAIN f.assigned
  <2>1. CASE v = 0
    BY <1>1, <1>3, <2>1
  <2>2. CASE v # 0
    <3>1. new \in Assignment
      BY <2>2, IntakeAssumption DEF Assignment
    <3>. HIDE DEF new
    <3>2. f.assigned = Append(d.assigned, new)
      BY <1>3, <2>2
    <3>3. f.assigned \in Seq(Assignment) /\ Len(f.assigned) = Len(d.assigned) + 1
      BY <1>1, <3>1, <3>2
    <3>4. Len(d.assigned) < MaxAssigned /\ MaxAssigned \in Nat
      BY <2>2, IntakeAssumption
    <3>. QED  BY <1>1, <3>3, <3>4
  <2>. QED  BY <2>1, <2>2
<1>5. /\ f.current = d.current /\ f.accepted = d.accepted /\ f.counselor = d.counselor
      /\ f.assignment = d.assignment /\ f.decision = d.decision /\ f.case = d.case
      /\ f.benefit = d.benefit /\ f.written = d.written
  BY <1>2 DEF Columns
<1>. HIDE DEF f
<1>6. DbOK(f)
  BY <1>2, <1>4, <1>5 DEF DbOK
<1>. QED  BY <1>2, <1>4, <1>6 DEF f

\* The log is no evidence.
LEMMA ReadingOfLog ==
    ASSUME NEW d, DbOK(d), NEW x
    PROVE  Reading([d EXCEPT !.log = x]) = Reading(d)
<1>. DEFINE f == [d EXCEPT !.log = x]
<1>1. /\ f.current = d.current /\ f.accepted = d.accepted /\ f.written = d.written
      /\ f.assigned = d.assigned /\ f.assignment = d.assignment
      /\ f.decision = d.decision /\ f.case = d.case
  BY DEF DbOK, Columns
<1>. HIDE DEF f
<1>2. Current(f) = Current(d)
  BY <1>1 DEF Current
<1>3. Lacks(f) = Lacks(d)
  BY <1>1, <1>2 DEF Lacks
<1>4. Met(f) = Met(d)
  BY <1>1, <1>2, <1>3 DEF Met, HasProfile
<1>5. Reading(f) = Reading(d)
  BY <1>1, <1>2, <1>4 DEF Reading, Unmet
<1>. QED  BY <1>5 DEF f

LEMMA EffectSame ==
    ASSUME NEW d, NEW t, NEW u, t.op = u.op, t.arg = u.arg, t.seen = u.seen,
           t.credits = u.credits, t.stamp = u.stamp
    PROVE  Effect(d, t) = Effect(d, u)
BY DEF Effect

-----------------------------------------------------------------------------
(* How a session fares under another one's steps.                          *)

LEMMA Unaccompanied ==
    ASSUME NEW t, SessionOK(t), Active(t)
    PROVE  /\ SessionOK([t EXCEPT !.alone = FALSE])
           /\ Active([t EXCEPT !.alone = FALSE])
           /\ ~[t EXCEPT !.alone = FALSE].alone
           /\ \A k \in DOMAIN Idle \ {"alone"} : [t EXCEPT !.alone = FALSE][k] = t[k]
<1>. DEFINE u == [t EXCEPT !.alone = FALSE]
<1>1. DOMAIN t = DOMAIN Idle /\ t.step \in {"write", "end"}
  BY DEF SessionOK, Shape
<1>2. /\ DOMAIN u = DOMAIN Idle /\ ~u.alone
      /\ \A k \in DOMAIN Idle \ {"alone"} : u[k] = t[k]
  BY <1>1, IdleFields
<1>3. /\ u.step = t.step /\ u.op = t.op /\ u.arg = t.arg /\ u.saw = t.saw
      /\ u.credits = t.credits /\ u.assigns = t.assigns /\ u.stamp = t.stamp
  BY <1>2, IdleFields
<1>. HIDE DEF u
<1>4. Active(u)
  BY <1>1, <1>3, IdleFields DEF Active
<1>5. ArgOK(db, u)
  BY <1>3 DEF SessionOK, Shape, ArgOK, Applies
<1>6. SessionOK(u)
  BY <1>2, <1>3, <1>4, <1>5
  DEF SessionOK, Shape, DecidingOK, Deciding, BookingOK, AloneOK
<1>. QED  BY <1>2, <1>4, <1>6 DEF u

\* The rows change under a session that knows it is not alone.
LEMMA SessionKept ==
    ASSUME NEW t, SessionOK(t), Active(t) => ~t.alone,
           UNCHANGED agenda,
           DOMAIN db.assigned \subseteq DOMAIN db'.assigned,
           t.credits => db'.credits = db.credits,
           first # None => first' # None,
           t.op \in SessionOps \ {"session"} =>
               db'.benefit = db.benefit /\ db'.counselor = db.counselor,
           t.op = "screen" => receipts'[t.arg] = receipts[t.arg]
    PROVE  SessionOK(t)'
<1>1. Shape(t)'
  BY DEF SessionOK, Shape, ArgOK
<1>2. DecidingOK(t)'
  BY DEF SessionOK, DecidingOK
<1>3. BookingOK(t)'
  BY DEF SessionOK, BookingOK, Status, SessionOps
<1>4. AloneOK(t)'
  BY DEF AloneOK
<1>. QED  BY <1>1, <1>2, <1>3, <1>4 DEF SessionOK

LEMMA IdleOK == SessionOK(Idle)
BY IdleFields DEF SessionOK, Shape, Active, DecidingOK, Deciding, BookingOK, AloneOK, Ops,
   SessionOps, Locking

LEMMA IdleOKNext == SessionOK(Idle)'
BY IdleFields DEF SessionOK, Shape, Active, DecidingOK, Deciding, BookingOK, AloneOK, Ops,
   SessionOps, Locking

-----------------------------------------------------------------------------
(* The first statements of a command.                                      *)

\* What session x is after s began t.
After(s, t, x) ==
    IF x = s THEN t
    ELSE IF x \in Others(s) THEN [tx[x] EXCEPT !.alone = FALSE] ELSE tx[x]

LEMMA BeginKeeps ==
    ASSUME Inv, NEW s \in Sessions, NEW op \in Ops, NEW step \in {"write", "end"},
           NEW arg, NEW seen, Begin(s, op, step, arg, seen),
           ArgOK(db, [Idle EXCEPT !.step = step, !.op = op, !.arg = arg, !.seen = seen]),
           op = "decide" => step = "write",
           op = "schedule" => Status # "completed",
           op \in {"cancel", "complete"} =>
               db.benefit # None /\ db.benefit.status = "scheduled",
           op = "complete" => db.benefit.by = db.counselor,
           op = "screen" =>
               /\ receipts[arg] = "none" /\ seen = db.case
               /\ \A x \in Others(s) : ~(tx[x].op = "screen" /\ tx[x].arg = arg),
           op \in SessionOps \ {"session"} => \A x \in Others(s) : tx[x].op \notin SessionOps,
           op = "session" => \A x \in Others(s) : tx[x].op \notin SessionOps \ {"session"}
    PROVE  Inv'
<1>0. PICK t : t = [Idle EXCEPT !.step = step, !.op = op, !.arg = arg, !.seen = seen,
                              !.alone = Others(s) = {}]
  OBVIOUS
<1>1. /\ t.step = step /\ t.op = op /\ t.arg = arg /\ t.seen = seen /\ t.saw = None
      /\ ~t.credits /\ t.assigns = 0 /\ t.stamp = None /\ t.alone = (Others(s) = {})
      /\ DOMAIN t = DOMAIN Idle
  BY <1>0, IdleFields
<1>2. Active(t)
  BY <1>1, IdleFields DEF Active
<1>3. /\ tx[s] = Idle /\ op \in agenda.ops /\ LockMember(s, op)
      /\ DOMAIN tx' = Sessions
      /\ \A x \in Sessions : tx'[x] = After(s, t, x)
      /\ UNCHANGED <<agenda, db, receipts, first, taken>>
  BY <1>0 DEF Begin, After
<1>4. ArgOK(db, t)
  BY <1>1 DEF ArgOK, Applies, Result
<1>5. SessionOK(t)
  <2>1. Shape(t)
    BY <1>1, <1>2, <1>3, <1>4, IntakeAssumption DEF Shape
  <2>2. DecidingOK(t)
    BY <1>1 DEF DecidingOK, Deciding
  <2>3. BookingOK(t)
    BY <1>1 DEF BookingOK
  <2>4. AloneOK(t)
    BY <1>1 DEF AloneOK
  <2>. QED  BY <1>1, <2>1, <2>2, <2>3, <2>4 DEF SessionOK
<1>6. ASSUME NEW x \in Others(s)
      PROVE  /\ x \in Sessions /\ x # s /\ Active(tx[x]) /\ SessionOK(tx[x])
             /\ DOMAIN tx[x] = DOMAIN Idle
  BY IdleFields DEF Others, Active, Inv, SessionOK, Shape
<1>7. ASSUME NEW x \in Sessions, x # s, x \notin Others(s)
      PROVE  tx[x] = Idle
  BY <1>7 DEF Others, Inv, SessionOK, Shape, Active
<1>8. ASSUME NEW x \in Sessions PROVE SessionOK(After(s, t, x))
  <2>1. CASE x \in Others(s)
    BY <1>6, <2>1, Unaccompanied DEF After
  <2>2. CASE x \notin Others(s) /\ x # s
    BY <2>2 DEF After, Inv
  <2>. QED  BY <1>5, <2>1, <2>2 DEF After
<1>9. ASSUME NEW x \in Sessions PROVE SessionOK(tx[x])'
  <2>1. PICK u : u = After(s, t, x)
    OBVIOUS
  <2>2. SessionOK(u)
    BY <1>8, <2>1
  <2>3. SessionOK(u)'
    BY <1>3, <2>2 DEF SessionOK, Shape, DecidingOK, Deciding, BookingOK, AloneOK, Status
  <2>. QED  BY <1>3, <2>1, <2>3
<1>10. \A x \in Sessions \ {s} :
          /\ tx'[x].op = tx[x].op /\ tx'[x].arg = tx[x].arg /\ tx'[x].credits = tx[x].credits
          /\ Active(tx'[x]) => x \in Others(s) /\ ~tx'[x].alone
  <2>. SUFFICES ASSUME NEW x \in Sessions \ {s}
       PROVE  /\ tx'[x].op = tx[x].op /\ tx'[x].arg = tx[x].arg
              /\ tx'[x].credits = tx[x].credits
              /\ Active(tx'[x]) => x \in Others(s) /\ ~tx'[x].alone
    OBVIOUS
  <2>1. CASE x \in Others(s)
    BY <1>3, <1>6, <2>1, Unaccompanied, IdleFields DEF After
  <2>2. CASE x \notin Others(s)
    BY <1>3, <1>7, <2>2 DEF After, Active
  <2>. QED  BY <2>1, <2>2
<1>11. tx'[s] = t
  BY <1>3 DEF After
<1>12. \A x \in Sessions \ {s} : tx[x].op \in SessionOps \/ tx[x].op = "screen" => x \in Others(s)
  BY <1>7, IdleFields DEF Ops, SessionOps
<1>13. Exclusion'
  <2>. SUFFICES ASSUME NEW x \in Sessions, NEW y \in Sessions, x # y
       PROVE  /\ Active(tx'[x]) /\ tx'[x].alone => tx'[y] = Idle
              /\ ~(tx'[x].credits /\ tx'[y].credits)
              /\ tx'[x].op = "screen" /\ tx'[y].op = "screen" => tx'[x].arg # tx'[y].arg
              /\ tx'[x].op \in SessionOps \ {"session"} => tx'[y].op \notin SessionOps
    BY DEF Exclusion, Active
  <2>1. CASE x = s
    <3>1. t.alone => tx'[y] = Idle
      <4>1. t.alone => y \notin Others(s)
        BY <1>1
      <4>. QED  BY <1>3, <1>7, <2>1, <4>1 DEF After
    <3>. QED  BY <1>1, <1>10, <1>11, <1>12, <2>1, <3>1
  <2>2. CASE y = s
    <3>1. tx[x].op \in SessionOps \ {"session"} => op \notin SessionOps
      BY <1>12, <2>2
    <3>. QED  BY <1>1, <1>10, <1>11, <1>12, <2>2, <3>1
  <2>3. CASE x # s /\ y # s
    BY <1>10, <2>3 DEF Inv, Exclusion
  <2>. QED  BY <2>1, <2>2, <2>3
<1>14. Holding'
  BY <1>1, <1>3, <1>10, <1>11, IntakeAssumption DEF Inv, Holding, LockMember
<1>15. Stored'
  BY <1>3 DEF Inv, Stored, LockMember
<1>. QED  BY <1>3, <1>9, <1>13, <1>14, <1>15 DEF Inv, FirstDeciderIsPaid

LEMMA AcceptKeeps ==
    ASSUME Inv, NEW s \in Sessions, NEW policy \in {"consent", "covenant"}, Accept(s, policy)
    PROVE  Inv'
<1>1. Begin(s, policy, "write", db.current[policy], None)
  BY DEF Accept
<1>2. db.current[policy] \in 1..MaxVersion
  BY DEF Inv, Stored, DbOK, Policies
<1>3. policy \in Ops
  BY DEF Ops, Locking
<1>. DEFINE t == [Idle EXCEPT !.step = "write", !.op = policy, !.arg = db.current[policy],
                              !.seen = None]
<1>4. t.op = policy /\ t.arg = db.current[policy]
  BY IdleFields
<1>5. ArgOK(db, t)
  BY <1>2, <1>4 DEF ArgOK
<1>. QED  BY <1>1, <1>3, <1>5, BeginKeeps DEF SessionOps

\* The commands without an argument.
LEMMA PlainKeeps ==
    ASSUME Inv, NEW s \in Sessions, SaveProfile(s) \/ GetProgress(s)
    PROVE  Inv'
<1>1. PICK op \in {"profile", "progress"}, seen \in {HasProfile(db), None} :
         Begin(s, op, "write", None, seen)
  BY DEF SaveProfile, GetProgress
<1>2. op \in Ops
  BY DEF Ops
<1>. DEFINE t == [Idle EXCEPT !.step = "write", !.op = op, !.arg = None, !.seen = seen]
<1>3. t.op = op
  BY IdleFields
<1>4. ArgOK(db, t)
  BY <1>3 DEF ArgOK
<1>. QED  BY <1>1, <1>2, <1>4, BeginKeeps DEF SessionOps

LEMMA SubmitKeeps ==
    ASSUME Inv, NEW s \in Sessions, SubmitAssessment(s)
    PROVE  Inv'
<1>. DEFINE i == Len(db.assigned)
            t == [Idle EXCEPT !.step = "write", !.op = "submit", !.arg = i, !.seen = None]
<1>1. Begin(s, "submit", "write", i, None) /\ i > 0
  BY DEF SubmitAssessment
<1>2. i \in DOMAIN db.assigned
  BY <1>1 DEF Inv, Stored, DbOK
<1>3. t.op = "submit" /\ t.arg = i
  BY IdleFields
<1>4. ArgOK(db, t)
  BY <1>2, <1>3 DEF ArgOK
<1>5. "submit" \in Ops
  BY DEF Ops
<1>. QED  BY <1>1, <1>4, <1>5, BeginKeeps DEF SessionOps

LEMMA AssignKeeps ==
    ASSUME Inv, NEW s \in Sessions, NEW c \in Counselors, AssignCounselor(s, c)
    PROVE  Inv'
<1>. DEFINE t == [Idle EXCEPT !.step = "write", !.op = "assign", !.arg = c, !.seen = None]
<1>1. Begin(s, "assign", "write", c, None) /\ "assign" \in Ops
  BY DEF AssignCounselor, Ops, Locking
<1>2. t.op = "assign" /\ t.arg = c
  BY IdleFields
<1>3. ArgOK(db, t)
  BY <1>2 DEF ArgOK
<1>. QED  BY <1>1, <1>3, BeginKeeps DEF SessionOps

LEMMA DecideKeeps ==
    ASSUME Inv, NEW s \in Sessions, NEW status \in {"pending", "approved", "declined"},
           RecordDecision(s, status)
    PROVE  Inv'
<1>. DEFINE arg == [by |-> db.counselor, assignment |-> db.assignment, status |-> status]
            t == [Idle EXCEPT !.step = "write", !.op = "decide", !.arg = arg, !.seen = None]
<1>1. Begin(s, "decide", "write", arg, None) /\ db.counselor # None /\ "decide" \in Ops
  BY DEF RecordDecision, Ops
<1>2. t.op = "decide" /\ t.arg = arg
  BY IdleFields
<1>3. arg \in [by : Counselors, assignment : Nat,
               status : {"pending", "approved", "declined"}]
  BY <1>1 DEF Inv, Stored, DbOK
<1>. HIDE DEF arg
<1>4. ArgOK(db, t)
  BY <1>2, <1>3 DEF ArgOK
<1>. QED  BY <1>1, <1>4, BeginKeeps DEF SessionOps

LEMMA ReceiveKeeps ==
    ASSUME Inv, NEW s \in Sessions, NEW e \in Events, ReceiveScreening(s, e)
    PROVE  Inv'
<1>1. PICK step \in {"write", "end"} :
         /\ Begin(s, "screen", step, e, db.case)
         /\ step = "write" => Outcome(e) = "applied"
  BY DEF ReceiveScreening
<1>2. receipts[e] = "none" /\ \A x \in Others(s) : ~(tx[x].op = "screen" /\ tx[x].arg = e)
  BY DEF ReceiveScreening, Received
<1>3. Outcome(e) = "applied" => Result(e) \in Case
  BY IntakeAssumption, ResultType DEF Outcome
<1>. DEFINE t == [Idle EXCEPT !.step = step, !.op = "screen", !.arg = e, !.seen = db.case]
<1>4. t.op = "screen" /\ t.arg = e /\ t.step = step /\ t.saw = None
  BY IdleFields
<1>5. ArgOK(db, t)
  BY <1>1, <1>3, <1>4 DEF ArgOK, Applies
<1>6. "screen" \in Ops
  BY DEF Ops
<1>. QED  BY <1>1, <1>2, <1>5, <1>6, BeginKeeps DEF SessionOps

\* The benefit is created while no command about sessions holds the member.
LEMMA GetSessionKeeps ==
    ASSUME Inv, NEW s \in Sessions, GetSession(s)
    PROVE  Inv'
<1>. DEFINE t == [Idle EXCEPT !.step = "end", !.op = "session", !.arg = None,
                              !.seen = db.benefit]
<1>1. Begin(s, "session", "end", None, db.benefit) /\ "session" \in Ops
  BY DEF GetSession, Ops, SessionOps
<1>2. t.op = "session"
  BY IdleFields
<1>3. ArgOK(db, t)
  BY <1>2 DEF ArgOK
<1>4. ASSUME NEW x \in Others(s) PROVE tx[x].op \notin SessionOps \ {"session"}
  <2>1. CASE db.benefit # None
    BY <2>1 DEF GetSession, BenefitFree
  <2>2. CASE db.benefit = None
    <3>1. lock \in {None, s}
      BY <2>2 DEF GetSession, Free
    <3>2. x \in Sessions /\ x # s /\ x # None
      BY IntakeAssumption DEF Others
    <3>3. tx[x].op \notin Locking
      BY <3>1, <3>2 DEF Inv, Holding
    <3>. QED  BY <3>3 DEF SessionOps, Locking
  <2>. QED  BY <2>1, <2>2
<1>. QED  BY <1>1, <1>3, <1>4, BeginKeeps DEF SessionOps

LEMMA BookKeeps ==
    ASSUME Inv, NEW s \in Sessions,
           ScheduleSession(s) \/ CancelSession(s) \/ CompleteSession(s)
    PROVE  Inv'
<1>1. PICK op \in {"schedule", "cancel", "complete"}, arg \in {db.counselor, None} :
         /\ Begin(s, op, "end", arg, None)
         /\ BenefitFree(s)
         /\ op = "schedule" => Status # "completed" /\ arg = db.counselor /\ arg # None
         /\ op \in {"cancel", "complete"} => Status = "scheduled"
         /\ op = "complete" => db.benefit.by = db.counselor
  BY DEF ScheduleSession, CancelSession, CompleteSession
<1>2. op \in Ops /\ op \in SessionOps \ {"session"}
  BY DEF Ops, SessionOps
<1>3. op \in {"cancel", "complete"} => db.benefit # None /\ db.benefit.status = "scheduled"
  BY <1>1 DEF Status
<1>. DEFINE t == [Idle EXCEPT !.step = "end", !.op = op, !.arg = arg, !.seen = None]
<1>4. t.op = op /\ t.arg = arg
  BY IdleFields
<1>5. ArgOK(db, t)
  BY <1>1, <1>4 DEF ArgOK, Inv, Stored, DbOK
<1>. QED  BY <1>1, <1>2, <1>3, <1>5, BeginKeeps DEF BenefitFree

LEMMA CommandKeeps ==
    ASSUME Inv, NEW s \in Sessions, Command(s)
    PROVE  Inv'
BY AcceptKeeps, PlainKeeps, SubmitKeeps, AssignKeeps, DecideKeeps, ReceiveKeeps,
   GetSessionKeeps, BookKeeps DEF Command

-----------------------------------------------------------------------------
(* The flush of the rows and the evaluation.                               *)

LEMMA WriteKeeps ==
    ASSUME Inv, NEW s \in Sessions, Write(s)
    PROVE  Inv'
<1>0. PICK t : t = [tx[s] EXCEPT !.credits = Credits(s), !.stamp = Fresh(s)]
  OBVIOUS
<1>1. PICK v : v = IF Lacks(Effect(db, t)) THEN Effect(db, t).current["assessment"] ELSE 0
  OBVIOUS
<1>2. PICK saw : saw = Reading(Assigned(Effect(db, t), v))
  OBVIOUS
<1>3. PICK logs \in BOOLEAN : logs = (t.op = "progress" => ~Unchanged(saw, db.log))
  OBVIOUS
<1>4. PICK u : u = [t EXCEPT !.step = "end", !.saw = saw, !.assigns = v,
                             !.shares = Names(s), !.logs = logs]
  OBVIOUS
<1>5. /\ tx[s].step = "write" /\ ~Waits(s)
      /\ tx' = [tx EXCEPT ![s] = u]
      /\ UNCHANGED <<agenda, db, receipts, lock, first, taken>>
  BY <1>0, <1>1, <1>2, <1>3, <1>4 DEF Write
<1>6. /\ SessionOK(tx[s]) /\ DOMAIN tx[s] = DOMAIN Idle /\ Active(tx[s])
      /\ DbOK(db) /\ DOMAIN tx = Sessions
  BY <1>5, IdleFields DEF Inv, Stored, SessionOK, Shape, Active
<1>7. /\ t.op = tx[s].op /\ t.arg = tx[s].arg /\ t.seen = tx[s].seen
      /\ t.alone = tx[s].alone /\ t.credits = Credits(s) /\ t.stamp = Fresh(s)
      /\ DOMAIN t = DOMAIN Idle
  BY <1>0, <1>6, IdleFields
<1>8. /\ u.op = t.op /\ u.arg = t.arg /\ u.seen = t.seen /\ u.alone = t.alone
      /\ u.credits = t.credits /\ u.step = "end" /\ u.saw = saw /\ u.assigns = v
      /\ u.logs = logs /\ u.stamp = t.stamp /\ DOMAIN u = DOMAIN Idle
  BY <1>4, <1>7, IdleFields
<1>9. u.op \in Ops /\ u.op \in agenda.ops /\ ArgOK(db, tx[s]) /\ Applies(tx[s])
  BY <1>5, <1>6, <1>7, <1>8 DEF SessionOK, Shape, Applies
<1>10. v \in 0..MaxVersion
  <2>1. Effect(db, t).current = db.current
    BY <1>6, <1>7, <1>8, <1>9, EffectKeeps
  <2>2. db.current["assessment"] \in 1..MaxVersion
    BY <1>6 DEF DbOK, Policies
  <2>. QED  BY <1>1, <2>1, <2>2, IntakeAssumption
<1>11. Active(u)
  BY <1>8, IdleFields DEF Active
<1>12. SessionOK(u)
  <2>1. ArgOK(db, u)
    BY <1>7, <1>8, <1>9 DEF ArgOK
  <2>0. Fresh(s) \in Stamps \cup {None}
    <3>1. Stamps \ InUse # {}
      BY DEF Write
    <3>. QED  BY <3>1 DEF Fresh
  <2>2. Shape(u)
    BY <1>7, <1>8, <1>9, <1>10, <2>0, <2>1 DEF Shape
  <2>3. DecidingOK(u)
    <3>1. u.credits => Deciding(u)
      BY <1>7, <1>8 DEF Credits, Deciding
    <3>2. Deciding(u) /\ u.credits => db.credits = <<>>
      BY <1>7, <1>8 DEF Credits
    <3>3. Deciding(u) /\ ~u.credits => first # None
      BY <1>7, <1>8 DEF Credits, Deciding, Inv, FirstDeciderIsPaid
    <3>. QED  BY <3>1, <3>2, <3>3 DEF DecidingOK
  <2>4. BookingOK(u)
    BY <1>6, <1>7, <1>8 DEF SessionOK, BookingOK
  <2>5. AloneOK(u)
    <3>1. Effect(db, u) = Effect(db, t)
      BY <1>8, EffectSame
    <3>2. u.saw = Reading(Assigned(Effect(db, u), u.assigns))
      BY <1>2, <1>8, <3>1
    <3>3. ~u.logs => u.saw = db.log
      BY <1>3, <1>8 DEF Unchanged
    <3>4. u.op = "screen" /\ u.alone => u.seen = db.case
      BY <1>6, <1>7, <1>8 DEF SessionOK, AloneOK
    <3>. QED  BY <3>2, <3>3, <3>4 DEF AloneOK
  <2>6. u.op = "screen" => receipts[u.arg] = "none"
    BY <1>6, <1>7, <1>8 DEF SessionOK
  <2>. QED  BY <2>2, <2>3, <2>4, <2>5, <2>6 DEF SessionOK
<1>13. ASSUME NEW x \in Sessions PROVE SessionOK(tx[x])'
  <2>1. PICK y : y = tx'[x]
    OBVIOUS
  <2>2. SessionOK(y)
    BY <1>5, <1>6, <1>12, <2>1 DEF Inv
  <2>3. SessionOK(y)'
    BY <1>5, <2>2 DEF SessionOK, Shape, DecidingOK, Deciding, BookingOK, AloneOK, Status
  <2>. QED  BY <2>1, <2>3
<1>14. Exclusion'
  <2>1. \A x \in Sessions \ {s} : u.credits => ~tx[x].credits
    <3>. SUFFICES ASSUME NEW x \in Sessions \ {s}, u.credits, tx[x].credits PROVE FALSE
      OBVIOUS
    <3>1. Deciding(tx[x])
      BY DEF Inv, SessionOK, DecidingOK
    <3>2. x \in Others(s)
      BY <3>1 DEF Others, Deciding
    <3>3. tx[s].op = "decide" /\ tx[s].arg.status # "pending"
      BY <1>7, <1>8 DEF Credits
    <3>. QED  BY <1>5, <3>1, <3>2, <3>3 DEF Waits, Deciding
  <2>2. /\ \A x \in Sessions : /\ tx'[x].op = tx[x].op /\ tx'[x].arg = tx[x].arg
                               /\ tx'[x].alone = tx[x].alone
                               /\ Active(tx'[x]) => Active(tx[x])
        /\ \A x \in Sessions \ {s} : tx'[x] = tx[x]
        /\ tx'[s].credits = u.credits
    BY <1>5, <1>6, <1>7, <1>8
  <2>3. \A x \in Sessions : tx[x] = Idle => x # s
    BY <1>6 DEF Active
  <2>. SUFFICES ASSUME NEW x \in Sessions, NEW y \in Sessions, x # y
       PROVE  /\ Active(tx'[x]) /\ tx'[x].alone => tx'[y] = Idle
              /\ ~(tx'[x].credits /\ tx'[y].credits)
              /\ tx'[x].op = "screen" /\ tx'[y].op = "screen" => tx'[x].arg # tx'[y].arg
              /\ tx'[x].op \in SessionOps \ {"session"} => tx'[y].op \notin SessionOps
    BY DEF Exclusion, Active
  <2>4. /\ Active(tx[x]) /\ tx[x].alone => tx[y] = Idle
        /\ ~(tx[x].credits /\ tx[y].credits)
        /\ tx[x].op = "screen" /\ tx[y].op = "screen" => tx[x].arg # tx[y].arg
        /\ tx[x].op \in SessionOps \ {"session"} => tx[y].op \notin SessionOps
    BY DEF Inv, Exclusion
  <2>5. Active(tx'[x]) /\ tx'[x].alone => tx'[y] = Idle
    BY <2>2, <2>3, <2>4
  <2>6. ~(tx'[x].credits /\ tx'[y].credits)
    BY <2>1, <2>2, <2>4
  <2>. QED  BY <2>2, <2>4, <2>5, <2>6
<1>15. Holding'
  <2>1. \A x \in Sessions : tx'[x].op = tx[x].op
    BY <1>5, <1>6, <1>7, <1>8
  <2>. QED  BY <1>5, <2>1 DEF Inv, Holding
<1>16. Stored'
  BY <1>5 DEF Inv, Stored
<1>. QED  BY <1>5, <1>13, <1>14, <1>15, <1>16 DEF Inv, FirstDeciderIsPaid

-----------------------------------------------------------------------------
(* Commit.                                                                 *)

\* The transaction that commits.
LEMMA Committing ==
    ASSUME Inv, NEW s \in Sessions, End(s)
    PROVE  /\ Active(tx[s]) /\ SessionOK(tx[s]) /\ tx[s].op \in Ops
           /\ ArgOK(db, tx[s]) /\ tx[s].assigns \in 0..MaxVersion /\ tx[s].step = "end"
           /\ tx[s].op = "screen" /\ tx[s].saw # None => Result(tx[s].arg) \in Case
           /\ \A x \in Sessions \ {s} : Active(tx[x]) => ~tx[x].alone
<1>1. tx[s].step = "end" /\ Active(tx[s])
  BY IdleFields DEF End, Active
<1>2. SessionOK(tx[s]) /\ Shape(tx[s])
  BY DEF Inv, SessionOK
<1>3. \A x \in Sessions \ {s} : Active(tx[x]) => ~tx[x].alone
  BY <1>1 DEF Inv, Exclusion, Active
<1>. QED  BY <1>1, <1>2, <1>3 DEF Shape, ArgOK, Applies

\* The rows it leaves.
LEMMA Committed ==
    ASSUME Inv, NEW s \in Sessions, End(s)
    PROVE  /\ DbOK(db') /\ DOMAIN db.assigned \subseteq DOMAIN db'.assigned
           /\ tx[s].op = "decide" /\ tx[s].credits =>
                 db'.credits = Append(db.credits, tx[s].arg.by)
           /\ tx[s].op # "decide" \/ ~tx[s].credits => db'.credits = db.credits
           /\ tx[s].op \notin SessionOps => db'.benefit = db.benefit
           /\ tx[s].op \in SessionOps => db'.benefit = Effect(db, tx[s]).benefit
           /\ tx[s].op # "assign" => db'.counselor = db.counselor
           /\ tx[s].op = "screen" /\ tx[s].saw # None =>
                 db'.case = Screened(db.case, tx[s].seen, tx[s].arg)
           /\ tx[s].saw # None =>
                 /\ Reading(db') = Reading(Assigned(Effect(db, tx[s]), tx[s].assigns))
                 /\ db'.log = IF tx[s].logs THEN tx[s].saw ELSE db.log
<1>1. PICK t : t = tx[s]
  OBVIOUS
<1>2. PICK rows : rows = IF t.op = "screen" /\ t.saw = None THEN db ELSE Effect(db, t)
  OBVIOUS
<1>3. PICK g : g = Assigned(rows, t.assigns)
  OBVIOUS
<1>4. db' = [g EXCEPT !.log = IF t.logs THEN t.saw ELSE @]
  <2>1. rows = IF t.op = "screen" /\ ~(t.op = "screen" /\ t.saw # None) THEN db
               ELSE Effect(db, t)
    BY <1>2
  <2>. QED  BY <1>1, <1>3, <2>1 DEF End
<1>5. DbOK(db)
  BY DEF Inv, Stored
<1>6. /\ t.op \in Ops /\ ArgOK(db, t) /\ t.assigns \in 0..MaxVersion
      /\ t.op = "screen" /\ t.saw # None => Result(t.arg) \in Case
      /\ t.op \in {"cancel", "complete"} => db.benefit # None
      /\ t.stamp \in Stamps \cup {None}
  BY <1>1, Committing DEF SessionOK, BookingOK, Shape
<1>7. DbOK(rows) /\ DOMAIN rows.assigned = DOMAIN db.assigned
  <2>1. CASE t.op = "screen" /\ t.saw = None
    BY <1>2, <1>5, <2>1
  <2>2. CASE ~(t.op = "screen" /\ t.saw = None)
    BY <1>2, <1>5, <1>6, <2>2, EffectType
  <2>. QED  BY <2>1, <2>2
<1>8. t.assigns # 0 => Len(rows.assigned) < MaxAssigned
  <2>1. t.assigns # 0 => Len(db.assigned) < MaxAssigned
    BY <1>1 DEF End
  <2>2. Len(rows.assigned) = Len(db.assigned)
    BY <1>5, <1>7 DEF DbOK
  <2>. QED  BY <2>1, <2>2
<1>9. /\ DbOK(g) /\ DOMAIN rows.assigned \subseteq DOMAIN g.assigned
      /\ \A k \in Columns \ {"assigned"} : g[k] = rows[k]
  BY <1>3, <1>6, <1>7, <1>8, AssignedType
<1>10. /\ DOMAIN g = Columns
       /\ g.credits = rows.credits /\ g.benefit = rows.benefit /\ g.case = rows.case
       /\ g.counselor = rows.counselor /\ g.log = rows.log
  BY <1>9 DEF DbOK, Columns
<1>11. /\ DOMAIN db' = Columns
       /\ \A k \in Columns \ {"log"} : db'[k] = g[k]
       /\ db'.log = IF t.logs THEN t.saw ELSE g.log
  BY <1>4, <1>10 DEF Columns
<1>12. /\ db'.credits = rows.credits /\ db'.benefit = rows.benefit /\ db'.case = rows.case
       /\ db'.counselor = rows.counselor /\ db'.assigned = g.assigned
  BY <1>10, <1>11 DEF Columns
<1>13. DbOK(db')
  <2>1. PICK e : e = db'
    OBVIOUS
  <2>2. /\ DOMAIN e = Columns /\ e.current = g.current /\ e.accepted = g.accepted
        /\ e.assigned = g.assigned /\ e.counselor = g.counselor
        /\ e.assignment = g.assignment /\ e.decision = g.decision /\ e.case = g.case
        /\ e.benefit = g.benefit /\ e.written = g.written
    BY <1>11, <2>1 DEF Columns
  <2>3. DbOK(e)
    BY <1>9, <2>2 DEF DbOK
  <2>. QED  BY <2>1, <2>3
<1>14. t.op # "screen" \/ t.saw # None => rows = Effect(db, t)
  BY <1>2
<1>15. /\ t.op = "decide" /\ t.credits => rows.credits = Append(db.credits, t.arg.by)
       /\ t.op # "decide" \/ ~t.credits => rows.credits = db.credits
       /\ t.op \notin SessionOps => rows.benefit = db.benefit
       /\ t.op # "assign" => rows.counselor = db.counselor
       /\ t.op = "screen" /\ t.saw # None => rows.case = Screened(db.case, t.seen, t.arg)
       /\ rows.log = db.log
  BY <1>2, <1>5, <1>6, EffectKeeps
<1>16. t.saw # None =>
          /\ Reading(db') = Reading(Assigned(Effect(db, t), t.assigns))
          /\ db'.log = IF t.logs THEN t.saw ELSE db.log
  <2>1. PICK x : x = IF t.logs THEN t.saw ELSE g.log
    OBVIOUS
  <2>2. db' = [g EXCEPT !.log = x]
    BY <1>4, <2>1
  <2>3. Reading(db') = Reading(g)
    BY <1>9, <2>2, ReadingOfLog
  <2>. QED  BY <1>3, <1>10, <1>11, <1>14, <1>15, <2>3
<1>17. t.op \in SessionOps => t.op # "screen"
  BY DEF SessionOps
<1>. QED  BY <1>1, <1>7, <1>9, <1>12, <1>13, <1>14, <1>15, <1>16, <1>17

\* Nobody overlaps the exclusions of a transaction that ends.
LEMMA ExclusionKept ==
    ASSUME Inv, NEW s \in Sessions, tx' = [tx EXCEPT ![s] = Idle]
    PROVE  Exclusion'
<1>1. tx'[s] = Idle /\ \A x \in Sessions \ {s} : tx'[x] = tx[x]
  BY DEF Inv, Stored
<1>2. /\ Idle.op \notin SessionOps /\ Idle.op # "screen" /\ ~Idle.credits /\ ~Active(Idle)
  BY IdleFields DEF Ops, Active
<1>. SUFFICES ASSUME NEW x \in Sessions, NEW y \in Sessions, x # y
     PROVE  /\ Active(tx'[x]) /\ tx'[x].alone => tx'[y] = Idle
            /\ ~(tx'[x].credits /\ tx'[y].credits)
            /\ tx'[x].op = "screen" /\ tx'[y].op = "screen" => tx'[x].arg # tx'[y].arg
            /\ tx'[x].op \in SessionOps \ {"session"} => tx'[y].op \notin SessionOps
  BY DEF Exclusion, Active
<1>. QED  BY <1>1, <1>2 DEF Inv, Exclusion

LEMMA HoldingKept ==
    ASSUME Inv, NEW s \in Sessions, tx' = [tx EXCEPT ![s] = Idle],
           lock' = IF lock = s THEN None ELSE lock
    PROVE  Holding' /\ lock' \in Sessions \cup {None} /\ DOMAIN tx' = Sessions
<1>1. tx'[s] = Idle /\ \A x \in Sessions \ {s} : tx'[x] = tx[x]
  BY DEF Inv, Stored
<1>2. Idle.op \notin Locking
  BY IdleFields DEF Ops
<1>. QED  BY <1>1, <1>2 DEF Inv, Stored, Holding

LEMMA EndPays ==
    ASSUME Inv, NEW s \in Sessions, End(s)
    PROVE  FirstDeciderIsPaid' /\ (first # None => first' # None)
<1>1. /\ tx[s].step = "end" /\ DecidingOK(tx[s]) /\ ArgOK(db, tx[s])
      /\ first' = IF first = None /\ tx[s].op = "decide" /\ tx[s].arg.status # "pending"
                  THEN tx[s].arg.by ELSE first
  BY Committing DEF End, SessionOK
<1>2. first # None => first' # None
  BY <1>1
<1>3. FirstDeciderIsPaid
  BY DEF Inv
<1>4. CASE Deciding(tx[s]) /\ tx[s].credits
  <2>1. db.credits = <<>>
    BY <1>1, <1>4 DEF DecidingOK
  <2>2. first = None
    BY <1>3, <2>1 DEF FirstDeciderIsPaid
  <2>3. tx[s].op = "decide" /\ tx[s].arg.status # "pending"
    BY <1>4 DEF Deciding
  <2>4. tx[s].arg.by \in Counselors /\ tx[s].arg.by # None
    BY <1>1, <2>3, IntakeAssumption DEF ArgOK
  <2>5. first' = tx[s].arg.by
    BY <1>1, <2>2, <2>3
  <2>6. db'.credits = Append(db.credits, tx[s].arg.by)
    BY <1>4, <2>3, Committed
  <2>7. db'.credits = <<tx[s].arg.by>>
    BY <2>1, <2>6
  <2>. QED  BY <1>2, <2>4, <2>5, <2>7 DEF FirstDeciderIsPaid
<1>5. CASE ~(Deciding(tx[s]) /\ tx[s].credits)
  <2>1. ~tx[s].credits
    BY <1>1, <1>5 DEF DecidingOK
  <2>2. db'.credits = db.credits
    BY <2>1, Committed
  <2>3. first' = first
    BY <1>1, <2>1 DEF DecidingOK, Deciding
  <2>. QED  BY <1>2, <1>3, <2>2, <2>3 DEF FirstDeciderIsPaid
<1>. QED  BY <1>4, <1>5

LEMMA EndKeeps ==
    ASSUME Inv, NEW s \in Sessions, End(s)
    PROVE  Inv'
<1>1. PICK t : t = tx[s]
  OBVIOUS
<1>2. /\ Active(t) /\ SessionOK(t) /\ t.op \in Ops /\ ArgOK(db, t)
      /\ \A x \in Sessions \ {s} : Active(tx[x]) => ~tx[x].alone
  BY <1>1, Committing
<1>3. /\ tx' = [tx EXCEPT ![s] = Idle] /\ lock' = IF lock = s THEN None ELSE lock
      /\ UNCHANGED agenda
  BY DEF End
<1>4. tx'[s] = Idle /\ \A x \in Sessions \ {s} : tx'[x] = tx[x]
  BY <1>3 DEF Inv, Stored
<1>5. PICK outcome \in {"noted", "applied"} :
         receipts' = IF t.op = "screen" THEN [receipts EXCEPT ![t.arg] = outcome] ELSE receipts
  BY <1>1 DEF End
<1>6. receipts \in [Events -> {"none", "noted", "applied"}] /\ (t.op = "screen" => t.arg \in Events)
  BY <1>2 DEF Inv, Stored, ArgOK
<1>7. /\ receipts' \in [Events -> {"none", "noted", "applied"}]
      /\ t.op = "screen" => receipts'[t.arg] # "none"
      /\ \A e \in Events : t.op # "screen" \/ e # t.arg => receipts'[e] = receipts[e]
      /\ \A e \in Events : receipts[e] # "none" => receipts'[e] # "none"
  BY <1>5, <1>6
<1>8. ASSUME NEW x \in Sessions \ {s} PROVE SessionOK(tx[x])'
  <2>1. PICK y : y = tx[x]
    OBVIOUS
  <2>2. SessionOK(y) /\ (Active(y) => ~y.alone)
    BY <1>2, <2>1 DEF Inv
  <2>3. ~(y.credits /\ t.credits) /\ (y.op = "screen" /\ t.op = "screen" => y.arg # t.arg)
        /\ (y.op \in SessionOps \ {"session"} => t.op \notin SessionOps)
    BY <1>1, <2>1 DEF Inv, Exclusion
  <2>4. y.credits => db'.credits = db.credits
    BY <1>1, <2>3, Committed
  <2>5. y.op \in SessionOps \ {"session"} =>
           db'.benefit = db.benefit /\ db'.counselor = db.counselor
    <3>. SUFFICES ASSUME y.op \in SessionOps \ {"session"}
         PROVE  db'.benefit = db.benefit /\ db'.counselor = db.counselor
      OBVIOUS
    <3>1. y.op \in Locking
      BY DEF SessionOps, Locking
    <3>2. lock = x
      BY <2>1, <3>1 DEF Inv, Holding
    <3>3. t.op \notin Locking
      BY <1>1, <3>2 DEF Inv, Holding
    <3>. QED  BY <1>1, <2>3, <3>3, Committed DEF Locking
  <2>6. y.op = "screen" => receipts'[y.arg] = receipts[y.arg]
    <3>. SUFFICES ASSUME y.op = "screen" PROVE receipts'[y.arg] = receipts[y.arg]
      OBVIOUS
    <3>1. Active(y)
      BY IdleFields DEF Active, Ops
    <3>2. y.arg \in Events
      BY <2>2, <3>1 DEF SessionOK, Shape, ArgOK
    <3>. QED  BY <1>7, <2>3, <3>2
  <2>7. DOMAIN db.assigned \subseteq DOMAIN db'.assigned /\ (first # None => first' # None)
    BY Committed, EndPays
  <2>8. SessionOK(y)'
    BY <1>3, <2>2, <2>4, <2>5, <2>6, <2>7, SessionKept
  <2>. QED  BY <1>4, <2>1, <2>8
<1>9. SessionOK(tx[s])'
  BY <1>4, IdleOKNext
<1>10. taken' \in Seq(Events) /\ \A i \in DOMAIN taken' : receipts'[taken'[i]] # "none"
  <2>1. /\ taken \in Seq(Events)
        /\ \A i \in DOMAIN taken : taken[i] \in Events /\ receipts[taken[i]] # "none"
    BY DEF Inv, Stored
  <2>2. CASE t.op = "screen" /\ t.saw # None
    <3>1. taken' = Append(taken, t.arg)
      BY <1>1, <2>2 DEF End
    <3>. QED  BY <1>6, <1>7, <2>1, <2>2, <3>1
  <2>3. CASE ~(t.op = "screen" /\ t.saw # None)
    <3>1. taken' = taken
      BY <1>1, <2>3 DEF End
    <3>. QED  BY <1>7, <2>1, <3>1
  <2>. QED  BY <2>2, <2>3
<1>11. Stored'
  BY <1>3, <1>7, <1>10, Committed, HoldingKept DEF Inv, Stored
<1>. QED  BY <1>3, <1>8, <1>9, <1>11, EndPays, ExclusionKept, HoldingKept DEF Inv

LEMMA RollbackKeeps ==
    ASSUME Inv, NEW s \in Sessions, Rollback(s)
    PROVE  Inv'
<1>1. /\ tx' = [tx EXCEPT ![s] = Idle] /\ lock' = IF lock = s THEN None ELSE lock
      /\ UNCHANGED <<agenda, db, receipts, first, taken>>
  BY DEF Rollback
<1>2. ASSUME NEW x \in Sessions PROVE SessionOK(tx[x])'
  <2>1. PICK y : y = tx'[x]
    OBVIOUS
  <2>2. SessionOK(y)
    BY <1>1, <2>1, IdleOK DEF Inv, Stored
  <2>3. SessionOK(y)'
    BY <1>1, <2>2 DEF SessionOK, Shape, DecidingOK, Deciding, BookingOK, AloneOK, Status
  <2>. QED  BY <2>1, <2>3
<1>3. Stored'
  BY <1>1, HoldingKept DEF Inv, Stored
<1>. QED  BY <1>1, <1>2, <1>3, ExclusionKept, HoldingKept DEF Inv, FirstDeciderIsPaid

-----------------------------------------------------------------------------
(* Publications, expiry, and all steps.                                    *)

\* Columns that no publication and no expiry touches.
Untouched == {"accepted", "written", "counselor", "assignment", "benefit", "credits", "log"}

LEMMA ElsewhereKeeps ==
    ASSUME Inv, NEW d, Elsewhere(d), DbOK(d), DOMAIN d.assigned = DOMAIN db.assigned,
           \A k \in Untouched : d[k] = db[k]
    PROVE  Inv'
<1>1. /\ db' = d /\ UNCHANGED <<agenda, receipts, lock, first, taken>>
      /\ tx' = [s \in Sessions |->
                   IF tx[s] = Idle THEN Idle ELSE [tx[s] EXCEPT !.alone = FALSE]]
  BY DEF Elsewhere
<1>2. /\ d.credits = db.credits /\ d.benefit = db.benefit /\ d.counselor = db.counselor
  BY DEF Untouched
<1>3. ASSUME NEW x \in Sessions
      PROVE  /\ SessionOK(tx[x])'
             /\ tx'[x].op = tx[x].op /\ tx'[x].arg = tx[x].arg
             /\ tx'[x].credits = tx[x].credits
             /\ Active(tx'[x]) => ~tx'[x].alone
  <2>1. CASE tx[x] = Idle
    BY <1>1, <2>1, IdleOKNext DEF Active
  <2>2. CASE tx[x] # Idle
    <3>1. PICK y : y = [tx[x] EXCEPT !.alone = FALSE]
      OBVIOUS
    <3>2. tx'[x] = y
      BY <1>1, <2>2, <3>1
    <3>3. SessionOK(tx[x]) /\ Active(tx[x])
      BY <2>2 DEF Inv, Active
    <3>4. /\ SessionOK(y) /\ Active(y) /\ ~y.alone
          /\ y.op = tx[x].op /\ y.arg = tx[x].arg /\ y.credits = tx[x].credits
      BY <3>1, <3>3, Unaccompanied, IdleFields
    <3>5. /\ DOMAIN db.assigned \subseteq DOMAIN db'.assigned
          /\ db'.credits = db.credits /\ db'.benefit = db.benefit
          /\ db'.counselor = db.counselor /\ first' = first
          /\ receipts'[y.arg] = receipts[y.arg] /\ agenda' = agenda
      BY <1>1, <1>2
    <3>6. SessionOK(y)'
      BY <3>4, <3>5, SessionKept
    <3>. QED  BY <3>2, <3>4, <3>6
  <2>. QED  BY <2>1, <2>2
<1>4. Exclusion'
  <2>. SUFFICES ASSUME NEW x \in Sessions, NEW y \in Sessions, x # y
       PROVE  /\ Active(tx'[x]) /\ tx'[x].alone => tx'[y] = Idle
              /\ ~(tx'[x].credits /\ tx'[y].credits)
              /\ tx'[x].op = "screen" /\ tx'[y].op = "screen" => tx'[x].arg # tx'[y].arg
              /\ tx'[x].op \in SessionOps \ {"session"} => tx'[y].op \notin SessionOps
    BY DEF Exclusion, Active
  <2>. QED  BY <1>3 DEF Inv, Exclusion
<1>5. Holding'
  BY <1>1, <1>3 DEF Inv, Holding
<1>6. Stored'
  BY <1>1 DEF Inv, Stored
<1>7. FirstDeciderIsPaid'
  BY <1>1, <1>2 DEF Inv, FirstDeciderIsPaid
<1>8. ASSUME NEW x \in Sessions PROVE SessionOK(tx[x])'
  BY <1>3
<1>. QED  BY <1>4, <1>5, <1>6, <1>7, <1>8 DEF Inv

LEMMA PublishKeeps ==
    ASSUME Inv, NEW policy \in Policies, Publish(policy)
    PROVE  Inv'
<1>1. PICK d : d = [db EXCEPT !.current[policy] = @ + 1]
  OBVIOUS
<1>2. Elsewhere(d) /\ db.current[policy] < MaxVersion
  BY <1>1 DEF Publish
<1>3. DbOK(db) /\ DOMAIN db = Columns /\ db.current \in [Policies -> 1..MaxVersion]
  BY DEF Inv, Stored, DbOK
<1>4. /\ DOMAIN d = Columns /\ \A k \in Columns \ {"current"} : d[k] = db[k]
      /\ d.current = [db.current EXCEPT ![policy] = @ + 1]
  BY <1>1, <1>3 DEF Columns
<1>5. d.current \in [Policies -> 1..MaxVersion]
  BY <1>2, <1>3, <1>4, IntakeAssumption
<1>6. /\ d.accepted = db.accepted /\ d.assigned = db.assigned
      /\ d.counselor = db.counselor /\ d.assignment = db.assignment
      /\ d.decision = db.decision /\ d.case = db.case /\ d.benefit = db.benefit
      /\ d.written = db.written
  BY <1>4 DEF Columns
<1>7. DbOK(d)
  BY <1>3, <1>4, <1>5, <1>6 DEF DbOK
<1>8. \A k \in Untouched : d[k] = db[k]
  BY <1>4 DEF Untouched, Columns
<1>. QED  BY <1>2, <1>6, <1>7, <1>8, ElsewhereKeeps

\* One column among those that expire gets another value of its type.
LEMMA ExpireKeeps ==
    ASSUME Inv, NEW what \in Expiring, Expire(what)
    PROVE  Inv'
<1>0. DbOK(db) /\ DOMAIN db = Columns /\ db.assigned \in Seq(Assignment)
      /\ db.decision \in {None} \cup Decision /\ db.case \in {None} \cup Case
  BY DEF Inv, Stored, DbOK
<1>1. CASE \E i \in DOMAIN db.assigned :
              Elsewhere([db EXCEPT !.assigned[i].expired = TRUE])
  <2>1. PICK i \in DOMAIN db.assigned : Elsewhere([db EXCEPT !.assigned[i].expired = TRUE])
    BY <1>1
  <2>2. PICK d : d = [db EXCEPT !.assigned[i].expired = TRUE]
    OBVIOUS
  <2>3. PICK a : a = [db.assigned[i] EXCEPT !.expired = TRUE]
    OBVIOUS
  <2>4. a \in Assignment
    <3>1. db.assigned[i] \in Assignment
      BY <1>0
    <3>. QED  BY <2>3, <3>1 DEF Assignment
  <2>5. /\ DOMAIN d = Columns /\ \A k \in Columns \ {"assigned"} : d[k] = db[k]
        /\ d.assigned = [db.assigned EXCEPT ![i] = a]
    BY <1>0, <2>2, <2>3 DEF Columns
  <2>6. /\ d.assigned \in Seq(Assignment) /\ Len(d.assigned) = Len(db.assigned)
        /\ DOMAIN d.assigned = DOMAIN db.assigned
    BY <1>0, <2>4, <2>5
  <2>7. /\ d.current = db.current /\ d.accepted = db.accepted
        /\ d.counselor = db.counselor /\ d.assignment = db.assignment
        /\ d.decision = db.decision /\ d.case = db.case /\ d.benefit = db.benefit
        /\ d.written = db.written
    BY <2>5 DEF Columns
  <2>8. DbOK(d)
    BY <1>0, <2>5, <2>6, <2>7 DEF DbOK
  <2>9. \A k \in Untouched : d[k] = db[k]
    BY <2>5 DEF Untouched, Columns
  <2>. QED  BY <2>1, <2>2, <2>6, <2>8, <2>9, ElsewhereKeeps
<1>2. CASE db.decision # None /\ Elsewhere([db EXCEPT !.decision.expired = TRUE])
  <2>1. PICK d : d = [db EXCEPT !.decision.expired = TRUE]
    OBVIOUS
  <2>2. /\ DOMAIN d = Columns /\ \A k \in Columns \ {"decision"} : d[k] = db[k]
        /\ d.decision = [db.decision EXCEPT !.expired = TRUE]
    BY <1>0, <2>1 DEF Columns
  <2>3. d.decision \in Decision
    BY <1>0, <1>2, <2>2 DEF Decision
  <2>4. /\ d.current = db.current /\ d.accepted = db.accepted /\ d.assigned = db.assigned
        /\ d.counselor = db.counselor /\ d.assignment = db.assignment
        /\ d.case = db.case /\ d.benefit = db.benefit /\ d.written = db.written
    BY <2>2 DEF Columns
  <2>5. DbOK(d)
    BY <1>0, <2>2, <2>3, <2>4 DEF DbOK
  <2>6. \A k \in Untouched : d[k] = db[k]
    BY <2>2 DEF Untouched, Columns
  <2>. QED  BY <1>2, <2>1, <2>4, <2>5, <2>6, ElsewhereKeeps
<1>3. CASE db.case # None /\ Elsewhere([db EXCEPT !.case.until = "past"])
  <2>1. PICK d : d = [db EXCEPT !.case.until = "past"]
    OBVIOUS
  <2>2. /\ DOMAIN d = Columns /\ \A k \in Columns \ {"case"} : d[k] = db[k]
        /\ d.case = [db.case EXCEPT !.until = "past"]
    BY <1>0, <2>1 DEF Columns
  <2>3. d.case \in Case
    BY <1>0, <1>3, <2>2 DEF Case
  <2>4. /\ d.current = db.current /\ d.accepted = db.accepted /\ d.assigned = db.assigned
        /\ d.counselor = db.counselor /\ d.assignment = db.assignment
        /\ d.decision = db.decision /\ d.benefit = db.benefit /\ d.written = db.written
    BY <2>2 DEF Columns
  <2>5. DbOK(d)
    BY <1>0, <2>2, <2>3, <2>4 DEF DbOK
  <2>6. \A k \in Untouched : d[k] = db[k]
    BY <2>2 DEF Untouched, Columns
  <2>. QED  BY <1>3, <2>1, <2>4, <2>5, <2>6, ElsewhereKeeps
<1>. QED  BY <1>1, <1>2, <1>3 DEF Expire

LEMMA InvInit == Init => Inv
<1>. SUFFICES ASSUME Init PROVE Inv
  OBVIOUS
<1>1. /\ agenda \in Agendas /\ receipts = [e \in Events |-> "none"] /\ lock = None
      /\ tx = [s \in Sessions |-> Idle] /\ first = None /\ taken = <<>>
  BY DEF Init
<1>2. /\ DOMAIN db = Columns /\ db.current = [p \in Policies |-> 1] /\ db.accepted = {}
      /\ db.assigned = <<>> /\ db.counselor = None /\ db.assignment = 0
      /\ db.decision = None /\ db.case = None /\ db.benefit = None /\ db.credits = <<>>
      /\ db.written = [k \in Stamped |-> None]
  BY DEF Init, Columns
<1>3. DbOK(db)
  <2>1. 1 \in 1..MaxVersion /\ MaxAssigned \in Nat
    BY IntakeAssumption
  <2>2. db.current \in [Policies -> 1..MaxVersion]
    BY <1>2, <2>1
  <2>3. db.assigned \in Seq(Assignment) /\ Len(db.assigned) <= MaxAssigned
    BY <1>2, <2>1
  <2>. QED  BY <1>2, <2>2, <2>3 DEF DbOK
<1>4. Stored
  BY <1>1, <1>3 DEF Stored
<1>5. Exclusion /\ Holding
  BY <1>1, IdleFields DEF Exclusion, Holding, Active, Ops, SessionOps, Locking
<1>6. FirstDeciderIsPaid
  BY <1>1, <1>2 DEF FirstDeciderIsPaid
<1>. QED  BY <1>1, <1>4, <1>5, <1>6, IdleOK DEF Inv

LEMMA InvStutter ==
    ASSUME Inv, UNCHANGED vars
    PROVE  Inv'
<1>1. UNCHANGED <<agenda, db, receipts, lock, tx, first, taken>>
  BY DEF vars
<1>2. ASSUME NEW x \in Sessions PROVE SessionOK(tx[x])'
  <2>1. PICK y : y = tx[x]
    OBVIOUS
  <2>2. SessionOK(y)'
    BY <1>1, <2>1 DEF Inv, SessionOK, Shape, DecidingOK, Deciding, BookingOK, AloneOK, Status
  <2>. QED  BY <1>1, <2>1, <2>2
<1>3. Stored' /\ FirstDeciderIsPaid' /\ Exclusion' /\ Holding'
  BY <1>1 DEF Inv, Stored, FirstDeciderIsPaid, Exclusion, Holding
<1>. QED  BY <1>2, <1>3 DEF Inv

LEMMA InvNext == Inv /\ [Next]_vars => Inv'
BY CommandKeeps, WriteKeeps, EndKeeps, RollbackKeeps, PublishKeeps, ExpireKeeps, InvStutter
DEF Next

\* The inductive invariant holds always.
THEOREM InvAlways == Spec => []Inv
BY InvInit, InvNext, PTL DEF Spec

\* Rows and transactions keep their types.
THEOREM TypeCorrect == Spec => []TypeOK
<1>1. Inv => TypeOK
  BY DEF Inv, Stored, DbOK, SessionOK, Shape, Active, TypeOK, Assignment, Decision, Case,
         Benefit
<1>. QED  BY <1>1, InvAlways, PTL

\* Whatever decisions overlap, the counselor whose decision committed first
\* has the one credit of a member.
THEOREM FirstDeciderIsPaidCorrect == Spec => []FirstDeciderIsPaid
<1>1. Inv => FirstDeciderIsPaid
  BY DEF Inv
<1>. QED  BY <1>1, InvAlways, PTL

-----------------------------------------------------------------------------
(* What a step may never do.                                               *)

\* Only a commit changes the benefit and the events taken.
LEMMA OnlyCommits ==
    ASSUME Inv, [Next]_vars
    PROVE  \/ \E s \in Sessions : End(s)
           \/ db'.benefit = db.benefit /\ taken' = taken
<1>1. CASE \E s \in Sessions : Command(s) \/ Write(s) \/ Rollback(s)
  BY <1>1 DEF Command, Accept, SaveProfile, GetProgress, SubmitAssessment, AssignCounselor,
     RecordDecision, ReceiveScreening, GetSession, ScheduleSession, CancelSession,
     CompleteSession, Begin, Write, Rollback
<1>2. ASSUME NEW policy \in Policies, Publish(policy)
      PROVE  db'.benefit = db.benefit /\ taken' = taken
  BY <1>2 DEF Publish, Elsewhere, Inv, Stored, DbOK, Columns
<1>3. ASSUME NEW what \in Expiring, Expire(what)
      PROVE  db'.benefit = db.benefit /\ taken' = taken
  BY <1>3 DEF Expire, Elsewhere, Inv, Stored, DbOK, Columns
<1>4. CASE UNCHANGED vars
  BY <1>4 DEF vars
<1>. QED  BY <1>1, <1>2, <1>3, <1>4 DEF Next

\* A session is completed only by the counselor it is booked with, who is
\* then the assigned one; completed is final.
THEOREM SessionEndsWithAssignedCorrect == Spec => SessionEndsWithAssigned
<1>. DEFINE P == db'.benefit # db.benefit /\ "completed" \in {Status, Status'} =>
                    /\ Status = "scheduled"
                    /\ db'.benefit.by = db.benefit.by
                    /\ db'.benefit.by = db'.counselor
<1>1. ASSUME Inv, NEW s \in Sessions, End(s) PROVE P
  <2>1. PICK t : t = tx[s]
    OBVIOUS
  <2>2. DbOK(db) /\ BookingOK(t) /\ t.op \in Ops
    BY <1>1, <2>1, Committing DEF Inv, Stored, SessionOK
  <2>3. CASE t.op \notin SessionOps
    BY <1>1, <2>1, <2>3, Committed
  <2>7. t.op \in SessionOps => db'.benefit = Effect(db, t).benefit
    BY <1>1, <2>1, Committed
  <2>4. CASE t.op = "session"
    <3>1. db'.benefit = IF db.benefit = None THEN [status |-> "available", by |-> None]
                        ELSE db.benefit
      BY <2>2, <2>7, <2>4, EffectBooks DEF SessionOps
    <3>2. CASE db.benefit = None
      <4>1. Status = "available" /\ (db'.benefit # None => Status' = "available")
            /\ (db'.benefit = None => Status' = "available")
        BY <3>1, <3>2 DEF Status
      <4>. QED  BY <4>1
    <3>. QED  BY <3>1, <3>2
  <2>5. CASE t.op = "schedule"
    <3>0. Effect(db, t).benefit = [status |-> "scheduled", by |-> t.arg]
      BY <2>2, <2>5, EffectBooks
    <3>9. t.op \in SessionOps
      BY <2>5 DEF SessionOps
    <3>1. db'.benefit = [status |-> "scheduled", by |-> t.arg]
      BY <2>7, <3>0, <3>9
    <3>2. Status' \in {"available", "scheduled"} /\ Status # "completed"
      BY <2>2, <2>5, <3>1 DEF Status, BookingOK
    <3>. QED  BY <3>2
  <2>6. CASE t.op \in {"cancel", "complete"}
    <3>1. PICK status \in {"cancelled", "completed"} :
             /\ db'.benefit = [db.benefit EXCEPT !.status = status]
             /\ t.op = "cancel" => status = "cancelled"
      BY <2>2, <2>7, <2>6, EffectBooks DEF SessionOps
    <3>2. db.benefit # None /\ db.benefit.status = "scheduled" /\ db.benefit \in Benefit
      BY <2>2, <2>6 DEF BookingOK, DbOK
    <3>3. db'.benefit.status = status /\ db'.benefit.by = db.benefit.by
      BY <3>1, <3>2 DEF Benefit
    <3>4. Status = "scheduled" /\ Status' \in {"available", status}
      BY <3>2, <3>3 DEF Status
    <3>5. t.op = "complete" => db.benefit.by = db.counselor /\ db'.counselor = db.counselor
      BY <1>1, <2>1, <2>2, Committed DEF BookingOK
    <3>. QED  BY <2>6, <3>1, <3>3, <3>4, <3>5
  <2>. QED  BY <2>3, <2>4, <2>5, <2>6 DEF SessionOps
<1>2. Inv /\ [Next]_vars => P
  <2>1. Inv /\ [Next]_vars /\ db'.benefit # db.benefit => \E s \in Sessions : End(s)
    BY OnlyCommits
  <2>. QED  BY <1>1, <2>1
<1>3. Inv /\ [Next]_vars => [P]_vars
  BY <1>2
<1>. QED  BY <1>3, InvAlways, PTL DEF Spec, SessionEndsWithAssigned

\* A screening event is applied once; handled alone it leaves its own result.
THEOREM ScreeningOnceCorrect == Spec => ScreeningOnce
<1>. DEFINE P == taken' # taken =>
                    LET e == taken'[Len(taken')] IN
                    /\ \A i \in DOMAIN taken : taken[i] # e
                    /\ \A s \in Sessions :
                          tx[s].arg = e /\ tx[s].op = "screen" /\ tx[s].alone =>
                             db'.case = [Result(e) EXCEPT !.ref = db'.case.ref]
<1>1. ASSUME Inv, NEW s \in Sessions, End(s), taken' # taken PROVE P
  <2>1. PICK t : t = tx[s]
    OBVIOUS
  <2>2. t.op = "screen" /\ t.saw # None /\ taken' = Append(taken, t.arg)
    BY <1>1, <2>1 DEF End
  <2>3. /\ t.arg \in Events /\ Result(t.arg) \in Case /\ receipts[t.arg] = "none"
        /\ Active(t) /\ AloneOK(t)
    BY <1>1, <2>1, <2>2, Committing DEF ArgOK, SessionOK
  <2>4. taken \in Seq(Events) /\ \A i \in DOMAIN taken : receipts[taken[i]] # "none"
    BY <1>1 DEF Inv, Stored
  <2>5. taken'[Len(taken')] = t.arg
    BY <2>2, <2>3, <2>4
  <2>6. \A i \in DOMAIN taken : taken[i] # t.arg
    BY <2>3, <2>4
  <2>7. ASSUME NEW x \in Sessions, tx[x].arg = t.arg, tx[x].op = "screen", tx[x].alone
        PROVE  db'.case = [Result(t.arg) EXCEPT !.ref = db'.case.ref]
    <3>1. x = s
      BY <1>1, <2>1, <2>2, <2>7 DEF Inv, Exclusion
    <3>2. t.seen = db.case
      BY <2>1, <2>2, <2>3, <2>7, <3>1 DEF AloneOK
    <3>3. db'.case = Screened(db.case, db.case, t.arg) /\ db.case \in {None} \cup Case
      BY <1>1, <2>1, <2>2, <3>2, Committed DEF Inv, Stored, DbOK
    <3>4. Screened(db.case, db.case, t.arg) = Result(t.arg)
      <4>1. CASE db.case = None
        BY <4>1 DEF Screened
      <4>2. CASE db.case # None
        <5>1. PICK r : r = Result(t.arg)
          OBVIOUS
        <5>2. PICK c : c = db.case
          OBVIOUS
        <5>3. r \in Case /\ c \in Case
          BY <2>3, <3>3, <4>2, <5>1, <5>2
        <5>4. Screened(db.case, db.case, t.arg) =
                 [k \in DOMAIN c |-> IF c[k] = r[k] /\ ~(k = "until" /\ r[k] = "later")
                                     THEN c[k] ELSE r[k]]
          BY <4>2, <5>1, <5>2 DEF Screened
        <5>5. Screened(db.case, db.case, t.arg) = [k \in DOMAIN c |-> r[k]]
          BY <5>4
        <5>6. [k \in DOMAIN c |-> r[k]] = r
          BY <5>3 DEF Case
        <5>. QED  BY <5>1, <5>5, <5>6
      <4>. QED  BY <4>1, <4>2
    <3>. QED  BY <2>3, <3>3, <3>4 DEF Case
  <2>. QED  BY <2>5, <2>6, <2>7
<1>2. Inv /\ [Next]_vars => P
  <2>1. Inv /\ [Next]_vars /\ taken' # taken => \E s \in Sessions : End(s)
    BY OnlyCommits
  <2>. QED  BY <1>1, <2>1
<1>3. Inv /\ [Next]_vars => [P]_vars
  BY <1>2
<1>. QED  BY <1>3, InvAlways, PTL DEF Spec, ScreeningOnce

\* An evaluation that nothing overlaps leaves a latest decision that agrees
\* with the evidence.
THEOREM LogCatchesUpCorrect == Spec => LogCatchesUp
<1>. DEFINE P == \A s \in Sessions :
                    End(s) /\ tx[s].saw # None /\ tx[s].alone => db'.log = Reading(db')
<1>1. ASSUME Inv, NEW s \in Sessions, End(s), tx[s].saw # None, tx[s].alone
      PROVE  db'.log = Reading(db')
  <2>1. /\ tx[s].saw = Reading(Assigned(Effect(db, tx[s]), tx[s].assigns))
        /\ ~tx[s].logs => tx[s].saw = db.log
    BY <1>1, Committing DEF SessionOK, AloneOK
  <2>. QED  BY <1>1, <2>1, Committed
<1>2. Inv /\ [Next]_vars => P
  BY <1>1
<1>3. Inv /\ [Next]_vars => [P]_vars
  BY <1>2
<1>. QED  BY <1>3, InvAlways, PTL DEF Spec, LogCatchesUp
=============================================================================
