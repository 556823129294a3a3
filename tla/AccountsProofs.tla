--------------------------- MODULE AccountsProofs ---------------------------
(***************************************************************************)
(* Proofs about Accounts for any number of people, sessions and            *)
(* invitations.                                                            *)
(***************************************************************************)
EXTENDS Accounts, FiniteSetTheorems, TLAPS

Account == {NoAccount} \cup [role : Roles, status : {"active", "disabled"}]
Invitation == [email : People, role : Roles \ {"admin"},
               expired : BOOLEAN, by : People \cup {None}]

\* What a rerun carries from step to step.
Rerunning(steps, args) ==
    [step : steps, who : People, role : Roles, arg : args, stale : BOOLEAN]
Transaction ==
    {Idle} \cup Rerunning({"acting", "reconcile"}, {None})
           \cup Rerunning({"create"}, Nat \cup {None})
           \cup Rerunning({"disable"}, [target : People, counted : SUBSET People])
           \cup Rerunning({"invite"}, [email : People, role : Roles \ {"admin"}])

Present(p) == account[p].status # "absent"

\* What the actor of a rerun owes to its lookup.
ActorOK(t) ==
    t # Idle =>
        /\ t.role = "admin" <=> t.who \in listed
        /\ t.step # "create" => Present(t.who)
        /\ t.step # "create" /\ ~t.stale => account[t.who].status = "active"
        /\ t.step \notin {"create", "reconcile"} /\ ~t.stale =>
              account[t.who].role = t.role

\* The invitation that a first sign-in is about to accept is its own.
CreatingOK(t) ==
    t.step = "create" /\ t.arg # None =>
        t.arg \in DOMAIN invitations /\ invitations[t.arg].email = t.who

\* Somebody else was counted besides an administrator about to be disabled.
DisablingOK(t) ==
    t.step = "disable" =>
        /\ t.role = "admin"
        /\ t.arg.target # t.who
        /\ Present(t.arg.target)
        /\ t.arg.target \in t.arg.counted =>
              \E q \in t.arg.counted : q # t.arg.target

SessionOK(t) == t \in Transaction /\ ActorOK(t) /\ CreatingOK(t) /\ DisablingOK(t)

Rows ==
    /\ account \in [People -> Account]
    /\ invitations \in Seq(Invitation) /\ Len(invitations) <= MaxInvitations
    /\ listed \subseteq People
    /\ lock \in [People -> Sessions \cup {None}]

\* The inductive invariant.
Inv ==
    /\ Rows
    /\ AcceptedOnce
    /\ tx \in [Sessions -> Transaction]
    /\ \A s \in Sessions : SessionOK(tx[s])

-----------------------------------------------------------------------------
(* Consequences.                                                           *)

LEMMA SessionType ==
    ASSUME NEW t \in Transaction, t # Idle
    PROVE  /\ t.who \in People /\ t.role \in Roles /\ t.stale \in BOOLEAN
           /\ t.step \in {"acting", "reconcile", "create", "disable", "invite"}
           /\ t.step \in {"acting", "reconcile"} => t.arg = None
           /\ t.step = "create" => t.arg \in Nat \cup {None}
           /\ t.step = "disable" => t.arg.target \in People /\ t.arg.counted \subseteq People
           /\ t.step = "invite" => t.arg \in [email : People, role : Roles \ {"admin"}]
           /\ t = [step |-> t.step, who |-> t.who, role |-> t.role,
                   arg |-> t.arg, stale |-> t.stale]
BY DEF Transaction, Rerunning

LEMMA InvTyped == ASSUME Inv PROVE TypeOK
<1>1. \A s \in Sessions : tx[s] # Idle => tx[s].who \in People /\ tx[s].role \in Roles
  BY SessionType DEF Inv
<1>2. account \in [People -> {NoAccount} \cup
          [role : Roles, status : {"active", "disabled"}]]
  BY DEF Inv, Rows, Account
<1>3. invitations \in Seq([email : People, role : Roles \ {"admin"},
                           expired : BOOLEAN, by : People \cup {None}])
  BY DEF Inv, Rows, Invitation
<1>. QED  BY <1>1, <1>2, <1>3 DEF TypeOK, Inv, Rows

LEMMA InvListed == ASSUME Inv PROVE ActsAsListed
BY DEF Inv, SessionOK, ActorOK, ActsAsListed, Idle

LEMMA InvRecent == ASSUME Inv PROVE ActorIsRecent
<1>. SUFFICES ASSUME NEW s \in Sessions,
                     tx[s].step \in {"acting", "disable", "invite"}, ~tx[s].stale
              PROVE  account[tx[s].who] = [role |-> tx[s].role, status |-> "active"]
  BY DEF ActorIsRecent
<1>1. tx[s] # Idle /\ tx[s].who \in People
  BY SessionType DEF Inv, Idle
<1>2. account[tx[s].who].status = "active" /\ account[tx[s].who].role = tx[s].role
  BY <1>1 DEF Inv, SessionOK, ActorOK
<1>3. account[tx[s].who] \in Account
  BY <1>1 DEF Inv, Rows
<1>. QED  BY <1>2, <1>3 DEF Account, NoAccount

-----------------------------------------------------------------------------
(* How the changes of one session reach the others.                        *)

\* The accounts of ps change and no account or invitation disappears.
Grows(ps) ==
    /\ listed' = listed
    /\ \A p \in People : Present(p) => Present(p)'
    /\ \A p \in People \ ps : account'[p] = account[p]
    /\ \A i \in DOMAIN invitations :
          i \in DOMAIN invitations' /\ invitations'[i].email = invitations[i].email

LEMMA OthersKept ==
    ASSUME NEW ps \in SUBSET People, Grows(ps),
           NEW t, SessionOK(t)
    PROVE  SessionOK(IF t.who \in ps THEN [t EXCEPT !.stale = TRUE] ELSE t)'
<1>. USE DEF SessionOK
<1>1. CASE t = Idle
  <2>1. Idle.who \notin ps
    BY AccountAssumption DEF Idle
  <2>. QED  BY <1>1, <2>1 DEF ActorOK, CreatingOK, DisablingOK, Idle, Transaction
<1>2. CASE t # Idle /\ t.who \notin ps
  <2>1. t.who \in People
    BY <1>2, SessionType
  <2>2. ActorOK(t)'
    BY <1>2, <2>1 DEF ActorOK, Grows, Present
  <2>3. CreatingOK(t)'
    BY DEF CreatingOK, Grows
  <2>4. DisablingOK(t)'
    BY <1>2, SessionType DEF DisablingOK, Grows
  <2>. QED  BY <1>2, <2>2, <2>3, <2>4
<1>3. CASE t # Idle /\ t.who \in ps
  <2>. DEFINE u == [t EXCEPT !.stale = TRUE]
  <2>1. /\ u.step = t.step /\ u.who = t.who /\ u.role = t.role /\ u.arg = t.arg
        /\ u.stale = TRUE /\ u \in Transaction /\ u # Idle
    BY <1>3, SessionType DEF Transaction, Rerunning, Idle
  <2>2. t.who \in People
    BY <1>3, SessionType
  <2>. HIDE DEF u
  <2>3. ActorOK(u)'
    BY <1>3, <2>1, <2>2 DEF ActorOK, Grows
  <2>4. CreatingOK(u)'
    BY <2>1 DEF CreatingOK, Grows
  <2>5. DisablingOK(u)'
    BY <1>3, <2>1, SessionType DEF DisablingOK, Grows
  <2>. QED  BY <1>3, <2>1, <2>3, <2>4, <2>5 DEF u
<1>. QED  BY <1>1, <1>2, <1>3

LEMMA IdleOK == SessionOK(Idle)
BY DEF SessionOK, ActorOK, CreatingOK, DisablingOK, Idle, Transaction

\* A session that moves to t after changing the accounts of ps.
LEMMA MovedKeeps ==
    ASSUME Inv, NEW s \in Sessions, NEW ps \in SUBSET People, NEW t,
           tx' = Moved(s, t, ps), Grows(ps), SessionOK(t)', Rows', AcceptedOnce'
    PROVE  Inv'
<1>1. ASSUME NEW x \in Sessions PROVE SessionOK(tx[x])'
  <2>1. CASE x = s
    BY <2>1 DEF Moved
  <2>2. CASE x # s
    <3>1. tx'[x] = IF tx[x].who \in ps THEN [tx[x] EXCEPT !.stale = TRUE] ELSE tx[x]
      BY <2>2 DEF Moved
    <3>2. SessionOK(tx[x])
      BY DEF Inv
    <3>. QED  BY <3>1, <3>2, OthersKept
  <2>. QED  BY <2>1, <2>2
<1>2. tx' \in [Sessions -> Transaction]
  BY <1>1 DEF Moved, SessionOK
<1>. QED  BY <1>1, <1>2 DEF Inv

\* Only the rerun of one session changes.
LEMMA OneSession ==
    ASSUME Inv, NEW s \in Sessions, NEW t, tx' = [tx EXCEPT ![s] = t],
           UNCHANGED <<account, invitations, listed>>, SessionOK(t),
           lock' \in [People -> Sessions \cup {None}]
    PROVE  Inv'
<1>1. tx' = Moved(s, t, {})
  BY DEF Moved, Inv
<1>2. Grows({})
  BY DEF Grows, Present
<1>3. SessionOK(t)'
  BY DEF SessionOK, ActorOK, CreatingOK, DisablingOK, Present
<1>4. Rows' /\ AcceptedOnce'
  BY DEF Inv, Rows, AcceptedOnce
<1>. QED  BY <1>1, <1>2, <1>3, <1>4, MovedKeeps

\* A rerun ends having changed the accounts of ps.
LEMMA FinishKeeps ==
    ASSUME Inv, NEW s \in Sessions, NEW ps \in SUBSET People, Finish(s, ps), Grows(ps),
           account' \in [People -> Account],
           invitations' \in Seq(Invitation), Len(invitations') <= MaxInvitations,
           AcceptedOnce'
    PROVE  Inv'
<1>1. tx' = Moved(s, Idle, ps)
  BY DEF Finish
<1>2. lock' \in [People -> Sessions \cup {None}]
  BY DEF Finish, Unlocked, Inv, Rows
<1>3. Rows'
  BY <1>2 DEF Rows, Inv, Grows
<1>4. SessionOK(Idle)'
  BY DEF SessionOK, ActorOK, CreatingOK, DisablingOK, Idle, Transaction
<1>. QED  BY <1>1, <1>3, <1>4, MovedKeeps

\* A rerun that ends having changed nothing.
LEMMA QuietFinish ==
    ASSUME Inv, NEW s \in Sessions, Finish(s, {}), UNCHANGED <<account, invitations, listed>>
    PROVE  Inv'
<1>1. Grows({})
  BY DEF Grows, Present
<1>. QED  BY <1>1, FinishKeeps DEF Inv, Rows, AcceptedOnce

-----------------------------------------------------------------------------
(* Signing in.                                                             *)

\* Of an account, at most one invitation was accepted, which was no
\* administrator's.
LEMMA RoleNowListed ==
    ASSUME Inv, NEW p \in People, Present(p)
    PROVE  RoleNow(p) \in Roles /\ (RoleNow(p) = "admin" <=> p \in listed)
<1>1. account[p] \in [role : Roles, status : {"active", "disabled"}]
  BY DEF Inv, Rows, Account, Present, NoAccount
<1>2. Restored(p) \in Roles \ {"admin"}
  <2>1. CASE Accepted(p) = {}
    BY <2>1 DEF Restored, Roles
  <2>2. CASE Accepted(p) # {}
    <3>1. PICK i \in DOMAIN invitations : i \in Accepted(p) /\ invitations[i].by = p
      BY <2>2 DEF Accepted
    <3>2. p # None
      BY AccountAssumption
    <3>3. Accepted(p) = {i}
      BY <3>1, <3>2 DEF Accepted, Inv, AcceptedOnce
    <3>4. i \in Nat
      BY <3>1 DEF Inv, Rows
    <3>5. Newest({i}) = i
      BY <3>4 DEF Newest
    <3>6. invitations[i] \in Invitation
      BY <3>1 DEF Inv, Rows
    <3>. QED  BY <2>2, <3>3, <3>5, <3>6 DEF Restored, Invitation
  <2>. QED  BY <2>1, <2>2
<1>. QED  BY <1>1, <1>2 DEF RoleNow, Roles

LEMMA SignInKeeps ==
    ASSUME Inv, NEW s \in Sessions, NEW p \in People, SignIn(s, p)
    PROVE  Inv'
<1>. lock' \in [People -> Sessions \cup {None}] /\ UNCHANGED <<account, invitations, listed>>
  BY DEF SignIn, Inv, Rows
<1>1. ASSUME NEW step \in {"acting", "reconcile"}, Present(p),
             step = "acting" => RoleNow(p) = account[p].role,
             tx' = [tx EXCEPT ![s] = At(step, p, RoleNow(p), None)]
      PROVE  Inv'
  <2>. DEFINE t == At(step, p, RoleNow(p), None)
  <2>1. RoleNow(p) \in Roles /\ (RoleNow(p) = "admin" <=> p \in listed)
    BY <1>1, RoleNowListed
  <2>2. t \in Transaction
    BY <1>1, <2>1 DEF At, Transaction, Rerunning
  <2>3. account[p].status = "active"
    BY <1>1 DEF SignIn, MayEnter, Present, Inv, Rows, Account, NoAccount
  <2>4. SessionOK(t)
    BY <1>1, <2>1, <2>2, <2>3
    DEF SessionOK, ActorOK, CreatingOK, DisablingOK, At
  <2>. QED  BY <1>1, <2>4, OneSession
<1>2. ASSUME NEW role \in Roles, NEW i \in (DOMAIN invitations) \cup {None},
             role = "admin" <=> p \in listed,
             i # None => invitations[i].email = p,
             tx' = [tx EXCEPT ![s] = At("create", p, role, i)]
      PROVE  Inv'
  <2>. DEFINE t == At("create", p, role, i)
  <2>1. i \in Nat \cup {None}
    BY DEF Inv, Rows
  <2>2. t \in Transaction
    BY <2>1 DEF At, Transaction, Rerunning
  <2>3. i # None => i \in DOMAIN invitations
    OBVIOUS
  <2>4. SessionOK(t)
    BY <1>2, <2>2, <2>3
    DEF SessionOK, ActorOK, CreatingOK, DisablingOK, At
  <2>. QED  BY <1>2, <2>4, OneSession
<1>3. ASSUME NEW i \in OpenFor(p)
      PROVE  /\ i \in DOMAIN invitations /\ invitations[i].email = p
             /\ invitations[i].role \in Roles \ {"admin"}
  <2>1. i \in DOMAIN invitations /\ invitations[i].email = p
    BY <1>3 DEF OpenFor
  <2>2. invitations[i] \in Invitation
    BY <2>1 DEF Inv, Rows
  <2>. QED  BY <2>1, <2>2 DEF Invitation
<1>4. CASE account[p].status # "absent"
  BY <1>1, <1>4 DEF SignIn, Present
<1>5. CASE account[p].status = "absent" /\ OpenFor(p) = {}
  BY <1>2, <1>5 DEF SignIn, Roles
<1>6. CASE account[p].status = "absent" /\ OpenFor(p) # {}
  <2>1. PICK i \in OpenFor(p) : tx' = [tx EXCEPT ![s] = At("create", p,
            IF p \in listed THEN "admin" ELSE invitations[i].role, i)]
    BY <1>6 DEF SignIn
  <2>2. (IF p \in listed THEN "admin" ELSE invitations[i].role) \in Roles
    BY <1>3 DEF Roles
  <2>. QED  BY <1>2, <1>3, <2>1, <2>2
<1>. QED  BY <1>4, <1>5, <1>6

\* No invitation was accepted by somebody without an account, and the one
\* that is accepted now was sent to the new account.
LEMMA CreateKeeps ==
    ASSUME Inv, NEW s \in Sessions, CreateAccount(s)
    PROVE  Inv'
<1>. DEFINE p == tx[s].who
            i == tx[s].arg
<1>0. PICK t : t = [tx[s] EXCEPT !.step = "acting", !.arg = None]
  OBVIOUS
<1>1. /\ p \in People /\ tx[s].role \in Roles /\ i \in Nat \cup {None}
      /\ tx[s].step = "create" /\ tx[s] # Idle /\ tx[s] \in Transaction
  BY SessionType DEF CreateAccount, Inv, Idle
<1>2. CASE Clash(p)
  BY <1>2, QuietFinish DEF CreateAccount
<1>3. CASE ~Clash(p)
  <2>1. /\ account' = [account EXCEPT ![p] = [role |-> tx[s].role, status |-> "active"]]
        /\ invitations' = IF i = None THEN invitations
                          ELSE [invitations EXCEPT ![i].by = p]
        /\ tx' = Moved(s, t, {p})
        /\ UNCHANGED <<lock, listed>>
    BY <1>0, <1>3 DEF CreateAccount
  <2>2. account[p].status = "absent"
    BY <1>3 DEF Clash
  <2>3. SessionOK(tx[s])
    BY DEF Inv
  <2>4. i # None => i \in DOMAIN invitations /\ invitations[i].email = p
    BY <1>1, <2>3 DEF SessionOK, CreatingOK
  <2>5. account' \in [People -> Account]
    BY <1>1, <2>1 DEF Inv, Rows, Account
  <2>6. /\ Len(invitations') = Len(invitations) /\ DOMAIN invitations' = DOMAIN invitations
        /\ invitations' \in Seq(Invitation)
        /\ \A j \in DOMAIN invitations :
              /\ invitations'[j].email = invitations[j].email
              /\ invitations'[j].by = IF j = i THEN p ELSE invitations[j].by
    <3>1. CASE i = None
      BY <2>1, <3>1, AccountAssumption DEF Inv, Rows
    <3>2. CASE i # None
      <4>1. invitations' = [invitations EXCEPT ![i].by = p] /\ i \in DOMAIN invitations
        BY <2>1, <2>4, <3>2
      <4>2. invitations \in Seq(Invitation)
        BY DEF Inv, Rows
      <4>3. \A j \in DOMAIN invitations : invitations[j] \in Invitation
        BY <4>2
      <4>4. [invitations[i] EXCEPT !.by = p] \in Invitation
        BY <1>1, <4>1, <4>3 DEF Invitation
      <4>5. \A j \in DOMAIN invitations :
               invitations'[j] = IF j = i THEN [invitations[i] EXCEPT !.by = p]
                                          ELSE invitations[j]
        BY <4>1
      <4>6. DOMAIN invitations' = DOMAIN invitations /\ Len(invitations') = Len(invitations)
            /\ invitations' \in Seq(Invitation)
        BY <4>1, <4>2, <4>4, <4>5
      <4>. QED  BY <4>3, <4>5, <4>6 DEF Invitation
    <3>. QED  BY <3>1, <3>2
  <2>7. \A j \in DOMAIN invitations : invitations[j].by # p
    BY <2>2, <1>1, AccountAssumption DEF Inv, AcceptedOnce
  <2>8. \A q \in People : account'[q].status = "absent" => account[q].status = "absent"
    BY <1>1, <2>1 DEF Inv, Rows
  <2>9. AcceptedOnce'
    <3>. SUFFICES ASSUME NEW j \in DOMAIN invitations, NEW k \in DOMAIN invitations,
                         invitations'[j].by # None
                  PROVE  /\ invitations'[j].email = invitations'[j].by
                         /\ account'[invitations'[j].by].status # "absent"
                         /\ invitations'[k].by = invitations'[j].by => j = k
      BY <2>6 DEF AcceptedOnce
    <3>1. CASE j = i
      BY <1>1, <2>1, <2>4, <2>6, <2>7, <3>1, AccountAssumption DEF Inv, Rows
    <3>2. CASE j # i
      <4>1. invitations'[j].by = invitations[j].by /\ invitations[j].by # None
        BY <2>6, <3>2
      <4>2. /\ invitations[j].email = invitations[j].by
            /\ account[invitations[j].by].status # "absent"
            /\ invitations[k].by = invitations[j].by => j = k
        BY <4>1 DEF Inv, AcceptedOnce
      <4>3. invitations[j] \in Invitation
        BY DEF Inv, Rows
      <4>4. invitations[j].by \in People
        BY <4>1, <4>3 DEF Invitation
      <4>. QED  BY <2>6, <2>7, <2>8, <4>1, <4>2, <4>4
    <3>. QED  BY <3>1, <3>2
  <2>10. Grows({p})
    BY <2>1, <2>6, <2>8 DEF Grows, Present, Inv, Rows
  <2>11. /\ t.step = "acting" /\ t.who = p /\ t.role = tx[s].role /\ t # Idle
         /\ t \in Transaction
    BY <1>0, <1>1, SessionType DEF Transaction, Rerunning, Idle
  <2>12. ActorOK(tx[s]) /\ account'[p] = [role |-> tx[s].role, status |-> "active"]
    BY <1>1, <2>1, <2>3 DEF SessionOK, Inv, Rows
  <2>13. SessionOK(t)'
    BY <1>1, <2>1, <2>11, <2>12
    DEF SessionOK, ActorOK, CreatingOK, DisablingOK, Present
  <2>14. Rows'
    BY <2>1, <2>5, <2>6 DEF Rows, Inv
  <2>. QED  BY <1>1, <2>1, <2>9, <2>10, <2>13, <2>14, MovedKeeps
<1>. QED  BY <1>2, <1>3

LEMMA ReconcileKeeps ==
    ASSUME Inv, NEW s \in Sessions, Reconcile(s)
    PROVE  Inv'
<1>. DEFINE p == tx[s].who
<1>0. PICK t : t = [tx[s] EXCEPT !.step = "acting"]
  OBVIOUS
<1>1. /\ p \in People /\ tx[s].role \in Roles /\ tx[s].arg = None
      /\ tx[s].step = "reconcile" /\ tx[s] # Idle /\ tx[s] \in Transaction
  BY SessionType DEF Reconcile, Inv, Idle
<1>2. SessionOK(tx[s])
  BY DEF Inv
<1>3. /\ account' = [account EXCEPT ![p].role = tx[s].role]
      /\ tx' = Moved(s, t, {p})
      /\ UNCHANGED <<invitations, listed, lock>>
  BY <1>0 DEF Reconcile
<1>4. account[p] \in [role : Roles, status : {"active", "disabled"}]
  BY <1>1, <1>2 DEF SessionOK, ActorOK, Present, Inv, Rows, Account, NoAccount
<1>5. account' \in [People -> Account] /\ account'[p].role = tx[s].role
  BY <1>1, <1>3, <1>4 DEF Inv, Rows, Account
<1>6. \A q \in People : account'[q].status = account[q].status
  BY <1>3, <1>4 DEF Inv, Rows
<1>7. Grows({p})
  BY <1>3, <1>6 DEF Grows, Present, Inv, Rows
<1>8. Rows' /\ AcceptedOnce'
  <2>1. \A i \in DOMAIN invitations : invitations[i] \in Invitation
    BY DEF Inv, Rows
  <2>2. AcceptedOnce'
    BY <1>3, <1>6, <2>1 DEF Inv, AcceptedOnce, Invitation
  <2>. QED  BY <1>3, <1>5, <2>2 DEF Inv, Rows
<1>9. /\ t.step = "acting" /\ t.who = p /\ t.role = tx[s].role /\ t # Idle
      /\ t.stale = tx[s].stale /\ t \in Transaction
  BY <1>0, <1>1, SessionType DEF Transaction, Rerunning, Idle
<1>10. ActorOK(tx[s])
  BY <1>2 DEF SessionOK
<1>11. SessionOK(t)'
  BY <1>1, <1>3, <1>5, <1>6, <1>9, <1>10
  DEF SessionOK, ActorOK, CreatingOK, DisablingOK, Present
<1>. QED  BY <1>1, <1>3, <1>7, <1>8, <1>11, MovedKeeps

-----------------------------------------------------------------------------
(* Commands.                                                               *)

\* One account with a role and a status becomes another.
LEMMA ChangeKeeps ==
    ASSUME Inv, NEW s \in Sessions, NEW p \in People,
           NEW new \in [role : Roles, status : {"active", "disabled"}],
           account' = [account EXCEPT ![p] = new], Finish(s, {p}),
           UNCHANGED <<invitations, listed>>
    PROVE  Inv'
<1>1. account' \in [People -> Account]
  BY DEF Inv, Rows, Account
<1>2. \A q \in People : account'[q] = (IF q = p THEN new ELSE account[q])
  BY DEF Inv, Rows
<1>3. Grows({p})
  BY <1>2 DEF Grows, Present
<1>4. AcceptedOnce'
  <2>1. \A i \in DOMAIN invitations : invitations[i] \in Invitation
    BY DEF Inv, Rows
  <2>. QED  BY <1>2, <2>1 DEF Inv, AcceptedOnce, Invitation
<1>. QED  BY <1>1, <1>3, <1>4, FinishKeeps DEF Inv, Rows

LEMMA ExistingAccount ==
    ASSUME Inv, NEW p \in People, Present(p)
    PROVE  account[p] \in [role : Roles, status : {"active", "disabled"}]
BY DEF Inv, Rows, Account, Present, NoAccount

\* Who was counted is kept, the target among them only with another.
LEMMA BeginDisableKeeps ==
    ASSUME Inv, NEW s \in Sessions, NEW p \in People, BeginDisable(s, p)
    PROVE  Inv'
<1>. DEFINE t == [tx[s] EXCEPT !.step = "disable",
                              !.arg = [target |-> p, counted |-> ActiveAdmins]]
<1>1. /\ tx[s].step = "acting" /\ tx[s] # Idle /\ tx[s].who \in People
      /\ tx[s].role \in Roles /\ tx[s].stale \in BOOLEAN /\ tx[s] \in Transaction
  BY SessionType DEF BeginDisable, Permitted, Inv, Idle
<1>2. tx[s].role = "admin"
  BY DEF BeginDisable, Permitted
<1>3. ActiveAdmins \subseteq People
  BY DEF ActiveAdmins, Inv, Rows
<1>4. /\ t.step = "disable" /\ t.who = tx[s].who /\ t.role = tx[s].role
      /\ t.stale = tx[s].stale /\ t.arg.target = p /\ t.arg.counted = ActiveAdmins
      /\ t # Idle /\ t \in Transaction
  BY <1>1, <1>3, SessionType DEF Transaction, Rerunning, Idle
<1>5. p \in ActiveAdmins => \E q \in ActiveAdmins : q # p
  <2>1. SUFFICES ASSUME p \in ActiveAdmins, \A q \in ActiveAdmins : q = p
                 PROVE  FALSE
    OBVIOUS
  <2>2. ActiveAdmins = {p}
    BY <2>1
  <2>3. account[p].role = "admin"
    BY <2>1 DEF ActiveAdmins
  <2>. QED  BY <2>2, <2>3, FS_Singleton DEF BeginDisable, OthersRemain
<1>6. Present(p) /\ p # tx[s].who
  BY DEF BeginDisable, Present
<1>7. SessionOK(tx[s])
  BY DEF Inv
<1>8. SessionOK(t)
  <2>. HIDE DEF t
  <2>. QED  BY <1>1, <1>2, <1>4, <1>5, <1>6, <1>7
       DEF SessionOK, ActorOK, CreatingOK, DisablingOK
<1>9. /\ tx' = [tx EXCEPT ![s] = t] /\ UNCHANGED <<account, invitations, listed>>
      /\ lock' \in [People -> Sessions \cup {None}]
  BY DEF BeginDisable, Inv, Rows
<1>. QED  BY <1>8, <1>9, OneSession

LEMMA EndDisableKeeps ==
    ASSUME Inv, NEW s \in Sessions, EndDisable(s)
    PROVE  Inv'
<1>. DEFINE p == tx[s].arg.target
            new == [account[p] EXCEPT !.status = "disabled"]
<1>1. tx[s] # Idle /\ SessionOK(tx[s]) /\ p \in People
  BY SessionType DEF EndDisable, Inv, Idle
<1>2. Present(p)
  BY <1>1 DEF EndDisable, SessionOK, DisablingOK
<1>3. new \in [role : Roles, status : {"active", "disabled"}]
  BY <1>1, <1>2, ExistingAccount
<1>4. account' = [account EXCEPT ![p] = new] /\ Finish(s, {p})
      /\ UNCHANGED <<invitations, listed>>
  BY DEF EndDisable
<1>. QED  BY <1>1, <1>3, <1>4, ChangeKeeps

LEMMA ReactivateKeeps ==
    ASSUME Inv, NEW s \in Sessions, NEW p \in People, ReactivateAccount(s, p)
    PROVE  Inv'
<1>1. [account[p] EXCEPT !.status = "active"] \in [role : Roles, status : {"active", "disabled"}]
  BY ExistingAccount DEF ReactivateAccount, Present
<1>. QED  BY <1>1, ChangeKeeps DEF ReactivateAccount, Change

LEMMA ReassignKeeps ==
    ASSUME Inv, NEW s \in Sessions, NEW p \in People,
           MemberToCounselor(s, p) \/ CounselorToMember(s, p)
    PROVE  Inv'
<1>1. Present(p)
  BY AccountAssumption
  DEF MemberToCounselor, CounselorToMember, Present, Inv, Rows, Account, NoAccount, Roles
<1>2. account[p] \in [role : Roles, status : {"active", "disabled"}]
  BY <1>1, ExistingAccount
<1>3. PICK new \in [role : Roles, status : {"active", "disabled"}] : Change(s, p, new)
  BY <1>2 DEF MemberToCounselor, CounselorToMember, Roles
<1>. QED  BY <1>3, ChangeKeeps DEF Change

LEMMA BeginInviteKeeps ==
    ASSUME Inv, NEW s \in Sessions, NEW p \in People, NEW role \in Roles \ {"admin"},
           BeginInvite(s, p, role)
    PROVE  Inv'
<1>. DEFINE t == [tx[s] EXCEPT !.step = "invite", !.arg = [email |-> p, role |-> role]]
<1>1. /\ tx[s].step = "acting" /\ tx[s] # Idle /\ SessionOK(tx[s]) /\ tx[s].who \in People
      /\ tx[s].role \in Roles /\ tx[s].stale \in BOOLEAN /\ tx[s] \in Transaction
  BY SessionType DEF BeginInvite, Permitted, Inv, Idle
<1>2. /\ t.step = "invite" /\ t.who = tx[s].who /\ t.role = tx[s].role
      /\ t.stale = tx[s].stale /\ t # Idle /\ t \in Transaction
  BY <1>1, SessionType DEF Transaction, Rerunning, Idle
<1>3. SessionOK(t)
  <2>. HIDE DEF t
  <2>. QED  BY <1>1, <1>2 DEF SessionOK, ActorOK, CreatingOK, DisablingOK
<1>4. /\ tx' = [tx EXCEPT ![s] = t] /\ UNCHANGED <<account, invitations, listed>>
      /\ lock' \in [People -> Sessions \cup {None}]
  BY DEF BeginInvite, Inv, Rows
<1>. QED  BY <1>3, <1>4, OneSession

LEMMA EndInviteKeeps ==
    ASSUME Inv, NEW s \in Sessions, EndInvite(s)
    PROVE  Inv'
<1>. DEFINE new == [email |-> tx[s].arg.email, role |-> tx[s].arg.role,
                    expired |-> FALSE, by |-> None]
            n == Len(invitations)
<1>1. tx[s].arg \in [email : People, role : Roles \ {"admin"}]
  BY SessionType DEF EndInvite, Inv, Idle
<1>2. new \in Invitation
  BY <1>1 DEF Invitation
<1>3. /\ invitations' = Append(invitations, new) /\ n < MaxInvitations
      /\ Finish(s, {}) /\ UNCHANGED <<account, listed>>
  BY DEF EndInvite
<1>4. invitations \in Seq(Invitation)
  BY DEF Inv, Rows
<1>. HIDE DEF new
<1>5. invitations' \in Seq(Invitation) /\ Len(invitations') = n + 1
  BY <1>2, <1>3, <1>4
<1>6. /\ DOMAIN invitations = 1..n /\ DOMAIN invitations' = 1..(n + 1)
      /\ \A i \in 1..n : invitations'[i] = invitations[i]
      /\ invitations'[n + 1] = new
  BY <1>2, <1>3, <1>4
<1>7. Grows({})
  BY <1>3, <1>6 DEF Grows, Present
<1>8. AcceptedOnce'
  <2>1. new.by = None
    BY DEF new
  <2>2. \A i \in 1..(n + 1) : i = n + 1 \/ i \in 1..n
    BY <1>4
  <2>. QED  BY <1>3, <1>6, <2>1, <2>2 DEF Inv, AcceptedOnce
<1>9. Len(invitations') <= MaxInvitations
  BY <1>3, <1>4, <1>5, AccountAssumption
<1>. QED  BY <1>3, <1>5, <1>7, <1>8, <1>9, FinishKeeps DEF Inv, Rows

-----------------------------------------------------------------------------
(* Time and new settings.                                                  *)

LEMMA ExpireKeeps ==
    ASSUME Inv, NEW i \in DOMAIN invitations, Expire(i)
    PROVE  Inv'
<1>1. invitations \in Seq(Invitation) /\ invitations[i] \in Invitation
  BY DEF Inv, Rows
<1>2. [invitations[i] EXCEPT !.expired = TRUE] \in Invitation
  BY <1>1 DEF Invitation
<1>3. /\ invitations' = [invitations EXCEPT ![i].expired = TRUE]
      /\ UNCHANGED <<account, listed, lock, tx>>
  BY DEF Expire
<1>4. \A j \in DOMAIN invitations : invitations'[j] =
         IF j = i THEN [invitations[i] EXCEPT !.expired = TRUE] ELSE invitations[j]
  BY <1>3
<1>5. /\ DOMAIN invitations' = DOMAIN invitations /\ Len(invitations') = Len(invitations)
      /\ invitations' \in Seq(Invitation)
  BY <1>1, <1>2, <1>3, <1>4
<1>6. \A j \in DOMAIN invitations :
         invitations'[j].email = invitations[j].email /\ invitations'[j].by = invitations[j].by
  BY <1>1, <1>4 DEF Invitation
<1>7. AcceptedOnce'
  BY <1>3, <1>5, <1>6 DEF Inv, AcceptedOnce
<1>8. Rows'
  BY <1>3, <1>5 DEF Inv, Rows
<1>9. \A s \in Sessions : SessionOK(tx[s])'
  BY <1>3, <1>5, <1>6 DEF Inv, SessionOK, ActorOK, CreatingOK, DisablingOK, Present
<1>. QED  BY <1>3, <1>7, <1>8, <1>9 DEF Inv

LEMMA DeployKeeps ==
    ASSUME Inv, NEW emails \in SUBSET People, Deploy(emails)
    PROVE  Inv'
<1>1. \A s \in Sessions : tx'[s] = Idle
  BY DEF Deploy
<1>2. SessionOK(Idle)'
  BY DEF SessionOK, ActorOK, CreatingOK, DisablingOK, Idle, Transaction
<1>3. \A s \in Sessions : SessionOK(tx[s])'
  BY <1>1, <1>2
<1>4. tx' \in [Sessions -> Transaction]
  BY DEF Deploy, Transaction
<1>. QED  BY <1>3, <1>4 DEF Deploy, Inv, Rows, AcceptedOnce

-----------------------------------------------------------------------------

LEMMA InvInit == Init => Inv
<1>. SUFFICES ASSUME Init PROVE Inv
  OBVIOUS
<1>1. Rows
  BY AccountAssumption DEF Init, Rows, Account
<1>2. AcceptedOnce
  BY DEF Init, AcceptedOnce
<1>3. tx \in [Sessions -> Transaction] /\ \A s \in Sessions : SessionOK(tx[s])
  BY IdleOK DEF Init, Transaction
<1>. QED  BY <1>1, <1>2, <1>3 DEF Inv

LEMMA InvNext == Inv /\ [Next]_vars => Inv'
<1>. SUFFICES ASSUME Inv, [Next]_vars PROVE Inv'
  OBVIOUS
<1>1. ASSUME NEW s \in Sessions, Command(s) PROVE Inv'
  BY <1>1, BeginDisableKeeps, EndDisableKeeps, ReactivateKeeps, ReassignKeeps,
     BeginInviteKeeps, EndInviteKeeps DEF Command
<1>2. ASSUME UNCHANGED vars PROVE Inv'
  <2>1. Rows' /\ AcceptedOnce' /\ tx' \in [Sessions -> Transaction]
    BY <1>2 DEF vars, Inv, Rows, AcceptedOnce
  <2>2. \A s \in Sessions : SessionOK(tx[s])'
    BY <1>2 DEF vars, Inv, SessionOK, ActorOK, CreatingOK, DisablingOK, Present
  <2>. QED  BY <2>1, <2>2 DEF Inv
<1>3. ASSUME NEW s \in Sessions, Rerun(s) PROVE Inv'
  <2>1. ASSUME EndRerun(s) \/ Rollback(s) PROVE Inv'
    BY <2>1, QuietFinish DEF EndRerun, Rollback
  <2>2. ASSUME NEW p \in People, Refuse(s, p) PROVE Inv'
    BY <1>2, <2>2 DEF Refuse
  <2>. QED  BY <1>3, <2>1, <2>2, SignInKeeps, CreateKeeps, ReconcileKeeps DEF Rerun
<1>. QED  BY <1>1, <1>2, <1>3, ExpireKeeps, DeployKeeps DEF Next

\* Every behaviour keeps the invariant.
LEMMA InvAlways == Spec => []Inv
BY InvInit, InvNext, PTL DEF Spec

\* Stored rows and reruns keep their types, in the code of sign-in and of the
\* administrators' commands.
THEOREM TypeCorrect == Spec => []TypeOK
BY InvAlways, InvTyped, PTL

\* resolve_identity and _require_role: an administrator acts exactly if on the
\* list, for any people, roles, invitations and overlapping sessions.
THEOREM ActsAsListedCorrect == Spec => []ActsAsListed
BY InvAlways, InvListed, PTL

\* A rerun acts for an active account in its present role, unless another
\* session changed the account since resolve_identity looked it up.
THEOREM ActorIsRecentCorrect == Spec => []ActorIsRecent
BY InvAlways, InvRecent, PTL

\* However first sign-ins and create_invitation overlap, an account results
\* from at most one invitation, its own.
THEOREM AcceptedOnceCorrect == Spec => []AcceptedOnce
<1>1. Inv => AcceptedOnce
  BY DEF Inv
<1>. QED  BY <1>1, InvAlways, PTL

\* disable_account disables the last administrator only through an actor
\* changed since sign-in together with administrators changed since the count.
THEOREM LastAdministratorCorrect == Spec => LastAdministratorStays
<1>1. ASSUME Inv, NEW s \in Sessions, EndDisable(s),
             ~tx[s].stale \/ (tx[s].arg.counted = ActiveAdmins /\ ActiveAdmins # {})
      PROVE  ActiveAdmins' # {}
  <2>. DEFINE t == tx[s]
              p == tx[s].arg.target
  <2>1. /\ t # Idle /\ t \in Transaction /\ t.step = "disable" /\ t.who \in People
        /\ p \in People /\ t.stale \in BOOLEAN
    BY <1>1, SessionType DEF EndDisable, Inv, Idle
  <2>2. \A q \in People : q # p => account'[q] = account[q]
    BY <1>1 DEF EndDisable, Inv, Rows
  <2>3. ActiveAdmins \subseteq People /\ listed' = listed
    BY <1>1 DEF ActiveAdmins, Inv, Rows, EndDisable
  <2>4. ASSUME NEW q \in ActiveAdmins, q # p PROVE q \in ActiveAdmins'
    BY <2>2, <2>3, <2>4 DEF ActiveAdmins
  <2>5. SessionOK(t)
    BY <1>1 DEF Inv
  <2>6. CASE ~t.stale
    <3>1. account[t.who] = [role |-> t.role, status |-> "active"]
      BY <1>1, <2>1, <2>6, InvRecent DEF ActorIsRecent
    <3>2. t.role = "admin" /\ t.who # p /\ t.who \in listed
      BY <2>1, <2>5 DEF SessionOK, ActorOK, DisablingOK
    <3>. QED  BY <2>4, <3>1, <3>2 DEF ActiveAdmins
  <2>7. CASE t.arg.counted = ActiveAdmins /\ ActiveAdmins # {}
    <3>1. \E q \in ActiveAdmins : q # p
      BY <2>1, <2>5, <2>7 DEF SessionOK, DisablingOK
    <3>. QED  BY <2>4, <3>1
  <2>. QED  BY <1>1, <2>6, <2>7
<1>2. Inv /\ [Next]_vars => [\A s \in Sessions :
          /\ EndDisable(s)
          /\ ~tx[s].stale \/ (tx[s].arg.counted = ActiveAdmins /\ ActiveAdmins # {})
          => ActiveAdmins' # {}]_vars
  BY <1>1
<1>. QED  BY <1>2, InvAlways, PTL DEF LastAdministratorStays, Spec
=============================================================================
