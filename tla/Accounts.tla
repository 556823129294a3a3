------------------------------ MODULE Accounts ------------------------------
(***************************************************************************)
(* Accounts, invitations and the sessions of the pages, statement by       *)
(* statement.                                                              *)
(*                                                                         *)
(* Every rerun of a page signs its person in again (resolve_identity) and  *)
(* then runs one command with the actor it got.  A person is one Google    *)
(* identity with one verified email.  A read without lock sees what is     *)
(* committed; SELECT .. FOR UPDATE keeps a user row until commit; a row    *)
(* that names a user, as disabled_by_id does, needs that user's row free   *)
(* of such a lock at the moment it is written.                             *)
(***************************************************************************)
EXTENDS Integers, Sequences, FiniteSets

CONSTANTS
    People,          \* identities, each with its email
    Sessions,        \* reruns in progress
    MaxInvitations,  \* bound on invitation rows
    None             \* nobody, no invitation

Roles == {"member", "counselor", "admin"}

ASSUME AccountAssumption ==
    /\ MaxInvitations \in Nat
    /\ None \notin People \cup Sessions \cup Nat \cup Roles

VARIABLES
    account,      \* users: role and status of each person
    invitations,  \* invitations in the order of their creation
    listed,       \* the emails of MATCHWELL_ADMIN_EMAILS
    lock,         \* session that holds a user row
    tx            \* the rerun of each session

vars == <<account, invitations, listed, lock, tx>>

\* stale is an observation: the account was changed by another session since
\* this one looked it up.
Idle == [step |-> "idle", who |-> None, role |-> None, arg |-> None, stale |-> FALSE]
NoAccount == [role |-> None, status |-> "absent"]

-----------------------------------------------------------------------------
\* Sessions and rows.

Free(p, s) == lock[p] \in {None, s}

\* tx after session s has moved to t and changed the accounts of ps.
Moved(s, t, ps) ==
    [x \in Sessions |->
        IF x = s THEN t
        ELSE IF tx[x].who \in ps THEN [tx[x] EXCEPT !.stale = TRUE] ELSE tx[x]]

\* The end of a rerun: its locks are released.
Unlocked(s) == [p \in People |-> IF lock[p] = s THEN None ELSE lock[p]]
Finish(s, ps) == tx' = Moved(s, Idle, ps) /\ lock' = Unlocked(s)

-----------------------------------------------------------------------------
\* resolve_identity

\* Invitations of p that are neither accepted nor expired.
OpenFor(p) == {i \in DOMAIN invitations :
    invitations[i].email = p /\ ~invitations[i].expired /\ invitations[i].by = None}
Newest(S) == CHOOSE i \in S : \A j \in S : j <= i
Accepted(p) == {i \in DOMAIN invitations : invitations[i].by = p}

\* Mutant: who was never invited has no role to go back to.
RestoredUninvited(p) ==
    IF Accepted(p) = {} THEN None ELSE invitations[Newest(Accepted(p))].role

\* The role an administrator falls back to.
Restored(p) ==
    IF Accepted(p) = {} THEN "member" ELSE invitations[Newest(Accepted(p))].role

\* Mutant: who left the list stays administrator.
RoleUnrevoked(p) == IF p \in listed THEN "admin" ELSE account[p].role

\* _reconcile_admin_access
RoleNow(p) ==
    IF p \in listed THEN "admin"
    ELSE IF account[p].role = "admin" THEN Restored(p) ELSE account[p].role

\* Mutant: a disabled account is not turned away.
MayEnterAlways(p) == TRUE

MayEnter(p) == account[p].status # "disabled"

At(step, p, role, arg) ==
    [step |-> step, who |-> p, role |-> role, arg |-> arg, stale |-> FALSE]

\* The lookup by issuer and subject, and for a new identity the lookup of its
\* newest open invitation.
SignIn(s, p) ==
    /\ tx[s] = Idle
    /\ MayEnter(p)
    /\ \/ /\ account[p].status # "absent"
          /\ tx' = [tx EXCEPT ![s] =
                At(IF RoleNow(p) = account[p].role THEN "acting" ELSE "reconcile",
                   p, RoleNow(p), None)]
       \/ /\ account[p].status = "absent" /\ OpenFor(p) = {}
          /\ p \in listed
          /\ tx' = [tx EXCEPT ![s] = At("create", p, "admin", None)]
       \/ /\ account[p].status = "absent"
          /\ \E i \in OpenFor(p) :
                /\ \A j \in OpenFor(p) : j <= i
                /\ tx' = [tx EXCEPT ![s] = At("create", p,
                      IF p \in listed THEN "admin" ELSE invitations[i].role, i)]
    /\ UNCHANGED <<account, invitations, listed, lock>>

\* A disabled account and an uninvited identity are refused.  The audit row of
\* the first refusal is rolled back with its transaction.
Refuse(s, p) ==
    /\ tx[s] = Idle
    /\ \/ ~MayEnter(p)
       \/ account[p].status = "absent" /\ p \notin listed /\ OpenFor(p) = {}
    /\ UNCHANGED vars

\* Mutant: no uniqueness of the identity.
NoClash(p) == FALSE

\* The unique constraints of users refuse a second row of one identity.
Clash(p) == account[p].status # "absent"

\* The insert of a first sign-in, with the invitation it accepts.
CreateAccount(s) ==
    LET p == tx[s].who IN
    /\ tx[s].step = "create"
    /\ \/ Clash(p) /\ Finish(s, {}) /\ UNCHANGED <<account, invitations>>
       \/ /\ ~Clash(p)
          /\ account' = [account EXCEPT ![p] = [role |-> tx[s].role, status |-> "active"]]
          /\ invitations' = IF tx[s].arg = None THEN invitations
                            ELSE [invitations EXCEPT ![tx[s].arg].by = p]
          /\ tx' = Moved(s, [tx[s] EXCEPT !.step = "acting", !.arg = None], {p})
          /\ UNCHANGED lock
    /\ UNCHANGED listed

\* The update of the role that the lookup decided on.
Reconcile(s) ==
    LET p == tx[s].who IN
    /\ tx[s].step = "reconcile"
    /\ Free(p, s)
    /\ account' = [account EXCEPT ![p].role = tx[s].role]
    /\ tx' = Moved(s, [tx[s] EXCEPT !.step = "acting"], {p})
    /\ UNCHANGED <<invitations, listed, lock>>

-----------------------------------------------------------------------------
\* Commands that change accounts, all of them an administrator's.

\* _require_role: of the actor the rerun got, not of the account as it is now.
Permitted(s, role) == tx[s].step = "acting" /\ tx[s].role = role

ActiveAdmins == {p \in listed : account[p] = [role |-> "admin", status |-> "active"]}

\* Mutant: the count includes none but the last.
LastOneMayGo(p) == account[p].role = "admin" => ActiveAdmins # {}

\* The unlocked count of disable_account.
OthersRemain(p) == account[p].role = "admin" => Cardinality(ActiveAdmins) > 1

\* disable_account up to its writes: the target is locked, then the active
\* administrators are counted (who they were is kept as an observation).
BeginDisable(s, p) ==
    /\ Permitted(s, "admin")
    /\ p # tx[s].who
    /\ lock[p] = None
    /\ account[p].status = "active"
    /\ OthersRemain(p)
    /\ lock' = [lock EXCEPT ![p] = s]
    /\ tx' = [tx EXCEPT ![s].step = "disable",
                        ![s].arg = [target |-> p, counted |-> ActiveAdmins]]
    /\ UNCHANGED <<account, invitations, listed>>

\* The target names the actor in disabled_by_id.
EndDisable(s) ==
    LET p == tx[s].arg.target IN
    /\ tx[s].step = "disable"
    /\ Free(tx[s].who, s)
    /\ account' = [account EXCEPT ![p].status = "disabled"]
    /\ Finish(s, {p})
    /\ UNCHANGED <<invitations, listed>>

Change(s, p, new) ==
    /\ lock[p] = None
    /\ account' = [account EXCEPT ![p] = new]
    /\ Finish(s, {p})
    /\ UNCHANGED <<invitations, listed>>

ReactivateAccount(s, p) ==
    /\ Permitted(s, "admin")
    /\ account[p].status = "disabled"
    /\ Free(tx[s].who, s)
    /\ Change(s, p, [account[p] EXCEPT !.status = "active"])

\* reassign_member_to_counselor, of a disabled account as well.
MemberToCounselor(s, p) ==
    /\ Permitted(s, "admin")
    /\ p # tx[s].who
    /\ account[p].role = "member"
    /\ Change(s, p, [account[p] EXCEPT !.role = "counselor"])

\* reassign_counselor_to_member
CounselorToMember(s, p) ==
    /\ Permitted(s, "admin")
    /\ p # tx[s].who
    /\ account[p].role = "counselor"
    /\ Change(s, p, [account[p] EXCEPT !.role = "member"])

\* create_invitation: both checks precede the insert, and nothing is unique.
BeginInvite(s, p, role) ==
    /\ Permitted(s, "admin")
    /\ account[p].status = "absent"
    /\ OpenFor(p) = {}
    /\ tx' = [tx EXCEPT ![s].step = "invite", ![s].arg = [email |-> p, role |-> role]]
    /\ UNCHANGED <<account, invitations, listed, lock>>

EndInvite(s) ==
    /\ tx[s].step = "invite"
    /\ Len(invitations) < MaxInvitations
    /\ Free(tx[s].who, s)
    /\ invitations' = Append(invitations,
          [email |-> tx[s].arg.email, role |-> tx[s].arg.role,
           expired |-> FALSE, by |-> None])
    /\ Finish(s, {})
    /\ UNCHANGED <<account, listed>>

\* Any other command leaves the accounts as they are, as a refused one does.
EndRerun(s) ==
    /\ tx[s].step = "acting"
    /\ Finish(s, {})
    /\ UNCHANGED <<account, invitations, listed>>

\* A lost connection, a constraint, or the victim of a deadlock.
Rollback(s) ==
    /\ tx[s].step \notin {"idle", "acting"}
    /\ Finish(s, {})
    /\ UNCHANGED <<account, invitations, listed>>

-----------------------------------------------------------------------------

Expire(i) ==
    /\ ~invitations[i].expired
    /\ invitations' = [invitations EXCEPT ![i].expired = TRUE]
    /\ UNCHANGED <<account, listed, lock, tx>>

\* New settings restart the application: no rerun survives.
Deploy(emails) ==
    /\ listed' = emails
    /\ tx' = [s \in Sessions |-> Idle]
    /\ lock' = [p \in People |-> None]
    /\ UNCHANGED <<account, invitations>>

Init ==
    /\ account = [p \in People |-> NoAccount]
    /\ invitations = <<>>
    /\ listed \in SUBSET People \ {{}}
    /\ lock = [p \in People |-> None]
    /\ tx = [s \in Sessions |-> Idle]

Command(s) ==
    \/ \E p \in People :
          \/ BeginDisable(s, p) \/ ReactivateAccount(s, p)
          \/ MemberToCounselor(s, p) \/ CounselorToMember(s, p)
          \/ \E role \in Roles \ {"admin"} : BeginInvite(s, p, role)
    \/ EndDisable(s) \/ EndInvite(s)

Rerun(s) ==
    \/ \E p \in People : SignIn(s, p) \/ Refuse(s, p)
    \/ CreateAccount(s) \/ Reconcile(s) \/ EndRerun(s) \/ Rollback(s)

Next == \/ \E s \in Sessions : Command(s) \/ Rerun(s)
        \/ \E i \in DOMAIN invitations : Expire(i)
        \/ \E emails \in SUBSET People : Deploy(emails)

Spec == Init /\ [][Next]_vars

-----------------------------------------------------------------------------

\* Rows and sessions keep their types.
TypeOK ==
    /\ account \in [People -> {NoAccount} \cup
          [role : Roles, status : {"active", "disabled"}]]
    /\ invitations \in Seq([email : People, role : Roles \ {"admin"},
                            expired : BOOLEAN, by : People \cup {None}])
    /\ Len(invitations) <= MaxInvitations
    /\ listed \subseteq People
    /\ lock \in [People -> Sessions \cup {None}]
    /\ \A s \in Sessions : tx[s] # Idle => tx[s].who \in People /\ tx[s].role \in Roles

\* README: removing an email from the list revokes admin access even if the
\* stored role still says admin, adding it grants it.  Whoever acts does so as
\* administrator exactly when on the list, whatever roles and invitations were
\* committed since.
ActsAsListed ==
    \A s \in Sessions : tx[s].step \in {"acting", "disable", "invite"} =>
        (tx[s].role = "admin" <=> tx[s].who \in listed)

\* README: disabled accounts are checked on every sign-in before an actor is
\* returned.  A rerun acts for an active account with its present role, unless
\* somebody changed that account since the rerun began: a stale actor lasts no
\* longer than one rerun.
ActorIsRecent ==
    \A s \in Sessions : tx[s].step \in {"acting", "disable", "invite"} /\ ~tx[s].stale =>
        account[tx[s].who] = [role |-> tx[s].role, status |-> "active"]

\* However many invitations a person was sent and however many first sign-ins
\* overlap, one account results, from at most one invitation, and that of this
\* email.
AcceptedOnce ==
    \A i, j \in DOMAIN invitations : invitations[i].by # None =>
        /\ invitations[i].email = invitations[i].by
        /\ account[invitations[i].by].status # "absent"
        /\ invitations[j].by = invitations[i].by => i = j

\* It takes both an actor changed since its lookup and administrators changed
\* since they were counted to disable the last of them: either check alone, the
\* one at sign-in or the count, leaves an active administrator on the list.
LastAdministratorStays ==
    [][\A s \in Sessions :
          /\ EndDisable(s)
          /\ ~tx[s].stale \/ (tx[s].arg.counted = ActiveAdmins /\ ActiveAdmins # {})
          => ActiveAdmins' # {}]_vars

\* README: disabling the last active administrator is prohibited.
DisablingLeavesAdministrator ==
    [][\A s \in Sessions : EndDisable(s) /\ ActiveAdmins # {} => ActiveAdmins' # {}]_vars
=============================================================================
