# MatchWell in TLA+

MatchWell matches the members of a Center: counselors clear members, the program proposes pairs,
counselors review them, members answer, and a match gets messages and journeys. One Python class,
`SqlAlchemyPilotRepository` (`src/src/matchwell/infrastructure/persistence/pilot_repository.py`,
called *the repository* here), holds every rule; each of its public methods is one database
transaction. This project models the parts of it in which operations of several people meet, checks
them with TLC on small Centers, and proves their central properties with TLAPS for every Center.

Contents: [the system](#the-system) · [modules](#modules) · [runs](#runs) ·
[what the code does otherwise than it says](#what-the-code-does-otherwise-than-it-says) ·
[proofs](#proofs) · [abstractions and bounds](#abstractions-and-bounds) · [not modelled](#not-modelled) ·
[plan](#plan)

## The system

The Streamlit pages and the webhook service both call `PilotService`, which takes the signed-in
actor and calls the repository. All state is in PostgreSQL (READ COMMITTED, explicit row locks). There
is no scheduler: what expires is noticed when somebody touches it.

| Component | State | Operations | Hard behaviour | What makes it correct |
|---|---|---|---|---|
| Accounts and sign-in | `users` role, status; invitations; allow-list in the settings | sign-in and its admin reconciliation, invite, disable, reactivate, two role changes | a role change in the middle of other people's operations; two administrators disabling each other; an actor kept after it was disabled | whoever acts as administrator is on the list; an administrator is always left |
| Readiness | profile, consent, covenant, assessment, screening, decision, subscription, holds | every handler that changes evidence ends in `_reevaluate` | evidence expires with no handler running; overlapping handlers miss each other's rows | nothing advances for a member who is not ready *now*; the decision log catches up |
| Assignment and decisions | one current assignment per member, one decision per assignment | `assign_counselor`, `record_counselor_decision` | counselors are copied into proposals and authorizations | copies never outlive the assignment they were taken from |
| Communities | a member's community, each with a matching mode | `assign_community` | moving during review | a move closes what is under review, and is refused later |
| Candidates and review | `match_proposals`, participant claims | `generate_candidates`, `review_candidate` | one run changes many members; greedy choice; unique claims | one open proposal per member, two approvals before an introduction |
| Introductions | the same proposals | `respond_to_introduction`, reconciliation by every reader | answers racing lapses and holds | a match was accepted by both; closed stays closed |
| Safety | holds, blocks, reports | `apply_hold`, `release_hold`, `block_member`, `report_member` | several reasons to close one proposal, in transactions that read it before they lock it | safety closes what is open and bars the pair for ever |
| Rematch authorization | `rematch_authorizations` | request, approve, revoke, consume | approvals under assignments that change afterwards | a repeat has two approvals by current counselors |
| Self-paced matching | `self_paced_suggestion_interests` | `set_suggestion_interest` | reciprocal interest from both sides | two interests always become one match |
| Billing | subscription, entitlement history, receipts | webhooks, administrator grant and suspend | redelivery, reordering, overlapping transactions, failure after the receipt | each event once, in provider order; nothing acknowledged is lost |
| Checkout and portal | customer mapping | create session | a session for a customer mapped meanwhile | one mapping per member |
| Screening | cases, receipts | provider events, manual status | no order between events, overlapping updates of one case | each event once; eligible has an end |
| Messages | append-only | send, list | access is re-checked on each call; clocks of two servers | only in an active match of ready members; order of the commits |
| Journeys and check-ins | assignments, completions, answers | assign, complete, check in, view | the match closes while the transaction waits; what is shared changes while it is read | nothing is written after the closure; the private stays private |
| Introductory sessions | bookings | schedule, cancel, complete | the counselor changes | completed by the counselor it is booked with, while assigned |
| Counselor earnings | ledger | credit at the decision | two decisions at once | one credit per intake, for the first decision |
| Onboarding | consent, covenant, profile, assessment | accept, save, submit | versions published and assessments expired meanwhile | the evaluation reflects what is current |
| Invitations | rows with an expiry | create, accept | two open invitations of one email | one account, at most one invitation accepted |
| Personality | scores | submit | – | scores match their definition |
| Audit, outbox, alerts, analytics | append-only rows, aggregates | written with each transaction; read | – | – |

**How they interact.** Everything in matching meets in three places. `_reevaluate` computes readiness from
all evidence and, when it is lost, calls `_close_open_proposals_for_member`. The participant-claim
table has a unique key on the member, so whatever opens a proposal (generation, a repeat, reciprocal
interest) competes for it and whatever closes one must release it. And rematch authorizations are bound to
assignment rows, so every change of an assignment, role or community revokes them. Billing enters
through `_transition_subscription`, screening through `process_screening_provider_event`, onboarding through the handlers of its records; each ends in
`_reevaluate` inside its own transaction. Messages and journeys depend on matching by one thing only, the row of the active proposal,
which they lock and re-check (`_active_participant_proposal`, `_active_counselor_proposal`). Every page starts with `resolve_identity`, whose
actor `PilotService._require_role` trusts for the rest of the rerun.

The file `PROJECT.json` lists each component with its sources, and each hazard with the line where it
bites and the property that would notice it.

## Modules

| Module | Models | Extends |
|---|---|---|
| `MatchState` | the stored state of matching, readiness, and the helpers every operation shares: closing, claiming, withdrawing interest, revoking authorizations | – |
| `Roster` | accounts, roles, assignments, communities, evidence, expiry, as matching sees them | `MatchState` |
| `Introductions` | generation, review, responses, reconciliation on access, block and report | `MatchState` |
| `Rematch` | request and approval of a repeat | `MatchState` |
| `SelfPaced` | interest, dismissal, reciprocal match | `MatchState` |
| `Matching` | the composition: `Init`, `Next`, `Spec`, the properties, the refinement mapping | the four above |
| `Engagement` | the abstract promise of matching | – |
| `Subscription` | the abstract promise of billing | – |
| `Conversation` | the abstract promise of a match | – |
| `Billing` | one subscription under concurrent webhooks and corrections | – |
| `Journeys` | one active match: its messages, its journey and everything that may close it, statement by statement | – |
| `Accounts` | sign-in, the allow-list, roles, invitations and the commands of administrators, statement by statement | – |
| `Intake` | one member's way to readiness: policies, profile, assessment, decisions, earnings, introductory session, screening, statement by statement | – |
| `MCMatching`, `MCBilling`, `MCJourneys`, `MCAccounts`, `MCIntake` | the small instances TLC checks | the module named |
| `MatchingProofs`, `PromiseProofs`, `StandingProofs` | the theorems about `Matching`, each extending the one before | `Matching` |
| `BillingProofs`, `JourneysProofs`, `AccountsProofs`, `IntakeProofs` | the theorems | the module named |

There are two grains. In `Matching` a whole transaction is one step, which keeps some twenty-five operations of several people in one state
space. In `Billing`, `Journeys`, `Accounts` and `Intake` a transaction is a row of statements, because there the question is what
happens *between* a read and the lock that should have protected it.

### Matching

A variable stands for a table or a column: `role` and `status` for `users`, `mode` for the matching mode of the
member's community, `evidence` for what `ReadinessEvidence` collects, `assignment` for the current row of
`counselor_assignments`, `proposals` for `match_proposals`, `claims` for the participant claims, `auth` for the
latest rematch authorization of each pair, `interest` for self-paced interest, `flags` for blocks and
reports. A proposal is named by its pair and its round, the n-th ever created for that pair, so the
history of a pair is in the state and "closed" is a fact about one row.

One action is one method of the repository, complete with the closings, claims, withdrawals and
revocations its helpers perform. The ones worth a remark:

- `GenerateCandidates` re-evaluates every member of its pool in the order the query happens to return. A lapsed
  member loses an open proposal, and the partner it frees takes part only if the order reaches the partner
  later. The model chooses the late ones (`late`) and, where both members of a proposal lapsed, the reason that
  was written first. The greedy choice by score becomes *any* set of disjoint admissible pairs that
  cannot be extended.
- `AccessLapsed` is what every reader or operation of an open proposal does first when its pair is not ready. A
  lapsed subscription closes that proposal as `entitlement_lapsed`; otherwise the members are re-evaluated,
  which raises, and rolls back, when one of them is no longer a member: the action is disabled.
- `Flag` (block and report) closes what `_existing_proposal` returns: the latest proposal of the pair that *was
  introduced*.
- `CandidateGenerationDiagnostics` evaluates and proposes nobody, but like every reading of the authorizations it revokes those that are no longer usable (`SweepAuthorizations`); it also stands for that reading in `list_self_paced_suggestions`.
- `Expire` has no counterpart in the code. It is time: a date passes and a requirement is no longer met,
  while no handler runs.
- Validation errors that write nothing (`ForbiddenError`, `ConflictError`, ...) are guards.

### Engagement

The promise in terms of *bonds* and their stage only: a turnover ends some open bonds and proposes
others between people who are free by then; an advance moves one bond a stage on; a match opens a bond
directly. `Matching!KeepsPromise` is this specification with one bond per proposal and the proposal's status as its stage.
It is a real restriction on `Matching`, which never mentions "free": generation looks at open proposals
and claims, self-paced matching at claims, and rounds at the history of the pair.

### Billing

The code reads before it locks: `_apply_billing_event`
reads the subscription without a lock, derives values from it, and
`_transition_subscription` locks the row, re-reads it and compares event times. `Billing` therefore gives a transaction
its steps: `Deliver` (the receipt insert, on whose unique key an overlapping delivery of the same event waits), `Read`,
`Apply` (or one of the recorded non-applications), `Answer`. `Fail` is a database error or a stopped process at any of them: before
the commit everything rolls back, after it only the answer is lost. `ChangeRole` is the account becoming, or ceasing to be, a member
between these steps: the re-evaluation then raises, which takes the receipt with it. Administrator corrections run through the same steps.

`Subscription` is what remains of this for whoever sends events: a status, the provider's clock, and an outcome of each event. An event is taken (it gives the subscription its status and
the clock its time, which is not older) or noted (it is older, brings nothing, or is a failed payment that `_apply_billing_event` may set aside), once and in one step; a correction sets the status and leaves the clock.
`KeepsSubscription` is this specification with `row.status`, `row.last`, and the receipts that were applied *and give a status* as the events taken: reading without a lock, waiting, failing and retrying are stutters of it. That the periods and flags are not in it is no accident: for them it would be false (`billing_race`).

**Fairness**, in `FairSpec` only. `WF(Run(w))`: a transaction that has begun continues; the code has no loop in it, and waits only for the
row lock and the unique key, whose holders end in turn. `SF` of delivering an event that has not been acknowledged: the provider retries what it was not told about,
which the code counts on (`webhook_api/app.py:105` "503 signals Stripe to retry", `docs/runbooks/provider-failure-recovery.md:14-17`).
It must be strong, because whether a delivery can be taken depends on other deliveries being in progress. The one liveness property
holds under the condition that the account is a member from some time on; without it the re-evaluation may refuse every retry.

### Journeys

One pair, `pair`, with the status and the closing reason of its proposal; `journey`, `done`, `checkIns` and `messages` for the tables that depend on it; `counselor`, `lapsed`, `holds`, `gone` and `flagged` for what
readiness and safety read. `lock` and `shared` are PostgreSQL's row locks, exclusive for `FOR UPDATE` and `UPDATE`, shared for the foreign key of an inserted row; `tx` is the transaction of each session: its operation, the
statement it is at, and what it has read.

- `Enter` is `_active_participant_proposal`: lock the proposal, give up if it is closed, reconcile if a member is not ready, else go on *holding the lock*. Messages, activities, check-ins, journeys and every view go through it.
- `BeginClose` and `EndClose` are `_close_open_proposals_for_member` and `_existing_proposal` followed by `_close_proposal`: an unlocked read of what is open, kept in `saw`, and an update of that row by its key, whatever it is by then.
- `Readings` are the clocks of two servers, one unit apart; `SentAt` is the correction of `sent_at`. Days, due dates and the week before them are those of `reminder_state`, of which one compares dates and the other times.
- `MemberView` and `CounselorView` are what a page shows. `ListJourneys`, `LockListed`, `ReadCheckIns`, `ShowJourney` are the four statements of `list_counselor_journeys`; the assignments are read last.
- `Rollback` is a crash, a lost connection, or PostgreSQL's choice of a deadlock's victim. Several orders of locking do deadlock (a role change holds the member's row and then wants the pair; a message holds the pair and then refers to the member).

`Conversation` is what the pair may rely on: while the match is active a message is appended with a time after all others, a journey starts once, an activity is marked or unmarked, answers are given or replaced without losing one that was written at the same time; when it ends nothing is written any more.
`KeepsConversation` maps the tables to it one by one and the proposal to its status alone. The reason of the closure is left out, as two closures that overlap may both write it (`close_race`); `HistorySettles` says how long.

### Accounts

`account`, `invitations` and `listed` are the users, the invitation rows and `MATCHWELL_ADMIN_EMAILS`; `tx` is a *rerun* of a page: it looks its person up (`SignIn`), possibly writes (`CreateAccount`,
`Reconcile`), then acts with the role it got. `Permitted` is `_require_role` and looks at that role and not at the account. Of the commands those that change accounts, which are the administrator's, are actions; what the others do is in the other modules, and here they are `EndRerun`. `BeginDisable` locks its target and counts the active
administrators; `EndDisable` writes. `Deploy` is a restart with another allow-list: the settings are read once per process, so no rerun survives it.
`stale` is an observation: another session changed the account since the lookup; `counted` remembers *who* was counted.

### Intake

`db` is what is committed about one member: current version of each policy and what was accepted, profile, assessment assignments, counselor, decision, screening case, introductory session, credits, and the latest readiness decision (`log`).
A command has up to three steps: its first reads (`Begin`), its flush and the evaluation of `_reevaluate` over committed rows plus its own (`Write`), its commit with the readiness decision it computed (`End`). Whatever commits between the last two is missed by it:
`Reading` is compared with `log` before the commit (`only_if_changed`). It is as fine as `_evidence_versions`: a profile, a decision and a screening case also count by *when* they were written, so a row rewritten with what it had is a change. `db.written` holds a *stamp* for each of the three, which
`Write` takes fresh among the `Stamps` that no row, no log and no transaction holds (`InUse`); `None` is a row that does not exist (`HasProfile`). `Waits` and `Violates` are the unique indexes, on which a second inserter waits and then fails; `Free` and `LockMember` the row lock of the member.
`Screened` updates only the columns that differ from the row *as it was read*, which is what SQLAlchemy sends. `alone`, `first` and `taken` are observations: nothing overlapped this transaction; who committed the first decision; the screening events in the order they were applied.

An *agenda* is the set of commands, publications and expiries a behaviour mixes. `Agendas` is a constant. The theorems hold for any set of them, so also for the one that contains everything; TLC checks six, each with the commands that touch common rows.

## Runs

| Run | Instance | Distinct states | Asks |
|---|---|---|---|
| `center` | two members who both suit a third, one counselor, counselor-based or self-paced, one round, two changes of the roster, one block or report | 277,486 (up to swapping the two) | Do generation, review, response and reciprocal interest stay exclusive and justified under any two changes of accounts, evidence, assignments, communities or time; do they implement `Engagement`? |
| `rematch` | one pair, two counselors, two rounds, one block, two changes | 362,867 (up to swapping the counselors) | Is a repeat authorized, current, never after a safety event, is the closed round left as it was, and what does a block leave open? |
| `billing` | two workers, two events of ten kinds, one failure, one correction, two role changes | 675,945 | Does each event take effect at most once and in order (`Subscription`), is the row explained by the history, do deadlines and suspensions last, is every event recorded in the end? |
| `journeys` | two members, two counselors, two sessions, two activities (one shared), one milestone, three readings of the clock, two events | 362,916 (up to symmetry) | Is anything written after the closure, lost or out of order (`Conversation`), or shown to the wrong person; can a hold, block or removal leave the match open? |
| `accounts` | three people, two sessions, two invitations, two changes | 569,760 (up to symmetry) | Does everybody act in the role the list and the account give; how stale can an actor be; what does it take to lose the last administrator? |
| `intake` | two counselors, two sessions, four screening events, six agendas | 678,949 (up to swapping the sessions, and the counselors) | One credit for the first decision, sessions completed by the assigned counselor, screening events once, a decision log that catches up. |
| `flagged`, `promoted`, `billing_race`, `billing_lost`, `close_race`, `last_admin` | small | – | The six disagreements below. |

What the passing runs show:

- `ClaimsMatchOpen`, `OneOpenPerMember`: over every operation that opens or closes a proposal, the claims are those of the open
  proposals and nobody is in two.
- `OpenReviewedByCurrent`: the counselors a proposal waits for are the current ones. It holds because
  a new assignment has no decision yet, so `_reevaluate` closes the proposal: nothing in `assign_counselor` says so.
- `HeldHasNoOpen`: a hold closes every stage and nothing opens one before its release, even if the held account leaves the role of a member and comes back.
- `OpenIsOfActive`: a disabled account and both role changes of Member Operations close every stage and withdraw the interest, so whoever is in an open proposal or waits for an answer is an active member, or was moved by the allow-list (`InPlace`). The
  last disjunct of `InPlace` was found by the proof: an invited counselor may become a member, be proposed, be put on the list and taken off it, and is then a counselor again with the proposal still open, six operations no instance with two changes of the roster contains (a larger one does).
- `AdvanceNeedsReady`: nothing is introduced or matched for a member whose evidence expired silently a moment ago.
- `StageJustified`: two approvals before an introduction, two acceptances before a match, and no decline in anything that is open.
- `LiveAuthorizationCurrent`, `RepeatIsAuthorized`, `SafetyBarsProposal`: a live authorization is bound to the very assignments that
  are current, a repeat consumes one approved on both sides by two counselors who are active and assigned, and no safety history of the pair is overlooked, also when a
  later ordinary closure hides it.
- `FlagSparesOnlyReview`: a block or a report ends the introduction or the match of the two; what it can leave open is a repeat that still waits for review, of a pair introduced in an earlier round. This is exactly the context of the finding below.
- `ClosedIsFinal`: a block, a hold, a demotion and a response may each close a proposal; none rewrites what another one wrote, as long as each
  transaction is one step. `close_race` shows what happens when two overlap. The same holds of `SafetyBarsProposal`, as far as the bar is the reason of a closure; a block or a report is a row of its own, which no closer overwrites.
- `NoMissedMatch`: through dismissals, withdrawals and renewed interest, two interests never stay side by side unmatched.
- `KeepsPromise`, `KeepsSubscription`, `KeepsConversation`: the refinements. The second implies that events are applied in the order of the provider (`ProviderOrder`), and says more: also across an administrator's correction, and that nothing newer is put aside.
  The third implies that messages are in the order of their times (`MessagesInOrder`, with clocks that disagree by one unit) and that no message, activity, check-in or journey commits after the closure did, whoever waited for whom (`NothingAfterClose`). The three are stated, and proved, by themselves as well.
- `AppliedOnce`, `HistoryExplainsRow`, `AckedIsRecorded`, `EveryEventRecorded`: billing under redelivery, overlap and failure.
- `GraceKeepsDeadline`, `FailedPaymentNeverRevives`, `ReadCheckoutPreserves`: the business rules of a transition, stated of a transaction that was not overtaken between its read and its lock. Of one that was, all three would be
  false in the code: a failure moves the deadline that was set meanwhile, or revives what was suspended meanwhile, a checkout undoes the cancellation (`billing_race` shows the last).
- `EnforcedIsClosed`: the closing transactions read without a lock, and still nobody is held, flagged or removed with an open match: a closed match never reopens, so "nothing open" stays true, and what was seen open is overwritten as closed.
- `ShownIsCurrent`: the counselor's view reads the check-ins before the assignments; what it shows is nevertheless the present text, shared now, of a member that counselor has now. It holds because a submission needs the proposal that the view holds.
- `PrivateStaysPrivate`: noninterference. The views of a counselor and of a member do not change if what is private had been something else.
- `CheckInNotEarly`: with clocks that disagree and a reminder state that mixes dates and times.
- `ActsAsListed`: whatever was committed meanwhile, an actor is administrator exactly if the list says so. `ActorIsRecent`: an actor is active and in its role unless somebody changed the account during this very rerun.
- `AcceptedOnce`: two open invitations of one email and two overlapping first sign-ins give one account and one accepted invitation.
- `LastAdministratorStays`: of the two unlocked checks that protect the last administrator, either suffices: it takes an actor changed since its lookup *and* administrators changed since the count.
- `FirstDeciderIsPaid`: also when decisions of two counselors overlap a reassignment, the one credit is that of the first decision to commit.
- `SessionEndsWithAssigned`: a session booked with a former counselor cannot be completed, by either.
- `ScreeningOnce`: an event is applied once; alone, it leaves exactly its own result. `LogCatchesUp`: overlapping evaluations may log what was never true; the next that runs alone repairs it.

Every property has a *mutant*, an operator just before the one it stands in for, marked `\* Mutant:`. It is what a plausible slip in
that part of the code would make of it (claims kept on closing, one approval enough, a proposal read without its lock, the order of events checked on the unlocked
row); with it the property is violated on the same instance. No specification uses it.

## What the code does otherwise than it says

1. **A block leaves a repeat under review open** (`flagged`). A pair was introduced, closed and authorized again; its second proposal is under review when
   one blocks the other. `_existing_proposal` (repository:5413) considers introduced proposals only, finds the old closed one, and the new one
   stays open with both members claimed. `README.md:205-206` says blocks and reports "close any open proposal or introduction". Generation would
   not propose such a pair any more, but `review_candidate` does not look up the safety history: this proposal can still be approved, and the two introduced to each other after the block. `FlagSparesOnlyReview` says that this is the only stage that survives.
2. **Promotion closes nothing** (`promoted`). `_reconcile_admin_access` (repository:380) makes a member an administrator at sign-in and leaves the open proposal or match.
   `README.md:247-248` says a role change closes conversation access immediately. Later re-evaluation raises `NotFoundError` for the former member, so access to a
   proposal whose pair lapsed fails instead of closing it.
3. **A checkout writes back what it read before the lock** (`billing_race`). A cancellation scheduled by an overlapping subscription update is undone
   (repository:4841). `tests/test_billing_repository.py:1129` is named for preserving it and tries only one event after the other; `ReadCheckoutPreserves` of `billing` confirms that case.
4. **An event for a former member leaves no receipt** (`billing_lost`). The re-evaluation raises, the transaction with the receipt rolls back, the answer is 422
   (repository:4813). `docs/runbooks/provider-failure-recovery.md:10-13` says every callback is recorded before anything else happens, so it never shows up in the failure queue the runbook relies on.
5. **A safety closure can be overwritten** (`close_race`). A hold and a role change both read the match open; the second waits for the first and then writes its own reason
   (repository:5480). The history says `member_role_changed`, which does not bar the pair, where `README.md:231` and `236-237` promise immutable history and a permanent bar.
   `HistorySettles` is how far the history is immutable: when every transaction that read the match open has ended, nothing rewrites it.
6. **The last administrators can disable each other** (`last_admin`). Each is counted as active by the other's transaction, which has locked only its target (repository:424). `README.md:263-264`
   says disabling the last active administrator is prohibited.

## Proofs

Every theorem holds for every value of the constants: any number of accounts, pairs, roles, rounds, workers, events, sessions, tasks or versions, and without the bounds on steps that the instances add.

| Module | Theorem | Says |
|---|---|---|
| `MatchingProofs` | `TypeCorrect`, `ClaimsCorrect`, `OneOpenCorrect`, `ClosedIsFinalCorrect` | `TypeOK`, `ClaimsMatchOpen`, `OneOpenPerMember` always hold; `Spec => ClosedIsFinal` |
| `PromiseProofs` | `PromiseKept` | `Spec => KeepsPromise`: `Matching` implements `Engagement` |
| | `RoundsCorrect` | the earlier rounds of a pair that has a later one are closed |
| `StandingProofs` | `StageJustifiedCorrect`, `OpenReviewedCorrect`, `HeldHasNoOpenCorrect`, `OpenIsOfActiveCorrect`, `NoMissedMatchCorrect`, `LiveAuthorizationCorrect` | the other invariants of `center` and `rematch` |
| | `AdvanceNeedsReadyCorrect`, `SafetyBarsCorrect`, `RepeatIsAuthorizedCorrect`, `FlagSparesOnlyReviewCorrect` | their action properties |
| | `BarIsForEver` | a pair that has a safety history keeps it in every later state; like `ClosedIsFinal` and `SafetyBarsProposal` of transactions that are one step, since of two closers that overlap the second may overwrite the reason that bars (`close_race`) |
| `BillingProofs` | `TypeCorrect`, `AppliedOnceCorrect`, `ProviderOrderCorrect`, `HistoryExplainsRowCorrect`, `AckedIsRecordedCorrect` | the invariants of `billing` |
| | `GraceKeepsDeadlineCorrect`, `FailedPaymentNeverRevivesCorrect`, `ReadCheckoutPreservesCorrect` | its action properties |
| | `SubscriptionKept` | `Spec => KeepsSubscription`: `Billing` implements `Subscription` |
| `AccountsProofs` | `TypeCorrect`, `ActsAsListedCorrect`, `ActorIsRecentCorrect`, `AcceptedOnceCorrect`, `LastAdministratorCorrect` | every property of `accounts` |
| `JourneysProofs` | `TypeCorrect`, `MessagesInOrderCorrect`, `CheckInNotEarlyCorrect`, `EnforcedIsClosedCorrect`, `ShownIsCurrentCorrect`, `NothingAfterCloseCorrect`, `PrivateStaysPrivateCorrect` | the invariants of `journeys`, and two that `KeepsConversation` implies |
| | `ConversationKept` | `Spec => KeepsConversation`: `Journeys` implements `Conversation` |
| | `HistorySettlesCorrect` | a closure is rewritten only while a transaction that overlapped it is left |
| `IntakeProofs` | `TypeCorrect`, `FirstDeciderIsPaidCorrect`, `SessionEndsWithAssignedCorrect`, `ScreeningOnceCorrect`, `LogCatchesUpCorrect` | every property of `intake` |

**Assumptions.** `MatchAssumption`: pairs relate two different accounts and are kept in one order, every account was invited as member or counselor; that is what `_pair_key` and the table constraints provide. `BillingAssumption`: the catalog's kinds, times and
periods are of their types, with times and the grace period positive. `AccountAssumption`: `None` is none of the people, sessions, numbers and roles. `PairAssumption`: two members, due times are natural numbers, a week is not shorter than a day (the state "due" compares dates, "upcoming" times, and
only this makes every date "due" fall after the opening), `None` apart. `IntakeAssumption`: the catalog and the agendas are of their types, a manual record has a status and a reference, `None` is none of the values it stands apart from.

**Matching.** There are some twenty-six actions, and only what they do to proposals and claims matters. The lemma `StepKind`
shows that each is one of three kinds of step: a *turn* (`Turns`: some open proposals close and release their claims, some next proposals start as pending and take
theirs, disjoint and free of claims that are kept), a *move* of one proposal to its next stage, or a *join* (a self-paced match). The lemmas below it
have one step per action. Everything else is proved from the kinds:

- `OneOpenPerMember` is not inductive: what keeps a new proposal away from an open one is the claim table, so one must know that open proposals hold their claims. `ClaimsMatchOpen`
  by itself is preserved by every kind, but says nothing about sharing. `Exclusive`, their conjunction, is inductive (`ExclusiveTurn`, `ExclusiveMove`, `ExclusiveJoin`),
  with `TypeOK` as the context.
- `ClosedIsFinal` holds of each kind because lost proposals are open and new ones absent.
- For the refinement, `IsNext` and `Exclusive` give `MayStart`: the earlier rounds of the pair that exist are closed or closing, as they share the members; a turn is a
  `Turnover`, a move an `Advance`, a join a `Match`.
- `RoundsInTurn` follows from the abstract specification alone: a bond starts only when the earlier ones are closed, so the proof never opens an action of `Matching`.

**Standing.** The other properties of `Matching` relate proposals to accounts, evidence, interest and authorizations, which the kinds above do not mention. `StandingProofs` reduces the steps a second time, now by what they touch:

- `Fates`: what may become of *one proposal*. It is kept, closes, opens (and then the pair is eligible, free of a safety history, and has a usable authorization if it is a repeat), is reviewed, or is answered (and then the pair is ready).
- `Turn`: what may become of *one account and its interest*. Either whatever it has is emptied (no open proposal, no waiting interest is left), or nothing that makes it in place, unheld and assigned gets worse.
- `Bounds`: what may become of *one authorization*: kept, ended, consumed, requested or approved under the current assignments; a change of assignment, role or community ends it.

`StepFates`, `StepTurn` and `StepBounds` have a step per action; after them no proof mentions an action again. `Standing` is the inductive invariant, the conjunction of the six invariants and `ReasonOfClosed`. They need each other: that an open proposal is of people in place needs the same of whoever waits for an answer,
since the answer opens a match; that its counselors are current needs that a cleared member has one; that a hold keeps everything closed needs that only the eligible are proposed. The action properties are read off from `Standing`, `Fates` and `Turn`, a repeat's authorization from `LiveAuthorizationCurrent`.
`FlagSparesOnlyReview` needs one more: `Flagged` happens in one action only, which closes the latest introduced proposal; an open proposal that was introduced *is* the latest, by `RoundsInTurn`, so what is spared was not.

**Billing.** The four invariants are not inductive: that an event is applied once needs that a transaction past its receipt is alone with an event that has none. `Inv` adds `WorkerOK` (the receipt belonging to each step of a transaction) and `OneDelivery` (no two
transactions of one event). The action properties follow from the row that `RowAfter` computes for each kind of event; `Unraced` says that the row it starts from is the one it read.
For the refinement, an action that commits (`Apply`, the non-applications, a correction) is a `Take`, a `Note` or a `Correct`, every other one a stutter. That the event taken had no outcome comes from `WorkerOK`, that its time is not older from the comparison with the locked row. `Rollback` is a stutter as receipts and rows become visible only with the commit.

**Accounts.** `ActorOK` says what a rerun still owes to its lookup, field by field and weakened by `stale`; every change of an account by another session sets that observation. `DisablingOK` keeps that somebody else was counted. `LastAdministratorStays` then needs the actor (if it is current) or the other one who was counted (if the count is) to be left.

**Journeys.** `TxOK` is the argument in one place: whoever is past `Enter` holds the lock of the pair and the pair is active; a view has the check-ins as they are; a closing transaction that found nothing open is right, since closed is final. With it every write of data implies that the pair is active,
`EndClose` needs the lock and so nobody is past `Enter`, and `EnforcedIsClosed` is inductive. `Interlock` (a user row is never held exclusively and shared by two) gives the type of the locks. `NotScheduled` relates days to times.
For the refinement, each statement that writes is one `Say`, `SetOut`, `Mark` or `Reply` (that the journey exists when an activity or an answer is written is part of `TxOK`), each closure that wins is an `End`; the lock makes `Reply` take the answers from the row it read. `HistorySettles` follows from how a transaction comes to overlap: only by reading the match open.

**Intake.** `Exclusion` collects how transactions exclude each other: by the lock of the member, by the unique index of the credit, of the receipt and of the session, and by `alone`. Over it, `DecidingOK` (a credit is due exactly while nobody has committed a decision), `BookingOK` (nothing happens to a session that is
being changed) and `AloneOK` (nothing happens to what a transaction without company has read) are inductive together with `FirstDeciderIsPaid`; the action properties are read off at `End`.

**Only model-checked**: the liveness of `Billing` (`EveryEventRecorded`), as liveness under fairness is out of this prover's reach, and the six statements that the code does not meet, for which TLC gives the behaviours. Every other property of a run is a theorem. `RoundsCorrect`, `BarIsForEver` and `HistorySettles` are the reverse: proved, and no property of a run (the second follows from `SafetyBarsProposal` of `rematch`, the third was checked on the instances of `journeys` and `close_race`).
There are no recursive definitions in the project.

## Abstractions and bounds

- *Evidence in `Matching`.* Four Booleans: `ordinary` (profile, consent, covenant, assessment, preferences, screening, account), `entitled` (subscription), `cleared` (the
  current counselor's decision), `held`. These are what the handlers and the closing reasons tell apart. A former member's evidence keeps its values until a handler sets them. `Intake` takes `ordinary` and `cleared` apart.
- *Preferences and scores.* `Pairs` are those whose gender and age preferences agree; they do not change. Scores only order the greedy choice, which is left open.
- *Communities.* One per matching mode; members of one mode are of one community.
- *Actors.* In `Matching` an actor is looked up in the current roster (`SignedIn`), and administrators are not represented individually: what they may do can happen at any time. Actors kept for a rerun are in `Accounts`.
- *Authorizations.* The latest per pair; a live but stale one that a request revokes is overwritten by the new row in the same step. Earlier rows are never read again, except for display.
- *A transaction is a step* in `Matching`. The row locks on members and proposals justify this for review, response, reciprocal interest and rematch, which decide on what they locked. Generation locks the members of its
  pool, and the insert of a hold, an assignment or a block waits for that lock through its foreign key. The closing helpers read open
  proposals with no lock: that is why `Journeys` takes one match apart into statements. What a closure does there to the status is what `Matching` says; what it does to the reason is not (`close_race`).
- When generation closes several proposals of one lapsed member, each gets its own choice of reason; a reconciliation that re-evaluates two lapsed members writes the first one's reason to all.
- *Journeys.* Only the latest lapse of each kind, the texts as version numbers, the writes of a transaction visible at its last step (nobody else sees them before). The pair starts active: how it got there is `Matching`.
- *Accounts.* A person is one Google identity with one verified email, and one Center. A deployment is one step, as the code documents one process.
- *Intake.* One member. Rows of transactions that overlap are ordered by their commits, where the code orders them by the clock of each. Evidence that is computed over several queries of one transaction is read at once. Subscription, holds and proposals are of other modules and do not change.

Bounds, all named: `MaxRounds` (proposals ever created for a pair; 2 is the first number with a repeat, a consumed authorization and a history; 1 where exclusivity and not history is
the question), `MaxUpsets` (steps of `RosterNext` in a behaviour; 2 allows a change and its reversal, or two changes of different people; what is done about proposals is *not* counted), `MaxFlags`
and `FlagKinds` (block and report rows; `rematch` uses blocks only, as both do the same but for the reason, and `center` uses both), `MaxFails`, `MaxCorrections`, `MaxRoleChanges` (one loss; a suspension or a grant; away and back).
`MaxEvents` counts, in `journeys`, changes of the roster and rows members write, and in `accounts`, changes of accounts, expiries and restarts: two, so that one overtakes the other; reads, views, rollbacks and sign-ins are not counted. `last_admin` needs three. `MaxClock` of 2 covers
before, at and after the opening of a check-in due at 2 with a week of 1. `MaxInvitations` of 2 is a double invitation. `Stamps` has four values; stamps that nothing holds any more are taken again, so this bounds only how many are in use at once, and five give the same states. `MaxVersion`, `MaxAssigned` and `MaxAssignments` allow one new version, an assessment that expires and is assigned again, and a reassignment and back.
Three members are the fewest with competition, two counselors the fewest with an authorization, two sessions the fewest that overlap. `SYMMETRY` exchanges values that the checked properties, all of them safety properties there, treat alike; `billing`, which checks liveness, uses none. Deadlock is checked
in every run. The sequences that TLC cannot exhaust were simulated with larger bounds (five events in `journeys` and `accounts`, three invitations, one agenda of everything in `intake`; millions of states each) without a violation.

## Not modelled

- *Stripe gateway*: signature check and translation of payloads; `Catalog` of `Billing` stands for its output.
- *Checkout and billing portal*: calls of the provider around one insert, whose uniqueness per member the table keeps.
- *Personality inventory*: a pure score that only the explanation of a pair reads; its assignment follows the find-or-insert of the assessment in `Intake`.
- *Audit events and outbox*: rows that are only written; no dispatcher reads the outbox.
- *Alerts and analytics*: read-only aggregates.
- *Presentation, health, settings, logging, migrations, backups*: no rules of their own.
- In part: *earnings* (adjustments and the ledger's sum are single inserts and reads), *onboarding* (the contents of a profile are validated before they are saved; match preferences are part of `Pairs`).

Five hazards in `PROJECT.json` have no property; their notes say why. They are the second hold that survives a release (the member stays held, which no property forbids), webhooks with one time, the reason of a lapse (which depends on who notices it, and which neither code nor documents call right), a queue that one former member's re-evaluation aborts, and the audit row that a refusal rolls back.

## Plan

Done: the modules above, their instances, and the theorems. Left, in order of worth:

1. A *register of receipts* (each event taken once, its outcome never rewritten) as an abstract specification of the screening part of `Intake`, like `Subscription`.
2. Responses and reviews of `Matching` as statements, like the closings of `Journeys`.
3. The promise of the credit and of the introductory session in `Intake` as one abstract specification.
4. `Personality` as a function against a reference definition.

To check it: `tlc -workers 2 -config center.cfg MCMatching` (likewise the other configurations, the module being the one `PROJECT.json` names), and `tlapm MatchingProofs.tla` (likewise the other proof modules).
