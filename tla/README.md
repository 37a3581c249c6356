# HustleXP's backend, in TLA+

HustleXP is a marketplace for local tasks. A poster pays into an escrow, a
worker does the task, and the escrow is released to the worker, refunded to the
poster, or split by a dispute. This directory holds a specification of the
backend: what is modelled, what TLC checks on small instances, and what the TLA+
proof system proves for all of them.

Paths below are relative to `backend/src` unless they start with `backend/`.

## 1. The system

The backend is a TypeScript service on PostgreSQL, with BullMQ (Redis) for jobs
and Stripe for money. Requests arrive over tRPC; every longer piece of work is a
job. Four rules shape it:

* a service writes its rows and an `outbox_events` row in one transaction; the
  outbox worker signs the event and adds it to a BullMQ queue;
* a job is delivered at least once: up to five attempts, and a stalled one is
  started again (`jobs/queues.ts`);
* a movement of money is three steps: read under a row lock and commit, call
  Stripe, write the result in a second transaction. Anything can happen between;
* what must never happen is left to triggers, unique indexes and compare-and-set
  updates; what is merely checked by a SELECT before a transaction can be stale.

### Components

| component | state | operations | interacts with | module |
|---|---|---|---|---|
| Escrow row and triggers (`database/constitutional-schema.sql`) | `escrows`: state, version, transfer, refund, provider | every UPDATE passes HX002 (terminal is final), HX201 (release needs a COMPLETED task), HX810 (payouts locked) | all writers of the row | `EscrowRow`, `EscrowLedger` |
| Escrow services, completion payout, disputes, escrow action worker (`services/Escrow*`, `services/DisputeService.ts`, `jobs/completion-release-orchestrator.ts`, `jobs/EscrowAction*.ts`) | row, `disputes`, checkpoints in `escrow_events`, locals of jobs | fund, release, refund, lock; dispute and its outcomes RELEASE, REFUND, SPLIT | Stripe, outbox, task | `Settlement` |
| Outbox and delivery (`jobs/outbox-worker.ts`, `jobs/queues.ts`) | `outbox_events`, jobs | write, claim, enqueue, run, retry, recover | every producer and worker | `Outbox` |
| Stripe's events (`jobs/stripe-event-dispatcher.ts`, `stripe-event-worker.ts`, `payout-event-worker.ts`, `payment-worker.ts`) | `stripe_events`: stored, claimed, processed | webhook, dispatch, claim, five handlers, recovery | ledgers, accounts, plans | `StripeInbox`, `StripeCalls` |
| Chargebacks (`services/ChargebackService.ts`) | disputes at the bank, payout lock, counters | created, updated, closed | users, ledger | `Chargeback` |
| Release effects, XP, XP tax (`services/EscrowRelease*`, `XPService.ts`, `XPTaxService.ts`) | revenue, insurance, verification, XP and tax rows | effects after a release, reconciliation, refund, tax payment | pool, counters | `ReleaseEffects` |
| Insurance pool (`services/SelfInsurancePoolService.ts`) | pool, claims | contribute, file, review, pay | Stripe | `InsurancePool` |
| Payout accounts and cash-outs (`services/StripeConnectService.ts`, `HustlerCashOut*`, `HustlerWallet*`) | account, form, requests, payouts | onboard, sync; request, submit, follow events | Stripe | `PayoutAccount`, `CashOut` |
| Tips (`services/TippingService.ts`) | `tips` | create, pay, confirm | Stripe | `Tips` |
| Task (`services/Task*Service.ts`, `routers/Task*Procedures.ts`) | `tasks`, applications, scope, proofs | post, take, progress, proof, review, complete, dispute, cancel, abandon, expire | escrow, outbox | `TaskLifecycle` |
| Creation and instant matching (`services/TaskCreat*`, `ScoperAIService.ts`, `PlanService.ts`, `jobs/instant-*.ts`) | drafts, keys, clocks, invitations | weigh, price, store once, search in waves | standing, plan, policy | `TaskCreation` |
| Offers and assignment (`TaskAccept*`, `WorkerCounterOffer*`, `TaskReservationService.ts`) | offers, counters, reservations | show, counter, decide, accept, assign, reserve | task, escrow | `Offers` |
| Supply and liquidity (`services/ExpertiseSupplyService.ts`, `LiquidityCell*.ts`, `ControlledTest*.ts`) | capacities, weights, waitlist; cells, expansions, test offers | enter, change, recalculate, promote; evaluate, expand, bind | task | `ExpertiseSupply`, `Liquidity` |
| Standing and access (`services/TrustTierService.ts`, `jobs/trust-*.ts`, `WorkerStanding*.ts`, `routers/admin.ts`, `auth-cache.ts`) | tiers, holds, bans, appeals, roles, sessions | penalise, promote, ban, lift, appeal, revoke | task, escrow | `TrustStanding`, `AccountControl` |
| Credentials and test providers (`LicenseVerificationService.ts`, `BackgroundCheck*`, `LocalCertification*`) | papers, checks, profile; test payouts, cases, screenings | submit, review, expire, dispute; settle, verify, screen | profile, escrow | `Credentials`, `TestProviders` |
| Safety (`services/IncidentSafety*.ts`, `TaskSafety*.ts`) | cases, check-ins, device queues | report, sync, acknowledge, resolve, escalate | operators | `SafetyCases` |
| Ratings, recommendations (`Rating*Service.ts`, `VerifiedPosterRatingService.ts`, `MarketplaceReputationService.ts`) | ratings, evidence, recommendations, signals, appeals | rate, reveal, rate automatically, moderate, recommend, appeal | erasure, moderation | `Reputation` |
| Messages and moderation (`Messaging*`, `ContentModerationService.ts`) | messages, queue, reviews, appeals | send, scan, decide, report, appeal | media | `Moderation` |
| Private media (`MediaUpload*`, `PrivateMediaDeliveryService.ts`) | receipts, objects | upload, finalize, consume, sweep, sign | R2 | `MediaUploads` |
| Proof signals (`Biometric*`, `LogisticsAIService.ts`, `JudgeAIService.ts`) | analyses, marks, opinions | analyse, judge, accept, ask | providers | `ProofSignals` |
| Notifications (`NotificationService.ts`, `email-`, `sms-`, `push-worker.ts`) | notifications, deliveries, outboxes, counters, devices, preferences | create, group, deliver, recover; register, save, push | outbox, providers | `NotificationCreation`, `NotificationDelivery`, `Inbox` |
| Operators (`OperationsExceptionService.ts`) | clusters, claims, retries | claim, give back, retry, cancel | message worker | `Operations` |
| Privacy (`GDPRService.ts`, `jobs/export-worker.ts`) | requests, exports, erasures | request, export, cancel, erase | tasks, every kind of record | `DataExport`, `Erasure`, `PersonalData` |
| Models (`services/AIClient.ts`, `ai/AIRouter.ts`, `AIObservabilityService.ts`, `OnboardingAIService.ts`, `DisputeAIService.ts`, `ReputationAIService.ts`) | cache, budgets, observations, proposals | ask, observe, respond; advise | providers | `AICalls`, `Opinions` |

### What is hard

* Between the two transactions of a payout, refund, tip or cash-out a dispute can
  be filed, a worker assigned, an admin can act, or the same job can run again.
* A crash between a Stripe call and the write of its id must be repaired by the
  retry, through Stripe's idempotency key, and by nothing else.
* The webhook of a call may be handled before the caller's second transaction.
* Some locks do not bump the row's version; others do.
* A claim on an event, a delivery or a receipt outlives the process that took it.
* Several services check something and insert afterwards (tips, counters of
  notifications, weights of a cell, recommendations, licences): two of them at
  once both pass the check.
* Signer and verifier of a job serialize the payload separately.
* A request is tried again with the same key after the world has changed.

`PROJECT.json` lists the hazards with their lines, and for each the properties
that would notice.

## 2. Modules

A module models one component, takes what it interacts with as actions of its
environment, and names every bound as a constant. `MC*` modules instantiate them
for TLC. What the reader should know of each:

### The settlement of an escrow

`EscrowRow` has the states, transitions and triggers as pure operators;
`EscrowLedger` is the abstract specification: what an escrow promises, without
processes; `Settlement` is the detailed one, with its properties and the
refinement. The two share the transition table and nothing else.

| variable of `Settlement` | code |
|---|---|
| `escrow` | the row: state, version, stripe_transfer_id, stripe_refund_id, payout provider |
| `task` | tasks.state; ACCEPTED stands for the states of accepted work before a proof |
| `dispute` | disputes.state, replaced by the outcome once it is RESOLVED |
| `evidence` | escrow_events: the transfer a dispute forgot, the checkpoints of reversal and partial refund |
| `queue` | unfinished jobs of `critical_payments`, from the commit that writes them to the run that completes them |
| `claimed` | stripe_events.claimed_at of queued events |
| `proc` | for each process the next step and the locals that survive a commit |
| `stripe` | transfers, reversals and refunds that exist, named by their idempotency suffix |
| `payee` | the worker's payout account: ready, not current, restricted by Stripe, payouts locked |
| `faults` | errors and crashes so far, bounded by `MaxFaults` |
| `raced` | history: which of the named races happened |

A handler is cut into actions exactly where it commits or calls Stripe:
`CompletionLoad`, `CompletionTransfer`, `CompletionPersist`, `CompletionRelease`
are the four steps of one payout, `RefundLoad` to `StoreRefund` those of a REFUND
outcome, and so on; each is one transaction or one call, with its early returns
and error paths as the branches of the action. `Return` completes the job and
`Throw` leaves it for a retry or, when its attempts are exhausted, drops it.
A transfer to an account that is not current, or that Stripe refuses, ends in a
`Throw` (`TransferFails`): the lock `jobs/EscrowActionRestriction.ts` would write for
a restricted account is never reached, because createTransfer has turned Stripe's
error into a plain one by then. `Fail` (an error) and `Crash` (a dead worker) can hit
any process between two steps, and a stalled job can be taken by a second process while the first goes
on. Stripe is external: `CreateTransfer(t)` is idempotent in `t`, the suffix the
code puts in the key, and emits `transfer.created` once; refunds beyond the charge
are refused; a reversal key names the escrow only, so one transfer is reversed.

`MCSettlement` adds which jobs pass the signature check (`JobsThatVerify`: the
order of the payload's keys on both sides) and the claims of section 6.

### The other modules

| module | a step is | bounds (constants) |
|---|---|---|
| `Outbox` | a poller's transaction, its queue.add, one run of a handler, a write of a recovery path, BullMQ's stall or removal of a job | MaxAttempts, JobAttempts, MaxFaults |
| `NotificationCreation` | one statement of createNotification (replay, counters, group, insert, supersede, increment, delivery, queue); the recovery | HourlyLimit, DailyLimit, GroupMax, MaxAttempts, MaxFaults; the keys each part of `MCDelivery` asks for |
| `NotificationDelivery` | one transaction or provider call of the workers of email, SMS, push; a call that throws although the provider took the message (`lostReply`), a claim or an UPDATE of the provider's id that fails | MaxAttempts, MaxFaults |
| `StripeInbox` | webhook, dispatch, claim, one effect of a handler, finish or release, recovery | MaxEvents, MaxFaults |
| `Chargeback` | a handler's transaction, and the state read before it | PriorCount, MaxFaults |
| `TaskLifecycle` | one transaction under the task's lock; what is left between two, and the second that fails (`RejectionLost`); the reports of the engine as operators | MaxProofs, MaxVersions |
| `ReleaseEffects` | one effect's transaction, the run of a reconciliation, payment of the tax, a refund of an escrow that was not released and its clawback | DailyCap, LevelStep |
| `InsurancePool` | file, review; the two transactions of payClaim and its transfer | MaxFilings, MaxClaim, MaxDeposits, MaxTransfers |
| `CashOut` | write the request, call Stripe, write the answer; an event of the payout and its three steps | Balance |
| `PayoutAccount` | create at Stripe, write the account, form; a change at Stripe and its event | MaxChanges |
| `Tips` | the check under the lock, paymentIntents.create, INSERT, cancel; the poster's payment; confirm, UPDATE, booking | MaxDays, MaxBooked |
| `ExpertiseSupply` | a serializable transaction; the statements of the daily recalculation; the promotion from the waitlist | MaxWeight, MaxRecalcs, MaxAdmitted |
| `Liquidity` | an evaluation, an expansion's approval, a task's binding and acceptance, an offer's review | from Liquidity's policies |
| `Offers` | one transaction of the three ways to an assignment; the counter corridor in integer cents | MaxActive, MaxTerms |
| `TaskCreation` | the stages of a call of create; a wave of the instant search | the policies' limits |
| `TrustStanding` | a transaction under the user's row lock; a penalty's job that the trigger refuses (`PenaltyFails`) | Attempts, MaxDecisions, MaxAppeals, MaxChanges |
| `AccountControl` | each statement of a ban, of a change of roles, of a response to fraud; an authenticated call | MaxOrders |
| `Credentials` | a submission's check and insert, a review, a report's events, the refresh of the profile | MaxDay |
| `TestProviders` | a provider's transaction with its advisory lock | the sets of callers |
| `Moderation` | one statement: the row of a decision and its effect are two; the ends of a call that stores nothing (`SendRefused`) | MaxItems, MaxReviews, MaxAppeals |
| `MediaUploads` | one call to the database or to R2 | the sets of callers |
| `ProofSignals` | an analysis begun, answered, written; the judge; the acceptance | the sets of requests, reviews, jobs |
| `SafetyCases` | a report's transaction; the device's queue; the sweep of overdue check-ins | the lists of reports |
| `Reputation` | reads of a rating or recommendation before its commit, and the commit | the sets of calls |
| `Inbox` | register, prune and hand on a device; a push; save and read preferences; the clock of a quiet night | Cap, MaxMoves |
| `DataExport`, `Erasure` | one statement or transaction of the request and of its executor; the erasure's failures at Stripe, in its checks and of the session revocation | MaxFaults |
| `PersonalData` | what an erasure does to a kind of record; an export's reads, kind by kind | MaxRestarts |
| `StripeCalls` | a call through the circuit breaker, Stripe's idempotency keys, the failure events | Threshold, MaxMade, MaxForgets, MaxRuns |
| `AICalls` | cache, provider, observation, answer; the budgets' counters; onboarding's job | the sets of calls |
| `Opinions` | a change of the dispute or record; the rules' and scores' advice as operators | the lists of facts |
| `Operations` | claim, give back, schedule, cancel; the recovery's claim and send | the sets of callers |

Most safety properties that the code ensures only when nothing overlaps are
stated with the race that breaks them: a history variable (`raced`, `crossed`,
`together`, `overlapped`, `torn`, ...) is set when two named steps interleave, and
the property says that the bad state arises in no other way. They show both that
the hole is there (the run's actions reach it) and that it is the only one.

## 3. Runs

| run | module | what it explores | shows |
|---|---|---|---|
| `safety` | `MCSettlement` | two processes, every operation, four states of the payout account, one error, crash or stall | type, eight safety invariants, the refinement of `EscrowLedger` |
| `completion_settles` | same | disputes, locks and refunds beside a completion, every fault | a completed task's escrow leaves FUNDED |
| `resolution_settles` | same | releases, refunds and admins beside a dispute, errors | a resolved dispute settles the row |
| `delivery` | `MCDelivery` | `Outbox`; `NotificationDelivery` over the three channels; `NotificationCreation` with limits, with groups, and with failures | sent once but in a named race; limits overshoot boundedly; what is done stays done; without crashes all is delivered |
| `events` | `MCEvents` | `StripeInbox`, with events of one account handled in any order, and `Chargeback` | booked once; accounts are current unless an older event came over a newer one; events settle |
| `privacy` | `MCPrivacy` | `DataExport`, with the schema of the repository (`deployed`) and with the one the code expects; `Erasure`; `MediaUploads` | one executor at a time; COMPLETED is done; a request ends: an export is rejected with the one schema, completed with the other; a deletion that somebody began is carried out |
| `money` | `MCMoney` | `ReleaseEffects`, `InsurancePool`, `CashOut`, `PayoutAccount`, `Tips` | money moves once; totals add up; what settles is complete; Stripe is followed |
| `tasks` | `MCTasks` | `TaskLifecycle`, `ExpertiseSupply` | states are backed; accepted work can be done; supply is counted; workers are invited in turn; a rejected proof is retaken or its second transaction was lost |
| `conduct` | `MCConduct` | the other nineteen modules | records agree; steps are allowed; work ends |
| `job_boundary` | `MCSettlement` | jobs as they are signed and verified | violation: no completion job passes its worker's signature check |
| `double_transfer` | same | a payout in flight and a dispute | violation: both payouts are sent |
| `task_stuck` | `TaskLifecycle` | instant mode | violation: an accepted instant task cannot be started |

Components that share no state are explored one after another in one run: the
initial state picks a `part`, only that part's variables move (`Others`), so
their states add up instead of multiplying. A property of such a run is the
conjunction of what its parts promise under one heading; each conjunct is a
definition of the component's module, with the comment that states it, and is
instantiated for the parts it is about.

### Bounds

Two of everything that races (processes, pollers, workers, callers, requests)
and one or two of what they race for. Every hazard listed is about two actors
and one row, or about one actor who stops between two steps and the one who
comes after; where a third matters (three attempts of `ExpertiseSupply` at two
places, three executors, three papers of which two are of a kind) there are
three. Two payments or awards are enough for a cap of one, and amounts are the
smallest that tell the movements apart: in `Settlement` 10 (escrow), 8 (net
payout), 4 and 5 (split), of which any full movement together with any other
exceeds the escrow. Faults are bounded by `MaxFaults` (one to three): one
separates the steps of a handler, two hit a handler and its recovery; retries
after them are unbounded. A bound never ends a handler half-way: it disables what
starts one. Process symmetry is used in `safety` only, where no liveness is
checked. Deadlock checking is off because the end of a bounded story, such as a
settled escrow without jobs, is no error.

### Properties of the settlement

* `RecordedIdsAreIssued`: no id is kept, anywhere, before its object exists.
* `SettlementIsBacked`: a settled row names what settled it, and that exists at
  Stripe. The exception is the race `unpaid`: prepareRefund does not look whether the
  escrow is paid, so a refund asked for while the row is PENDING calls nothing at
  Stripe, and if the payment is confirmed before its second transaction, the row is
  closed as REFUNDED and Stripe keeps the charge. The property says that there is no
  other way.
* `ReleasedTaskIsCompleted`: a released row's task is COMPLETED and stays so.
* `DisputeOutcomeIsExclusive`, `SplitRefundsFirst`: the action worker pays one
  outcome, and of a split the poster first.
* `VersionMeansOpen`: an unchanged version means the row is open, although some
  locks do not bump it. It is why a write by version needs no look at the state.
* `OverpaymentNeedsARace`, `UnracedPayoutIsRecorded`: the other three races named in
  `Races` (the row leaves FUNDED under a payout in flight; a manual payout is
  recorded under a transfer in flight; a worker is assigned or favored under a
  full refund in flight) are all that move money twice (`MoneyRaces`). Without one of them poster and worker
  never receive more than the escrow holds, and no payout is forgotten.
* `RowImplementsLedger`: the refinement, as a PROPERTY. A row may be REFUNDED without a
  refund, as above; what the ledger forbids is an undeclared transition, a change of
  a settled row, and a refund id that something else than a settlement replaces.

### Fairness

Nothing is assumed of people: no request, proof, dispute, resolution, payment or
review ever has to happen. Assumed is only what the platform does by itself:

* a handler that runs goes on (weak fairness of its next step: Node runs it to
  its next await), and a transaction that began commits;
* a job that waits is taken (BullMQ). In `Settlement` a kind of job may be
  disabled while both processes are busy, hence strong fairness there; elsewhere
  a worker keeps its job until it is done, and weak fairness is enough;
* pollers and sweeps come again (they are repeatable jobs), a webhook Stripe owes
  arrives, and time passes.

Nothing is assumed of the call of executeDeletion, because no code makes it: what
is checked is that a deletion that has begun ends.

Faults are bounded, so infinitely many retries do not fail. Where attempts can be
exhausted, they may be exhausted at any throw, which is weaker than the code's
five, so a property that holds does so with any number of attempts. Liveness is
checked in the parts without crashes where a crash defeats it (`calm...`, `idle`,
`twice`); section 6 says which those are. Where the code gives something up, the
property names it instead: a rejection whose second transaction failed
(`RejectedIsRetaken`), a penalty whose every attempt met tier 0 (`PenaltyIsRecorded`),
a message that was refused or whose insertion into the queue failed and was
logged (`SentIsQueued`). `completion_settles` uses a ready
payout account: with another one the code gives up by design and tells the
admins. `resolution_settles` leaves crashes out, because with one the property
fails.

## 4. Proofs

TLC checks small instances; the theorems hold for every value of the constants
that the module's assumption allows. The assumptions only give the constants
their types (amounts are natural numbers in the order a fee and a split leave
them; scopes and fault kinds are subsets of the sets the module names; numbers of
attempts and of tasks at once are positive). Sets of workers, events, keys and
claims are any sets; the tasks of `Offers` and the disputes of `Chargeback` are
finitely many, because they are counted, and so are the processes and keys of
`NotificationCreation`.

`Services_proofs` extends `MCDelivery`, and with it the instances of `Outbox`,
`NotificationDelivery` and `NotificationCreation` that the run composes; it reaches
`CashOut`, `InsurancePool`, `Tips` and `Offers` as named instances of its own. `Privacy_proofs`
extends `MCPrivacy` and proves about `DataExport`, `Erasure` and `MediaUploads`
through its instances. `TaskLifecycle` and `Chargeback` carry their proofs themselves.
`MCTasks`, `MCEvents`, `MCPrivacy` and `MCDelivery` compose instances of proved modules,
so their theorems are about the very properties their runs check, for any workers,
disputes, requests, tasks, receipts, outbox events, creators, keys, limits and bounds; the kinds of event, the modes, the kinds of fault
and the ways to get a task of each part are as the parts list them. What each part's
module assumes of its constants is an ASSUME of the composing module (`Assumptions`),
so every run evaluates it.

| module | theorem | says |
|---|---|---|
| `Settlement_proofs` | `TypeCorrect` | `Spec => []TypeOK` |
| | `VersionCorrect` | `Spec => []VersionMeansOpen` |
| | `RecordedIdsCorrect`, `ReleasedTaskCorrect`, `SettlementCorrect` | the three invariants about ids, released tasks, settled rows |
| | `RowCorrect` | `Spec => RowImplementsLedger`, that is `Ledger!Spec` |
| | `OutcomeExclusive` | `Spec => []DisputeOutcomeIsExclusive` |
| | `SplitOrdered` | `Spec => []SplitRefundsFirst` |
| | `PayoutRecorded` | `Spec => []UnracedPayoutIsRecorded` |
| | `OverpaymentRaced` | `Spec => []OverpaymentNeedsARace` |
| `StripeInbox_proofs` | `EventsHandledOnce` | two workers at one event only after a recovery; booked and told once |
| | `ProcessedStaysFinal` | a processed event stays so |
| | `AccountIsKept` | the account is as the last event says, or an older event was written over a newer one |
| `Privacy_proofs` | `PrivacyTyped`, `RequestsAreAlone`, `CompletedIsReal` | `Spec => []TypeOK`, `[]OneAtATime`, `[]CompletedIsDone` of `MCPrivacy` |
| | `ErasureIsDone` | COMPLETED is erased, the sessions revoked unless the revocation was missed, and an erased user's tasks hold no money |
| `Services_proofs` | `PaidIsPaid` | PAID and REVERSED reached the bank, and the balance is conserved, whatever is lost or repeated |
| | `OnePayoutIsLive`, `RequestsAgree` | one at a time and nothing lost: one payout under way; the request ends as the payout did |
| | `PoolIsCovered`, `ClaimPaidOnce` | claims never exceed deposits; while keys last, one transfer for a claim, and only of a paid one |
| | `TipsTyped`, `TipsCorrect` | one tip is paid, the one on record; a dead tip comes of crossed calls or a failed insert |
| | `CorridorKeepsMargin`, `AcceptedIsBounded` | the corridor of counters implies the tests after it; the gain and the rise are bounded |
| | `OffersCorrect` | a worker has a task on terms the worker was shown; one approved counter of a task, replaced when refunded; overload only after overlapping assignments; whom the engine reserves stays fit |
| | `OutboxCorrect` | one poller holds a row before it is enqueued; a job runs twice only in a named race |
| | `OutboxStaysDone`, `OutboxHandsOver` | a processed row is put back only in a race; without crashes a row that says 'enqueued' has a job or a poller |
| | `DeliveryTyped`, `DeliverySentOnce`, `DeliveryOvershoots`, `DeliveryStaysDone` | `Spec => []TypeOK`, `[]SentOnce`, `[]OvershootIsBounded`, `Spec => StaysDone` of `MCDelivery` |
| `TaskLifecycle` | `LifecycleCorrect` | a completed task's proof is of the scope in force; refunds are final; the engine's reports agree |
| | `ExecutionFreezes` | `Spec => FrozenByProposal`: no work while a change of the scope waits |
| | `ReservedCanWork` | what is had by reservation can be worked on |
| `Chargeback` | `ChargebackOnce` | a chargeback is counted, booked and reversed once, whatever is repeated |
| | `PayoutsAreLocked` | payouts are locked while one is open, unless a count was overtaken |
| `MCTasks` | `StateStaysBacked`, `ReservedCanBegin` | `Spec => []StateIsBacked`, `Spec => []AcceptedCanWork` |
| `MCEvents` | `EventsTyped`, `EventsBookedOnce`, `AccountsStayCurrent` | `Spec => []TypeOK`, `[]BookedOnce`, `[]AccountsAreCurrent` |

### The arguments

**Settlement.** `TypeOK` is not inductive: the handler of a refund event reverses
the transfer it holds, and only its program counter says that it holds one.
`TypeInv` adds which steps hold an id. `VersionMeansOpen` is inductive on top of
it: every write of the row bumps the version except the lock of a chargeback,
which leaves the row open (`StepVersion`), and every step that guards by a version
has read it from an open row (`StepSound`). `StepRow` then says that any step of
the system does one of eight things to the row; the two writers that look only at
the version are the cases that need it. The theorems about ids, tasks and
settlement follow from `StepRow` without going through the actions again, and
each of the eight things is a step of the ledger or a stutter. That a row without a
refund's id was closed by an early refund is `UnpaidIsRaced`: whoever holds such a
refund found the row unpaid, and the row is still PENDING or the race is recorded.

The four about money need to know which outcome a job belongs to.
`TaskFollowsDispute` ties the task to the dispute, `OutcomeSound` says that a job, a
running handler, a transfer or a refund of an outcome exists only after the
dispute was resolved that way; since a dispute is resolved once, two outcomes
exclude each other. `SplitSound` follows the split's refund id from Stripe through
the locals and the checkpoint to the step that pays the worker. `RaceFree` is what
the absence of a race means for every payout in flight: the row is still the
FUNDED one it was loaded from, and nobody was assigned under a refund. With
`MoneySound` (Stripe refunds at most the charge; a provider is named by a release)
the sum of the movements is then bounded by cases on the one that came first.
`ProcessStep` describes how a process moves, so that the invariants about many
steps are split once per step and not once per pair.

**Outbox.** `OutboxInv`: counters are bounded; a held row that has no job yet says
'enqueued' and is held by one poller (`HeldByOne`); an event that was in no race was
delivered at most once, and when it was, its job is over (`DeliveredOnce`: BullMQ
still knows it, or nobody is going to add it again). `ClaimedByOne` is stated of
pairs of pollers rather than with a Cardinality, so that their set may be any.

**Deliveries.** `SendInv` says of each run of a job what it knows. `AttemptsLeft`: what
may fail again has an attempt left. Until a run is given up, taken over or put back
(`raced`), whoever holds the claim of a message is alone (`MessageOnce`, `PushOnce`), and
that it was sent is told by its row or by that run's place. Emails and texts have a row
of their own to claim, and the provider's id in it tells; a push has only the status of
its outbox row, and the delivery that is no longer sendable tells. TLC, given a
third run, showed a way to send twice that the history variable did not know: a run
whose clock says 'not due' puts the row back under one that has claimed it. It counts
as a race since. `CalmKnows` is what superseded messages need: without crashes one run
is under way at a time, and a run authorized before the supersession finds a row that
cannot be claimed.

**Creation.** `CreationInv` says of each call and row what they know of each other:
a group together with the calls about to join it exceeds its limit by at most the other
processes (`GroupsHaveRoom`, which counts rows and calls by Cardinality), and what is
newer than a notification about to supersede is known to have been inserted since
(`NewerIsKnown`). `QuotaInv` bounds the notifications of a category once by the counter
with the calls about to increment it and the faults, and once, with the calls past the
check, by the limit: the check turns the first bound into the second. It is stated of
the parts whose limits can be reached (`limited`, `faulty`).

**Stripe's events.** `HandlingInv` says of each event who waits, who has the claim
(`Claimed`, `Alone`) and what is booked (`Booked`): the ledger's unique event id
comes before the notification, so a second handler books nothing. `AccountInv`
adds that the account is never ahead of what the account did and, as long as no older
event was written over a newer one, at least as new as every event applied (`Follows`);
with all of them applied the two meet. Nothing is assumed of the order of the claims.

**Chargebacks.** `ChargeInv`: an event carries a status of Stripe's (`Sent`, without
it the tier of a row could not be told), the poster's counter is what the recorded
disputes call for (`Counting`, with the library's `FS_AddElement`), a row's entries and
reversals are (`Reversing`), and a dispute that a worker is closing as won is open and
no other worker's (`ClosedByOne`): the row's lock keeps updates out. `OthersSeen` is
what makes the lock of the payouts last: while nobody raced, a worker that counted no
other open dispute has seen all there are, so it may unlock.

**Tasks.** `LifeInv` has what a task's state says of its row (`RowSound`), of escrow and
jobs (`MoneySound`) and of the proofs (`ProofSound`). `TypeOK` alone is not inductive:
a change that is reviewed makes a version more, so `ScopeSound` keeps a waiting change
below the bound and in a taken task. The reports of the engine are the first rule of a
list that applies (`FirstApplies`, `FirstIsOne`); the list's and the bridge's rules
differ in the first only, and `FirstSkips` says that a rule that does not apply may be
left out. With `Paths` restricted to the reservation, `CanWork` holds the worker of the
reservation and of the task together.

**Composed runs.** In `MCTasks`, `MCEvents`, `MCPrivacy` and `MCDelivery` a step is one of the part
that moves and leaves the other variables alone (`TaskMoves`, `PartsMove`), so the
invariant of the composition is that of the component each part instantiates; the
lemmas of the component are cited through the instance (`Calm!AccountStep`). Of two
parts of `MCPrivacy` that share their variables, the one without faults only does less
(`CalmIsFaulty`, `IdleIsBusy`, `TwiceIsFailing`), so one invariant serves both; in
`MCDelivery` likewise (`CalmIsBox`, `CalmIsSending`), and the four parts that create are
steps of one instance, `Every`, with every kind of fault, and of a check that may answer
anything (`AnyCheck`; `LimitedIs`, `FaultyIs`, `GroupedIs`, `RecoveredIs`).

**Erasure.** `Admitted`: whoever is past the compare-and-set has the request to
itself, or lost it to a cancellation. `Progressed` says what an executor has found
out at each of its steps; a posted task that is not on its list has ended, a
worked one holds nothing, and the trigger on terminal tasks keeps a user from
being erased when an earlier attempt cancelled a task without refunding it.

**Exports.** `Exclusive`: unless two calls overlapped, whoever has a request in
progress or is about to write one (`Holds`) is alone; the step that could break it is
the check of `createRequest`, which either finds the request or sets `raced`.
`Uploaded`: past the upload the object is there, and nothing removes it. The type of a
job needs `JobLeft`: what waits has an attempt left, and a job is created once, when its
call is over.

**Uploads.** `ReceiptHasObject` needs what each actor knows of a row it read before:
a call about to finish finds the object unless the row has left QUARANTINED
(`CallKnows`), the sweep takes objects of old receipts only, and of a consumed one
only if it grew old in its consumer's transaction (`SweepKnows`, `UseKnows`). `Serial`
is the condition under which the property is stated: several calls at a time and no
failure, hence no call that takes the object back; or one call at a time, whose receipt
nobody has finalized. `Moves` describes a call's step by what it does to its receipt.

**Cash-outs.** `PaidInv`: a payout's row is truthful about events that Stripe sent
(`Truthful`, `Honest`), and the balance plus the payouts under way is constant. Its
Cardinality is handled key by key with the library's `FS_AddElement` and
`FS_RemoveElement`. `AgreeInv` adds, under `Careful` (one caller, no lost answer),
that the active row is the only one and follows the events applied. `Careful` is
needed: without it TLC finds a worker with two live payouts.

**Insurance pool.** `PoolInv`: the number of transfers of a claim is one when
Stripe has its key and zero otherwise, and only a paid claim has a key. `~KeysExpire`
is needed: when Stripe has forgotten the key, a retry transfers again, and the run
that lets it checks the rest.

**Tips.** `MoneyFollowsSecret`: a secret is given out with the row it belongs to,
the row keeps its intent, so what is paid is the tip on record.
`CancelledIsAnothers`: a call cancels an intent of its own amount, and one that is
still creating shares the tip's amount only if the amount was crossed.

**Offers.** `OffersInv`: a task whose assignment is decided is open, on terms its
worker was shown, and locked, so neither its terms nor its state change before the
commit (`RowSound`); `Has` is stated of pairs of workers, so that their set may be
any (`ReplacedSound`). `Loaded` is why overload needs a race: of a worker with no
overlap at most one task is decided, and then the worker is below the limit, so
the commit reaches the limit at most. The step about the engine uses that its
transaction holds the worker's row while anything else that would change the
worker's fitness waits. It needs finitely many tasks and a limit of at least one;
the code's is five.

### Only model-checked

* Liveness (every leads-to and every property under fairness) and ENABLED are out
  of the provers' reach.
* Induction over data: that the pool's counter is the sum of its reservations
  (`PoolIsReserved`), that weights add up (`SupplyIsCounted` of `MCTasks`), what recursive
  functions and folds compute (the key orders of `JobsThatVerify`, ladders of prices).
* The invariants of the modules without a proof, and with them those of `MCMoney` and
  `MCConduct`, of which some components are proved (`InsurancePool`, `CashOut`, `Tips`;
  `Offers`) and others are not.
* `TypeOK` of `MCTasks`, because the type of a weight in `ExpertiseSupply` is a bound on
  a sum; and `InTurn`, whose part about frozen tasks is `ExecutionFreezes`.

## 5. Not modelled

* Of the settlement: `transfer.failed`, `payment_intent.payment_failed` and
  `payout.failed` as writers of the row (the first tries a transition HX002
  rejects, the others do not write it; their own effects are in `StripeCalls`);
  the escrow service's own partial refund, which splits an escrow without a
  dispute; tasks paid outside the escrow; an escrow whose platform fee is quoted,
  whose split always throws (`QuotedFee`, FALSE in all runs); the payout
  destination in one of the key's suffixes.
* The refund jobs of cancellation, expiry and abandonment: their payload has keys
  the worker's schema does not know (`services/TaskCloseService.ts:71`, `:84`,
  `TaskAbandonService.ts:121`), so they change nothing.
* `lib/money.ts` and the rounding of fees: floating-point arithmetic and integer
  cents, a matter of induction over data. Where a sum matters (the corridor, the
  pool, weights in twentieths) the module computes it.
* Formatting, texts, templates, translations; dashboards, analytics, betas,
  rankings and recommendations that only read; subscriptions beyond their Stripe
  events; squads, recurring work, business workspaces, referrals; HTTP, tRPC
  routing, rate limits, caches other than the session's and the model's, realtime
  streams, object storage beyond private media: pure input and output, or state
  that no property here is about.
* Tax reporting: its table `tax_filings` exists nowhere and its entry has no caller.
* Code without a caller: `TrustTierService.banUser`, `assessLogisticsRisk`,
  `detectDeepfake`, `validateCapture`, the queue biometric_analysis,
  `cleanupExpiredNotifications`, `cache/connection-registry-redis.ts`.
* Of the components marked `partly` in `PROJECT.json`, what their notes say.

## 6. Where the code and what is said of it differ

Three runs keep a refuted claim; `PROJECT.json` quotes the line each contradicts.

| run | the code |
|---|---|
| `job_boundary` | jobs are signed over the database's key order and verified over the schema's, so a completion job never passes |
| `double_transfer` | a payout loaded before a dispute is sent again by a RELEASE resolution, under another key |
| `task_stuck` | a task accepted in instant mode cannot be started |

The other runs assume that the signature passes (`VerifiedJobs` names all kinds),
so that what lies behind that boundary is checked too.

The following were met while modelling. Each is a definition that stays in its
module, is violated under the named condition, and is in no run.

**Settlement** (`MCSettlement`): `FrozenDuringDispute`: a payout loaded before a
dispute is sent after the lock. `SplitEndsPartial`: the webhook of a split's partial
refund can make the row REFUNDED, and the worker's share is never sent.
`RefundNotAfterAcceptance`: a worker can be assigned between the two transactions of
a refund. `SettlementIsBacked` without its exception: a refund asked for before the
payment is confirmed closes the row after it, and the poster's charge stays at Stripe.
`ReversedReleaseIsRefunded`: a charge.refunded event after release reverses the worker's
transfer and then fails on HX002 for ever. `ReleasedCanBeDisputed`: so does a dispute
of a released row. `ResolutionSettles` with crashes: a worker that dies with a
claimed Stripe event loses it; maintenance clears the claim and enqueues nothing.

**Outbox, notifications.** `EventIsDelivered` with crashes: a poller that dies after
its commit leaves a row no poll selects. `ExhaustedRowFails`: a row put back is added
under an id BullMQ still keeps, which adds nothing. A late failure matches rows by
key alone. `DeliverySettles` with crashes: a stalled job comes back before the claim
is five minutes old, and ends as if done. `AnsweredHasDelivery`, `AnsweredIsCounted`:
a re-run of createNotification returns before the channels and the counter. A message
goes out twice when the provider took it and the call or the write of its id failed,
and when the catch of a run without a claim puts back what another has sent: the
model records these with the other races (`SecondSendNeedsARace`).

**Stripe.** Events of one account are handled in any order and a retried older one
overwrites a newer status (`overtaken`). `WonIsReversed`: a 'closed' before its 'created', or after an update
that carried the final status, is not applied. `LostStaysLocked`, `OnlyLostCounts`,
`BlockedIsNotPaid`: winning the last open dispute unlocks a poster who lost another;
a closed warning counts as lost; a loss is classified by a state read before.
`PaymentFunds`: the entitlement processor throws for an escrow's payment, and nothing
else writes a PENDING row's intent, so the webhook never funds. `PlanIsMonotonic`:
a plan is overwritten at once. `OneTransferPerEscrow`, `StuckNeverHappens`,
`FailureIsTold` (`StripeCalls`): keys expire; a half-open breaker can refuse for
ever; a failure's notice can be lost. `executeWithOutbox` is not atomic.

**Money.** `CapIsKept` with overlapping awards or a Redis error; `HeldUntilPaid`,
`PaymentReleases`, `LevelFollowsTotal`: XP is given with the tax unpaid, a payment of
two rows is collected and rolled back, levels lag. `TransferredOnce` when keys
expire; `ApprovedIsPayable`, `FiledWithinMax`: a reservation counts against the claim
itself; a claim over the maximum is accepted. `LastWordIsTrue`, `InitiatingEnds`,
`SettledAgrees` and `OneLivePayout` of `CashOut` with lost answers or two callers of
one key. `OneAccount`, `ReadyIsOnboarded`, `FormIsKept` of `PayoutAccount` with
faults, two callers or unordered events. `TipIsCapped`: the price is in cents and
taken for dollars. `TipBookedOnce`: two confirmations book twice. The loser of two
equal tips cancels the winner's intent, and the dead tip bars all others; no webhook
confirms a tip that was paid.

**Privacy.** `ExportSettles`: the export's row lacks a column the schema demands;
one failed upload spends all attempts. `CancelledStays`, `ReadyIsAnnounced`: a
cancelled export is revived, a finished one is not announced after a crash.
`DeletionHappens`: nothing calls executeDeletion; history, a PENDING escrow or a
failed attempt stop it. A completed erasure may have left the sessions alive: a failed
revocation is logged only, and without an identity there is none (`missed`). `CancelledKeepsData`, `ProcessingHasAnExecutor`,
`CancelledIsRefunded`. `ExportedIsErased`, `ExportIsComplete`, `OncePerCooldown`
(`PersonalData`); one RESTRICT reference stops the whole erasure. `ReceiptHasObject`
with two failing finalizers and `EndedLeavesNothing` (`MediaUploads`).

**Tasks.** `WithdrawnIsNotAssigned`, a rejection that was lost (`RejectedIsRetaken`),
`UnattendedWaits`, `TravelsWhenAccepted`: a withdrawn application is accepted; a
rejection's second transaction may fail and is lost for good, as its review is already recorded; a retaken proof inherits the first
message; the worker of a cancelled task still travels. Reports of the engine answer
INCONSISTENT_STATE for unattended completions and disputed tasks, and the list says
AWAIT_PAYMENT of a cancelled unpaid task. `AuthorizedIsUnassigned` (`Offers`).
`WholeWorker`, `WaitlistedIsWaiting`, `ExpiredIsRequeued`, `NewcomerIsWhole`,
`HardCap`, `RecordIsSum` (`ExpertiseSupply`): the trigger raises HX801 where the code
looks for HX901; the recalculation overwrites what was admitted meanwhile. A retry
of a creation conflicts when the policy's risk differs from the stored one
(`TaskServiceShared.ts:117`). An expired counter bars its worker for ever.

**Conduct.** `PenaltyIsRecorded` at tier 0: the floor makes a penalty a promotion,
which the trigger refuses; after three attempts the job is given up and the penalty lost. `HoldHasAnEnd`, `LiftedIsReviewed`: a hold is
never reset; the appeal of an older ban lifts a newer one. `PhotoIsReviewed`,
`OverturnedIsRestored`, `ReviewersAgree`, `SentWhileOpen` (`Moderation`).
`DisputedWhileOpen`, `CorrectedStays`, `ClearedIsClear` (`Credentials`): nothing marks
papers expired, and an expired licence bars its renewal. `RefundedIsUnpaid`,
`VerifiedCaseCounts` (`TestProviders`). `CollectedWithConsent`, `SubmittedOnce`,
`CriticalIsNotApproved` (`ProofSignals`). `NoForeignPush`, `CapIsCap`, `OneEmail`
(`Inbox`): a token may be active for two accounts. `SentIsAccepted` with a lost mark
and `CancelledOnce` when outrun (`Operations`). Of `AccountControl`: escrows has no
poster_id or worker_id, so a ban's queries on them fail, and a late lift deletes a
newer ban's marker. Of `AICalls`: a cached answer is looked up under another model
than it was stored under, an uncacheable answer is paid for twice, budgets overshoot
side by side. Of `Opinions`: no evidence names its dispute, so every open dispute is
advised SPLIT. Of `Liquidity`: nothing re-evaluates cells by itself. Of
`SafetyCases`: an overdue check-in of a participant who left blocks the escalation of
all later ones; a report recorded between its reads is called a conflict.

**Ratings** (`Reputation`). `BlindStaysHidden`: the approval of a moderator shows a
rating that is still blind, and averages count it from the start.
`ErasedStaysHidden`: the second rating's UPDATE shows every row of the task, hidden
ones too; and the erasure's `comment = NULL` is refused by the trigger that keeps
content immutable, so a user with a commented or automatic rating cannot be erased.
Nothing schedules the automatic ratings. A bridge that stops between the rating and
its evidence leaves none for ever. Recommendations that cross escape the hold, and
an overturned appeal leaves the recommendation HELD.

## 7. What is left

* Proofs about `ReleaseEffects` (`EffectsOnce`), `PayoutAccount`, and the modules that
  `MCConduct` composes.
* An abstract task whose states `TaskLifecycle` implements and `Settlement`'s task
  is an instance of.
* The rounding of fees as operators over bounded amounts.
* Subscriptions, recurring work and business workspaces.
