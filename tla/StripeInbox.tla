----------------------------- MODULE StripeInbox ------------------------------
(***************************************************************************)
(* Stripe's events from the webhook to their effects: the row and the job  *)
(* the webhook writes together, the dispatcher, the claim, the handlers of *)
(* stripe-event-worker and payout-event-worker, the release of a failed    *)
(* claim, and the recovery of one that is ten minutes old.                 *)
(***************************************************************************)
EXTENDS Naturals, FiniteSets

CONSTANTS
    Kinds,         \* which kinds of event Stripe sends: subset of AllKinds
    MaxEvents,     \* bound on the events of each kind
    Workers,       \* concurrent runs of the job's handler
    RiskMetadata,  \* does the escrow's payment intent carry user_id and risk_level
    FaultKinds,    \* subset of {"error", "crash", "slow", "redelivery"}
    MaxFaults      \* bound on faults

AllKinds == {"payment_intent", "account", "subscription", "invoice", "payout"}

InboxAssumption ==
    /\ Kinds \subseteq AllKinds /\ MaxEvents \in Nat \ {0} /\ RiskMetadata \in BOOLEAN
    /\ FaultKinds \subseteq {"error", "crash", "slow", "redelivery"} /\ MaxFaults \in Nat

VARIABLES
    emitted,  \* external: how many events of each kind Stripe has made
    inbox,    \* stripe_events
    job,      \* the job of each stored event
    run,      \* what each worker is doing
    db,       \* what the handlers write; db.overtaken: an older account event was written over a newer one
    raced,    \* history: events whose claim was recovered under a live worker
    faults

vars == <<emitted, inbox, job, run, db, raced, faults>>

Events == [kind : Kinds, n : 1..MaxEvents]
Idle == [pc |-> "idle"]
JobAttempts == 5  \* QUEUE_CONFIGS.critical_payments.attempts
Plans == {"free", "premium", "pro"}
Rank == [free |-> 0, premium |-> 1, pro |-> 2]

\* External: what the n-th event says.  The subscription goes to 'pro' and back,
\* account events alternate between enabled and disabled payouts.
PlanOf(n) == IF n % 2 = 1 THEN "pro" ELSE "premium"

TypeOK ==
    /\ emitted \in [Kinds -> 0..MaxEvents]
    /\ inbox \in [Events -> [stored : BOOLEAN, claimed : BOOLEAN, old : BOOLEAN, processed : BOOLEAN,
                             result : {"none", "processing", "success", "failed"}]]
    /\ job \in [Events -> [state : {"none", "waiting", "active", "completed", "failed"}, made : 0..JobAttempts]]
    /\ run \in [Workers -> {Idle} \cup [pc : {"effect", "tell", "finish", "fail"}, event : Events]]
    /\ db \in [ledger : [Events -> 0..2], told : [Events -> 0..2], funded : BOOLEAN,
               account : 0..MaxEvents, overtaken : BOOLEAN, plan : Plans]
    /\ raced \subseteq Events /\ faults \in 0..MaxFaults

Init ==
    /\ emitted = [k \in Kinds |-> 0]
    /\ inbox = [e \in Events |-> [stored |-> FALSE, claimed |-> FALSE, old |-> FALSE,
                                  processed |-> FALSE, result |-> "none"]]
    /\ job = [e \in Events |-> [state |-> "none", made |-> 0]]
    /\ run = [w \in Workers |-> Idle]
    /\ db = [ledger |-> [e \in Events |-> 0], told |-> [e \in Events |-> 0], funded |-> FALSE,
             account |-> 0, overtaken |-> FALSE, plan |-> "free"]
    /\ raced = {} /\ faults = 0

Fault(k) == k \in FaultKinds /\ faults < MaxFaults /\ faults' = faults + 1
In(e) == e.n <= emitted[e.kind]
Holds(w, e) == IF run[w] = Idle THEN FALSE ELSE run[w].event = e
Held(e) == \E w \in Workers : Holds(w, e)

-----------------------------------------------------------------------------
Emit(k) ==
    /\ emitted[k] < MaxEvents
    /\ emitted' = [emitted EXCEPT ![k] = @ + 1]
    /\ UNCHANGED <<inbox, job, run, db, raced, faults>>

\* processWebhook: the row and the outbox event in one transaction; Stripe
\* delivers an event again until it was stored, and sometimes after.
ReceiveWebhook(e) ==
    /\ In(e)
    /\ \/ ~inbox[e].stored /\ UNCHANGED faults
       \/ inbox[e].stored /\ Fault("redelivery")
    /\ inbox' = [inbox EXCEPT ![e].stored = TRUE]
    /\ job' = IF inbox[e].stored THEN job ELSE [job EXCEPT ![e].state = "waiting"]
    /\ UNCHANGED <<emitted, run, db, raced>>

Claimable(e) == ~inbox[e].claimed /\ ~inbox[e].processed

\* The dispatcher picks the worker by the event's type, and both workers claim
\* alike; a job that cannot claim ends as a success. Nothing keeps the events of one
\* object in order: two workers take them at once, and a retry comes after the next.
Claim(w, e) ==
    /\ run[w] = Idle /\ job[e].state = "waiting"
    /\ IF Claimable(e)
       THEN /\ inbox' = [inbox EXCEPT ![e].claimed = TRUE, ![e].old = FALSE, ![e].result = "processing"]
            /\ run' = [run EXCEPT ![w] = [pc |-> "effect", event |-> e]]
            /\ job' = [job EXCEPT ![e] = [state |-> "active", made |-> @.made + 1]]
       ELSE job' = [job EXCEPT ![e] = [state |-> "completed", made |-> @.made + 1]] /\ UNCHANGED <<inbox, run>>
    /\ UNCHANGED <<emitted, db, raced, faults>>

Handles(w, k) == run[w].pc = "effect" /\ run[w].event.kind = k
Goto(w, pc) == run' = [run EXCEPT ![w].pc = pc]

\* fundEscrowForPaymentIntent: of a PENDING row only, so a repetition does nothing.
FundEscrow == [db EXCEPT !.funded = TRUE]

\* payment_intent.succeeded: processEntitlementPurchase demands the metadata of
\* an entitlement, then the PENDING escrow is funded.
HandlePaymentIntent(w) ==
    /\ Handles(w, "payment_intent")
    /\ IF RiskMetadata
       THEN db' = FundEscrow /\ Goto(w, "finish")
       ELSE Goto(w, "fail") /\ UNCHANGED db
    /\ UNCHANGED <<emitted, inbox, job, raced, faults>>

\* account.updated overwrites the status with what the event says.
HandleAccountUpdated(w) ==
    /\ Handles(w, "account")
    /\ db' = [db EXCEPT !.account = run[w].event.n,
                        !.overtaken = IF run[w].event.n < db.account THEN TRUE ELSE @]
    /\ Goto(w, "finish")
    /\ UNCHANGED <<emitted, inbox, job, raced, faults>>

\* processSubscriptionEvent: the plan is set to the event's.
ProcessSubscription(w) ==
    /\ Handles(w, "subscription")
    /\ db' = [db EXCEPT !.plan = PlanOf(run[w].event.n)]
    /\ Goto(w, "finish")
    /\ UNCHANGED <<emitted, inbox, job, raced, faults>>

\* INSERT ... ON CONFLICT (stripe_event_id) DO NOTHING
Once(e) == [db EXCEPT !.ledger[e] = 1]

HandleInvoicePaid(w) ==
    /\ Handles(w, "invoice")
    /\ db' = Once(run[w].event)
    /\ Goto(w, "finish")
    /\ UNCHANGED <<emitted, inbox, job, raced, faults>>

\* A failed bank payout: the ledger, then the worker's notification.
HandlePayout(w) ==
    /\ Handles(w, "payout")
    /\ db' = Once(run[w].event)
    /\ Goto(w, "tell")
    /\ UNCHANGED <<emitted, inbox, job, raced, faults>>

\* The notification's dedupeKey is made of the event.
NotifyTerminalState(w) ==
    /\ run[w].pc = "tell"
    /\ db' = [db EXCEPT !.told[run[w].event] = 1]
    /\ Goto(w, "finish")
    /\ UNCHANGED <<emitted, inbox, job, raced, faults>>

\* A mutant: the handler's error is logged and swallowed.
M_HandlerFails(w) ==
    /\ run[w].pc \in {"effect", "tell", "finish"} /\ Fault("error")
    /\ Goto(w, "finish")
    /\ UNCHANGED <<emitted, inbox, job, db, raced>>

\* A handler throws before its effect, or the row's last UPDATE fails after it.
HandlerFails(w) ==
    /\ run[w].pc \in {"effect", "tell", "finish"} /\ Fault("error")
    /\ Goto(w, "fail")
    /\ UNCHANGED <<emitted, inbox, job, db, raced>>

Ends(w, e, state) ==
    /\ run' = [run EXCEPT ![w] = Idle]
    /\ job' = [job EXCEPT ![e].state = IF @ = "active" THEN state ELSE @]

MarkSuccess(w) ==
    LET e == run[w].event IN
    /\ run[w].pc = "finish"
    /\ inbox' = [inbox EXCEPT ![e].processed = TRUE, ![e].result = "success"]
    /\ Ends(w, e, "completed")
    /\ UNCHANGED <<emitted, db, raced, faults>>

\* A thrown job waits for its next attempt while it has one.
Retry(e) == IF job[e].made < JobAttempts THEN "waiting" ELSE "failed"

\* The catch gives the claim back and rethrows for a retry.
ReleaseFailedClaim(w) ==
    LET e == run[w].event IN
    /\ run[w].pc = "fail"
    /\ inbox' = [inbox EXCEPT ![e].claimed = FALSE, ![e].result = "failed"]
    /\ Ends(w, e, Retry(e))
    /\ UNCHANGED <<emitted, db, raced, faults>>

-----------------------------------------------------------------------------
\* External: the worker's process dies, or loses the job's lock while it goes
\* on; BullMQ hands the job to another worker.
Redeliver(w) ==
    LET e == run[w].event IN
    /\ run[w] # Idle /\ job[e].state = "active" /\ job[e].made < JobAttempts
    /\ \/ Fault("crash") /\ run' = [run EXCEPT ![w] = Idle]
       \/ Fault("slow") /\ UNCHANGED run
    /\ job' = [job EXCEPT ![e].state = "waiting"]
    /\ UNCHANGED <<emitted, inbox, db, raced>>

Age(e) ==
    /\ inbox[e].claimed /\ ~inbox[e].processed /\ ~inbox[e].old
    /\ ~Held(e) \/ "slow" \in FaultKinds
    /\ inbox' = [inbox EXCEPT ![e].old = TRUE]
    /\ UNCHANGED <<emitted, job, run, db, raced, faults>>

\* recoverStuckStripeEvents: a claim older than ten minutes is given back.
RecoverStuckStripeEvents(e) ==
    /\ inbox[e].old /\ inbox[e].result = "processing" /\ ~inbox[e].processed
    /\ inbox' = [inbox EXCEPT ![e].claimed = FALSE, ![e].old = FALSE, ![e].result = "none"]
    /\ raced' = IF Held(e) THEN raced \cup {e} ELSE raced
    /\ UNCHANGED <<emitted, job, run, db, faults>>

Work(w) ==
    \/ \E e \in Events : Claim(w, e)
    \/ HandlePaymentIntent(w) \/ HandleAccountUpdated(w) \/ ProcessSubscription(w)
    \/ HandleInvoicePaid(w) \/ HandlePayout(w) \/ NotifyTerminalState(w)
    \/ MarkSuccess(w) \/ ReleaseFailedClaim(w)

Next ==
    \/ \E k \in Kinds : Emit(k)
    \/ \E e \in Events : ReceiveWebhook(e) \/ Age(e) \/ RecoverStuckStripeEvents(e)
    \/ \E w \in Workers : Work(w) \/ HandlerFails(w) \/ Redeliver(w)

\* Stripe delivers until an event is stored; free workers take waiting jobs.
Spec ==
    /\ Init /\ [][Next]_vars
    /\ \A e \in Events : WF_vars(~inbox[e].stored /\ ReceiveWebhook(e))
    /\ \A w \in Workers : WF_vars(Work(w))

-----------------------------------------------------------------------------
\* Two workers handle one event at the same time only after its claim was
\* recovered: a retry, a second job run and a redelivery do not get in.
HandledByOne ==
    \A e \in Events :
        Cardinality({w \in Workers : Holds(w, e)}) <= 1 \/ e \in raced

\* Revenue and failed payouts are booked once per event, however often the
\* event is handled.
BookedOnce == \A e \in Events : db.ledger[e] <= 1 /\ db.told[e] <= db.ledger[e]

\* An event that was processed is never handled again by a worker that was not
\* already at it.
ProcessedIsFinal ==
    [][\A w \in Workers : run[w] = Idle /\ run'[w] # Idle => ~inbox[run'[w].event].processed]_vars

\* An event Stripe made is processed, or its job has visibly failed.
Settled(e) == inbox[e].processed \/ job[e].state = "failed"
EventSettles == \A e \in Events : In(e) ~> Settled(e)

\* A payment that succeeded funds its escrow.
PaymentFunds == "payment_intent" \in Kinds => (emitted["payment_intent"] > 0 ~> db.funded)

\* When every event made has been processed, the account is as the last says, unless
\* an older one was written over it: the retry of account.updated, or a second worker's.
AccountIsCurrent ==
    "account" \in Kinds /\ (\A e \in Events : e.kind = "account" /\ In(e) => inbox[e].processed)
        => db.account = emitted["account"] \/ db.overtaken

\* Plan changes are monotonic: no downgrade of a plan that has not expired.
PlanIsMonotonic == [][Rank[db'.plan] >= Rank[db.plan]]_vars
=============================================================================
