------------------------------ MODULE StripeCalls ------------------------------
(***************************************************************************)
(* Every call to Stripe goes through one circuit breaker and carries an    *)
(* idempotency key that says which money it moves. Here are the breaker    *)
(* with concurrent callers, what Stripe makes of a call whose answer is    *)
(* lost, the claim of processWebhookEvent, and the handlers of the events  *)
(* that say a transfer, a payment or a payout has failed.                  *)
(***************************************************************************)
EXTENDS Integers, FiniteSets

CONSTANTS
    Callers, Requests,   \* who calls; what may be asked: [op, of, amount, to]
    Threshold, Reset,    \* failureThreshold; whether the reset timeout ever passes
    MaxMade, MaxForgets, \* bounds on objects of a request, and on keys that expire
    Hooks,               \* runs of processWebhookEvent for the one event
    Failures, MaxRuns    \* failure events at the payment worker; attempts of their jobs

StripeCallsAssumption ==
    /\ Requests \subseteq [op : {"intent", "tax", "transfer", "refund", "reversal", "read"},
                           of : STRING, amount : Nat, to : STRING]
    /\ Threshold \in Nat \ {0} /\ Reset \in BOOLEAN
    /\ MaxMade \in Nat /\ MaxForgets \in Nat /\ MaxRuns \in Nat
    /\ Failures \subseteq {"transfer", "payment", "payout"}

HalfOpenMax == 1

VARIABLES
    breaker, elapsed, straggled,  \* the breaker; whether resetTimeoutMs has passed since the last failure;
                                  \* whether an older call has answered into a half-open breaker
    caller,                       \* where a caller is, and with what
    made, keys, forgets,          \* objects at Stripe by request; the keys it remembers; keys that expired
    event, hook, handled,         \* processed_stripe_events has the event; runs; times the handler has succeeded
    row, job, booked, told        \* the escrow; the failure events' jobs; revenue_ledger; the outbox

breakerVars == <<breaker, elapsed, straggled>>
callVars == <<breakerVars, caller, made, keys, forgets>>
hookVars == <<event, hook, handled>>
failVars == <<row, job, booked, told>>
vars == <<callVars, hookVars, failVars>>

Nothing == [op |-> "none", of |-> "", amount |-> 0, to |-> ""]
Idle == [at |-> "idle", wants |-> Nothing, probe |-> FALSE]
InFlight(c) == caller[c].at \in {"sent", "performed", "refusedByStripe"}

\* The idempotency key; the amount of an intent and the account of a refund are no part of it.
Key(w) == [op |-> w.op, of |-> w.of,
           amount |-> IF w.op \in {"intent", "reversal"} THEN 0 ELSE w.amount,
           to |-> IF w.op = "transfer" THEN w.to ELSE ""]
TypeOK ==
    /\ breaker \in [state : {"CLOSED", "OPEN", "HALF_OPEN"}, failures : 0..Threshold, probes : 0..HalfOpenMax]
    /\ elapsed \in BOOLEAN /\ straggled \in BOOLEAN
    /\ caller \in [Callers -> [at : {"idle", "sent", "performed", "refusedByStripe", "answered", "failed", "open"},
                               wants : Requests \cup {Nothing}, probe : BOOLEAN]]
    /\ made \in [Requests -> 0..MaxMade]
    /\ keys \subseteq [key : {Key(w) : w \in Requests}, wants : Requests] /\ forgets \in 0..MaxForgets
    /\ event \in BOOLEAN
    /\ hook \in [Hooks -> {"idle", "claimed", "threw", "done", "skipped", "stuck", "dead"}] /\ handled \in Nat
    /\ row \in {"FUNDED", "LOCKED_DISPUTE", "RELEASED", "REFUND_PARTIAL", "none"}
    /\ job \in [Failures -> [at : {"queued", "begun", "booked", "done", "failed"}, made : 0..MaxRuns]]
    /\ booked \in [Failures -> Nat] /\ told \in [Failures -> BOOLEAN]

Init ==
    /\ breaker = [state |-> "CLOSED", failures |-> 0, probes |-> 0] /\ elapsed = FALSE /\ straggled = FALSE
    /\ caller = [c \in Callers |-> Idle]
    /\ made = [w \in Requests |-> 0] /\ keys = {} /\ forgets = 0
    /\ event = FALSE /\ hook = [h \in Hooks |-> "idle"] /\ handled = 0
    /\ row \in IF Failures = {} THEN {"none"} ELSE {"FUNDED", "LOCKED_DISPUTE", "RELEASED", "REFUND_PARTIAL", "none"}
    /\ job = [f \in Failures |-> [at |-> "queued", made |-> 0]]
    /\ booked = [f \in Failures |-> 0] /\ told = [f \in Failures |-> FALSE]

-----------------------------------------------------------------------------
\* execute: an open breaker turns half-open once the timeout has passed, and then lets one probe by.
StateOnEntry == IF breaker.state = "OPEN" /\ elapsed THEN "HALF_OPEN" ELSE breaker.state

Execute(c, w) ==
    LET state == StateOnEntry
        admitted == state = "CLOSED" \/ (state = "HALF_OPEN" /\ breaker.probes < HalfOpenMax)
    IN  /\ caller[c].at = "idle" /\ (w.op # "read" => made[w] < MaxMade)
        /\ breaker' = [breaker EXCEPT !.state = state,
                                      !.probes = IF admitted /\ state = "HALF_OPEN" THEN @ + 1 ELSE @]
        /\ caller' = [caller EXCEPT ![c] = [at |-> IF admitted THEN "sent" ELSE "open", wants |-> w,
                                            probe |-> state = "HALF_OPEN"]]
        /\ UNCHANGED <<elapsed, straggled, made, keys, forgets, hookVars, failVars>>

\* What Stripe does with a call: a remembered key gives the old object, or an error when the call is
\* not the same; a new one makes an object. The tax key has the time of the call in it.
Perform(c) ==
    LET w == caller[c].wants
        remembered == {k \in keys : k.key = Key(w)}
        fresh == w.op # "read" /\ (remembered = {} \/ w.op = "tax")
        same == \E k \in remembered : k.wants = w
    IN  /\ caller[c].at = "sent" /\ (fresh => made[w] < MaxMade)
        /\ made' = IF fresh THEN [made EXCEPT ![w] = @ + 1] ELSE made
        /\ keys' = IF fresh THEN keys \cup {[key |-> Key(w), wants |-> w]} ELSE keys
        /\ caller' = [caller EXCEPT ![c].at = IF w.op = "read" \/ fresh \/ same THEN "performed" ELSE "refusedByStripe"]
        /\ UNCHANGED <<breakerVars, forgets, hookVars, failVars>>

OnSuccess == [breaker EXCEPT !.state = IF @ = "HALF_OPEN" THEN "CLOSED" ELSE @, !.failures = 0, !.probes = 0]
OnFailure ==
    LET failures == IF breaker.failures < Threshold THEN breaker.failures + 1 ELSE Threshold IN
    [state |-> IF breaker.state = "HALF_OPEN" \/ failures = Threshold THEN "OPEN" ELSE breaker.state,
     failures |-> failures,
     probes |-> IF breaker.state = "HALF_OPEN" THEN 0 ELSE breaker.probes]
Straggles(c) == straggled' = (straggled \/ (breaker.state = "HALF_OPEN" /\ ~caller[c].probe))

Succeed(c) ==
    /\ caller[c].at = "performed"
    /\ caller' = [caller EXCEPT ![c].at = "answered"] /\ breaker' = OnSuccess /\ Straggles(c)
    /\ UNCHANGED <<elapsed, made, keys, forgets, hookVars, failVars>>

\* A call that did not reach Stripe, that Stripe refused, or whose answer was lost.
Fail(c) ==
    /\ InFlight(c)
    /\ caller' = [caller EXCEPT ![c].at = "failed"] /\ breaker' = OnFailure /\ elapsed' = FALSE /\ Straggles(c)
    /\ UNCHANGED <<made, keys, forgets, hookVars, failVars>>

\* The caller, its job or its user tries again, with the same request or with another.
ComeBack(c) ==
    /\ caller[c].at \in {"answered", "failed", "open"}
    /\ caller' = [caller EXCEPT ![c] = Idle]
    /\ UNCHANGED <<breakerVars, made, keys, forgets, hookVars, failVars>>

TimeoutPasses ==
    /\ Reset /\ breaker.state = "OPEN" /\ ~elapsed /\ elapsed' = TRUE
    /\ UNCHANGED <<breaker, straggled, caller, made, keys, forgets, hookVars, failVars>>

\* Stripe forgets keys after a day.
KeysExpire ==
    /\ forgets < MaxForgets /\ keys # {} /\ forgets' = forgets + 1 /\ keys' = {}
    /\ UNCHANGED <<breakerVars, caller, made, hookVars, failVars>>

-----------------------------------------------------------------------------
\* processWebhookEvent: the INSERT is the claim; a handler that throws has the row deleted.
ClaimEvent(h) ==
    /\ hook[h] = "idle" /\ event' = TRUE
    /\ hook' = [hook EXCEPT ![h] = IF event THEN "skipped" ELSE "claimed"]
    /\ UNCHANGED <<handled, callVars, failVars>>
Handle(h) ==
    /\ hook[h] = "claimed"
    /\ \/ handled' = handled + 1 /\ hook' = [hook EXCEPT ![h] = "done"]
       \/ UNCHANGED handled /\ hook' = [hook EXCEPT ![h] = "threw"]
    /\ UNCHANGED <<event, callVars, failVars>>
UndoClaim(h) ==
    /\ hook[h] = "threw"
    /\ \/ event' = FALSE /\ hook' = [hook EXCEPT ![h] = "idle"]
       \/ UNCHANGED event /\ hook' = [hook EXCEPT ![h] = "stuck"]
    /\ UNCHANGED <<handled, callVars, failVars>>
Die(h) ==
    /\ hook[h] \in {"claimed", "threw"} /\ hook' = [hook EXCEPT ![h] = "dead"]
    /\ UNCHANGED <<event, handled, callVars, failVars>>

-----------------------------------------------------------------------------
\* The escrow the event is about: handleTransferFailed finds it by its transfer, the others' rows
\* have an intent as soon as they are funded.
Found(f) == CASE f = "transfer" -> row \in {"LOCKED_DISPUTE", "RELEASED", "REFUND_PARTIAL"}
              [] f = "payment" -> row # "none"
              [] f = "payout" -> TRUE

\* The update that reopens a released row is what the terminal trigger rejects; payment_failed of a row
\* that is no longer PENDING throws.
Rejected(f) == \/ f = "transfer" /\ row = "RELEASED"
               \/ f = "payment" /\ row \in {"FUNDED", "LOCKED_DISPUTE"}
Ignored(f) == ~Found(f) \/ (f = "payment" /\ row \in {"RELEASED", "REFUND_PARTIAL"})

JobEnds(f, at) == job' = [job EXCEPT ![f].at = at]
NextRun(f) == job' = [job EXCEPT ![f] = [at |-> IF @.made < MaxRuns THEN "queued" ELSE "failed", made |-> @.made]]

Begin(f) ==
    /\ job[f].at = "queued" /\ job[f].made < MaxRuns
    /\ job' = [job EXCEPT ![f] = [at |-> "begun", made |-> @.made + 1]]
    /\ UNCHANGED <<row, booked, told, callVars, hookVars>>

Book(f) == booked' = [booked EXCEPT ![f] = IF @ > 0 THEN @ ELSE 1]
HandleTransferFailed ==
    /\ "transfer" \in Failures /\ job["transfer"].at = "begun"
    /\ IF Ignored("transfer") THEN JobEnds("transfer", "done") /\ UNCHANGED booked
       ELSE IF Rejected("transfer") THEN NextRun("transfer") /\ UNCHANGED booked
       ELSE Book("transfer") /\ JobEnds("transfer", "booked")
    /\ UNCHANGED <<row, told, callVars, hookVars>>

\* Only a PENDING row would be refunded, and no PENDING row has an intent to be found by.
HandlePaymentIntentPaymentFailed ==
    /\ "payment" \in Failures /\ job["payment"].at = "begun"
    /\ IF Ignored("payment") THEN JobEnds("payment", "done") ELSE NextRun("payment")
    /\ UNCHANGED <<row, booked, told, callVars, hookVars>>

\* The user is told first, under a key of the event.
HandlePayoutFailed ==
    /\ "payout" \in Failures /\ job["payout"].at = "begun"
    /\ told' = [told EXCEPT !["payout"] = TRUE] /\ JobEnds("payout", "booked")
    /\ UNCHANGED <<row, booked, callVars, hookVars>>

\* The second write of the handler: the outbox event of a transfer, the ledger entry of a payout.
Conclude(f) ==
    /\ job[f].at = "booked" /\ JobEnds(f, "done")
    /\ IF f = "payout" THEN Book(f) /\ UNCHANGED told
       ELSE told' = [told EXCEPT ![f] = TRUE] /\ UNCHANGED booked
    /\ UNCHANGED <<row, callVars, hookVars>>

\* A step throws; the claim is given back and the job runs again.
Interrupt(f) ==
    /\ job[f].at \in {"begun", "booked"} /\ NextRun(f)
    /\ UNCHANGED <<row, booked, told, callVars, hookVars>>

\* What else happens to the escrow meanwhile.
RowMoves ==
    /\ \/ row = "FUNDED" /\ row' \in {"LOCKED_DISPUTE", "RELEASED"}
       \/ row = "LOCKED_DISPUTE" /\ row' \in {"RELEASED", "REFUND_PARTIAL"}
    /\ UNCHANGED <<job, booked, told, callVars, hookVars>>

Next ==
    \/ \E c \in Callers : Perform(c) \/ Succeed(c) \/ Fail(c) \/ ComeBack(c) \/ \E w \in Requests : Execute(c, w)
    \/ TimeoutPasses \/ KeysExpire
    \/ \E h \in Hooks : ClaimEvent(h) \/ Handle(h) \/ UndoClaim(h) \/ Die(h)
    \/ HandleTransferFailed \/ HandlePaymentIntentPaymentFailed \/ HandlePayoutFailed
    \/ \E f \in Failures : Begin(f) \/ Conclude(f) \/ Interrupt(f)
    \/ RowMoves

Spec == Init /\ [][Next]_vars

-----------------------------------------------------------------------------
\* A half-open breaker that refuses everybody waits for a probe that is on its way.
RefusalAwaitsProbe ==
    breaker.state = "HALF_OPEN" /\ breaker.probes >= HalfOpenMax => \E c \in Callers : InFlight(c)

\* More probes than allowed come from calls sent before the breaker opened.
ProbesNeedAStraggler ==
    Cardinality({c \in Callers : InFlight(c) /\ caller[c].probe}) > HalfOpenMax => straggled

\* The same money is moved again only after its key has expired; a tax intent is new each time.
SameMoneyOnce ==
    \A w \in Requests : w.op # "tax" => made[w] <= 1 + forgets

\* An escrow has one intent for each life of its key, whatever its amount.
OneIntentPerEscrow ==
    \A w, v \in Requests : w # v /\ w.op = "intent" /\ v.op = "intent" /\ w.of = v.of => made[w] + made[v] <= 1 + forgets

\* A handler succeeds once; an event that is taken and not handled has a run, or one that died or failed.
HandledOnce ==
    /\ handled <= 1
    /\ event /\ handled = 0 => \E h \in Hooks : hook[h] \in {"claimed", "threw", "stuck", "dead"}

\* A failure is booked once, and only with a row that was not released.
FailureBookedOnce == \A f \in Failures : booked[f] <= 1

\* A job that ended well without a booking had nothing to book.
SilentEndIsIgnored ==
    \A f \in Failures : job[f].at = "begun" /\ job'[f].at = "done" => Ignored(f)

\* What the source says: one transfer per escrow; an event is never lost; a failed transfer is always told.
OneTransferPerEscrow ==
    \A w, v \in Requests : w # v /\ w.op = "transfer" /\ v.op = "transfer" /\ w.of = v.of => made[w] = 0 \/ made[v] = 0
StuckNeverHappens == event => handled > 0 \/ \E h \in Hooks : hook[h] \in {"claimed", "threw"}
FailureIsTold == \A f \in Failures : job[f].at = "failed" => told[f]
=============================================================================
