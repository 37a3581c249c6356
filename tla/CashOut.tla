------------------------------- MODULE CashOut --------------------------------
(***************************************************************************)
(* A worker's bank payouts (HustlerCashOutRequestService,                  *)
(* HustlerCashOutReviewService, HustlerWalletProvider, HustlerWalletData,  *)
(* jobs/payout-event-worker): a request is written as INITIATING, given to *)
(* Stripe under an idempotency key, and follows the answer of that call    *)
(* and Stripe's payout events, which come in any order and more than once. *)
(*                                                                         *)
(* One worker; every request is for one unit of the connected balance.     *)
(***************************************************************************)
EXTENDS Naturals

CONSTANTS
    Keys,    \* idempotency keys, one request each
    Callers, \* concurrent calls of requestHustlerCashOut
    Balance, \* units available in the connected account at first
    Refuses, \* whether the call to Stripe can fail before anything is made
    Loses,   \* whether its answer can be lost, a call die or an event's job fail
    Returns, \* whether a paid payout may fail later
    Kinds    \* of payout events Stripe sends

CashOutAssumption ==
    /\ Kinds \subseteq {"created", "updated", "paid", "failed"} /\ {"paid", "failed"} \subseteq Kinds
    /\ Balance \in Nat /\ {Refuses, Loses, Returns} \subseteq BOOLEAN

VARIABLES
    row,       \* worker_cash_out_requests.state
    call,      \* calls of requestHustlerCashOut
    available, \* the connected balance
    payout,    \* the payout at Stripe
    event,     \* what the worker has done with each event Stripe has sent
    receipts,  \* worker_cash_out_events with a provider event id
    told,      \* events booked and notified (deduplicated by event id)
    lastTold   \* the last notification about each payout

vars == <<row, call, available, payout, event, receipts, told, lastTold>>
stripeVars == <<available, payout>>
eventVars == <<event, receipts, told, lastTold>>

ActiveStates == {"INITIATING", "SUBMITTED", "PROVIDER_PROCESSING"}
FinalStates == {"PAID", "FAILED", "REVERSED"}
Idle == [pc |-> "idle"]

TypeOK ==
    /\ row \in [Keys -> {"none"} \cup ActiveStates \cup FinalStates]
    /\ call \in [Callers -> {Idle} \cup [pc : {"resolve"}, key : Keys, eligible : BOOLEAN]
                              \cup [pc : {"submit", "apply", "fail"}, key : Keys]]
    /\ available \in 0..Balance
    /\ payout \in [Keys -> {"none", "pending", "in_transit", "paid", "failed", "returned"}]
    /\ event \in [Keys \X Kinds -> {"none", "sent", "synced", "told", "done"}]
    /\ receipts \subseteq Keys \X Kinds /\ told \subseteq Keys \X Kinds
    /\ lastTold \in [Keys -> {"none", "paid", "failed"}]

Init ==
    /\ row = [k \in Keys |-> "none"] /\ call = [c \in Callers |-> Idle]
    /\ available = Balance /\ payout = [k \in Keys |-> "none"]
    /\ event = [e \in Keys \X Kinds |-> "none"] /\ receipts = {}
    /\ told = {} /\ lastTold = [k \in Keys |-> "none"]

-----------------------------------------------------------------------------
\* worker_cash_out_one_active_idx.
ActiveExists == \E k \in Keys : row[k] \in ActiveStates

At(c, pc) == call[c].pc = pc
Goto(c, pc, k) == call' = [call EXCEPT ![c] = [pc |-> pc, key |-> k]]
Return(c) == call' = [call EXCEPT ![c] = Idle]

\* buildCashOutReviewContext: the rows and the balance as they are now.
Review(c, k) ==
    /\ call[c] = Idle
    /\ call' = [call EXCEPT ![c] =
           [pc |-> "resolve", key |-> k, eligible |-> ~ActiveExists /\ available > 0]]
    /\ UNCHANGED <<row, stripeVars, eventVars>>

\* resolveRequest: a request of this key is replayed, whatever the review said;
\* a new one is inserted unless another is active.
Resolve(c) ==
    /\ At(c, "resolve")
    /\ LET k == call[c].key IN
       \/ /\ row[k] = "INITIATING" /\ Goto(c, "submit", k) /\ UNCHANGED row
       \/ /\ \/ row[k] \notin {"none", "INITIATING"}
             \/ row[k] = "none" /\ (~call[c].eligible \/ ActiveExists)
          /\ Return(c) /\ UNCHANGED row
       \/ /\ row[k] = "none" /\ call[c].eligible /\ ~ActiveExists
          /\ row' = [row EXCEPT ![k] = "INITIATING"]
          /\ Goto(c, "submit", k)
    /\ UNCHANGED <<stripeVars, eventVars>>

\* stripe.payouts.create: a key used before answers as it did then.
Submit(c) ==
    /\ At(c, "submit")
    /\ LET k == call[c].key IN
       \/ /\ payout[k] = "none" /\ (Refuses \/ available = 0)
          /\ Goto(c, "fail", k)
          /\ UNCHANGED <<stripeVars, event>>
       \/ /\ payout[k] = "none" /\ available > 0
          /\ payout' = [payout EXCEPT ![k] = "pending"] /\ available' = available - 1
          /\ event' = [e \in DOMAIN event |-> IF e = <<k, "created">> THEN "sent" ELSE event[e]]
          /\ \E pc \in {"apply"} \cup (IF Loses THEN {"fail"} ELSE {}) : Goto(c, pc, k)
       \/ /\ payout[k] # "none"
          /\ \E pc \in {"apply"} \cup (IF Loses THEN {"fail"} ELSE {}) : Goto(c, pc, k)
          /\ UNCHANGED <<stripeVars, event>>
    /\ UNCHANGED <<row, receipts, told, lastTold>>

ApplyProviderResult(c) ==
    /\ At(c, "apply")
    /\ row' = [row EXCEPT ![call[c].key] = IF @ = "INITIATING" THEN "SUBMITTED" ELSE @]
    /\ Return(c)
    /\ UNCHANGED <<stripeVars, eventVars>>

MarkProviderFailure(c) ==
    /\ At(c, "fail")
    /\ row' = [row EXCEPT ![call[c].key] = IF @ = "INITIATING" THEN "FAILED" ELSE @]
    /\ Return(c)
    /\ UNCHANGED <<stripeVars, eventVars>>

Die(c) ==
    /\ Loses /\ call[c] # Idle
    /\ Return(c)
    /\ UNCHANGED <<row, stripeVars, eventVars>>

-----------------------------------------------------------------------------
\* Stripe moves the money and says so.
Becomes(k, state, kind) ==
    /\ payout' = [payout EXCEPT ![k] = state]
    /\ event' = [e \in DOMAIN event |-> IF e = <<k, kind>> THEN "sent" ELSE event[e]]
    /\ UNCHANGED <<row, call, receipts, told, lastTold>>

Travel(k) == payout[k] = "pending" /\ Becomes(k, "in_transit", "updated") /\ UNCHANGED available
Pay(k) == payout[k] \in {"pending", "in_transit"} /\ Becomes(k, "paid", "paid") /\ UNCHANGED available
Fail(k) ==
    /\ payout[k] \in {"pending", "in_transit"} /\ Becomes(k, "failed", "failed")
    /\ available' = available + 1
ComeBack(k) ==
    /\ Returns /\ payout[k] = "paid" /\ Becomes(k, "returned", "failed")
    /\ available' = available + 1

-----------------------------------------------------------------------------
\* providerState and projectedProviderState: what an event reports of a request.
Reported(kind) ==
    CASE kind = "created" -> "SUBMITTED"
      [] kind = "updated" -> "PROVIDER_PROCESSING"
      [] kind = "paid" -> "PAID"
      [] OTHER -> "FAILED"

Projected(state, kind) ==
    IF state = "PAID" /\ kind = "failed" THEN "REVERSED" ELSE Reported(kind)

\* LEGAL_PROVIDER_TRANSITIONS, and the same list in the table's trigger.
Legal(from, to) ==
    \/ from = "INITIATING" /\ to \in {"SUBMITTED", "PROVIDER_PROCESSING", "PAID", "FAILED"}
    \/ from = "SUBMITTED" /\ to \in {"PROVIDER_PROCESSING", "PAID", "FAILED"}
    \/ from = "PROVIDER_PROCESSING" /\ to \in {"PAID", "FAILED"}
    \/ from = "PAID" /\ to = "REVERSED"

\* A mutant: an event waits until the call that made the payout has returned.
M_SyncProviderPayout(k, kind) ==
    /\ event[<<k, kind>>] = "sent" /\ row[k] # "INITIATING"
    /\ event' = [event EXCEPT ![<<k, kind>>] = "synced"]
    /\ receipts' = receipts \cup {<<k, kind>>}
    /\ row' = [row EXCEPT ![k] =
           IF <<k, kind>> \notin receipts /\ Legal(@, Projected(@, kind))
           THEN Projected(@, kind) ELSE @]
    /\ UNCHANGED <<call, stripeVars, told, lastTold>>

\* syncProviderPayoutTransaction: one transaction, once for each event id.
SyncProviderPayout(k, kind) ==
    /\ event[<<k, kind>>] = "sent"
    /\ event' = [event EXCEPT ![<<k, kind>>] = "synced"]
    /\ receipts' = receipts \cup {<<k, kind>>}
    /\ row' = [row EXCEPT ![k] =
           IF <<k, kind>> \notin receipts /\ Legal(@, Projected(@, kind))
           THEN Projected(@, kind) ELSE @]
    /\ UNCHANGED <<call, stripeVars, told, lastTold>>

\* handleTerminalPayout: whether or not the event changed the row.
HandleTerminalPayout(k, kind) ==
    /\ event[<<k, kind>>] = "synced"
    /\ event' = [event EXCEPT ![<<k, kind>>] = "told"]
    /\ IF kind \in {"paid", "failed"} /\ <<k, kind>> \notin told
       THEN told' = told \cup {<<k, kind>>} /\ lastTold' = [lastTold EXCEPT ![k] = kind]
       ELSE UNCHANGED <<told, lastTold>>
    /\ UNCHANGED <<row, call, stripeVars, receipts>>

MarkSuccess(k, kind) ==
    /\ event[<<k, kind>>] = "told"
    /\ event' = [event EXCEPT ![<<k, kind>>] = "done"]
    /\ UNCHANGED <<row, call, stripeVars, receipts, told, lastTold>>

ReleaseFailedClaim(k, kind) ==
    /\ Loses /\ event[<<k, kind>>] \in {"synced", "told"}
    /\ event' = [event EXCEPT ![<<k, kind>>] = "sent"]
    /\ UNCHANGED <<row, call, stripeVars, receipts, told, lastTold>>

-----------------------------------------------------------------------------
Next ==
    \/ \E c \in Callers :
          \/ \E k \in Keys : Review(c, k)
          \/ Resolve(c) \/ Submit(c) \/ ApplyProviderResult(c) \/ MarkProviderFailure(c) \/ Die(c)
    \/ \E k \in Keys :
          \/ Travel(k) \/ Pay(k) \/ Fail(k) \/ ComeBack(k)
          \/ \E kind \in Kinds :
                \/ SyncProviderPayout(k, kind) \/ HandleTerminalPayout(k, kind)
                \/ MarkSuccess(k, kind) \/ ReleaseFailedClaim(k, kind)

\* The queue runs an event's job again until it ends, so an event is applied.
Spec == Init /\ [][Next]_vars
        /\ \A k \in Keys, kind \in Kinds : WF_vars(SyncProviderPayout(k, kind))

-----------------------------------------------------------------------------
Live(k) == payout[k] \in {"pending", "in_transit"}

(***************************************************************************)
(* OneLivePayout: a worker never has two payouts on their way at once: a   *)
(* request leaves the index's active states only when its payout has ended *)
(* or was never made.                                                      *)
(***************************************************************************)
OneLivePayout == \A k, l \in Keys : Live(k) /\ Live(l) => k = l

(***************************************************************************)
(* PaidWasPaid: whatever is lost, repeated or reordered, a request that    *)
(* says PAID or REVERSED has a payout the bank has received.               *)
(***************************************************************************)
PaidWasPaid == \A k \in Keys : row[k] \in {"PAID", "REVERSED"} => payout[k] \in {"paid", "returned"}

(***************************************************************************)
(* SettledAgrees: once every event of an ended payout is applied, in       *)
(* whatever order they came, the request says PAID exactly when the money  *)
(* is in the bank.                                                         *)
(***************************************************************************)
Applied(k) == \A kind \in Kinds : event[<<k, kind>>] # "sent"
SettledAgrees ==
    \A k \in Keys :
        payout[k] \in {"paid", "failed", "returned"} /\ Applied(k) =>
            row[k] \in (IF payout[k] = "paid" THEN {"PAID"} ELSE {"FAILED", "REVERSED"})

(***************************************************************************)
(* RecordedInTheEnd: a payout that has ended at Stripe ends its request.   *)
(***************************************************************************)
RecordedInTheEnd ==
    \A k \in Keys : payout[k] \in {"paid", "failed", "returned"} ~> row[k] \in FinalStates

(***************************************************************************)
(* Claims the code does not keep (nor OneLivePayout and SettledAgrees when *)
(* an answer is lost, or when one of two calls of the same key is refused: *)
(* the request says FAILED and its payout goes on).                        *)
(*                                                                         *)
(* LastWordIsTrue: once every event is handled, the last notification      *)
(* about a payout says what became of it.                                  *)
(* InitiatingEnds: a request does not stay INITIATING, where it keeps      *)
(* every other cash-out of the worker out.                                 *)
(***************************************************************************)
LastWordIsTrue ==
    \A k \in Keys :
        payout[k] \in {"paid", "failed", "returned"}
          /\ (\A kind \in Kinds : event[<<k, kind>>] \in {"none", "done"}) =>
            (lastTold[k] = "paid" <=> payout[k] = "paid")
InitiatingEnds == \A k \in Keys : row[k] = "INITIATING" ~> row[k] # "INITIATING"
=============================================================================
