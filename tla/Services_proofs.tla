-------------------------- MODULE Services_proofs --------------------------
(***************************************************************************)
(* Proofs about the services around the escrow: a worker's bank payouts,   *)
(* the claims that the insurance pool pays, tips, what workers are offered *)
(* and bargain for, and how events and notifications travel.               *)
(*                                                                         *)
(* The payouts, for any number of keys, calls and units of balance:        *)
(*   PaidIsPaid         nothing lost or repeated makes a request say PAID  *)
(*                      of money that never reached the bank               *)
(*   OnePayoutIsLive    while no answer is lost and requests come one at a *)
(*                      time, a worker has one payout on its way           *)
(*   RequestsAgree      and a request whose events are applied, in any     *)
(*                      order, says what became of its payout              *)
(* The last two fail when an answer is lost or a key is used by two calls  *)
(* at once, one of which is refused: the request then says FAILED, and its *)
(* payout goes on. What keeps them otherwise is that a call that submits a *)
(* payout not yet made stands before a row that is still INITIATING, since *)
(* only an event of the payout itself could have moved the row.            *)
(*                                                                         *)
(* The pool:                                                               *)
(*   PoolIsCovered      it is never overdrawn                              *)
(*   ClaimPaidOnce      a claim is transferred once while Stripe remembers *)
(*                      its key: a claim that has a transfer, or a call    *)
(*                      about to make one, is paid, and nothing takes a    *)
(*                      claim out of paid                                  *)
(* Tips:                                                                   *)
(*   TipsTyped, TipsCorrect   the poster pays only the tip on record, and  *)
(*                      a tip dies only of a race                          *)
(* Offers:                                                                 *)
(*   CorridorKeepsMargin, AcceptedIsBounded   the amounts of a counter     *)
(*   OffersCorrect      who has a task was shown its terms, one counter of *)
(*                      it is approved, overload is of a race              *)
(* The outbox:                                                             *)
(*   OutboxCorrect      one poller holds an event, and a second delivery   *)
(*                      is of a race                                       *)
(*   OutboxStaysDone    so is a processed row that is put back             *)
(*   OutboxHandsOver    without crashes an enqueued row is being handed    *)
(*                      over or has a job                                  *)
(* Outbox, deliveries and creation together, as the run MCDelivery checks  *)
(* them:                                                                   *)
(*   DeliveryTyped, DeliverySentOnce, DeliveryOvershoots,                  *)
(*   DeliveryStaysDone                                                     *)
(* A message reaches its provider once because, until a run is given up or *)
(* taken over, whoever has claimed its row is alone, and what was sent is  *)
(* known by the row or by that run. A limit is overshot only by calls that *)
(* have passed its check and not yet counted, one for each other process:  *)
(* the invariants count the notifications that there are with those calls. *)
(***************************************************************************)
EXTENDS MCDelivery, FiniteSetTheorems, SequenceTheorems, TLAPS

CONSTANTS Keys, Callers, Balance, Refuses, Loses, Returns, Kinds,
          Tasks, MaxFilings, Amounts, MaxClaim, MaxDeposits, Payers, Crashes, KeysExpire,
          Calls, Confirmers, TipAmounts, Price, Faults, MaxDays, MaxBooked,
          Helpers, MaxActive, MaxTerms, Total, Payout, Margin, Proposals
VARIABLES req, asking, available, payout, event, receipts, told, lastTold,
          pool, claim, paying, transfers, keys,
          tip, intents, day, creating, secrets, confirm, booked, crossed,
          state, worker, terms, escrow, fit, shown, live, bargain, lapsed, deciding, overlapped

Cash == INSTANCE CashOut WITH row <- req, call <- asking
Pool == INSTANCE InsurancePool WITH call <- paying
Tip == INSTANCE Tips WITH call <- creating, Amounts <- TipAmounts
Offer == INSTANCE Offers WITH Workers <- Helpers, counter <- bargain
-----------------------------------------------------------------------------
RowStates == {"none"} \cup Cash!ActiveStates \cup Cash!FinalStates
PayoutStates == {"none", "pending", "in_transit", "paid", "failed", "returned"}
EventStates == {"none", "sent", "synced", "told", "done"}
CallStates == {Cash!Idle} \cup [pc : {"resolve"}, key : Keys, eligible : BOOLEAN]
                          \cup [pc : {"submit", "apply", "fail"}, key : Keys]

Sent(k, kind) == kind \in Kinds /\ event[<<k, kind>>] # "none"
Synced(k, kind) == kind \in Kinds /\ event[<<k, kind>>] \in {"synced", "told", "done"}

\* Stripe sends an event when the payout has come to what it says.
Truthful(k) ==
    /\ \A kind \in Kinds : Sent(k, kind) => payout[k] # "none"
    /\ Sent(k, "paid") => payout[k] \in {"paid", "returned"}
    /\ Sent(k, "failed") => payout[k] \in {"failed", "returned"}

Honest(k) == req[k] \in {"PAID", "REVERSED"} => payout[k] \in {"paid", "returned"}

\* The balance is what the payouts under way or paid have left of it.
Out == {k \in Keys : payout[k] \in {"pending", "in_transit", "paid"}}
Conserved == IsFiniteSet(Out) /\ available \in Nat /\ available + Cardinality(Out) = Balance

PaidInv == Cash!TypeOK /\ Conserved /\ \A k \in Keys : Truthful(k) /\ Honest(k)

-----------------------------------------------------------------------------
\* One request at a time, and no answer lost.
Careful == ~Loses /\ \A c, d \in Callers : c = d

\* An active row is the only one; a payout on its way has an active row.
OneActive == \A k, l \in Keys : req[k] \in Cash!ActiveStates /\ req[l] \in Cash!ActiveStates => k = l
Backed(k) ==
    /\ Cash!Live(k) => req[k] \in Cash!ActiveStates
    /\ payout[k] # "none" => req[k] # "none"

\* What a call knows of its row.
Certain(c) ==
    LET k == asking[c].key IN
    /\ asking[c].pc \in {"submit", "fail"} /\ payout[k] = "none" => req[k] = "INITIATING"
    /\ asking[c].pc = "fail" => payout[k] = "none"

\* How the row stands to the events that were applied.
Follows(k) ==
    /\ \A kind \in Kinds : <<k, kind>> \in receipts <=> Synced(k, kind)
    /\ Sent(k, "updated") => payout[k] # "pending"
    /\ payout[k] \in {"paid", "returned"} => Sent(k, "paid")
    /\ payout[k] \in {"failed", "returned"} => Sent(k, "failed")
    /\ Synced(k, "paid") => req[k] \in Cash!FinalStates
    /\ Synced(k, "failed") => req[k] \in {"FAILED", "REVERSED"}
    /\ req[k] \in {"FAILED", "REVERSED"} /\ payout[k] # "none" => Synced(k, "failed")
    /\ req[k] \in {"PAID", "REVERSED"} => Synced(k, "paid")

AgreeInv ==
    /\ PaidInv /\ OneActive
    /\ \A k \in Keys : Backed(k) /\ Follows(k)
    /\ \A c \in Callers : asking[c] # Cash!Idle => Certain(c)

-----------------------------------------------------------------------------
\* A call moves, and the others stay.
LEMMA CallMoves ==
    ASSUME Cash!TypeOK, NEW c \in Callers, NEW r \in CallStates, asking' = [asking EXCEPT ![c] = r]
    PROVE  /\ asking' \in [Callers -> CallStates] /\ asking'[c] = r
           /\ \A d \in Callers \ {c} : asking'[d] = asking[d]
BY DEF Cash!TypeOK, CallStates

\* A call that is not idle has a key.
LEMMA CallHasKey ==
    ASSUME Cash!TypeOK, NEW c \in Callers, asking[c].pc \in {"resolve", "submit", "apply", "fail"}
    PROVE  asking[c].key \in Keys /\ asking[c] # Cash!Idle
BY DEF Cash!TypeOK, Cash!Idle

\* An event moves, if it is of a kind Stripe sends, and the others stay.
LEMMA EventMoves ==
    ASSUME Cash!TypeOK, NEW k \in Keys, NEW kind, NEW s \in EventStates,
           \/ kind \in Kinds /\ event' = [event EXCEPT ![<<k, kind>>] = s]
           \/ event' = [e \in DOMAIN event |-> IF e = <<k, kind>> THEN s ELSE event[e]]
    PROVE  /\ event' \in [Keys \X Kinds -> EventStates]
           /\ \A l \in Keys, j \in Kinds :
                  event'[<<l, j>>] = IF l = k /\ j = kind THEN s ELSE event[<<l, j>>]
<1>1. event \in [Keys \X Kinds -> EventStates]
  BY DEF Cash!TypeOK, EventStates
<1>2. event' = [e \in Keys \X Kinds |-> IF e = <<k, kind>> THEN s ELSE event[e]]
  BY <1>1
<1>3. QED
  BY <1>1, <1>2

\* A payout moves, and the balance with it.
LEMMA PayoutMoves ==
    ASSUME Cash!CashOutAssumption, Cash!TypeOK, Conserved, NEW k \in Keys, NEW s \in PayoutStates,
           payout' = [payout EXCEPT ![k] = s],
           \/ k \in Out /\ s \in {"pending", "in_transit", "paid"} /\ available' = available
           \/ k \in Out /\ s \notin {"pending", "in_transit", "paid"} /\ available' = available + 1
           \/ /\ k \notin Out /\ s \in {"pending", "in_transit", "paid"}
              /\ available > 0 /\ available' = available - 1
    PROVE  Conserved' /\ available' \in 0..Balance /\ payout' \in [Keys -> PayoutStates]
<1>1. payout \in [Keys -> PayoutStates]
  BY DEF Cash!TypeOK, PayoutStates
<1>2. payout' \in [Keys -> PayoutStates] /\ payout'[k] = s /\ \A l \in Keys \ {k} : payout'[l] = payout[l]
  BY <1>1
<1>3. Out' = IF s \in {"pending", "in_transit", "paid"} THEN Out \cup {k} ELSE Out \ {k}
  BY <1>2 DEF Out
<1>4. /\ IsFiniteSet(Out) /\ Cardinality(Out) \in Nat /\ available \in Nat /\ Balance \in Nat
      /\ available + Cardinality(Out) = Balance
  BY FS_CardinalityType DEF Conserved, Cash!CashOutAssumption
<1>5. CASE s \in {"pending", "in_transit", "paid"}
  <2>1. IsFiniteSet(Out') /\ Cardinality(Out') = Cardinality(Out) + (IF k \in Out THEN 0 ELSE 1)
    <3>1. Out' = Out \cup {k}
      BY <1>3, <1>5
    <3>2. QED
      BY <1>4, <3>1, FS_AddElement
  <2>2. available' \in Nat /\ available' + Cardinality(Out') = Balance
    BY <1>4, <1>5, <2>1
  <2>3. QED
    BY <1>2, <1>4, <2>1, <2>2 DEF Conserved
<1>6. CASE s \notin {"pending", "in_transit", "paid"}
  <2>1. IsFiniteSet(Out') /\ Cardinality(Out') = Cardinality(Out) - (IF k \in Out THEN 1 ELSE 0)
    <3>1. Out' = Out \ {k}
      BY <1>3, <1>6
    <3>2. QED
      BY <1>4, <3>1, FS_RemoveElement
  <2>2. Cardinality(Out') \in Nat
    BY <2>1, FS_CardinalityType
  <2>3. available' \in Nat /\ available' + Cardinality(Out') = Balance
    BY <1>4, <1>6, <2>1
  <2>4. QED
    BY <1>2, <1>4, <2>1, <2>2, <2>3 DEF Conserved
<1>7. QED
  BY <1>5, <1>6

\* The steps of a call beside Stripe's.
LEMMA CallSteps ==
    ASSUME Cash!TypeOK, NEW c \in Callers,
           \/ (\E k \in Keys : Cash!Review(c, k)) \/ Cash!Resolve(c)
           \/ Cash!ApplyProviderResult(c) \/ Cash!MarkProviderFailure(c) \/ Cash!Die(c)
    PROVE  /\ req' \in [Keys -> RowStates] /\ asking' \in [Callers -> CallStates]
           /\ \A k \in Keys : req'[k] = req[k] \/ req'[k] \in {"INITIATING", "SUBMITTED", "FAILED"}
           /\ UNCHANGED <<Cash!stripeVars, Cash!eventVars>>
<1>t. req \in [Keys -> RowStates]
  BY DEF Cash!TypeOK, RowStates
<1>1. ASSUME NEW k \in Keys, Cash!Review(c, k)
      PROVE  asking' \in [Callers -> CallStates] /\ UNCHANGED <<req, Cash!stripeVars, Cash!eventVars>>
  BY <1>1, CallMoves DEF Cash!Review, CallStates
<1>2. CASE Cash!Resolve(c)
  <2>1. asking[c].key \in Keys
    BY <1>2, CallHasKey DEF Cash!Resolve, Cash!At
  <2>2. asking' \in [Callers -> CallStates]
    BY <1>2, <2>1, CallMoves DEF Cash!Resolve, Cash!Goto, Cash!Return, CallStates
  <2>3. req' \in [Keys -> RowStates] /\ \A k \in Keys : req'[k] = req[k] \/ req'[k] = "INITIATING"
    BY <1>2, <1>t, <2>1 DEF Cash!Resolve, RowStates, Cash!ActiveStates
  <2>4. QED
    BY <1>2, <2>2, <2>3 DEF Cash!Resolve
<1>3. CASE Cash!ApplyProviderResult(c) \/ Cash!MarkProviderFailure(c)
  <2>1. asking[c].key \in Keys
    BY <1>3, CallHasKey DEF Cash!ApplyProviderResult, Cash!MarkProviderFailure, Cash!At
  <2>2. asking' \in [Callers -> CallStates]
    BY <1>3, <2>1, CallMoves DEF Cash!ApplyProviderResult, Cash!MarkProviderFailure, Cash!Return,
       CallStates
  <2>3. /\ req' \in [Keys -> RowStates]
        /\ \A k \in Keys : req'[k] = req[k] \/ req'[k] \in {"SUBMITTED", "FAILED"}
    BY <1>3, <1>t, <2>1 DEF Cash!ApplyProviderResult, Cash!MarkProviderFailure, RowStates,
       Cash!ActiveStates, Cash!FinalStates
  <2>4. QED
    BY <1>3, <2>2, <2>3 DEF Cash!ApplyProviderResult, Cash!MarkProviderFailure
<1>4. CASE Cash!Die(c)
  BY <1>4, <1>t, CallMoves DEF Cash!Die, Cash!Return, CallStates
<1>5. QED
  BY <1>t, <1>1, <1>2, <1>3, <1>4

\* What happens to the payout of a key at Stripe: it is made, moves on, or ends.
Made(k) == payout[k] = "none" /\ payout' = [payout EXCEPT ![k] = "pending"]
Moves(k, s, kind) ==
    /\ payout' = [payout EXCEPT ![k] = s]
    /\ \/ s = "in_transit" /\ kind = "updated" /\ payout[k] = "pending"
       \/ s = "paid" /\ kind = "paid" /\ payout[k] \in {"pending", "in_transit"}
       \/ s = "failed" /\ kind = "failed" /\ payout[k] \in {"pending", "in_transit"}
       \/ s = "returned" /\ kind = "failed" /\ payout[k] = "paid"

LEMMA StripeSteps ==
    ASSUME Cash!CashOutAssumption, Cash!TypeOK, Conserved, NEW k \in Keys, Cash!Travel(k) \/ Cash!Pay(k) \/ Cash!Fail(k) \/ Cash!ComeBack(k)
    PROVE  \E s \in PayoutStates, kind \in {"updated", "paid", "failed"} :
               /\ Moves(k, s, kind) /\ Cash!Becomes(k, s, kind)
               /\ Conserved' /\ available' \in 0..Balance /\ payout' \in [Keys -> PayoutStates]
<1>t. available \in Nat /\ payout \in [Keys -> PayoutStates] /\ Balance \in Nat
  BY DEF Cash!TypeOK, PayoutStates, Conserved, Cash!CashOutAssumption
<1>1. CASE Cash!Travel(k)
  <2>1. Cash!Becomes(k, "in_transit", "updated") /\ available' = available /\ payout[k] = "pending" /\ k \in Out
    BY <1>1 DEF Cash!Travel, Out
  <2>2. Conserved' /\ available' \in 0..Balance /\ payout' \in [Keys -> PayoutStates]
    <3>1. payout' = [payout EXCEPT ![k] = "in_transit"] /\ "in_transit" \in PayoutStates
      BY <2>1 DEF Cash!Becomes, PayoutStates
    <3>2. QED
      BY <2>1, <3>1, PayoutMoves
  <2>3. QED
    BY <2>1, <2>2 DEF Cash!Becomes, Moves, PayoutStates
<1>2. CASE Cash!Pay(k)
  <2>1. Cash!Becomes(k, "paid", "paid") /\ available' = available /\ payout[k] \in {"pending",
       "in_transit"} /\ k \in Out
    BY <1>2 DEF Cash!Pay, Out
  <2>2. Conserved' /\ available' \in 0..Balance /\ payout' \in [Keys -> PayoutStates]
    <3>1. payout' = [payout EXCEPT ![k] = "paid"] /\ "paid" \in PayoutStates
      BY <2>1 DEF Cash!Becomes, PayoutStates
    <3>2. QED
      BY <2>1, <3>1, PayoutMoves
  <2>3. QED
    BY <2>1, <2>2 DEF Cash!Becomes, Moves, PayoutStates
<1>3. CASE Cash!Fail(k)
  <2>1. /\ Cash!Becomes(k, "failed", "failed") /\ available' = available + 1
        /\ payout[k] \in {"pending", "in_transit"} /\ k \in Out
    BY <1>3 DEF Cash!Fail, Out
  <2>2. Conserved' /\ available' \in 0..Balance /\ payout' \in [Keys -> PayoutStates]
    <3>1. payout' = [payout EXCEPT ![k] = "failed"] /\ "failed" \in PayoutStates
      BY <2>1 DEF Cash!Becomes, PayoutStates
    <3>2. QED
      BY <2>1, <3>1, PayoutMoves
  <2>3. QED
    BY <2>1, <2>2 DEF Cash!Becomes, Moves, PayoutStates
<1>4. CASE Cash!ComeBack(k)
  <2>1. Cash!Becomes(k, "returned", "failed") /\ available' = available + 1 /\ payout[k] = "paid" /\ k \in Out
    BY <1>4 DEF Cash!ComeBack, Out
  <2>2. Conserved' /\ available' \in 0..Balance /\ payout' \in [Keys -> PayoutStates]
    <3>1. payout' = [payout EXCEPT ![k] = "returned"] /\ "returned" \in PayoutStates
      BY <2>1 DEF Cash!Becomes, PayoutStates
    <3>2. QED
      BY <2>1, <3>1, PayoutMoves
  <2>3. QED
    BY <2>1, <2>2 DEF Cash!Becomes, Moves, PayoutStates
<1>5. QED
  BY <1>1, <1>2, <1>3, <1>4

\* The call to Stripe makes the payout, or finds it made, or fails before it.
LEMMA SubmitSteps ==
    ASSUME Cash!CashOutAssumption, Cash!TypeOK, Conserved, NEW c \in Callers, Cash!Submit(c)
    PROVE  LET k == asking[c].key IN
           /\ k \in Keys /\ UNCHANGED <<req, receipts, told, lastTold>>
           /\ \E pc \in {"apply", "fail"} :
                  /\ asking' = [asking EXCEPT ![c] = [pc |-> pc, key |-> k]]
                  /\ ~Loses /\ pc = "fail" => payout[k] = "none" /\ UNCHANGED payout
           /\ \/ Made(k) /\ event' = [e \in DOMAIN event |-> IF e = <<k, "created">> THEN "sent" ELSE event[e]]
              \/ UNCHANGED <<payout, event>>
           /\ Conserved' /\ available' \in 0..Balance /\ payout' \in [Keys -> PayoutStates]
<1> DEFINE k == asking[c].key
<1>t. /\ available \in Nat /\ payout \in [Keys -> PayoutStates] /\ Balance \in Nat
      /\ available \in 0..Balance
  BY DEF Cash!TypeOK, PayoutStates, Conserved, Cash!CashOutAssumption
<1>1. k \in Keys /\ UNCHANGED <<req, receipts, told, lastTold>>
  BY CallHasKey DEF Cash!Submit, Cash!At
<1>2. CASE payout[k] = "none" /\ available > 0 /\ available' = available - 1
           /\ payout' = [payout EXCEPT ![k] = "pending"]
           /\ event' = [e \in DOMAIN event |-> IF e = <<k, "created">> THEN "sent" ELSE event[e]]
           /\ \E pc \in {"apply"} \cup (IF Loses THEN {"fail"} ELSE {}) : Cash!Goto(c, pc, k)
  <2>1. k \notin Out
    BY <1>2 DEF Out
  <2>2. Conserved' /\ available' \in 0..Balance /\ payout' \in [Keys -> PayoutStates]
    <3>1. "pending" \in PayoutStates
      BY DEF PayoutStates
    <3>2. QED
      BY <1>1, <1>2, <2>1, <3>1, PayoutMoves
  <2>3. QED
    BY <1>1, <1>2, <2>2 DEF Made, Cash!Goto
<1>3. CASE UNCHANGED <<Cash!stripeVars, event>>
           /\ \/ payout[k] = "none" /\ Cash!Goto(c, "fail", k)
              \/ \E pc \in {"apply"} \cup (IF Loses THEN {"fail"} ELSE {}) : Cash!Goto(c, pc, k)
  <2>1. Conserved' /\ available' \in 0..Balance /\ payout' \in [Keys -> PayoutStates]
    BY <1>t, <1>3 DEF Cash!stripeVars, Conserved, Out
  <2>2. QED
    BY <1>1, <1>3, <2>1 DEF Cash!stripeVars, Cash!Goto
<1>4. QED
  BY <1>2, <1>3 DEF Cash!Submit

\* An event is applied, told and done; only applying it touches the row.
LEMMA EventSteps ==
    ASSUME Cash!CashOutAssumption, Cash!TypeOK, NEW k \in Keys, NEW kind \in Kinds,
           \/ Cash!SyncProviderPayout(k, kind) \/ Cash!HandleTerminalPayout(k, kind)
           \/ Cash!MarkSuccess(k, kind) \/ Cash!ReleaseFailedClaim(k, kind)
    PROVE  /\ UNCHANGED <<asking, Cash!stripeVars>>
           /\ event[<<k, kind>>] # "none"
           /\ \E s \in EventStates \ {"none"} : event' = [event EXCEPT ![<<k, kind>>] = s]
           /\ receipts' \subseteq Keys \X Kinds /\ told' \subseteq Keys \X Kinds
           /\ lastTold' \in [Keys -> {"none", "paid", "failed"}]
           /\ req' \in [Keys -> RowStates] /\ \A l \in Keys \ {k} : req'[l] = req[l]
           /\ req'[k] = req[k] \/ (Cash!Legal(req[k], Cash!Projected(req[k], kind)) /\ req'[k] = Cash!Projected(req[k], kind))
<1>t. /\ req \in [Keys -> RowStates] /\ receipts \subseteq Keys \X Kinds /\ told \subseteq Keys \X Kinds
      /\ lastTold \in [Keys -> {"none", "paid", "failed"}]
  BY DEF Cash!TypeOK, RowStates
<1>1. CASE Cash!SyncProviderPayout(k, kind)
  <2>1. req' = [req EXCEPT ![k] = IF <<k, kind>> \notin receipts /\ Cash!Legal(req[k], Cash!Projected(req[k], kind))
                                  THEN Cash!Projected(req[k], kind) ELSE req[k]]
    BY <1>1 DEF Cash!SyncProviderPayout
  <2>2. Cash!Projected(req[k], kind) \in RowStates
    BY DEF Cash!Projected, Cash!Reported, RowStates, Cash!ActiveStates, Cash!FinalStates
  <2>3. req' \in [Keys -> RowStates] /\ \A l \in Keys \ {k} : req'[l] = req[l]
    BY <1>t, <2>1, <2>2
  <2>4. req'[k] = req[k] \/ (Cash!Legal(req[k], Cash!Projected(req[k], kind)) /\ req'[k] = Cash!Projected(req[k], kind))
    BY <1>t, <2>1
  <2>5. /\ UNCHANGED <<asking, Cash!stripeVars, told, lastTold>> /\ event[<<k, kind>>] # "none"
        /\ event' = [event EXCEPT ![<<k, kind>>] = "synced"] /\ "synced" \in EventStates \ {"none"}
        /\ receipts' \subseteq Keys \X Kinds
    BY <1>1, <1>t DEF Cash!SyncProviderPayout, EventStates
  <2>6. QED
    BY <1>t, <2>3, <2>4, <2>5
<1>2. CASE Cash!HandleTerminalPayout(k, kind)
  <2>1. /\ UNCHANGED <<req, asking, Cash!stripeVars, receipts>> /\ event[<<k, kind>>] # "none"
        /\ event' = [event EXCEPT ![<<k, kind>>] = "told"] /\ "told" \in EventStates \ {"none"}
    BY <1>2 DEF Cash!HandleTerminalPayout, EventStates
  <2>2. told' \subseteq Keys \X Kinds /\ lastTold' \in [Keys -> {"none", "paid", "failed"}]
    BY <1>2, <1>t DEF Cash!HandleTerminalPayout
  <2>3. QED
    BY <1>t, <2>1, <2>2
<1>3. CASE Cash!MarkSuccess(k, kind) \/ Cash!ReleaseFailedClaim(k, kind)
  BY <1>3, <1>t DEF Cash!MarkSuccess, Cash!ReleaseFailedClaim, EventStates
<1>4. QED
  BY <1>1, <1>2, <1>3

LEMMA PaidInit == Cash!CashOutAssumption /\ Cash!Init => PaidInv
<1>1. ASSUME Cash!CashOutAssumption, Cash!Init
      PROVE  PaidInv
  <2>1. Out = {}
    BY <1>1 DEF Cash!Init, Out
  <2>2. Conserved
    BY <1>1, <2>1, FS_EmptySet DEF Cash!Init, Conserved, Cash!CashOutAssumption
  <2>3. asking \in [Callers -> {Cash!Idle}]
    BY <1>1 DEF Cash!Init
  <2>4. Cash!TypeOK
    BY <1>1, <2>3 DEF Cash!Init, Cash!TypeOK, Cash!CashOutAssumption
  <2>5. QED
    BY <1>1, <2>2, <2>4 DEF Cash!Init, PaidInv, Truthful, Honest, Sent
<1>2. QED
  BY <1>1

LEMMA PaidStep ==
    ASSUME Cash!CashOutAssumption, PaidInv, [Cash!Next]_(Cash!vars)
    PROVE  PaidInv'
<1>t. /\ Cash!TypeOK /\ Conserved /\ \A k \in Keys : Truthful(k) /\ Honest(k)
      /\ req \in [Keys -> RowStates] /\ asking \in [Callers -> CallStates]
      /\ payout \in [Keys -> PayoutStates] /\ event \in [Keys \X Kinds -> EventStates]
  BY DEF PaidInv, Cash!TypeOK, RowStates, CallStates, PayoutStates, EventStates
<1>y. ASSUME req' \in [Keys -> RowStates], asking' \in [Callers -> CallStates],
             available' \in 0..Balance, payout' \in [Keys -> PayoutStates],
             event' \in [Keys \X Kinds -> EventStates], receipts' \subseteq Keys \X Kinds,
             told' \subseteq Keys \X Kinds, lastTold' \in [Keys -> {"none", "paid", "failed"}]
      PROVE  Cash!TypeOK'
  BY <1>y DEF Cash!TypeOK, RowStates, CallStates, PayoutStates, EventStates
<1>o. /\ available \in 0..Balance /\ receipts \subseteq Keys \X Kinds /\ told \subseteq Keys \X Kinds
      /\ lastTold \in [Keys -> {"none", "paid", "failed"}]
  BY <1>t DEF Cash!TypeOK
<1>1. ASSUME NEW c \in Callers,
             \/ (\E k \in Keys : Cash!Review(c, k)) \/ Cash!Resolve(c)
             \/ Cash!ApplyProviderResult(c) \/ Cash!MarkProviderFailure(c) \/ Cash!Die(c)
      PROVE  PaidInv'
  <2>1. /\ req' \in [Keys -> RowStates] /\ asking' \in [Callers -> CallStates]
        /\ \A k \in Keys : req'[k] = req[k] \/ req'[k] \in {"INITIATING", "SUBMITTED", "FAILED"}
        /\ UNCHANGED <<available, payout, event, receipts, told, lastTold>>
    BY <1>1, <1>t, CallSteps DEF Cash!stripeVars, Cash!eventVars
  <2>2. Cash!TypeOK'
    BY <1>t, <1>o, <1>y, <2>1
  <2>3. QED
    BY <1>t, <2>1, <2>2 DEF PaidInv, Conserved, Out, Truthful, Honest, Sent
<1>2. ASSUME NEW c \in Callers, Cash!Submit(c)
      PROVE  PaidInv'
  <2> DEFINE k == asking[c].key
  <2>1. /\ k \in Keys /\ UNCHANGED <<req, receipts, told, lastTold>>
        /\ \E pc \in {"apply", "fail"} : asking' = [asking EXCEPT ![c] = [pc |-> pc, key |-> k]]
        /\ \/ Made(k) /\ event' = [e \in DOMAIN event |-> IF e = <<k, "created">> THEN "sent" ELSE event[e]]
           \/ UNCHANGED <<payout, event>>
        /\ Conserved' /\ available' \in 0..Balance /\ payout' \in [Keys -> PayoutStates]
    BY <1>2, <1>t, SubmitSteps
  <2>2. asking' \in [Callers -> CallStates]
    BY <1>t, <2>1, CallMoves DEF CallStates
  <2>3. CASE Made(k) /\ event' = [e \in DOMAIN event |-> IF e = <<k, "created">> THEN "sent" ELSE event[e]]
    <3>1. /\ event' \in [Keys \X Kinds -> EventStates]
          /\ \A l \in Keys, j \in Kinds : event'[<<l, j>>] = IF l = k /\ j = "created" THEN "sent" ELSE event[<<l, j>>]
      <4>1. "sent" \in EventStates
        BY DEF EventStates
      <4>2. QED
        BY <1>t, <2>1, <2>3, <4>1, EventMoves
    <3>2. payout[k] = "none" /\ payout'[k] = "pending" /\ \A l \in Keys \ {k} : payout'[l] = payout[l]
      BY <1>t, <2>1, <2>3 DEF Made
    <3>3. Cash!TypeOK'
      BY <1>o, <1>t, <1>y, <2>1, <2>2, <3>1
    <3>4. ASSUME NEW l \in Keys
          PROVE  Truthful(l)' /\ Honest(l)'
      BY <1>t, <2>1, <3>1, <3>2 DEF Truthful, Honest, Sent
    <3>5. QED
      BY <2>1, <3>3, <3>4 DEF PaidInv
  <2>4. CASE UNCHANGED <<payout, event>>
    <3>1. Cash!TypeOK'
      BY <1>o, <1>t, <1>y, <2>1, <2>2, <2>4
    <3>2. QED
      BY <1>t, <2>1, <2>4, <3>1 DEF PaidInv, Truthful, Honest, Sent
  <2>5. QED
    BY <2>1, <2>3, <2>4
<1>3. ASSUME NEW k \in Keys, Cash!Travel(k) \/ Cash!Pay(k) \/ Cash!Fail(k) \/ Cash!ComeBack(k)
      PROVE  PaidInv'
  <2>1. PICK s \in PayoutStates, kind \in {"updated", "paid", "failed"} :
               /\ Moves(k, s, kind) /\ Cash!Becomes(k, s, kind)
               /\ Conserved' /\ available' \in 0..Balance /\ payout' \in [Keys -> PayoutStates]
    BY <1>3, <1>t, StripeSteps
  <2>2. /\ event' \in [Keys \X Kinds -> EventStates]
        /\ \A l \in Keys, j \in Kinds : event'[<<l, j>>] = IF l = k /\ j = kind THEN "sent" ELSE event[<<l, j>>]
    BY <1>t, <2>1, EventMoves DEF Cash!Becomes, EventStates
  <2>3. payout'[k] = s /\ \A l \in Keys \ {k} : payout'[l] = payout[l]
    BY <1>t, <2>1 DEF Moves
  <2>4. UNCHANGED <<req, asking, receipts, told, lastTold>>
    BY <2>1 DEF Cash!Becomes
  <2>5. Cash!TypeOK'
    BY <1>o, <1>t, <1>y, <2>1, <2>2, <2>4
  <2>6. ASSUME NEW l \in Keys
        PROVE  Truthful(l)' /\ Honest(l)'
    <3>1. CASE l = k
      <4>1. Truthful(k)'
        BY <1>t, <2>1, <2>2, <2>3 DEF Truthful, Sent, Moves
      <4>2. Honest(k)'
        BY <1>t, <2>1, <2>3, <2>4 DEF Honest, Moves
      <4>3. QED
        BY <3>1, <4>1, <4>2
    <3>2. CASE l # k
      BY <1>t, <2>2, <2>3, <2>4, <3>2 DEF Truthful, Honest, Sent
    <3>3. QED
      BY <3>1, <3>2
  <2>7. QED
    BY <2>1, <2>5, <2>6 DEF PaidInv
<1>4. ASSUME NEW k \in Keys, NEW kind \in Kinds,
             \/ Cash!SyncProviderPayout(k, kind) \/ Cash!HandleTerminalPayout(k, kind)
             \/ Cash!MarkSuccess(k, kind) \/ Cash!ReleaseFailedClaim(k, kind)
      PROVE  PaidInv'
  <2>1. /\ UNCHANGED <<asking, available, payout>> /\ event[<<k, kind>>] # "none"
        /\ \E s \in EventStates \ {"none"} : event' = [event EXCEPT ![<<k, kind>>] = s]
        /\ receipts' \subseteq Keys \X Kinds /\ told' \subseteq Keys \X Kinds
        /\ lastTold' \in [Keys -> {"none", "paid", "failed"}]
        /\ req' \in [Keys -> RowStates] /\ \A l \in Keys \ {k} : req'[l] = req[l]
        /\ req'[k] = req[k] \/ (Cash!Legal(req[k], Cash!Projected(req[k], kind)) /\ req'[k] = Cash!Projected(req[k], kind))
    BY <1>4, <1>t, EventSteps DEF Cash!stripeVars
  <2>2. /\ event' \in [Keys \X Kinds -> EventStates]
        /\ \A l \in Keys, j \in Kinds : event'[<<l, j>>] = "none" <=> event[<<l, j>>] = "none"
    BY <1>t, <2>1, EventMoves, ZenonT(60)
  <2>3. Cash!TypeOK'
    BY <1>o, <1>t, <1>y, <2>1, <2>2
  <2>4. Honest(k)'
    BY <1>t, <2>1 DEF Honest, Truthful, Sent, Cash!Legal, Cash!Projected, Cash!Reported
  <2>5. ASSUME NEW l \in Keys
        PROVE  Truthful(l)' /\ Honest(l)'
    BY <1>t, <2>1, <2>2, <2>4 DEF Truthful, Honest, Sent
  <2>6. QED
    BY <1>t, <2>1, <2>3, <2>5 DEF PaidInv, Conserved, Out
<1>5. CASE UNCHANGED Cash!vars
  BY <1>5, <1>t, <1>o, <1>y DEF Cash!vars, Cash!stripeVars, Cash!eventVars, PaidInv, Conserved, Out,
     Truthful, Honest, Sent
<1>6. QED
  BY <1>1, <1>2, <1>3, <1>4, <1>5 DEF Cash!Next

\* Whatever is lost, repeated or reordered, a request that says PAID has reached the
\* bank: only Stripe's paid event writes it, under LEGAL_PROVIDER_TRANSITIONS.  And
\* the balance is what the payouts under way or paid have left of it.
THEOREM PaidIsPaid ==
    ASSUME Cash!CashOutAssumption
    PROVE  Cash!Spec => [](Cash!TypeOK /\ Cash!PaidWasPaid /\ Conserved)
<1>1. Cash!Init => PaidInv
  BY PaidInit
<1>2. PaidInv /\ [Cash!Next]_(Cash!vars) => PaidInv'
  BY PaidStep
<1>3. PaidInv => Cash!TypeOK /\ Cash!PaidWasPaid /\ Conserved
  BY DEF PaidInv, Cash!PaidWasPaid, Honest
<1>4. QED
  BY <1>1, <1>2, <1>3, PTL DEF Cash!Spec

-----------------------------------------------------------------------------
\* A key that a step leaves alone.
Untouched(k) ==
    /\ req'[k] = req[k] /\ payout'[k] = payout[k]
    /\ \A kind \in Kinds : /\ event'[<<k, kind>>] = event[<<k, kind>>]
                           /\ <<k, kind>> \in receipts' <=> <<k, kind>> \in receipts

LEMMA UntouchedKeeps ==
    ASSUME NEW k \in Keys, Untouched(k), Backed(k), Follows(k)
    PROVE  Backed(k)' /\ Follows(k)'
BY DEF Untouched, Backed, Follows, Cash!Live, Synced, Sent

\* What a key's records say depends on its row, payout and events alone; here only
\* its row changes.
RowOnly(k) ==
    /\ payout'[k] = payout[k]
    /\ \A kind : (Sent(k, kind)' <=> Sent(k, kind)) /\ (Synced(k, kind)' <=> Synced(k, kind))
    /\ \A kind \in Kinds : <<k, kind>> \in receipts' <=> <<k, kind>> \in receipts

LEMMA RowMoves ==
    ASSUME NEW k \in Keys, RowOnly(k), Backed(k), Follows(k),
           Cash!Live(k) => req'[k] \in Cash!ActiveStates,
           payout[k] # "none" => req'[k] # "none",
           Synced(k, "paid") => req'[k] \in Cash!FinalStates,
           Synced(k, "failed") => req'[k] \in {"FAILED", "REVERSED"},
           (req'[k] \in {"FAILED", "REVERSED"} /\ payout[k] # "none") => Synced(k, "failed"),
           req'[k] \in {"PAID", "REVERSED"} => Synced(k, "paid")
    PROVE  Backed(k)' /\ Follows(k)'
<1>1. \A kind : /\ Sent(k, kind)' <=> Sent(k, kind)
                /\ Synced(k, kind)' <=> Synced(k, kind)
  BY DEF RowOnly
<1>2. Cash!Live(k)' <=> Cash!Live(k)
  BY DEF RowOnly, Cash!Live
<1>3. Backed(k)'
  BY <1>2 DEF RowOnly, Backed
<1>4. \A kind \in Kinds : (<<k, kind>> \in receipts)' <=> Synced(k, kind)'
  BY <1>1 DEF RowOnly, Follows
<1>5. Follows(k)'
  BY <1>1, <1>4 DEF RowOnly, Follows
<1>6. QED
  BY <1>3, <1>5

\* The steps of the one call.
LEMMA CallAgrees ==
    ASSUME Cash!CashOutAssumption, Careful, AgreeInv, NEW c \in Callers,
           \/ (\E k \in Keys : Cash!Review(c, k)) \/ Cash!Resolve(c)
           \/ Cash!ApplyProviderResult(c) \/ Cash!MarkProviderFailure(c)
    PROVE  /\ OneActive' /\ (\A k \in Keys : Backed(k)' /\ Follows(k)')
           /\ (asking'[c] # Cash!Idle => Certain(c)')
<1>t. /\ Cash!TypeOK /\ req \in [Keys -> RowStates] /\ asking \in [Callers -> CallStates]
      /\ OneActive /\ \A k \in Keys : Backed(k) /\ Follows(k) /\ Truthful(k)
      /\ asking[c] # Cash!Idle => Certain(c)
  BY DEF AgreeInv, PaidInv, Cash!TypeOK, RowStates, CallStates
<1>u. UNCHANGED <<payout, event, receipts>>
  BY <1>t, CallSteps DEF Cash!stripeVars, Cash!eventVars
<1>s. ASSUME req' = req
      PROVE  OneActive' /\ (\A k \in Keys : Backed(k)' /\ Follows(k)')
  BY <1>s, <1>t, <1>u, UntouchedKeeps DEF Untouched, OneActive
<1>o. ASSUME NEW k \in Keys, NEW s, req' = [req EXCEPT ![k] = s], Backed(k)', Follows(k)'
      PROVE  \A l \in Keys : Backed(l)' /\ Follows(l)'
  <2>1. \A l \in Keys \ {k} : Untouched(l)
    BY <1>o, <1>t, <1>u DEF Untouched
  <2>2. QED
    BY <1>o, <1>t, <2>1, UntouchedKeeps
<1>r. \A k \in Keys : RowOnly(k)
  BY <1>u DEF RowOnly, Sent, Synced
<1>1. ASSUME NEW k \in Keys, Cash!Review(c, k)
      PROVE  req' = req /\ (asking'[c] # Cash!Idle => Certain(c)')
  <2>1. /\ req' = req
        /\ asking' = [asking EXCEPT ![c] = [pc |-> "resolve", key |-> k, eligible |-> ~Cash!ActiveExists /\ available > 0]]
    BY <1>1 DEF Cash!Review
  <2>2. asking'[c].pc = "resolve"
    BY <1>t, <2>1
  <2>3. QED
    BY <2>1, <2>2 DEF Certain
<1>2. CASE Cash!Resolve(c)
  <2>1. PICK k \in Keys : k = asking[c].key
    BY <1>2, <1>t, CallHasKey DEF Cash!Resolve, Cash!At
  <2>2. CASE req' = req /\ req[k] = "INITIATING" /\ asking' = [asking EXCEPT ![c] = [pc |-> "submit", key |-> k]]
    <3>1. asking'[c] = [pc |-> "submit", key |-> k] /\ req'[k] = "INITIATING"
      BY <1>t, <2>2
    <3>2. Certain(c)'
      BY <3>1 DEF Certain
    <3>3. QED
      BY <1>s, <2>2, <3>2
  <2>3. CASE req' = req /\ asking' = [asking EXCEPT ![c] = Cash!Idle]
    BY <1>s, <1>t, <2>3
  <2>4. CASE /\ req[k] = "none" /\ ~Cash!ActiveExists /\ req' = [req EXCEPT ![k] = "INITIATING"]
             /\ asking' = [asking EXCEPT ![c] = [pc |-> "submit", key |-> k]]
    <3>1. req'[k] = "INITIATING" /\ \A l \in Keys \ {k} : req'[l] = req[l]
      BY <1>t, <2>1, <2>4
    <3>2. asking'[c] = [pc |-> "submit", key |-> k]
      BY <1>t, <2>4
    <3>3. OneActive'
      BY <2>4, <3>1 DEF Cash!ActiveExists, OneActive
    <3>4. payout[k] = "none" /\ \A kind \in Kinds : ~Sent(k, kind)
      BY <1>t, <2>1, <2>4 DEF Backed, Truthful
    <3>5. \A kind : ~Synced(k, kind)
      BY <3>4 DEF Sent, Synced
    <3>6. Backed(k)' /\ Follows(k)'
      BY <1>t, <1>r, <2>1, <3>1, <3>4, <3>5, RowMoves DEF Cash!Live
    <3>7. Certain(c)'
      BY <3>1, <3>2, <2>1 DEF Certain
    <3>8. QED
      BY <1>o, <2>1, <2>4, <3>3, <3>6, <3>7
  <2>5. QED
    BY <1>2, <2>1, <2>2, <2>3, <2>4 DEF Cash!Resolve, Cash!Goto, Cash!Return
<1>3. CASE Cash!ApplyProviderResult(c) \/ Cash!MarkProviderFailure(c)
  <2>1. PICK k \in Keys : k = asking[c].key
    BY <1>3, <1>t, CallHasKey DEF Cash!ApplyProviderResult, Cash!MarkProviderFailure, Cash!At
  <2>2. asking'[c] = Cash!Idle /\ asking[c] # Cash!Idle
    BY <1>3, <1>t, CallHasKey DEF Cash!ApplyProviderResult, Cash!MarkProviderFailure, Cash!Return,
       Cash!At
  <2>3. CASE req[k] # "INITIATING"
    <3>1. req' = req
      BY <1>3, <1>t, <2>1, <2>3 DEF Cash!ApplyProviderResult, Cash!MarkProviderFailure
    <3>2. QED
      BY <1>s, <2>2, <3>1
  <2>4. CASE req[k] = "INITIATING"
    <3>1. PICK s \in {"SUBMITTED",
         "FAILED"} : req' = [req EXCEPT ![k] = s] /\ (s = "FAILED" => payout[k] = "none")
      <4>1. CASE Cash!ApplyProviderResult(c)
        BY <4>1, <2>1, <2>4 DEF Cash!ApplyProviderResult
      <4>2. CASE Cash!MarkProviderFailure(c)
        <5>1. req' = [req EXCEPT ![k] = "FAILED"]
          BY <4>2, <2>1, <2>4 DEF Cash!MarkProviderFailure
        <5>2. payout[k] = "none"
          BY <4>2, <1>t, <2>1, <2>2 DEF Cash!MarkProviderFailure, Cash!At, Certain
        <5>3. QED
          BY <5>1, <5>2
      <4>3. QED
        BY <1>3, <4>1, <4>2
    <3>2. req'[k] = s /\ \A l \in Keys \ {k} : req'[l] = req[l]
      BY <1>t, <2>1, <3>1
    <3>3. OneActive'
      BY <1>t, <2>1, <2>4, <3>1, <3>2 DEF OneActive, Cash!ActiveStates
    <3>4. ~Synced(k, "paid") /\ ~Synced(k, "failed")
      BY <1>t, <2>1, <2>4 DEF Follows, Cash!FinalStates
    <3>5. Cash!Live(k) => s = "SUBMITTED"
      BY <3>1 DEF Cash!Live
    <3>6. Backed(k)' /\ Follows(k)'
      <4>1. /\ Cash!Live(k) => req'[k] \in Cash!ActiveStates
            /\ payout[k] # "none" => req'[k] # "none"
            /\ (req'[k] \in {"FAILED", "REVERSED"} /\ payout[k] # "none") => Synced(k, "failed")
            /\ req'[k] \in {"PAID", "REVERSED"} => Synced(k, "paid")
        BY <3>1, <3>2, <3>5 DEF Cash!ActiveStates
      <4>2. QED
        BY <1>t, <1>r, <2>1, <3>4, <4>1, RowMoves
    <3>7. QED
      BY <1>o, <2>1, <2>2, <3>1, <3>3, <3>6
  <2>5. QED
    BY <2>3, <2>4
<1>4. QED
  BY <1>1, <1>2, <1>3, <1>s

\* The call to Stripe, before a row that is still INITIATING if the payout is new.
LEMMA SubmitAgrees ==
    ASSUME Cash!CashOutAssumption, Careful, AgreeInv, NEW c \in Callers, Cash!Submit(c)
    PROVE  /\ OneActive' /\ (\A k \in Keys : Backed(k)' /\ Follows(k)')
           /\ (asking'[c] # Cash!Idle => Certain(c)')
<1>t. /\ Cash!TypeOK /\ Conserved /\ req \in [Keys -> RowStates] /\ asking \in [Callers -> CallStates]
      /\ payout \in [Keys -> PayoutStates] /\ event \in [Keys \X Kinds -> EventStates]
      /\ OneActive /\ \A k \in Keys : Backed(k) /\ Follows(k) /\ Truthful(k)
      /\ asking[c] # Cash!Idle => Certain(c)
  BY DEF AgreeInv, PaidInv, Cash!TypeOK, RowStates, CallStates, PayoutStates, EventStates
<1>1. PICK k \in Keys : k = asking[c].key
  BY <1>t, CallHasKey DEF Cash!Submit, Cash!At
<1>2. /\ req' = req /\ receipts' = receipts
      /\ \E pc \in {"apply", "fail"} :
             /\ asking' = [asking EXCEPT ![c] = [pc |-> pc, key |-> k]]
             /\ (~Loses /\ pc = "fail") => (payout[k] = "none" /\ UNCHANGED payout)
      /\ \/ Made(k) /\ event' = [e \in DOMAIN event |-> IF e = <<k, "created">> THEN "sent" ELSE event[e]]
         \/ UNCHANGED <<payout, event>>
  BY <1>t, <1>1, SubmitSteps
<1>3. payout[k] = "none" => req[k] = "INITIATING"
  <2>1. asking[c].pc = "submit" /\ asking[c] # Cash!Idle
    BY <1>t, CallHasKey DEF Cash!Submit, Cash!At
  <2>2. QED
    BY <1>t, <1>1, <2>1 DEF Certain
<1>4. OneActive'
  BY <1>t, <1>2 DEF OneActive
<1>5. Certain(c)'
  <2>1. PICK pc \in {"apply", "fail"} :
             /\ asking'[c] = [pc |-> pc, key |-> k]
             /\ pc = "fail" => (payout[k] = "none" /\ payout' = payout)
    BY <1>t, <1>2 DEF Careful
  <2>2. QED
    BY <1>2, <1>3, <2>1 DEF Certain
<1>6. ASSUME NEW l \in Keys
      PROVE  Backed(l)' /\ Follows(l)'
  <2>1. CASE UNCHANGED <<payout, event>> \/ l # k
    <3>1. \A kind \in Kinds : event'[<<l, kind>>] = event[<<l, kind>>]
      BY <1>t, <1>2, <2>1
    <3>2. payout'[l] = payout[l]
      BY <1>t, <1>2, <2>1 DEF Made
    <3>3. Untouched(l)
      BY <1>2, <3>1, <3>2 DEF Untouched
    <3>4. QED
      BY <1>t, <3>3, UntouchedKeeps
  <2>2. CASE /\ l = k /\ Made(k)
             /\ event' = [e \in DOMAIN event |-> IF e = <<k, "created">> THEN "sent" ELSE event[e]]
    <3>1. payout[k] = "none" /\ payout'[k] = "pending" /\ req[k] = "INITIATING" /\ req'[k] = "INITIATING"
      BY <1>t, <1>2, <1>3, <2>2 DEF Made
    <3>2. \A kind \in Kinds : event'[<<k, kind>>] = IF kind = "created" THEN "sent" ELSE event[<<k, kind>>]
      BY <1>t, <2>2
    <3>3. \A kind : ~Sent(k, kind) /\ ~Synced(k, kind)
      BY <1>t, <3>1 DEF Truthful, Sent, Synced
    <3>4. \A kind : (Sent(k, kind)' => kind = "created") /\ ~Synced(k, kind)'
      BY <3>2, <3>3 DEF Sent, Synced
    <3>5. \A kind \in Kinds : <<k, kind>> \notin receipts'
      BY <1>t, <1>2, <3>3 DEF Follows
    <3>6. Backed(k)'
      BY <3>1 DEF Backed, Cash!ActiveStates
    <3>7. Follows(k)'
      BY <3>1, <3>4, <3>5 DEF Follows
    <3>8. QED
      BY <2>2, <3>6, <3>7
  <2>3. QED
    BY <1>2, <2>1, <2>2
<1>7. QED
  BY <1>4, <1>5, <1>6

\* Stripe sends an event of each kind once, so what it sends was not applied before.
LEMMA StripeAgrees ==
    ASSUME Cash!CashOutAssumption, AgreeInv, NEW k \in Keys, Cash!Travel(k) \/ Cash!Pay(k) \/ Cash!Fail(k) \/ Cash!ComeBack(k)
    PROVE  /\ OneActive' /\ (\A l \in Keys : Backed(l)' /\ Follows(l)')
           /\ \A c \in Callers : asking'[c] # Cash!Idle => Certain(c)'
<1>t. /\ Cash!TypeOK /\ Conserved /\ req \in [Keys -> RowStates]
      /\ payout \in [Keys -> PayoutStates] /\ event \in [Keys \X Kinds -> EventStates]
      /\ OneActive /\ \A l \in Keys : Backed(l) /\ Follows(l) /\ Truthful(l)
      /\ \A c \in Callers : asking[c] # Cash!Idle => Certain(c) /\ asking[c].key \in Keys
  BY DEF AgreeInv, PaidInv, Cash!TypeOK, RowStates, PayoutStates, EventStates
<1>1. PICK s \in PayoutStates, kind \in {"updated", "paid", "failed"} :
           Moves(k, s, kind) /\ Cash!Becomes(k, s, kind)
  BY <1>t, StripeSteps
<1>2. \A l \in Keys, j \in Kinds : event'[<<l, j>>] = IF l = k /\ j = kind THEN "sent" ELSE event[<<l, j>>]
  BY <1>t, <1>1, EventMoves DEF Cash!Becomes, EventStates
<1>3. payout'[k] = s /\ \A l \in Keys \ {k} : payout'[l] = payout[l]
  BY <1>t, <1>1 DEF Moves
<1>4. UNCHANGED <<req, asking, receipts>>
  BY <1>1 DEF Cash!Becomes
<1>5. payout[k] # "none" /\ s \notin {"none", "pending"} /\ ~Sent(k, kind)
  BY <1>t, <1>1 DEF Moves, Truthful, Follows
<1>6. OneActive'
  BY <1>t, <1>4 DEF OneActive
<1>7. \A c \in Callers : asking'[c] # Cash!Idle => Certain(c)'
  BY <1>t, <1>3, <1>4, <1>5 DEF Certain
<1>8. ASSUME NEW l \in Keys
      PROVE  Backed(l)' /\ Follows(l)'
  <2>1. CASE l # k
    <3>1. Untouched(l)
      BY <1>2, <1>3, <1>4, <2>1 DEF Untouched
    <3>2. QED
      BY <1>t, <3>1, UntouchedKeeps
  <2>2. CASE l = k
    <3>1. \A j : /\ Sent(k, j)' <=> (Sent(k, j) \/ (j = kind /\ j \in Kinds))
                 /\ Synced(k, j)' <=> Synced(k, j)
      BY <1>2, <1>5 DEF Sent, Synced
    <3>2. Cash!Live(k)' => Cash!Live(k)
      BY <1>1, <1>3 DEF Cash!Live, Moves
    <3>3. Backed(k)'
      BY <1>t, <1>3, <1>4, <1>5, <3>2 DEF Backed
    <3>4. /\ payout'[k] \in {"paid", "returned"} => Sent(k, "paid")'
          /\ payout'[k] \in {"failed", "returned"} => Sent(k, "failed")'
      BY <1>t, <1>1, <1>3, <3>1 DEF Moves, Follows, Cash!CashOutAssumption
    <3>5. /\ \A j \in Kinds : <<k, j>> \in receipts' <=> Synced(k, j)'
          /\ payout'[k] # "pending" /\ req'[k] = req[k] /\ payout[k] # "none"
      BY <1>t, <1>3, <1>4, <1>5, <3>1 DEF Follows
    <3>6. Follows(k)'
      BY <1>t, <3>1, <3>4, <3>5 DEF Follows
    <3>7. QED
      BY <2>2, <3>3, <3>6
  <2>3. QED
    BY <2>1, <2>2
<1>9. QED
  BY <1>6, <1>7, <1>8

\* Applying an event: the kinds that end a payout come from one that has ended.
LEMMA EventAgrees ==
    ASSUME Cash!CashOutAssumption, Careful, AgreeInv, NEW k \in Keys, NEW kind \in Kinds,
           \/ Cash!SyncProviderPayout(k, kind) \/ Cash!HandleTerminalPayout(k, kind)
           \/ Cash!MarkSuccess(k, kind) \/ Cash!ReleaseFailedClaim(k, kind)
    PROVE  /\ OneActive' /\ (\A l \in Keys : Backed(l)' /\ Follows(l)')
           /\ \A c \in Callers : asking'[c] # Cash!Idle => Certain(c)'
<1>t. /\ Cash!TypeOK /\ req \in [Keys -> RowStates] /\ event \in [Keys \X Kinds -> EventStates]
      /\ OneActive /\ \A l \in Keys : Backed(l) /\ Follows(l) /\ Truthful(l)
      /\ \A c \in Callers : asking[c] # Cash!Idle => Certain(c) /\ asking[c].key \in Keys
  BY DEF AgreeInv, PaidInv, Cash!TypeOK, RowStates, EventStates
<1>1. CASE Cash!SyncProviderPayout(k, kind)
  <2>1. /\ event' = [event EXCEPT ![<<k, kind>>] = "synced"] /\ event[<<k, kind>>] = "sent"
        /\ receipts' = receipts \cup {<<k, kind>>} /\ UNCHANGED <<asking, payout>>
    BY <1>1 DEF Cash!SyncProviderPayout, Cash!stripeVars
  <2>2. \A l \in Keys, j \in Kinds :
            event'[<<l, j>>] = IF l = k /\ j = kind THEN "synced" ELSE event[<<l, j>>]
    BY <1>t, <2>1
  <2>3. Sent(k, kind) /\ ~Synced(k, kind) /\ <<k, kind>> \notin receipts
    BY <1>t, <2>1 DEF Sent, Synced, Follows
  <2>4. req' = [req EXCEPT ![k] = IF Cash!Legal(req[k], Cash!Projected(req[k], kind)) THEN Cash!Projected(req[k],
       kind) ELSE req[k]]
    BY <1>1, <2>3 DEF Cash!SyncProviderPayout
  <2>5. /\ \A l \in Keys \ {k} : req'[l] = req[l]
        /\ req'[k] = IF Cash!Legal(req[k], Cash!Projected(req[k], kind)) THEN Cash!Projected(req[k], kind) ELSE req[k]
    BY <1>t, <2>4
  <2>6. payout[k] # "none" /\ req[k] # "none"
    BY <1>t, <2>3 DEF Truthful, Backed
  <2>7. /\ kind \in {"created", "updated", "paid", "failed"}
        /\ kind = "paid" => payout[k] \in {"paid", "returned"}
        /\ kind = "failed" => payout[k] \in {"failed", "returned"}
    BY <1>t, <2>3 DEF Truthful, Cash!CashOutAssumption
  <2>8. /\ req'[k] \in Cash!ActiveStates => req[k] \in Cash!ActiveStates
        /\ req[k] \in Cash!ActiveStates /\ kind \in {"created", "updated"} => req'[k] \in Cash!ActiveStates
        /\ req'[k] # "none"
        /\ req[k] \in Cash!FinalStates => req'[k] \in Cash!FinalStates
    BY <1>t, <2>5, <2>6, <2>7 DEF Cash!Legal, Cash!Projected, Cash!Reported, Cash!ActiveStates,
       Cash!FinalStates, RowStates
  <2>9. /\ kind = "paid" => req'[k] \in Cash!FinalStates
        /\ kind = "failed" => req'[k] \in {"FAILED", "REVERSED"}
        /\ req[k] \in {"FAILED", "REVERSED"} => req'[k] = req[k]
        /\ req'[k] \in {"FAILED", "REVERSED"} => req[k] = req'[k] \/ kind = "failed"
        /\ req'[k] \in {"PAID", "REVERSED"} => req[k] \in {"PAID", "REVERSED"} \/ kind = "paid"
    BY <1>t, <2>5, <2>6, <2>7 DEF Cash!Legal, Cash!Projected, Cash!Reported, Cash!ActiveStates,
       Cash!FinalStates, RowStates
  <2>10. OneActive'
    BY <1>t, <2>5, <2>8 DEF OneActive
  <2>11. \A c \in Callers : asking'[c] # Cash!Idle => Certain(c)'
    BY <1>t, <2>1, <2>5, <2>6 DEF Certain
  <2>12. ASSUME NEW l \in Keys
         PROVE  Backed(l)' /\ Follows(l)'
    <3>1. CASE l # k
      <4>1. Untouched(l)
        BY <2>1, <2>2, <2>5, <3>1 DEF Untouched
      <4>2. QED
        BY <1>t, <4>1, UntouchedKeeps
    <3>2. CASE l = k
      <4>1. \A j : /\ Sent(k, j)' <=> Sent(k, j)
                   /\ Synced(k, j)' <=> (Synced(k, j) \/ j = kind)
        BY <2>1, <2>2 DEF Sent, Synced
      <4>2. Cash!Live(k)' <=> Cash!Live(k)
        BY <2>1 DEF Cash!Live
      <4>3. Cash!Live(k) => kind \in {"created", "updated"}
        BY <2>7 DEF Cash!Live
      <4>4. Backed(k)'
        BY <1>t, <2>8, <4>2, <4>3 DEF Backed
      <4>5. \A j \in Kinds : <<k, j>> \in receipts' <=> Synced(k, j)'
        BY <1>t, <2>1, <4>1 DEF Follows
      <4>6. /\ Synced(k, "paid")' => req'[k] \in Cash!FinalStates
            /\ Synced(k, "failed")' => req'[k] \in {"FAILED", "REVERSED"}
        BY <1>t, <2>8, <2>9, <4>1 DEF Follows
      <4>7. /\ req'[k] \in {"FAILED", "REVERSED"} => Synced(k, "failed")'
            /\ req'[k] \in {"PAID", "REVERSED"} => Synced(k, "paid")'
        BY <1>t, <2>6, <2>9, <4>1 DEF Follows
      <4>8. Follows(k)'
        BY <1>t, <2>1, <4>1, <4>5, <4>6, <4>7 DEF Follows
      <4>9. QED
        BY <3>2, <4>4, <4>8
    <3>3. QED
      BY <3>1, <3>2
  <2>13. QED
    BY <2>10, <2>11, <2>12
<1>2. CASE Cash!HandleTerminalPayout(k, kind) \/ Cash!MarkSuccess(k, kind)
  <2>1. /\ \E s \in {"told", "done"} : event' = [event EXCEPT ![<<k, kind>>] = s]
        /\ event[<<k, kind>>] \in {"synced", "told"} /\ UNCHANGED <<req, asking, payout, receipts>>
    BY <1>2 DEF Cash!HandleTerminalPayout, Cash!MarkSuccess, Cash!stripeVars
  <2>2. PICK s \in {"told", "done"} : \A l \in Keys, j \in Kinds :
            event'[<<l, j>>] = IF l = k /\ j = kind THEN s ELSE event[<<l, j>>]
    BY <1>t, <2>1
  <2>3. \A l \in Keys : RowOnly(l)
    BY <2>1, <2>2 DEF RowOnly, Sent, Synced
  <2>4. ASSUME NEW l \in Keys
        PROVE  Backed(l)' /\ Follows(l)'
    <3>1. RowOnly(l) /\ Backed(l) /\ Follows(l) /\ req'[l] = req[l]
      BY <1>t, <2>1, <2>3
    <3>2. /\ Cash!Live(l) => req'[l] \in Cash!ActiveStates
          /\ payout[l] # "none" => req'[l] # "none"
      BY <3>1 DEF Backed
    <3>3. /\ Synced(l, "paid") => req'[l] \in Cash!FinalStates
          /\ Synced(l, "failed") => req'[l] \in {"FAILED", "REVERSED"}
          /\ (req'[l] \in {"FAILED", "REVERSED"} /\ payout[l] # "none") => Synced(l, "failed")
          /\ req'[l] \in {"PAID", "REVERSED"} => Synced(l, "paid")
      BY <3>1 DEF Follows
    <3>4. QED
      BY <3>1, <3>2, <3>3, RowMoves
  <2>5. OneActive' /\ \A c \in Callers : asking'[c] # Cash!Idle => Certain(c)'
    BY <1>t, <2>1 DEF OneActive, Certain
  <2>6. QED
    BY <2>4, <2>5
<1>3. ~Cash!ReleaseFailedClaim(k, kind)
  BY DEF Cash!ReleaseFailedClaim, Careful
<1>4. QED
  BY <1>1, <1>2, <1>3

LEMMA AgreeInit == Cash!CashOutAssumption /\ Cash!Init => AgreeInv
<1>1. ASSUME Cash!CashOutAssumption, Cash!Init
      PROVE  AgreeInv
  <2>1. PaidInv
    BY <1>1, PaidInit
  <2>2. \A k \in Keys : /\ req[k] = "none" /\ payout[k] = "none"
                        /\ \A kind : ~Sent(k, kind) /\ ~Synced(k, kind)
                        /\ \A kind \in Kinds : <<k, kind>> \notin receipts
    BY <1>1 DEF Cash!Init, Sent, Synced
  <2>3. OneActive
    BY <2>2 DEF OneActive, Cash!ActiveStates
  <2>4. \A k \in Keys : Backed(k) /\ Follows(k)
    BY <2>2 DEF Backed, Follows, Cash!Live
  <2>5. \A c \in Callers : asking[c] = Cash!Idle
    BY <1>1 DEF Cash!Init
  <2>6. QED
    BY <2>1, <2>3, <2>4, <2>5 DEF AgreeInv
<1>2. QED
  BY <1>1

LEMMA AgreeStep ==
    ASSUME Cash!CashOutAssumption, Careful, AgreeInv, [Cash!Next]_(Cash!vars)
    PROVE  AgreeInv'
<1>1. PaidInv'
  BY PaidStep DEF AgreeInv
<1>2. SUFFICES /\ OneActive' /\ (\A k \in Keys : Backed(k)' /\ Follows(k)')
               /\ \A c \in Callers : asking'[c] # Cash!Idle => Certain(c)'
  BY <1>1 DEF AgreeInv
<1>3. ASSUME NEW c \in Callers,
             \/ (\E k \in Keys : Cash!Review(c, k)) \/ Cash!Resolve(c) \/ Cash!Submit(c)
             \/ Cash!ApplyProviderResult(c) \/ Cash!MarkProviderFailure(c) \/ Cash!Die(c)
      PROVE  /\ OneActive' /\ (\A k \in Keys : Backed(k)' /\ Follows(k)')
             /\ \A d \in Callers : asking'[d] # Cash!Idle => Certain(d)'
  <2>1. ~Cash!Die(c) /\ \A d \in Callers : d = c
    BY DEF Cash!Die, Careful
  <2>2. /\ OneActive' /\ (\A k \in Keys : Backed(k)' /\ Follows(k)')
        /\ (asking'[c] # Cash!Idle => Certain(c)')
    BY <1>3, <2>1, CallAgrees, SubmitAgrees
  <2>3. QED
    BY <2>1, <2>2
<1>4. ASSUME NEW k \in Keys,
             \/ Cash!Travel(k) \/ Cash!Pay(k) \/ Cash!Fail(k) \/ Cash!ComeBack(k)
             \/ \E kind \in Kinds :
                   \/ Cash!SyncProviderPayout(k, kind) \/ Cash!HandleTerminalPayout(k, kind)
                   \/ Cash!MarkSuccess(k, kind) \/ Cash!ReleaseFailedClaim(k, kind)
      PROVE  /\ OneActive' /\ (\A l \in Keys : Backed(l)' /\ Follows(l)')
             /\ \A c \in Callers : asking'[c] # Cash!Idle => Certain(c)'
  BY <1>4, StripeAgrees, EventAgrees
<1>5. CASE UNCHANGED Cash!vars
  <2>1. /\ UNCHANGED <<req, asking, payout, event, receipts>>
        /\ OneActive /\ (\A k \in Keys : Backed(k) /\ Follows(k))
        /\ \A c \in Callers : asking[c] # Cash!Idle => Certain(c)
    BY <1>5 DEF Cash!vars, Cash!stripeVars, Cash!eventVars, AgreeInv
  <2>2. \A k \in Keys : Untouched(k)
    BY <2>1 DEF Untouched
  <2>3. \A k \in Keys : Backed(k)' /\ Follows(k)'
    BY <2>1, <2>2, UntouchedKeeps
  <2>4. QED
    BY <2>1, <2>3 DEF OneActive, Certain
<1>6. QED
  BY <1>3, <1>4, <1>5 DEF Cash!Next

\* A worker never has two payouts on their way: a request leaves the states of
\* worker_cash_out_one_active_idx only when its payout has ended or was never made.
THEOREM OnePayoutIsLive ==
    ASSUME Cash!CashOutAssumption, Careful
    PROVE  Cash!Spec => []Cash!OneLivePayout
<1>1. Cash!Init => AgreeInv
  BY AgreeInit
<1>2. AgreeInv /\ [Cash!Next]_(Cash!vars) => AgreeInv'
  BY AgreeStep
<1>3. AgreeInv => Cash!OneLivePayout
  BY DEF AgreeInv, OneActive, Backed, Cash!OneLivePayout
<1>4. QED
  BY <1>1, <1>2, <1>3, PTL DEF Cash!Spec

\* syncProviderPayoutTransaction applies the events of a payout in whatever order they
\* come, and the request ends with what became of the payout.
THEOREM RequestsAgree ==
    ASSUME Cash!CashOutAssumption, Careful
    PROVE  Cash!Spec => []Cash!SettledAgrees
<1>1. Cash!Init => AgreeInv
  BY AgreeInit
<1>2. AgreeInv /\ [Cash!Next]_(Cash!vars) => AgreeInv'
  BY AgreeStep
<1>3. ASSUME AgreeInv
      PROVE  Cash!SettledAgrees
  <2>1. SUFFICES ASSUME NEW k \in Keys, payout[k] \in {"paid", "failed", "returned"}, Cash!Applied(k)
                 PROVE  req[k] \in (IF payout[k] = "paid" THEN {"PAID"} ELSE {"FAILED", "REVERSED"})
    BY DEF Cash!SettledAgrees
  <2>2. Follows(k) /\ Truthful(k) /\ event \in [Keys \X Kinds -> EventStates]
    BY <1>3 DEF AgreeInv, PaidInv, Cash!TypeOK, EventStates
  <2>3. \A kind \in Kinds : Sent(k, kind) => Synced(k, kind)
    BY <2>1, <2>2 DEF Cash!Applied, Sent, Synced, EventStates
  <2>4. CASE payout[k] = "paid"
    <3>1. Synced(k, "paid") /\ ~Synced(k, "failed")
      BY <2>2, <2>3, <2>4 DEF Follows, Truthful, Cash!CashOutAssumption, Sent, Synced
    <3>2. QED
      BY <2>2, <2>4, <3>1 DEF Follows, Cash!FinalStates
  <2>5. CASE payout[k] # "paid"
    <3>1. Synced(k, "failed")
      BY <2>1, <2>2, <2>3, <2>5 DEF Follows, Cash!CashOutAssumption
    <3>2. QED
      BY <2>2, <2>5, <3>1 DEF Follows
  <2>6. QED
    BY <2>4, <2>5
<1>4. QED
  BY <1>1, <1>2, <1>3, PTL DEF Cash!Spec

-----------------------------------------------------------------------------
\* The insurance pool.

\* A claim is rewritten, a call moves; the others stay.
LEMMA ClaimMoves ==
    ASSUME Pool!TypeOK, NEW c \in Pool!Claims, NEW r \in Pool!ClaimStates, claim' = [claim EXCEPT ![c] = r]
    PROVE  claim' \in [Pool!Claims -> Pool!ClaimStates] /\ claim'[c] = r /\ \A d \in Pool!Claims \ {c} : claim'[d] = claim[d]
BY DEF Pool!TypeOK, Pool!ClaimStates

LEMMA PayerMoves ==
    ASSUME Pool!TypeOK, NEW p \in Payers, NEW s \in Pool!CallStates, paying' = [paying EXCEPT ![p] = s]
    PROVE  paying' \in [Payers -> Pool!CallStates] /\ paying'[p] = s /\ \A q \in Payers \ {p} : paying'[q] = paying[q]
BY DEF Pool!TypeOK, Pool!CallStates

\* A call that is not idle has a claim.
LEMMA PayerHasClaim ==
    ASSUME Pool!TypeOK, NEW p \in Payers, paying[p].pc \in {"checked", "transfer", "record"}
    PROVE  /\ paying[p].claim \in Pool!Claims
           /\ \A pc \in {"checked", "transfer", "record"} :
                  /\ [paying[p] EXCEPT !.pc = pc] \in Pool!CallStates
                  /\ [paying[p] EXCEPT !.pc = pc].pc = pc /\ [paying[p] EXCEPT !.pc = pc].claim = paying[p].claim
BY DEF Pool!TypeOK, Pool!Idle, Pool!CallStates

LEMMA PoolInit == Pool!PoolAssumption /\ Pool!Init => Pool!PoolInv
BY DEF Pool!PoolAssumption, Pool!Init, Pool!PoolInv, Pool!TypeOK, Pool!ClaimsAreCovered, Pool!Idle, Pool!Active

\* A step that takes no claim out of paid, and makes no transfer.
LEMMA PaidStays ==
    ASSUME Pool!PoolInv, Pool!TypeOK', Pool!ClaimsAreCovered', UNCHANGED <<transfers, keys>>,
           \A c \in Pool!Claims : claim[c].status = "paid" => claim'[c].status = "paid",
           \A p \in Payers : paying'[p] = paying[p]
                             \/ (paying'[p].pc \in {"transfer", "record"} => claim'[paying'[p].claim].status = "paid")
    PROVE  Pool!PoolInv'
<1>1. \A p \in Payers : paying'[p].pc \in {"transfer", "record"} => claim'[paying'[p].claim].status = "paid"
  <2>1. TAKE p \in Payers
  <2>2. CASE paying'[p] = paying[p]
    <3>1. paying[p].pc \in {"transfer",
         "record"} => paying[p].claim \in Pool!Claims /\ claim[paying[p].claim].status = "paid"
      BY PayerHasClaim DEF Pool!PoolInv
    <3>2. QED
      BY <2>2, <3>1
  <2>3. QED
    BY <2>2
<1>2. \A c \in keys : claim'[c].status = "paid"
  BY DEF Pool!PoolInv, Pool!TypeOK
<1>3. QED
  BY <1>1, <1>2 DEF Pool!PoolInv

LEMMA PoolStep ==
    ASSUME Pool!PoolAssumption, Pool!PoolInv, [Pool!Next]_(Pool!vars)
    PROVE  Pool!PoolInv'
<1>t. /\ Pool!TypeOK /\ Pool!ClaimsAreCovered
      /\ claim \in [Pool!Claims -> Pool!ClaimStates] /\ paying \in [Payers -> Pool!CallStates]
      /\ pool \in [deposits : 0..MaxDeposits, claims : Nat] /\ pool.claims <= pool.deposits
      /\ transfers \in [Pool!Claims -> Nat] /\ keys \subseteq Pool!Claims
      /\ Amounts \subseteq Nat \ {0} /\ MaxDeposits \in Nat
  BY DEF Pool!PoolInv, Pool!TypeOK, Pool!ClaimStates, Pool!CallStates, Pool!ClaimsAreCovered,
       Pool!PoolAssumption
<1>y. ASSUME pool' \in [deposits : 0..MaxDeposits, claims : Nat], claim' \in [Pool!Claims -> Pool!ClaimStates],
             paying' \in [Payers -> Pool!CallStates], transfers' \in [Pool!Claims -> Nat], keys' \subseteq Pool!Claims
      PROVE  Pool!TypeOK'
  BY <1>y DEF Pool!TypeOK, Pool!ClaimStates, Pool!CallStates
<1>i. Pool!Idle \in Pool!CallStates /\ Pool!Idle.pc = "idle"
  BY DEF Pool!Idle, Pool!CallStates
<1>1. CASE Pool!Deposit
  <2>1. /\ pool' \in [deposits : 0..MaxDeposits, claims : Nat] /\ pool'.claims <= pool'.deposits
        /\ UNCHANGED <<claim, paying, transfers, keys>>
    BY <1>1, <1>t DEF Pool!Deposit
  <2>2. QED
    BY <1>t, <1>y, <2>1, PaidStays DEF Pool!ClaimsAreCovered
<1>2. ASSUME NEW c \in Pool!Claims, Pool!FileClaim(c)
      PROVE  Pool!PoolInv'
  <2>1. PICK covered \in Amounts :
             /\ covered <= pool.deposits - pool.claims /\ pool' = [pool EXCEPT !.claims = pool.claims + covered]
             /\ claim' = [claim EXCEPT ![c].status = "pending", ![c].covered = covered]
    BY <1>2 DEF Pool!FileClaim, Pool!Available
  <2>2. pool' \in [deposits : 0..MaxDeposits, claims : Nat] /\ pool'.claims <= pool'.deposits
    BY <1>t, <2>1
  <2>3. /\ claim' \in [Pool!Claims -> Pool!ClaimStates] /\ \A d \in Pool!Claims \ {c} : claim'[d] = claim[d]
        /\ claim[c].status = "none"
    <3>1. [claim[c] EXCEPT !.status = "pending"] \in Pool!ClaimStates
      BY <1>t DEF Pool!ClaimStates, Pool!Active
    <3>2. [[claim[c] EXCEPT !.status = "pending"] EXCEPT !.covered = covered] \in Pool!ClaimStates
      BY <3>1 DEF Pool!ClaimStates
    <3>3. claim' = [claim EXCEPT ![c] = [[claim[c] EXCEPT !.status = "pending"] EXCEPT !.covered = covered]]
      BY <1>t, <2>1
    <3>4. QED
      BY <1>2, <1>t, <3>2, <3>3, ClaimMoves DEF Pool!FileClaim
  <2>4. UNCHANGED <<paying, transfers, keys>>
    BY <1>2 DEF Pool!FileClaim
  <2>5. QED
    BY <1>t, <1>y, <2>2, <2>3, <2>4, PaidStays DEF Pool!ClaimsAreCovered
<1>3. ASSUME NEW c \in Pool!Claims, Pool!ReviewClaim(c)
      PROVE  Pool!PoolInv'
  <2>1. /\ claim' \in [Pool!Claims -> Pool!ClaimStates] /\ \A d \in Pool!Claims \ {c} : claim'[d] = claim[d]
        /\ claim[c].status = "pending"
    BY <1>3, <1>t DEF Pool!ReviewClaim, Pool!Reviewable, Pool!ClaimStates, Pool!Active
  <2>2. pool' \in [deposits : 0..MaxDeposits, claims : Nat] /\ pool'.claims <= pool'.deposits
    <3>1. CASE pool' = pool
      BY <1>t, <3>1
    <3>2. CASE pool' = [pool EXCEPT !.claims = Pool!Max({0, pool.claims - claim[c].covered})]
      <4> DEFINE x == pool.claims - claim[c].covered
      <4>1. x \in Int /\ x <= pool.claims
        <5>1. claim[c].covered \in Amounts \cup {0}
          BY <1>t DEF Pool!ClaimStates
        <5>2. \A a \in Amounts : a \in Nat
          BY DEF Pool!PoolAssumption
        <5>3. claim[c].covered \in Nat
          BY <5>1, <5>2
        <5>4. pool.claims \in Nat
          BY <1>t
        <5>5. QED
          BY <5>3, <5>4
      <4>2. Pool!Max({0, x}) \in {0, x} /\ Pool!Max({0, x}) >= 0
        <5>1. \E y \in {0, x} : \A z \in {0, x} : y >= z
          BY <4>1
        <5>2. Pool!Max({0, x}) \in {0, x} /\ \A z \in {0, x} : Pool!Max({0, x}) >= z
          BY <5>1 DEF Pool!Max
        <5>3. QED
          BY <5>2
      <4>3. QED
        BY <1>t, <3>2, <4>1, <4>2
    <3>3. QED
      BY <1>3, <3>1, <3>2 DEF Pool!ReviewClaim
  <2>3. UNCHANGED <<paying, transfers, keys>>
    BY <1>3 DEF Pool!ReviewClaim
  <2>4. QED
    BY <1>t, <1>y, <2>1, <2>2, <2>3, PaidStays DEF Pool!ClaimsAreCovered
<1>4. ASSUME NEW p \in Payers, NEW c \in Pool!Claims, Pool!PayChecks(p, c)
      PROVE  Pool!PoolInv'
  <2>1. /\ paying' \in [Payers -> Pool!CallStates] /\ paying'[p].pc = "checked"
        /\ \A q \in Payers \ {p} : paying'[q] = paying[q]
        /\ UNCHANGED <<pool, claim, transfers, keys>>
    BY <1>4, <1>t, PayerMoves DEF Pool!PayChecks, Pool!CallStates
  <2>2. QED
    BY <1>t, <1>y, <2>1, PaidStays DEF Pool!ClaimsAreCovered
<1>5. ASSUME NEW p \in Payers, Pool!PayCommits(p)
      PROVE  Pool!PoolInv'
  <2>1. PICK c \in Pool!Claims : c = paying[p].claim
    BY <1>5, <1>t, PayerHasClaim DEF Pool!PayCommits
  <2>2. PICK s \in Pool!CallStates :
             /\ paying' = [paying EXCEPT ![p] = s]
             /\ s.pc = "transfer" => s.claim = c /\ claim'[c].status = "paid"
             /\ s.pc # "record"
    <3>1. [paying[p] EXCEPT !.pc = "transfer"] \in Pool!CallStates
      BY <1>5, <1>t, PayerHasClaim DEF Pool!PayCommits
    <3>2. [paying[p] EXCEPT !.pc = "transfer"].claim = c /\ [paying[p] EXCEPT !.pc = "transfer"].pc = "transfer"
      BY <1>5, <1>t, <2>1, PayerHasClaim DEF Pool!PayCommits
    <3>3. CASE paying' = [paying EXCEPT ![p] = Pool!Idle]
      BY <1>i, <3>3
    <3>4. CASE paying' = [paying EXCEPT ![p].pc = "transfer"] /\ claim'[c].status = "paid"
      <4>1. paying' = [paying EXCEPT ![p] = [paying[p] EXCEPT !.pc = "transfer"]]
        BY <1>t, <3>4
      <4>2. QED
        BY <3>1, <3>2, <3>4, <4>1
    <3>5. CASE claim[c].status = "paid" /\ claim' = claim /\ ~claim[c].transfer
               /\ paying' = [paying EXCEPT ![p] = [paying[p] EXCEPT !.pc = "transfer"]]
      BY <3>1, <3>2, <3>5
    <3>6. claim' = [claim EXCEPT ![c].status = "paid"] => claim'[c].status = "paid"
      BY <1>t DEF Pool!ClaimStates
    <3>7. QED
      BY <1>5, <1>t, <2>1, <3>3, <3>4, <3>5, <3>6 DEF Pool!PayCommits
  <2>3. /\ claim' \in [Pool!Claims -> Pool!ClaimStates]
        /\ \A d \in Pool!Claims : claim[d].status = "paid" => claim'[d].status = "paid"
    BY <1>5, <1>t, <2>1 DEF Pool!PayCommits, Pool!ClaimStates, Pool!Active
  <2>4. /\ paying' \in [Payers -> Pool!CallStates] /\ paying'[p] = s /\ \A q \in Payers \ {p} : paying'[q] = paying[q]
        /\ UNCHANGED <<pool, transfers, keys>>
    BY <1>5, <1>t, <2>2, PayerMoves DEF Pool!PayCommits
  <2>5. QED
    BY <1>t, <1>y, <2>2, <2>3, <2>4, PaidStays DEF Pool!ClaimsAreCovered
<1>6. ASSUME NEW p \in Payers, Pool!Transfer(p)
      PROVE  Pool!PoolInv'
  <2>1. PICK c \in Pool!Claims : c = paying[p].claim /\ claim[c].status = "paid"
    BY <1>6, <1>t, PayerHasClaim DEF Pool!Transfer, Pool!PoolInv
  <2>2. CASE paying' = [paying EXCEPT ![p] = Pool!Idle] /\ UNCHANGED <<pool, claim, transfers, keys>>
    BY <1>t, <1>i, <1>y, <2>2, PayerMoves, PaidStays DEF Pool!ClaimsAreCovered
  <2>3. CASE /\ transfers' = IF c \in keys THEN transfers ELSE [transfers EXCEPT ![c] = @ + 1]
             /\ keys' = keys \cup {c} /\ paying' = [paying EXCEPT ![p].pc = "record"]
             /\ UNCHANGED <<pool, claim>>
    <3>1. ~KeysExpire => \A d \in Pool!Claims : transfers[d] = (IF d \in keys THEN 1 ELSE 0)
      BY DEF Pool!PoolInv
    <3>2. /\ transfers' \in [Pool!Claims -> Nat] /\ keys' \subseteq Pool!Claims
          /\ ~KeysExpire => \A d \in Pool!Claims : transfers'[d] = (IF d \in keys' THEN 1 ELSE 0)
      BY <1>t, <2>3, <3>1
    <3>3. /\ paying' = [paying EXCEPT ![p] = [paying[p] EXCEPT !.pc = "record"]]
          /\ [paying[p] EXCEPT !.pc = "record"] \in Pool!CallStates /\ [paying[p] EXCEPT !.pc = "record"].claim = c
      BY <1>6, <1>t, <2>1, <2>3, PayerHasClaim DEF Pool!Transfer
    <3>4. /\ paying' \in [Payers -> Pool!CallStates] /\ paying'[p].claim = c
          /\ \A q \in Payers \ {p} : paying'[q] = paying[q]
      BY <1>t, <3>3, PayerMoves
    <3>5. Pool!TypeOK' /\ Pool!ClaimsAreCovered'
      BY <1>t, <1>y, <2>3, <3>2, <3>4 DEF Pool!ClaimsAreCovered
    <3>6. \A d \in keys' : claim'[d].status = "paid"
      BY <2>1, <2>3 DEF Pool!PoolInv
    <3>7. ASSUME NEW q \in Payers, paying'[q].pc \in {"transfer", "record"}
          PROVE  claim'[paying'[q].claim].status = "paid"
      BY <2>1, <2>3, <3>4, <3>7 DEF Pool!PoolInv
    <3>8. QED
      BY <3>2, <3>5, <3>6, <3>7 DEF Pool!PoolInv
  <2>4. QED
    BY <1>6, <2>1, <2>2, <2>3 DEF Pool!Transfer
<1>7. ASSUME NEW p \in Payers, Pool!Record(p)
      PROVE  Pool!PoolInv'
  <2>1. PICK c \in Pool!Claims : c = paying[p].claim
    BY <1>7, <1>t, PayerHasClaim DEF Pool!Record
  <2>2. /\ claim' \in [Pool!Claims -> Pool!ClaimStates]
        /\ \A d \in Pool!Claims : claim'[d].status = claim[d].status
    BY <1>7, <1>t, <2>1, ZenonT(60) DEF Pool!Record, Pool!ClaimStates
  <2>3. UNCHANGED <<pool, transfers, keys>> /\ paying' = [paying EXCEPT ![p] = Pool!Idle]
    BY <1>7 DEF Pool!Record
  <2>4. QED
    BY <1>t, <1>i, <1>y, <2>2, <2>3, PayerMoves, PaidStays DEF Pool!ClaimsAreCovered
<1>8. ASSUME NEW p \in Payers, Pool!Crash(p)
      PROVE  Pool!PoolInv'
  BY <1>8, <1>t, <1>i, <1>y, PayerMoves, PaidStays DEF Pool!Crash, Pool!ClaimsAreCovered
<1>9. CASE UNCHANGED Pool!vars
  BY <1>9, <1>t, <1>y, PaidStays DEF Pool!vars, Pool!ClaimsAreCovered
<1>10. CASE Pool!Forget
  <2>1. KeysExpire /\ keys' = {} /\ UNCHANGED <<pool, claim, paying, transfers>>
    BY <1>10 DEF Pool!Forget
  <2>2. Pool!TypeOK' /\ Pool!ClaimsAreCovered'
    BY <1>t, <1>y, <2>1 DEF Pool!ClaimsAreCovered
  <2>3. QED
    BY <2>1, <2>2 DEF Pool!PoolInv
<1>11. QED
  BY <1>1, <1>2, <1>3, <1>4, <1>5, <1>6, <1>7, <1>8, <1>9, <1>10 DEF Pool!Next

\* The pool is never overdrawn: a filing compares and reserves under the lock of the
\* pool's row, and a denial returns no more than is counted.
THEOREM PoolIsCovered ==
    ASSUME Pool!PoolAssumption
    PROVE  Pool!Spec => [](Pool!TypeOK /\ Pool!ClaimsAreCovered)
<1>1. Pool!Init => Pool!PoolInv
  BY PoolInit
<1>2. Pool!PoolInv /\ [Pool!Next]_(Pool!vars) => Pool!PoolInv'
  BY PoolStep
<1>3. Pool!PoolInv => Pool!TypeOK /\ Pool!ClaimsAreCovered
  BY DEF Pool!PoolInv
<1>4. QED
  BY <1>1, <1>2, <1>3, PTL DEF Pool!Spec

\* However many calls of payClaim race, fail and come again, a claim is transferred
\* once, and only one that is paid, as long as Stripe remembers the claim's key.
THEOREM ClaimPaidOnce ==
    ASSUME Pool!PoolAssumption, ~KeysExpire
    PROVE  Pool!Spec => []Pool!TransferredOnce
<1>1. Pool!Init => Pool!PoolInv
  BY PoolInit
<1>2. Pool!PoolInv /\ [Pool!Next]_(Pool!vars) => Pool!PoolInv'
  BY PoolStep
<1>3. Pool!PoolInv => Pool!TransferredOnce
  BY DEF Pool!PoolInv, Pool!TransferredOnce
<1>4. QED
  BY <1>1, <1>2, <1>3, PTL DEF Pool!Spec

-----------------------------------------------------------------------------
\* Tips.

\* Every variable stays in its type.
THEOREM TipsTyped == ASSUME Tip!TipsAssumption PROVE Tip!Spec => []Tip!TypeOK
<1>1. Tip!Init => Tip!TypeOK
  BY Tip!TipsAssumption DEF Tip!Init, Tip!TypeOK, Tip!TipsAssumption
<1>2. ASSUME Tip!TypeOK, [Tip!Next]_(Tip!vars) PROVE Tip!TypeOK'
  <2>. USE Tip!TypeOK
  <2>1. ASSUME NEW c \in Calls, NEW a \in TipAmounts, Tip!CreateTip(c, a) PROVE Tip!TypeOK'
    BY <2>1 DEF Tip!TypeOK, Tip!CreateTip
  <2>2. ASSUME NEW c \in Calls, Tip!Check(c) PROVE Tip!TypeOK'
    <3>1. creating[c].amount \in TipAmounts
      BY <2>2 DEF Tip!TypeOK, Tip!Check, Tip!Free
    <3>. QED
      BY <2>2, <3>1 DEF Tip!TypeOK, Tip!Check
  <2>3. ASSUME NEW c \in Calls, Tip!CreateIntent(c) PROVE Tip!TypeOK'
    <3>1. creating[c].amount \in TipAmounts /\ Tip!IntentOf(creating[c].amount) \in Tip!Intents
      BY <2>3 DEF Tip!TypeOK, Tip!CreateIntent, Tip!Free, Tip!IntentOf, Tip!Intents
    <3>2. Tip!Made(Tip!IntentOf(creating[c].amount)) \in [Tip!Intents -> {"none", "open", "paid", "cancelled"}]
      BY <3>1 DEF Tip!TypeOK, Tip!Made
    <3>. QED
      BY <2>3, <3>1, <3>2 DEF Tip!TypeOK, Tip!CreateIntent
  <2>4. ASSUME NEW c \in Calls, Tip!Insert(c) \/ Tip!InsertFails(c) PROVE Tip!TypeOK'
    <3>1. creating[c].amount \in TipAmounts /\ creating[c].intent \in Tip!Intents
      BY <2>4 DEF Tip!TypeOK, Tip!Insert, Tip!InsertFails, Tip!Free
    <3>2. Tip!Inserted(c) \in Tip!Rows
      BY <3>1 DEF Tip!Inserted, Tip!Rows
    <3>. QED
      BY <2>4, <3>1, <3>2 DEF Tip!TypeOK, Tip!Insert, Tip!InsertFails
  <2>5. ASSUME NEW c \in Calls, Tip!Cancel(c) PROVE Tip!TypeOK'
    BY <2>5 DEF Tip!TypeOK, Tip!Cancel
  <2>6. ASSUME NEW a \in TipAmounts, Tip!KeyExpires(a) PROVE Tip!TypeOK'
    BY <2>6, Tip!TipsAssumption DEF Tip!TypeOK, Tip!KeyExpires, Tip!TipsAssumption
  <2>7. ASSUME NEW i \in Tip!Intents, Tip!Pay(i) PROVE Tip!TypeOK'
    BY <2>7 DEF Tip!TypeOK, Tip!Pay
  <2>8. ASSUME NEW k \in Confirmers, Tip!ConfirmTip(k) \/ Tip!Complete(k) \/ Tip!Book(k) PROVE Tip!TypeOK'
    <3>1. CASE Tip!ConfirmTip(k)
      BY <3>1 DEF Tip!TypeOK, Tip!ConfirmTip
    <3>2. CASE Tip!Complete(k)
      <4>1. tip' \in Tip!Rows
        BY <3>2 DEF Tip!TypeOK, Tip!Complete, Tip!Rows
      <4>. QED
        BY <3>2, <4>1 DEF Tip!TypeOK, Tip!Complete
    <3>3. CASE Tip!Book(k)
      BY <3>3 DEF Tip!TypeOK, Tip!Book
    <3>. QED
      BY <2>8, <3>1, <3>2, <3>3
  <2>9. CASE Tip!Die
    BY <2>9 DEF Tip!TypeOK, Tip!Die
  <2>10. CASE UNCHANGED Tip!vars
    BY <2>10 DEF Tip!TypeOK, Tip!vars
  <2>. QED
    BY <1>2, <2>1, <2>2, <2>3, <2>4, <2>5, <2>6, <2>7, <2>8, <2>9, <2>10 DEF Tip!Next
<1>. QED
  BY <1>1, <1>2, PTL DEF Tip!Spec

\* One step keeps the money with the secret.
LEMMA MoneyStep ==
    ASSUME Tip!TypeOK, Tip!TypeOK', Tip!MoneyFollowsSecret, [Tip!Next]_(Tip!vars)
    PROVE  Tip!MoneyFollowsSecret'
<1>1. ASSUME UNCHANGED <<tip, intents, secrets, confirm, booked>> PROVE Tip!MoneyFollowsSecret'
  BY <1>1 DEF Tip!MoneyFollowsSecret
<1>2. ASSUME NEW c \in Calls, Tip!CreateIntent(c) PROVE Tip!MoneyFollowsSecret'
  <2>1. UNCHANGED <<tip, secrets, confirm, booked>>
    BY <1>2 DEF Tip!CreateIntent
  <2>2. \A i \in Tip!Intents : (intents'[i] = "paid") <=> (intents[i] = "paid")
    BY <1>2 DEF Tip!CreateIntent, Tip!Made, Tip!TypeOK
  <2>. QED
    BY <2>1, <2>2 DEF Tip!MoneyFollowsSecret, Tip!TypeOK, Tip!Rows
<1>3. ASSUME NEW c \in Calls, Tip!Insert(c) PROVE Tip!MoneyFollowsSecret'
  <2>1. /\ tip = Tip!None /\ secrets = {} /\ tip' = Tip!Inserted(c) /\ secrets' = {creating[c].intent}
        /\ tip' # Tip!None /\ tip'.intent = creating[c].intent /\ tip'.status = "pending"
    BY <1>3 DEF Tip!Insert, Tip!Inserted, Tip!None, Tip!MoneyFollowsSecret
  <2>2. \A i \in Tip!Intents : intents[i] # "paid"
    BY <2>1 DEF Tip!MoneyFollowsSecret
  <2>3. \A k \in Confirmers : confirm[k] = "free"
    BY <2>1 DEF Tip!MoneyFollowsSecret
  <2>4. ~(booked > 0)
    BY <2>1 DEF Tip!MoneyFollowsSecret
  <2>. QED
    BY <1>3, <2>1, <2>2, <2>3, <2>4 DEF Tip!Insert, Tip!MoneyFollowsSecret
<1>4. ASSUME NEW c \in Calls, Tip!InsertFails(c) PROVE Tip!MoneyFollowsSecret'
  <2>1. UNCHANGED <<intents, secrets, confirm, booked>>
    BY <1>4 DEF Tip!InsertFails
  <2>2. CASE UNCHANGED tip
    BY <1>1, <2>1, <2>2
  <2>3. CASE tip = Tip!None /\ tip' = Tip!Inserted(c)
    <3>1. tip' # Tip!None /\ tip'.status = "pending"
      BY <2>3 DEF Tip!Inserted, Tip!None
    <3>. QED
      BY <2>1, <2>3, <3>1 DEF Tip!MoneyFollowsSecret
  <2>. QED
    BY <1>4, <2>2, <2>3 DEF Tip!InsertFails
<1>5. ASSUME NEW c \in Calls, Tip!Cancel(c) PROVE Tip!MoneyFollowsSecret'
  <2>1. UNCHANGED <<tip, secrets, confirm, booked>>
    BY <1>5 DEF Tip!Cancel
  <2>2. \A i \in Tip!Intents : (intents'[i] = "paid") <=> (intents[i] = "paid")
    BY <1>5 DEF Tip!Cancel, Tip!TypeOK
  <2>. QED
    BY <2>1, <2>2 DEF Tip!MoneyFollowsSecret, Tip!TypeOK, Tip!Rows
<1>6. ASSUME NEW i \in Tip!Intents, Tip!Pay(i) PROVE Tip!MoneyFollowsSecret'
  <2>1. UNCHANGED <<tip, secrets, confirm, booked>> /\ i \in secrets /\ tip # Tip!None /\ tip.intent = i
    BY <1>6 DEF Tip!Pay, Tip!MoneyFollowsSecret
  <2>2. intents'[i] = "paid" /\ \A j \in Tip!Intents : j # i => intents'[j] = intents[j]
    BY <1>6 DEF Tip!Pay, Tip!TypeOK
  <2>. QED
    BY <2>1, <2>2 DEF Tip!MoneyFollowsSecret
<1>7. ASSUME NEW k \in Confirmers, Tip!ConfirmTip(k) PROVE Tip!MoneyFollowsSecret'
  BY <1>7 DEF Tip!ConfirmTip, Tip!Confirmable, Tip!MoneyFollowsSecret, Tip!TypeOK
<1>8. ASSUME NEW k \in Confirmers, Tip!Complete(k) PROVE Tip!MoneyFollowsSecret'
  <2>1. tip \in Tip!Rows /\ tip'.status = "completed" /\ tip'.intent = tip.intent /\ tip' # Tip!None
    BY <1>8 DEF Tip!Complete, Tip!TypeOK, Tip!Rows, Tip!None
  <2>2. intents[tip.intent] = "paid"
    BY <1>8 DEF Tip!Complete, Tip!MoneyFollowsSecret
  <2>. QED
    BY <1>8, <2>1, <2>2 DEF Tip!Complete, Tip!MoneyFollowsSecret, Tip!TypeOK
<1>9. ASSUME NEW k \in Confirmers, Tip!Book(k) PROVE Tip!MoneyFollowsSecret'
  <2>1. tip # Tip!None /\ tip.status = "completed"
    BY <1>9 DEF Tip!Book, Tip!MoneyFollowsSecret
  <2>. QED
    BY <1>9, <2>1 DEF Tip!Book, Tip!MoneyFollowsSecret, Tip!TypeOK
<1>10. CASE Tip!Die
  <2>1. UNCHANGED <<tip, intents, secrets, booked>>
    BY <1>10 DEF Tip!Die
  <2>2. \A k \in Confirmers : confirm'[k] = confirm[k] \/ confirm'[k] = "free"
    BY <1>10 DEF Tip!Die, Tip!TypeOK
  <2>. QED
    BY <2>1, <2>2 DEF Tip!MoneyFollowsSecret
<1>. QED
  BY <1>1, <1>2, <1>3, <1>4, <1>5, <1>6, <1>7, <1>8, <1>9, <1>10
  DEF Tip!Next, Tip!vars, Tip!CreateTip, Tip!Check, Tip!KeyExpires

\* One step cancels nothing that an uncrossed tip names.
LEMMA RaceStep ==
    ASSUME Tip!TypeOK, Tip!TypeOK', Tip!CancelledIsAnothers, [Tip!Next]_(Tip!vars)
    PROVE  Tip!CancelledIsAnothers'
<1>1. ASSUME UNCHANGED <<tip, creating, crossed>>,
             \A i \in Tip!Intents : (intents'[i] = "cancelled") => (intents[i] = "cancelled")
      PROVE  Tip!CancelledIsAnothers'
  BY <1>1 DEF Tip!CancelledIsAnothers, Tip!Creating
<1>2. ASSUME NEW c \in Calls, UNCHANGED <<tip, intents, crossed>>,
             \A d \in Calls : d # c => creating'[d] = creating[d],
             creating'[c].pc \notin {"create", "insert", "undo"}
      PROVE  Tip!CancelledIsAnothers'
  BY <1>2 DEF Tip!CancelledIsAnothers, Tip!Creating
<1>3. ASSUME NEW c \in Calls, Tip!Check(c) PROVE Tip!CancelledIsAnothers'
  <2>1. UNCHANGED <<tip, intents>> /\ \A d \in Calls : d # c => creating'[d] = creating[d]
    BY <1>3 DEF Tip!Check, Tip!TypeOK
  <2>2. CASE tip # Tip!None
    BY <1>2, <1>3, <2>1, <2>2 DEF Tip!Check, Tip!TypeOK, Tip!Free
  <2>3. CASE tip = Tip!None
    <3>1. creating'[c].pc = "create" /\ creating'[c].amount = creating[c].amount /\ crossed \subseteq crossed'
      BY <1>3, <2>3 DEF Tip!Check, Tip!TypeOK
    <3>2. ASSUME NEW d \in Calls, d # c, Tip!Creating(d), creating[d].amount = creating[c].amount
          PROVE  creating[c].amount \in crossed'
      BY <1>3, <2>3, <3>2 DEF Tip!Check
    <3>. QED
      BY <2>1, <2>3, <3>1, <3>2 DEF Tip!CancelledIsAnothers, Tip!Creating
  <2>. QED
    BY <2>2, <2>3
<1>4. ASSUME NEW c \in Calls, Tip!CreateIntent(c) PROVE Tip!CancelledIsAnothers'
  <2>1. UNCHANGED <<tip, crossed>> /\ \A d \in Calls : d # c => creating'[d] = creating[d]
    BY <1>4 DEF Tip!CreateIntent, Tip!TypeOK
  <2>2. \A i \in Tip!Intents : (intents'[i] = "cancelled") => (intents[i] = "cancelled")
    BY <1>4 DEF Tip!CreateIntent, Tip!Made, Tip!TypeOK
  <2>3. creating[c].pc = "create" /\ Tip!Creating(c)
    BY <1>4 DEF Tip!CreateIntent, Tip!Creating
  <2>4. \/ creating'[c].pc = "free"
        \/ /\ creating'[c].pc = "insert" /\ creating'[c].amount = creating[c].amount
           /\ creating'[c].intent.amount = creating[c].amount
    BY <1>4 DEF Tip!CreateIntent, Tip!TypeOK, Tip!Free, Tip!IntentOf
  <2>. QED
    BY <2>1, <2>2, <2>3, <2>4 DEF Tip!CancelledIsAnothers, Tip!Creating
<1>5. ASSUME NEW c \in Calls, Tip!Insert(c) PROVE Tip!CancelledIsAnothers'
  <2>1. /\ UNCHANGED <<intents, crossed>> /\ creating'[c].pc = "free"
        /\ \A d \in Calls : d # c => creating'[d] = creating[d]
        /\ tip = Tip!None /\ creating[c].pc = "insert"
    BY <1>5 DEF Tip!Insert, Tip!TypeOK, Tip!Free
  <2>2. tip'.amount = creating[c].amount /\ tip'.intent = creating[c].intent /\ tip' # Tip!None
    BY <1>5 DEF Tip!Insert, Tip!Inserted, Tip!None
  <2>. QED
    BY <2>1, <2>2 DEF Tip!CancelledIsAnothers, Tip!Creating
<1>6. ASSUME NEW c \in Calls, Tip!InsertFails(c) PROVE Tip!CancelledIsAnothers'
  <2>1. /\ UNCHANGED intents /\ crossed \subseteq crossed'
        /\ creating'[c].pc = "undo" /\ creating'[c].amount = creating[c].amount /\ creating'[c].intent = creating[c].intent
        /\ \A d \in Calls : d # c => creating'[d] = creating[d]
        /\ creating[c].pc = "insert" /\ Tip!Creating(c)
    BY <1>6 DEF Tip!InsertFails, Tip!TypeOK, Tip!Creating
  <2>2. CASE tip # Tip!None /\ UNCHANGED <<tip, crossed>>
    BY <2>1, <2>2 DEF Tip!CancelledIsAnothers, Tip!Creating
  <2>3. CASE creating[c].amount \in crossed' /\ UNCHANGED tip
    BY <2>1, <2>3 DEF Tip!CancelledIsAnothers, Tip!Creating
  <2>4. CASE creating[c].amount \in crossed' /\ tip = Tip!None /\ tip' = Tip!Inserted(c)
    <3>1. tip'.amount = creating[c].amount /\ tip'.intent = creating[c].intent /\ tip' # Tip!None
      BY <2>4 DEF Tip!Inserted, Tip!None
    <3>. QED
      BY <2>1, <2>4, <3>1 DEF Tip!CancelledIsAnothers, Tip!Creating
  <2>. QED
    BY <1>6, <2>2, <2>3, <2>4 DEF Tip!InsertFails
<1>7. ASSUME NEW c \in Calls, Tip!Cancel(c) PROVE Tip!CancelledIsAnothers'
  <2>1. /\ UNCHANGED <<tip, crossed>> /\ creating'[c].pc = "free"
        /\ \A d \in Calls : d # c => creating'[d] = creating[d]
        /\ creating[c].pc = "undo" /\ creating[c].intent.amount = creating[c].amount
    BY <1>7 DEF Tip!Cancel, Tip!TypeOK, Tip!Free, Tip!CancelledIsAnothers
  <2>2. \A i \in Tip!Intents : intents'[i] = "cancelled" => intents[i] = "cancelled" \/ i = creating[c].intent
    BY <1>7 DEF Tip!Cancel, Tip!TypeOK
  <2>. QED
    BY <2>1, <2>2 DEF Tip!CancelledIsAnothers, Tip!Creating
<1>8. ASSUME NEW k \in Confirmers, Tip!Complete(k) PROVE Tip!CancelledIsAnothers'
  <2>1. tip # Tip!None /\ tip' # Tip!None /\ tip'.amount = tip.amount /\ tip'.intent = tip.intent
    BY <1>8 DEF Tip!Complete, Tip!TypeOK, Tip!Rows, Tip!None
  <2>. QED
    BY <1>8, <2>1 DEF Tip!Complete, Tip!CancelledIsAnothers, Tip!Creating
<1>9. ASSUME NEW c \in Calls, NEW a \in TipAmounts, Tip!CreateTip(c, a) PROVE Tip!CancelledIsAnothers'
  BY <1>2, <1>9 DEF Tip!CreateTip, Tip!TypeOK
<1>10. CASE Tip!Die
  <2>1. CASE UNCHANGED creating
    BY <1>1, <1>10, <2>1 DEF Tip!Die
  <2>2. ASSUME NEW c \in Calls, creating' = [creating EXCEPT ![c] = Tip!Free] PROVE Tip!CancelledIsAnothers'
    BY <1>2, <1>10, <2>2 DEF Tip!Die, Tip!TypeOK, Tip!Free
  <2>. QED
    BY <1>10, <2>1, <2>2 DEF Tip!Die
<1>11. ASSUME NEW i \in Tip!Intents, Tip!Pay(i) PROVE Tip!CancelledIsAnothers'
  BY <1>1, <1>11 DEF Tip!Pay, Tip!TypeOK
<1>. QED
  BY <1>1, <1>3, <1>4, <1>5, <1>6, <1>7, <1>8, <1>9, <1>10, <1>11
  DEF Tip!Next, Tip!vars, Tip!KeyExpires, Tip!ConfirmTip, Tip!Confirmable, Tip!Book

\* However many calls overlap or fail, the poster pays only the tip on record,
\* which is completed and booked only when it is paid; and a tip whose intent
\* was cancelled is of an amount two calls overlapped on or failed to insert.
THEOREM TipsCorrect ==
    ASSUME Tip!TipsAssumption
    PROVE  Tip!Spec => [](Tip!PaidIsTheTip /\ Tip!DeadTipNeedsARace)
<1>1. Tip!Init => Tip!MoneyFollowsSecret /\ Tip!CancelledIsAnothers
  BY DEF Tip!Init, Tip!MoneyFollowsSecret, Tip!CancelledIsAnothers, Tip!Creating, Tip!Free
<1>2. Tip!TypeOK /\ Tip!MoneyFollowsSecret => Tip!PaidIsTheTip
  BY DEF Tip!MoneyFollowsSecret, Tip!PaidIsTheTip
<1>3. Tip!TypeOK /\ Tip!CancelledIsAnothers => Tip!DeadTipNeedsARace
  BY DEF Tip!CancelledIsAnothers, Tip!DeadTipNeedsARace, Tip!TypeOK, Tip!Rows, Tip!None
<1>. QED
  BY <1>1, <1>2, <1>3, TipsTyped, MoneyStep, RaceStep, PTL DEF Tip!Spec

-----------------------------------------------------------------------------
\* Offers and counters.

\* The floor of a division is within one of the quotient.
LEMMA DivBounds ==
    ASSUME NEW n \in Int, NEW d \in Nat, d > 0
    PROVE  d * (n \div d) <= n
BY Z3

(***************************************************************************)
(* The four maxima of the corridor already keep the margin floor and the   *)
(* customer's limit for every amount: the last two tests of                *)
(* evaluateWorkerCounter refuse nothing, rounding down included.           *)
(***************************************************************************)
THEOREM CorridorKeepsMargin ==
    ASSUME NEW total \in Int, NEW base \in Int, NEW margin \in Int, NEW proposed \in Int,
           Offer!InCorridor(total, base, margin, proposed)
    PROVE  Offer!Accepted(total, base, margin, proposed)
<1>1. Offer!KeepsCustomer(total, margin, proposed)
  <2>1. Offer!CustomerMaximum(total) \in Int
    BY DEF Offer!CustomerMaximum, Offer!MaximumCustomerIncreaseBps
  <2> QED BY <2>1 DEF Offer!InCorridor, Offer!WithinMaximum, Offer!KeepsCustomer
<1>2. Offer!KeepsMargin(margin, proposed)
  <2>1. proposed <= (margin * 9000) \div 1000
    BY DEF Offer!InCorridor, Offer!WithinMaximum, Offer!MarginMaximum, Offer!MarginFloorBps
  <2>2. 1000 * ((margin * 9000) \div 1000) <= margin * 9000
    BY DivBounds
  <2>3. 1000 * proposed <= margin * 9000
    BY <2>1, <2>2
  <2> QED BY <2>3 DEF Offer!KeepsMargin, Offer!MarginFloorBps
<1> QED BY <1>1, <1>2 DEF Offer!Accepted

(***************************************************************************)
(* A worker gains at least the minimum, and the customer pays at most a    *)
(* quarter more, whatever the amounts.                                     *)
(***************************************************************************)
THEOREM AcceptedIsBounded ==
    ASSUME NEW total \in Int, NEW base \in Int, NEW margin \in Int, NEW proposed \in Int,
           Offer!Accepted(total, base, margin, proposed)
    PROVE  /\ proposed >= base + 100
           /\ 4 * (proposed + margin) <= 5 * total
<1>1. proposed >= base + 100
  BY DEF Offer!Accepted, Offer!InCorridor, Offer!MinimumCounterPayout, Offer!MinimumPayoutIncreaseCents
<1>2. proposed + margin <= (total * 12500) \div 10000
  BY DEF Offer!Accepted, Offer!KeepsCustomer, Offer!CustomerMaximum, Offer!MaximumCustomerIncreaseBps
<1>3. 10000 * ((total * 12500) \div 10000) <= total * 12500
  BY DivBounds
<1>4. 10000 * (proposed + margin) <= total * 12500
  BY <1>2, <1>3
<1> QED BY <1>1, <1>4

\* Active counts the worker's active tasks, which are finitely many.
LEMMA ActiveIs ==
    ASSUME NEW w
    PROVE  /\ Offer!Active(w) = Cardinality(Offer!ActiveTasks(w))
           /\ Offer!Active(w)' = Cardinality(Offer!ActiveTasks(w)')
BY DEF Offer!Active, Offer!Cardinality, Cardinality

LEMMA FinitelyManyTasks == Offer!OffersAssumption => IsFiniteSet(Tasks)
BY DEF Offer!OffersAssumption, Offer!IsFiniteSet, IsFiniteSet

\* Who decides is nobody, or somebody for a worker.
LEMMA DecidingTyped ==
    ASSUME NEW d \in Offer!Deciding
    PROVE  d # Offer!Free => d.who \in Helpers /\ d.by \in {"accept", "reserve"}
BY DEF Offer!Deciding, Offer!Free

LEMMA NotFree ==
    ASSUME NEW by \in {"accept", "reserve"}, NEW w
    PROVE  /\ [by |-> by, who |-> w] # Offer!Free
           /\ [by |-> by, who |-> w].who = w /\ [by |-> by, who |-> w].by = by
BY DEF Offer!Free

LEMMA OffersInit == ASSUME Offer!OffersAssumption, Offer!Init PROVE Offer!OffersInv
<1>1. Offer!TypeOK
  BY DEF Offer!OffersAssumption, Offer!Init, Offer!TypeOK, Offer!Pairs, Offer!NoCounter, Offer!Free
<1>2. ASSUME NEW t \in Tasks PROVE Offer!RowSound(t) /\ Offer!ReplacedSound(t)
  BY <1>2 DEF Offer!Init, Offer!RowSound, Offer!ReplacedSound, Offer!Has, Offer!Pairs, Offer!NoCounter
<1>3. ASSUME NEW w \in Helpers PROVE Offer!Loaded(w)
  <2>1. Offer!ActiveTasks(w) = {}
    BY <1>3 DEF Offer!Init, Offer!ActiveTasks
  <2>2. Offer!Active(w) = 0
    BY <2>1, FS_EmptySet, ActiveIs
  <2>3. ~Offer!Reserving(w) /\ \A t \in Tasks : ~Offer!Decided(t, w)
    BY DEF Offer!Init, Offer!Reserving, Offer!Decided, Offer!Free
  <2> QED BY <2>2, <2>3 DEF Offer!Loaded, Offer!OffersAssumption
<1> QED BY <1>1, <1>2, <1>3 DEF Offer!OffersInv

-----------------------------------------------------------------------------
\* Every step keeps the types.
LEMMA OffersTyped == ASSUME Offer!OffersAssumption, Offer!TypeOK, [Offer!Next]_(Offer!vars) PROVE Offer!TypeOK'
<1>1. ASSUME NEW t \in Tasks, NEW w \in Helpers, Offer!ShowOffer(t, w) PROVE Offer!TypeOK'
  BY <1>1 DEF Offer!ShowOffer, Offer!TypeOK, Offer!taskVars, Offer!counterVars
<1>2. ASSUME NEW t \in Tasks, NEW w \in Helpers, Offer!BeginAccept(t, w) \/ Offer!BeginReserve(t,
     w) PROVE Offer!TypeOK'
  <2>1. PICK by \in {"accept", "reserve"} : Offer!Begin(t, w, by)
    BY <1>2 DEF Offer!BeginAccept, Offer!BeginReserve
  <2> QED BY <2>1 DEF Offer!Begin, Offer!TypeOK, Offer!taskVars, Offer!offerVars, Offer!counterVars
<1>3. ASSUME NEW t \in Tasks, NEW w \in Helpers, NEW p \in Proposals, Offer!SubmitCounter(t, w,
     p) PROVE Offer!TypeOK'
  <2>1. bargain' \in [Offer!Pairs -> [status : {"none", "PENDING_POSTER", "REJECTED",
       "APPROVED_REAUTH_REQUIRED",
                                          "MATERIALIZED"},
                                terms : 0..MaxTerms, payout : Proposals \cup {0}]]
    <3>1. terms[t] \in 0..MaxTerms
      BY DEF Offer!TypeOK, Offer!OffersAssumption
    <3> QED BY <1>3, <3>1 DEF Offer!SubmitCounter, Offer!TypeOK
  <2> QED BY <1>3, <2>1 DEF Offer!SubmitCounter, Offer!TypeOK, Offer!taskVars, Offer!offerVars
<1>4. ASSUME NEW t \in Tasks, NEW w \in Helpers, Offer!CounterExpires(t, w) PROVE Offer!TypeOK'
  BY <1>4 DEF Offer!CounterExpires, Offer!TypeOK, Offer!Pairs, Offer!taskVars, Offer!offerVars
<1>5. ASSUME NEW t \in Tasks, NEW w \in Helpers, Offer!Approve(t, w) \/ Offer!Reject(t,
     w) \/ Offer!Materialize(t, w)
      PROVE  Offer!TypeOK'
  <2>1. PICK s \in {"APPROVED_REAUTH_REQUIRED", "REJECTED", "MATERIALIZED"} :
            bargain' = [bargain EXCEPT ![<<t, w>>].status = s]
    BY <1>5 DEF Offer!Approve, Offer!Reject, Offer!Materialize
  <2> DEFINE Row == [status : {"none", "PENDING_POSTER", "REJECTED", "APPROVED_REAUTH_REQUIRED",
       "MATERIALIZED"},
                     terms : 0..MaxTerms, payout : Proposals \cup {0}]
  <2>2. bargain' \in [Offer!Pairs -> Row]
    <3>1. bargain \in [Offer!Pairs -> Row]
      BY DEF Offer!TypeOK
    <3>2. \A r \in Row : [r EXCEPT !.status = s] \in Row
      OBVIOUS
    <3>3. \A q \in Offer!Pairs : bargain'[q] \in Row
      BY <2>1, <3>1, <3>2
    <3> QED BY <2>1, <3>1, <3>3
  <2>3. UNCHANGED <<Offer!taskVars, fit, Offer!offerVars, lapsed, deciding, overlapped>>
    BY <1>5 DEF Offer!Approve, Offer!Reject, Offer!Materialize
  <2> QED BY <2>2, <2>3 DEF Offer!TypeOK, Offer!taskVars, Offer!offerVars
<1>6. ASSUME NEW o \in live, Offer!OfferExpires(o) PROVE Offer!TypeOK'
  BY <1>6 DEF Offer!OfferExpires, Offer!TypeOK, Offer!taskVars, Offer!counterVars
<1>7. ASSUME NEW w \in Helpers, Offer!FitnessChanges(w) PROVE Offer!TypeOK'
  BY <1>7 DEF Offer!FitnessChanges, Offer!TypeOK, Offer!taskVars, Offer!offerVars, Offer!counterVars
<1>8. ASSUME NEW t \in Tasks, Offer!ChangeTerms(t) PROVE Offer!TypeOK'
  BY <1>8 DEF Offer!ChangeTerms, Offer!TypeOK, Offer!offerVars, Offer!counterVars, Offer!OffersAssumption
<1>9. ASSUME NEW t \in Tasks, Offer!Commit(t) PROVE Offer!TypeOK'
  <2>1. deciding[t].who \in Helpers
    BY <1>9, DecidingTyped DEF Offer!Commit, Offer!Unlocked, Offer!TypeOK, Offer!Deciding
  <2> QED BY <1>9, <2>1 DEF Offer!Commit, Offer!TypeOK, Offer!offerVars, Offer!counterVars
<1>10. ASSUME NEW t \in Tasks, Offer!RollBack(t) PROVE Offer!TypeOK'
  BY <1>10 DEF Offer!RollBack, Offer!TypeOK, Offer!taskVars, Offer!offerVars, Offer!counterVars
<1>11. ASSUME NEW t \in Tasks, Offer!Cancel(t) \/ Offer!Refund(t) \/ Offer!Complete(t) PROVE Offer!TypeOK'
  BY <1>11 DEF Offer!Cancel, Offer!Refund, Offer!Complete, Offer!TypeOK, Offer!offerVars, Offer!counterVars
<1>12. CASE UNCHANGED Offer!vars
  BY <1>12 DEF Offer!vars, Offer!taskVars, Offer!offerVars, Offer!counterVars, Offer!TypeOK
<1> QED BY <1>1, <1>2, <1>3, <1>4, <1>5, <1>6, <1>7, <1>8, <1>9, <1>10, <1>11, <1>12 DEF Offer!Next

\* The row of a task, its lock and its offers: only the holder of the lock, or
\* nobody's transaction, moves them.
LEMMA RowStep ==
    ASSUME Offer!OffersAssumption, Offer!OffersInv, [Offer!Next]_(Offer!vars), NEW t \in Tasks
    PROVE  Offer!RowSound(t)'
<1> USE DEF Offer!OffersInv
<1>1. ASSUME NEW s \in Tasks, NEW w \in Helpers, Offer!ShowOffer(s, w) PROVE Offer!RowSound(t)'
  BY <1>1 DEF Offer!ShowOffer, Offer!RowSound, Offer!taskVars
<1>2. ASSUME NEW s \in Tasks, NEW w \in Helpers, Offer!BeginAccept(s, w) PROVE Offer!RowSound(t)'
  <2>1. state[s] = "open" /\ <<s, w, terms[s]>> \in shown
    BY <1>2 DEF Offer!BeginAccept, Offer!Eligible, Offer!Current, Offer!TypeOK
  <2> QED BY <1>2, <2>1 DEF Offer!BeginAccept, Offer!Begin, Offer!RowSound, Offer!TypeOK, Offer!taskVars,
       Offer!offerVars
<1>3. ASSUME NEW s \in Tasks, NEW w \in Helpers, Offer!BeginReserve(s, w) PROVE Offer!RowSound(t)'
  <2>1. state[s] = "open" /\ <<s, w, terms[s]>> \in shown
    BY <1>3 DEF Offer!BeginReserve, Offer!Reservable, Offer!Available, Offer!Current, Offer!TypeOK
  <2> QED BY <1>3, <2>1 DEF Offer!BeginReserve, Offer!Begin, Offer!RowSound, Offer!TypeOK, Offer!taskVars,
       Offer!offerVars
<1>4. ASSUME NEW s \in Tasks, NEW w \in Helpers,
             \/ \E p \in Proposals : Offer!SubmitCounter(s, w, p)
             \/ Offer!CounterExpires(s, w) \/ Offer!Approve(s, w) \/ Offer!Reject(s, w) \/ Offer!Materialize(s, w)
      PROVE  Offer!RowSound(t)'
  BY <1>4 DEF Offer!SubmitCounter, Offer!CounterExpires, Offer!Approve, Offer!Reject, Offer!Materialize,
       Offer!RowSound, Offer!taskVars, Offer!offerVars
<1>5. ASSUME NEW o \in live, Offer!OfferExpires(o) PROVE Offer!RowSound(t)'
  BY <1>5 DEF Offer!OfferExpires, Offer!RowSound, Offer!taskVars
<1>6. ASSUME NEW w \in Helpers, Offer!FitnessChanges(w) PROVE Offer!RowSound(t)'
  BY <1>6 DEF Offer!FitnessChanges, Offer!RowSound, Offer!taskVars, Offer!offerVars
<1>7. ASSUME NEW s \in Tasks, Offer!ChangeTerms(s) PROVE Offer!RowSound(t)'
  BY <1>7 DEF Offer!ChangeTerms, Offer!Unlocked, Offer!RowSound, Offer!TypeOK, Offer!offerVars
<1>8. ASSUME NEW s \in Tasks, Offer!Commit(s) PROVE Offer!RowSound(t)'
  BY <1>8 DEF Offer!Commit, Offer!Unlocked, Offer!RowSound, Offer!TypeOK, Offer!offerVars
<1>9. ASSUME NEW s \in Tasks, Offer!RollBack(s) PROVE Offer!RowSound(t)'
  BY <1>9 DEF Offer!RollBack, Offer!RowSound, Offer!TypeOK, Offer!taskVars, Offer!offerVars
<1>10. ASSUME NEW s \in Tasks, Offer!Cancel(s) \/ Offer!Refund(s) \/ Offer!Complete(s) PROVE Offer!RowSound(t)'
  BY <1>10 DEF Offer!Cancel, Offer!Refund, Offer!Complete, Offer!Unlocked, Offer!RowSound, Offer!TypeOK,
       Offer!offerVars
<1>11. CASE UNCHANGED Offer!vars
  BY <1>11 DEF Offer!vars, Offer!taskVars, Offer!offerVars, Offer!RowSound
<1> QED BY <1>1, <1>2, <1>3, <1>4, <1>5, <1>6, <1>7, <1>8, <1>9, <1>10, <1>11 DEF Offer!Next

\* The counters of a task: one approval, and a replacement of what is over.
LEMMA ReplacedStep ==
    ASSUME Offer!OffersAssumption, Offer!OffersInv, [Offer!Next]_(Offer!vars), NEW t \in Tasks
    PROVE  Offer!ReplacedSound(t)'
<1> USE DEF Offer!OffersInv
<1>1. ASSUME bargain' = bargain, state'[t] = state[t] \/ state[t] # "cancelled",
             escrow'[t] = escrow[t] \/ escrow'[t] = "REFUNDED"
      PROVE  Offer!ReplacedSound(t)'
  BY <1>1 DEF Offer!ReplacedSound, Offer!Has
<1>2. ASSUME NEW s \in Tasks, NEW w \in Helpers,
             Offer!ShowOffer(s, w) \/ Offer!BeginAccept(s, w) \/ Offer!BeginReserve(s, w) \/ Offer!CounterExpires(s, w)
      PROVE  Offer!ReplacedSound(t)'
  BY <1>1, <1>2 DEF Offer!ShowOffer, Offer!BeginAccept, Offer!BeginReserve, Offer!Begin,
       Offer!CounterExpires, Offer!taskVars, Offer!counterVars
<1>3. ASSUME NEW s \in Tasks, NEW w \in Helpers, NEW p \in Proposals, Offer!SubmitCounter(s, w, p)
      PROVE  Offer!ReplacedSound(t)'
  <2>1. \A v \in Helpers :
            \/ bargain'[<<t, v>>] = bargain[<<t, v>>]
            \/ bargain'[<<t, v>>].status = "PENDING_POSTER"
    BY <1>3 DEF Offer!SubmitCounter, Offer!TypeOK, Offer!Pairs
  <2>2. state' = state /\ escrow' = escrow
    BY <1>3 DEF Offer!SubmitCounter, Offer!taskVars
  <2> QED BY <2>1, <2>2 DEF Offer!ReplacedSound, Offer!Has
<1>4. ASSUME NEW s \in Tasks, NEW w \in Helpers, Offer!Approve(s, w) PROVE Offer!ReplacedSound(t)'
  <2>1. \A v \in Helpers : <<t, v>> # <<s, w>> => bargain'[<<t, v>>] = bargain[<<t, v>>]
    BY <1>4 DEF Offer!Approve, Offer!TypeOK, Offer!Pairs
  <2>2. bargain'[<<s, w>>].status = "APPROVED_REAUTH_REQUIRED"
    BY <1>4 DEF Offer!Approve, Offer!TypeOK, Offer!Pairs
  <2>3. state' = state /\ escrow' = escrow /\ \A v \in Helpers : ~Offer!Has(s, v)
    BY <1>4 DEF Offer!Approve, Offer!Authorized, Offer!taskVars
  <2> QED BY <2>1, <2>2, <2>3 DEF Offer!ReplacedSound, Offer!Has
<1>5. ASSUME NEW s \in Tasks, NEW w \in Helpers, Offer!Reject(s, w) PROVE Offer!ReplacedSound(t)'
  <2>1. \A v \in Helpers : \/ bargain'[<<t, v>>] = bargain[<<t, v>>]
                           \/ bargain'[<<t, v>>].status = "REJECTED"
    BY <1>5 DEF Offer!Reject, Offer!TypeOK, Offer!Pairs
  <2>2. state' = state /\ escrow' = escrow
    BY <1>5 DEF Offer!Reject, Offer!taskVars
  <2> QED BY <2>1, <2>2 DEF Offer!ReplacedSound, Offer!Has
<1>6. ASSUME NEW s \in Tasks, NEW w \in Helpers, Offer!Materialize(s, w) PROVE Offer!ReplacedSound(t)'
  <2>1. \A v \in Helpers : <<t, v>> # <<s, w>> => bargain'[<<t, v>>] = bargain[<<t, v>>]
    BY <1>6 DEF Offer!Materialize, Offer!TypeOK, Offer!Pairs
  <2>2. Offer!Has(s, w) /\ bargain'[<<s, w>>].status = "MATERIALIZED"
    BY <1>6 DEF Offer!Materialize, Offer!Has, Offer!TypeOK, Offer!Pairs
  <2>3. state' = state /\ escrow' = escrow /\ state[s] = "cancelled" /\ escrow[s] = "REFUNDED"
    BY <1>6 DEF Offer!Materialize, Offer!Replaceable, Offer!taskVars
  <2> QED BY <2>1, <2>2, <2>3 DEF Offer!ReplacedSound, Offer!Has
<1>7. ASSUME NEW o \in live, Offer!OfferExpires(o) PROVE Offer!ReplacedSound(t)'
  BY <1>1, <1>7 DEF Offer!OfferExpires, Offer!taskVars, Offer!counterVars
<1>8. ASSUME NEW w \in Helpers, Offer!FitnessChanges(w) PROVE Offer!ReplacedSound(t)'
  BY <1>1, <1>8 DEF Offer!FitnessChanges, Offer!taskVars, Offer!counterVars
<1>9. ASSUME NEW s \in Tasks, Offer!ChangeTerms(s) \/ Offer!RollBack(s) PROVE Offer!ReplacedSound(t)'
  BY <1>1, <1>9 DEF Offer!ChangeTerms, Offer!RollBack, Offer!taskVars, Offer!counterVars
<1>10. ASSUME NEW s \in Tasks, Offer!Commit(s) PROVE Offer!ReplacedSound(t)'
  <2>1. state[s] = "open"
    BY <1>10 DEF Offer!Commit, Offer!Unlocked, Offer!RowSound
  <2> QED BY <1>1, <1>10, <2>1 DEF Offer!Commit, Offer!TypeOK, Offer!counterVars
<1>11. ASSUME NEW s \in Tasks,
     Offer!Cancel(s) \/ Offer!Refund(s) \/ Offer!Complete(s) PROVE Offer!ReplacedSound(t)'
  BY <1>1, <1>11 DEF Offer!Cancel, Offer!Refund, Offer!Complete, Offer!TypeOK, Offer!counterVars
<1>12. CASE UNCHANGED Offer!vars
  BY <1>1, <1>12 DEF Offer!vars, Offer!taskVars, Offer!counterVars
<1> QED BY <1>2, <1>3, <1>4, <1>5, <1>6, <1>7, <1>8, <1>9, <1>10, <1>11, <1>12 DEF Offer!Next

\* A worker's tasks are counted.
LEMMA ActiveCounted ==
    ASSUME Offer!OffersAssumption, NEW w \in Helpers
    PROVE  /\ IsFiniteSet(Offer!ActiveTasks(w)) /\ Offer!Active(w) \in Nat
           /\ IsFiniteSet(Offer!ActiveTasks(w)') /\ Offer!Active(w)' \in Nat
           /\ Offer!ActiveTasks(w)' \subseteq Offer!ActiveTasks(w) => Offer!Active(w)' <= Offer!Active(w)
<1>1. Offer!ActiveTasks(w) \subseteq Tasks /\ Offer!ActiveTasks(w)' \subseteq Tasks
  BY DEF Offer!ActiveTasks
<1>2. IsFiniteSet(Offer!ActiveTasks(w)) /\ IsFiniteSet(Offer!ActiveTasks(w)')
  BY <1>1, FS_Subset, FinitelyManyTasks
<1>3. Offer!Active(w) \in Nat /\ Offer!Active(w)' \in Nat
  BY <1>2, FS_CardinalityType, ActiveIs
<1>4. Offer!ActiveTasks(w)' \subseteq Offer!ActiveTasks(w) => Offer!Active(w)' <= Offer!Active(w)
  BY <1>2, FS_Subset, ActiveIs
<1> QED BY <1>2, <1>3, <1>4

\* A step that gives the worker no task and begins no decision about the worker.
LEMMA LoadedKept ==
    ASSUME Offer!OffersAssumption, Offer!OffersInv, NEW w \in Helpers,
           Offer!ActiveTasks(w)' \subseteq Offer!ActiveTasks(w), overlapped' = overlapped,
           \A t \in Tasks : deciding'[t] = deciding[t] \/ ~Offer!Decided(t, w)',
           Offer!Reserving(w)' => Offer!Reserving(w), Offer!Reserving(w) /\ w \in fit => w \in fit'
    PROVE  Offer!Loaded(w)'
<1>1. \A t \in Tasks : Offer!Decided(t, w)' => Offer!Decided(t, w)
  BY DEF Offer!Decided
<1>2. Offer!Active(w)' <= Offer!Active(w) /\ Offer!Active(w) \in Nat /\ Offer!Active(w)' \in Nat
  BY ActiveCounted
<1>3. MaxActive \in Nat
  BY DEF Offer!OffersAssumption
<1>4. Offer!Loaded(w)
  BY DEF Offer!OffersInv
<1>5. Offer!Reserving(w)' => w \in fit'
  BY <1>4 DEF Offer!Loaded
<1>6. ASSUME w \notin overlapped
      PROVE  /\ Offer!Active(w)' <= MaxActive
             /\ \A t \in Tasks : Offer!Decided(t, w)' => Offer!Active(w)' < MaxActive
             /\ \A s, t \in Tasks : Offer!Decided(s, w)' /\ Offer!Decided(t, w)' => s = t
  BY <1>1, <1>2, <1>3, <1>4, <1>6 DEF Offer!Loaded
<1> QED BY <1>5, <1>6 DEF Offer!Loaded

\* A decision that begins: about another worker, or seen as an overlap, or the only
\* one, of a worker below the limit.
LEMMA LoadedBegin ==
    ASSUME Offer!OffersAssumption, Offer!OffersInv, NEW w \in Helpers, NEW s \in Tasks, NEW v \in Helpers,
           NEW by \in {"accept", "reserve"}, Offer!Begin(s, v, by), Offer!Unlocked(s), Offer!Active(v) < MaxActive,
           by = "reserve" => v \in fit
    PROVE  Offer!Loaded(w)'
<1> DEFINE d == [by |-> by, who |-> v]
<1>1. d # Offer!Free /\ d.who = v
  BY NotFree
<1>2. \A t \in Tasks : deciding'[t] = IF t = s THEN d ELSE deciding[t]
  BY DEF Offer!Begin, Offer!OffersInv, Offer!TypeOK
<1>3. fit' = fit /\ state' = state /\ worker' = worker
  BY DEF Offer!Begin, Offer!taskVars
<1>4. Offer!ActiveTasks(w)' = Offer!ActiveTasks(w) /\ Offer!Active(w)' = Offer!Active(w)
  BY <1>3 DEF Offer!ActiveTasks, Offer!Active
<1>5. \A t \in Tasks : Offer!Decided(t, w)' => Offer!Decided(t, w) \/ (t = s /\ v = w)
  BY <1>1, <1>2 DEF Offer!Decided
<1>6. Offer!Loaded(w)
  BY DEF Offer!OffersInv
<1>7. Offer!Reserving(w)' => w \in fit'
  <2>1. Offer!Reserving(w)' => Offer!Reserving(w) \/ (by = "reserve" /\ v = w)
    BY <1>2 DEF Offer!Reserving
  <2> QED BY <2>1, <1>3, <1>6 DEF Offer!Loaded
<1>8. ASSUME w \notin overlapped'
      PROVE  /\ w \notin overlapped
             /\ v = w => \A t \in Tasks : ~Offer!Decided(t, w)
  BY <1>8 DEF Offer!Begin, Offer!Decided
<1>9. Offer!Active(w) \in Nat /\ MaxActive \in Nat
  BY ActiveCounted DEF Offer!OffersAssumption
<1>10. ASSUME w \notin overlapped'
       PROVE  /\ Offer!Active(w)' <= MaxActive
              /\ \A t \in Tasks : Offer!Decided(t, w)' => Offer!Active(w)' < MaxActive
              /\ \A r, t \in Tasks : Offer!Decided(r, w)' /\ Offer!Decided(t, w)' => r = t
  <2>1. Offer!Active(w)' <= MaxActive
    BY <1>4, <1>6, <1>8, <1>10 DEF Offer!Loaded
  <2>2. CASE v = w
    <3>1. \A t \in Tasks : Offer!Decided(t, w)' => t = s
      BY <1>5, <1>8, <1>10, <2>2
    <3> QED BY <2>1, <2>2, <3>1, <1>4
  <2>3. CASE v # w
    BY <2>1, <2>3, <1>4, <1>5, <1>6, <1>8, <1>10 DEF Offer!Loaded
  <2> QED BY <2>2, <2>3
<1> QED BY <1>7, <1>10 DEF Offer!Loaded

\* The commit of the one decision there is.
LEMMA LoadedCommit ==
    ASSUME Offer!OffersAssumption, Offer!OffersInv, NEW w \in Helpers, NEW s \in Tasks, Offer!Commit(s)
    PROVE  Offer!Loaded(w)'
<1> DEFINE v == deciding[s].who
<1>1. deciding[s] # Offer!Free /\ state[s] = "open" /\ worker[s] = "none"
  BY DEF Offer!Commit, Offer!Unlocked, Offer!OffersInv, Offer!RowSound
<1>2. \A t \in Tasks : deciding'[t] = IF t = s THEN Offer!Free ELSE deciding[t]
  BY DEF Offer!Commit, Offer!OffersInv, Offer!TypeOK
<1>3. /\ \A t \in Tasks : state'[t] = IF t = s THEN "accepted" ELSE state[t]
      /\ \A t \in Tasks : worker'[t] = IF t = s THEN v ELSE worker[t]
  BY DEF Offer!Commit, Offer!OffersInv, Offer!TypeOK
<1>4. overlapped' = overlapped /\ fit' = fit
  BY DEF Offer!Commit
<1>5. \A t \in Tasks : deciding'[t] = deciding[t] \/ ~Offer!Decided(t, w)'
  BY <1>2 DEF Offer!Decided
<1>6. Offer!Reserving(w)' => Offer!Reserving(w)
  <2>1. [by |-> "reserve", who |-> w] # Offer!Free
    BY NotFree
  <2> QED BY <1>2, <2>1 DEF Offer!Reserving
<1>7. CASE v # w
  <2>1. Offer!ActiveTasks(w)' = Offer!ActiveTasks(w)
    BY <1>1, <1>3, <1>7 DEF Offer!ActiveTasks, Offer!OffersAssumption
  <2> QED BY <2>1, <1>4, <1>5, <1>6, LoadedKept
<1>8. CASE v = w
  <2>1. Offer!ActiveTasks(w)' = Offer!ActiveTasks(w) \cup {s} /\ s \notin Offer!ActiveTasks(w)
    BY <1>1, <1>3, <1>8 DEF Offer!ActiveTasks
  <2>2. Offer!Active(w)' = Offer!Active(w) + 1
    BY <2>1, ActiveCounted, FS_AddElement, ActiveIs
  <2>3. Offer!Decided(s, w)
    BY <1>1, <1>8 DEF Offer!Decided
  <2>4. Offer!Loaded(w)
    BY DEF Offer!OffersInv
  <2>5. ASSUME w \notin overlapped
        PROVE  Offer!Active(w) < MaxActive /\ \A t \in Tasks : ~Offer!Decided(t, w)'
    BY <2>3, <2>4, <2>5, <1>2, <1>5 DEF Offer!Loaded, Offer!Decided
  <2>6. Offer!Active(w) \in Nat /\ MaxActive \in Nat
    BY ActiveCounted DEF Offer!OffersAssumption
  <2>7. Offer!Reserving(w)' => w \in fit'
    BY <1>4, <1>6, <2>4 DEF Offer!Loaded
  <2> QED BY <2>2, <2>5, <2>6, <2>7, <1>4 DEF Offer!Loaded
<1> QED BY <1>7, <1>8

LEMMA LoadedStep ==
    ASSUME Offer!OffersAssumption, Offer!OffersInv, [Offer!Next]_(Offer!vars), NEW w \in Helpers
    PROVE  Offer!Loaded(w)'
<1>1. ASSUME state' = state, worker' = worker, deciding' = deciding, overlapped' = overlapped,
             Offer!Reserving(w) /\ w \in fit => w \in fit'
      PROVE  Offer!Loaded(w)'
  <2>1. Offer!ActiveTasks(w)' = Offer!ActiveTasks(w)
    BY <1>1 DEF Offer!ActiveTasks
  <2>2. Offer!Reserving(w)' => Offer!Reserving(w)
    BY <1>1 DEF Offer!Reserving
  <2> QED BY <1>1, <2>1, <2>2, LoadedKept
<1>2. ASSUME NEW s \in Tasks, NEW v \in Helpers,
             \/ Offer!ShowOffer(s, v) \/ Offer!CounterExpires(s, v)
             \/ \E p \in Proposals : Offer!SubmitCounter(s, v, p)
             \/ Offer!Approve(s, v) \/ Offer!Reject(s, v) \/ Offer!Materialize(s, v)
      PROVE  Offer!Loaded(w)'
  BY <1>1, <1>2 DEF Offer!ShowOffer, Offer!CounterExpires, Offer!SubmitCounter, Offer!Approve,
       Offer!Reject, Offer!Materialize, Offer!taskVars
<1>3. ASSUME NEW s \in Tasks, NEW v \in Helpers, Offer!BeginAccept(s, v) PROVE Offer!Loaded(w)'
  BY <1>3, LoadedBegin DEF Offer!BeginAccept, Offer!Eligible
<1>4. ASSUME NEW s \in Tasks, NEW v \in Helpers, Offer!BeginReserve(s, v) PROVE Offer!Loaded(w)'
  <2>1. Offer!Active(v) < MaxActive /\ v \in fit
    BY <1>4 DEF Offer!BeginReserve, Offer!Reservable, Offer!Fit, Offer!OffersAssumption
  <2> QED BY <1>4, <2>1, LoadedBegin DEF Offer!BeginReserve
<1>5. ASSUME NEW o \in live, Offer!OfferExpires(o) PROVE Offer!Loaded(w)'
  BY <1>1, <1>5 DEF Offer!OfferExpires, Offer!taskVars
<1>6. ASSUME NEW v \in Helpers, Offer!FitnessChanges(v) PROVE Offer!Loaded(w)'
  <2>1. Offer!Reserving(w) /\ w \in fit => w \in fit'
    BY <1>6 DEF Offer!FitnessChanges
  <2> QED BY <1>1, <1>6, <2>1 DEF Offer!FitnessChanges, Offer!taskVars
<1>7. ASSUME NEW s \in Tasks, Offer!ChangeTerms(s) PROVE Offer!Loaded(w)'
  BY <1>1, <1>7 DEF Offer!ChangeTerms
<1>8. ASSUME NEW s \in Tasks, Offer!Commit(s) PROVE Offer!Loaded(w)'
  BY <1>8, LoadedCommit
<1>9. ASSUME NEW s \in Tasks, Offer!RollBack(s) PROVE Offer!Loaded(w)'
  <2>1. \A t \in Tasks : deciding'[t] = IF t = s THEN Offer!Free ELSE deciding[t]
    BY <1>9 DEF Offer!RollBack, Offer!OffersInv, Offer!TypeOK
  <2>2. \A t \in Tasks : deciding'[t] = deciding[t] \/ ~Offer!Decided(t, w)'
    BY <2>1 DEF Offer!Decided
  <2>3. Offer!Reserving(w)' => Offer!Reserving(w)
    <3>1. [by |-> "reserve", who |-> w] # Offer!Free
      BY NotFree
    <3> QED BY <2>1, <3>1 DEF Offer!Reserving
  <2>4. Offer!ActiveTasks(w)' = Offer!ActiveTasks(w)
    BY <1>9 DEF Offer!RollBack, Offer!ActiveTasks, Offer!taskVars
  <2> QED BY <1>9, <2>2, <2>3, <2>4, LoadedKept DEF Offer!RollBack
<1>10. ASSUME NEW s \in Tasks, Offer!Cancel(s) \/ Offer!Refund(s) \/ Offer!Complete(s) PROVE Offer!Loaded(w)'
  <2>1. Offer!ActiveTasks(w)' \subseteq Offer!ActiveTasks(w)
    BY <1>10 DEF Offer!Cancel, Offer!Refund, Offer!Complete, Offer!ActiveTasks, Offer!OffersInv, Offer!TypeOK
  <2>2. deciding' = deciding /\ overlapped' = overlapped /\ fit' = fit
    BY <1>10 DEF Offer!Cancel, Offer!Refund, Offer!Complete
  <2> QED BY <2>1, <2>2, LoadedKept DEF Offer!Reserving
<1>11. CASE UNCHANGED Offer!vars
  BY <1>1, <1>11 DEF Offer!vars, Offer!taskVars
<1> QED BY <1>2, <1>3, <1>4, <1>5, <1>6, <1>7, <1>8, <1>9, <1>10, <1>11 DEF Offer!Next

(***************************************************************************)
(* For any tasks, workers and amounts: a worker has a task on terms that   *)
(* worker was shown; a task has one approved bargain and is replaced when  *)
(* it is over; too many tasks come of overlapping assignments only; and    *)
(* whom the engine reserves stays fit until it commits.                    *)
(***************************************************************************)
THEOREM OffersCorrect ==
    ASSUME Offer!OffersAssumption
    PROVE  Offer!Spec => [](Offer!AssignedOnShownTerms /\ Offer!OneReplacement /\ Offer!OverloadNeedsARace /\ Offer!ReservedIsFit)
<1>1. Offer!Init => Offer!OffersInv
  BY OffersInit
<1>2. Offer!OffersInv /\ [Offer!Next]_(Offer!vars) => Offer!OffersInv'
  BY OffersTyped, RowStep, ReplacedStep, LoadedStep DEF Offer!OffersInv
<1>3. Offer!OffersInv => Offer!AssignedOnShownTerms /\ Offer!OneReplacement /\ Offer!OverloadNeedsARace /\ Offer!ReservedIsFit
  <2>1. ASSUME Offer!OffersInv PROVE Offer!AssignedOnShownTerms /\ Offer!OneReplacement /\ Offer!ReservedIsFit
    BY <2>1 DEF Offer!OffersInv, Offer!RowSound, Offer!ReplacedSound, Offer!Loaded,
         Offer!AssignedOnShownTerms, Offer!OneReplacement, Offer!ReservedIsFit
  <2>2. ASSUME Offer!OffersInv PROVE Offer!OverloadNeedsARace
    <3>1. \A w \in Helpers : Offer!Active(w) \in Nat /\ MaxActive \in Nat
      BY ActiveCounted DEF Offer!OffersAssumption
    <3> QED BY <2>2, <3>1 DEF Offer!OffersInv, Offer!Loaded, Offer!OverloadNeedsARace
  <2> QED BY <2>1, <2>2
<1> QED BY <1>1, <1>2, <1>3, PTL DEF Offer!Spec

-----------------------------------------------------------------------------
\* The outbox.

\* The writes of the recovery paths and of queue.add stay in the type.
LEMMA WritesTyped ==
    ASSUME Box!OutboxAssumption, Box!TypeOK, NEW e \in Events
    PROVE  /\ Box!Retried(row[e]) \in [status : Box!Statuses, attempts : 0..MaxOutboxAttempts]
           /\ Box!Retried(row[e]).attempts = row[e].attempts
           /\ Box!Retried(row[e]).status = IF row[e].attempts < MaxOutboxAttempts THEN "pending" ELSE "failed"
           /\ Box!Added(job[e]) \in [state : Box!JobStates, made : 0..JobAttempts]
BY DEF Box!OutboxAssumption, Box!TypeOK, Box!Retried, Box!Added, Box!Statuses, Box!JobStates

LEMMA OutboxInit == Box!OutboxAssumption /\ Box!Init => Box!OutboxInv
BY DEF Box!OutboxAssumption, Box!Init, Box!OutboxInv, Box!TypeOK, Box!Statuses, Box!JobStates,
   Box!Bounded,
     Box!HeldByOne,
       Box!DeliveredOnce, Box!Over, Box!Unheld

\* Every step of a poller, of a job and of BullMQ keeps the invariant.
LEMMA OutboxStep ==
    ASSUME Box!OutboxAssumption, Box!OutboxInv, [Box!Next]_(Box!vars)
    PROVE  Box!OutboxInv'
<1>t. Box!TypeOK
  BY DEF Box!OutboxInv
<1>i. \A e \in Events : Box!Bounded(e) /\ Box!HeldByOne(e) /\ Box!DeliveredOnce(e)
  BY DEF Box!OutboxInv
<1>1. ASSUME NEW e \in Events, Box!WriteToOutbox(e)
      PROVE  Box!OutboxInv'
  <2>1. row'[e] = IF row[e].status = "absent" THEN [status |-> "pending", attempts |-> 0] ELSE row[e]
    BY <1>1, <1>t DEF Box!WriteToOutbox, Box!TypeOK
  <2>2. \A x \in Events \ {e} : row'[x] = row[x]
    BY <1>1, <1>t DEF Box!WriteToOutbox, Box!TypeOK
  <2>3. UNCHANGED <<job, holds, delivered, repeated, outboxFaults>>
    BY <1>1 DEF Box!WriteToOutbox
  <2>4. Box!TypeOK'
    BY <1>1, <1>t, <2>3 DEF Box!WriteToOutbox, Box!TypeOK, Box!OutboxAssumption, Box!Statuses,
       Box!JobStates
  <2>5. ASSUME NEW x \in Events
        PROVE  Box!Bounded(x)' /\ Box!HeldByOne(x)' /\ Box!DeliveredOnce(x)'
    <3>1. CASE x = e /\ row[e].status = "absent"
      BY <1>i, <1>t, <2>1, <2>3, <3>1 DEF Box!Bounded, Box!HeldByOne, Box!DeliveredOnce, Box!Over,
           Box!Unheld, Box!TypeOK, Box!OutboxAssumption, Box!Statuses, Box!JobStates
    <3>2. CASE row'[x] = row[x]
      BY <1>i, <2>3, <3>2 DEF Box!Bounded, Box!HeldByOne, Box!DeliveredOnce, Box!Over, Box!Unheld
    <3>3. QED
      BY <2>1, <2>2, <3>1, <3>2
  <2>6. QED
    BY <2>4, <2>5 DEF Box!OutboxInv
<1>2. ASSUME NEW e \in Events, Box!Succeed(e)
      PROVE  Box!OutboxInv'
  <2>1. /\ row'[e].attempts = row[e].attempts
        /\ row'[e].status \in {"processed", row[e].status}
        /\ job[e].state = "waiting"
        /\ job'[e].state = "completed"
        /\ delivered'[e] = delivered[e] + 1
    BY <1>2, <1>t DEF Box!Succeed, Box!TypeOK
  <2>2. \A x \in Events \ {e} : row'[x] = row[x] /\ job'[x] = job[x] /\ delivered'[x] = delivered[x]
    BY <1>2, <1>t DEF Box!Succeed, Box!TypeOK
  <2>3. UNCHANGED <<holds, repeated, outboxFaults>>
    BY <1>2 DEF Box!Succeed
  <2>4. Box!TypeOK'
    BY <1>2, <1>t, <2>3 DEF Box!Succeed, Box!TypeOK, Box!OutboxAssumption, Box!Statuses, Box!JobStates
  <2>5. ASSUME NEW x \in Events
        PROVE  Box!Bounded(x)' /\ Box!HeldByOne(x)' /\ Box!DeliveredOnce(x)'
    <3>1. CASE x = e
      <4>1. e \notin repeated => delivered[e] = 0
        <5>1. delivered[e] \in Nat
          BY <1>t DEF Box!TypeOK
        <5>2. e \notin repeated => delivered[e] <= 1 /\ delivered[e] # 1
          BY <1>i, <2>1 DEF Box!DeliveredOnce, Box!Over
        <5>3. QED
          BY <5>1, <5>2
      <4>2. QED
        BY <1>i, <2>1, <2>3, <3>1, <4>1 DEF Box!Bounded, Box!HeldByOne, Box!DeliveredOnce, Box!Over,
           Box!Unheld
    <3>2. CASE x # e
      BY <1>i, <2>2, <2>3, <3>2 DEF Box!Bounded, Box!HeldByOne, Box!DeliveredOnce, Box!Over, Box!Unheld
    <3>3. QED
      BY <3>1, <3>2
  <2>6. QED
    BY <2>4, <2>5 DEF Box!OutboxInv
<1>3. ASSUME NEW e \in Events, Box!JobFails(e)
      PROVE  Box!OutboxInv'
  BY <1>3, <1>t, <1>i DEF Box!OutboxInv, Box!JobFails, Box!Fault, Box!Failed, Box!Retried, Box!Bounded,
       Box!HeldByOne, Box!DeliveredOnce, Box!Over, Box!Unheld, Box!TypeOK, Box!OutboxAssumption,
       Box!Statuses, Box!JobStates
<1>4. ASSUME NEW e \in Events, Box!Postpone(e)
      PROVE  Box!OutboxInv'
  BY <1>4, <1>t, <1>i DEF Box!OutboxInv, Box!Postpone, Box!Fault, Box!Retried, Box!Bounded,
     Box!HeldByOne,
       Box!DeliveredOnce, Box!Over, Box!Unheld, Box!TypeOK, Box!OutboxAssumption, Box!Statuses,
       Box!JobStates
<1>5. ASSUME NEW e \in Events, Box!Stall(e)
      PROVE  Box!OutboxInv'
  <2>1. /\ row'[e].attempts = row[e].attempts
        /\ row'[e].status = "pending" => row[e].attempts < MaxOutboxAttempts
        /\ row'[e].status = "absent" => row[e].status = "absent"
    BY <1>5, <1>t, <1>i, WritesTyped DEF Box!Stall, Box!TypeOK, Box!Bounded
  <2>2. \A x \in Events \ {e} : row'[x] = row[x] /\ delivered'[x] = delivered[x]
    BY <1>5, <1>t DEF Box!Stall, Box!TypeOK
  <2>3. UNCHANGED <<job, holds>> /\ repeated' = repeated \cup {e} /\ job[e].state = "completed"
    BY <1>5 DEF Box!Stall
  <2>4. row' \in [Events -> [status : Box!Statuses, attempts : 0..MaxOutboxAttempts]]
    <3>1. CASE row' = [row EXCEPT ![e].status = IF e \in Marking THEN "processed" ELSE @]
      BY <3>1, <1>t DEF Box!TypeOK, Box!Statuses
    <3>2. CASE row' = [row EXCEPT ![e] = IF e \in Marking THEN Box!Retried(@) ELSE @]
      BY <3>2, <1>t, WritesTyped DEF Box!TypeOK
    <3>3. QED
      BY <1>5, <3>1, <3>2 DEF Box!Stall
  <2>5. Box!TypeOK'
    <3>1. delivered' \in [Events -> Nat] /\ outboxFaults' \in 0..MaxFaults
      BY <1>5, <1>t DEF Box!Stall, Box!Fault, Box!TypeOK, Box!OutboxAssumption
    <3>2. QED
      BY <1>t, <2>3, <2>4, <3>1 DEF Box!TypeOK
  <2>6. ASSUME NEW x \in Events
        PROVE  Box!Bounded(x)' /\ Box!HeldByOne(x)' /\ Box!DeliveredOnce(x)'
    <3>1. CASE x = e
      BY <1>i, <2>1, <2>3, <3>1 DEF Box!Bounded, Box!HeldByOne, Box!DeliveredOnce, Box!Over, Box!Unheld
    <3>2. CASE x # e
      BY <1>i, <2>2, <2>3, <3>2 DEF Box!Bounded, Box!HeldByOne, Box!DeliveredOnce, Box!Over, Box!Unheld
    <3>3. QED
      BY <3>1, <3>2
  <2>7. QED
    BY <2>5, <2>6 DEF Box!OutboxInv
<1>6. ASSUME NEW e \in Events, Box!Retention(e)
      PROVE  Box!OutboxInv'
  BY <1>6, <1>t, <1>i DEF Box!OutboxInv, Box!Retention, Box!Fault, Box!Bounded, Box!HeldByOne,
       Box!DeliveredOnce, Box!Over, Box!Unheld, Box!TypeOK, Box!OutboxAssumption, Box!Statuses,
       Box!JobStates
<1>7. ASSUME NEW p \in Pollers, Box!Claim(p)
      PROVE  Box!OutboxInv'
  BY <1>7, <1>t, <1>i DEF Box!OutboxInv, Box!Claim, Box!Pending, Box!Bounded, Box!HeldByOne,
       Box!DeliveredOnce, Box!Over, Box!Unheld, Box!TypeOK, Box!OutboxAssumption, Box!Statuses,
       Box!JobStates
<1>8. ASSUME NEW p \in Pollers, Box!PollerCrash(p)
      PROVE  Box!OutboxInv'
  BY <1>8, <1>t, <1>i DEF Box!OutboxInv, Box!PollerCrash, Box!Fault, Box!Bounded, Box!HeldByOne,
       Box!DeliveredOnce, Box!Over, Box!Unheld, Box!TypeOK, Box!OutboxAssumption, Box!Statuses,
       Box!JobStates
<1>9. ASSUME NEW p \in Pollers, NEW e \in Events, Box!Enqueue(p, e)
      PROVE  Box!OutboxInv'
  BY <1>9, <1>t, <1>i DEF Box!OutboxInv, Box!Enqueue, Box!Added, Box!Bounded, Box!HeldByOne,
       Box!DeliveredOnce, Box!Over, Box!Unheld, Box!TypeOK, Box!OutboxAssumption, Box!Statuses,
       Box!JobStates
<1>10. ASSUME NEW p \in Pollers, NEW e \in Events, Box!EnqueueFails(p, e)
       PROVE  Box!OutboxInv'
  <2>1. /\ row'[e].attempts = row[e].attempts
        /\ row'[e].status = IF row[e].attempts < MaxOutboxAttempts THEN "pending" ELSE "failed"
    BY <1>10, <1>t, WritesTyped DEF Box!EnqueueFails, Box!TypeOK
  <2>2. /\ holds'[p] = holds[p] \ {e} /\ e \in holds[p]
        /\ \A q \in Pollers \ {p} : holds'[q] = holds[q]
        /\ UNCHANGED delivered
    BY <1>10, <1>t DEF Box!EnqueueFails, Box!TypeOK
  <2>3. /\ job' = job \/ (job' = [job EXCEPT ![e] = Box!Added(@)] /\ e \in repeated')
        /\ job[e].state # "absent" => e \in repeated'
        /\ repeated' = repeated \/ repeated' = repeated \cup {e}
    <3>1. CASE /\ repeated' = IF job[e].state = "absent" THEN repeated ELSE repeated \cup {e}
               /\ UNCHANGED job
      BY <3>1
    <3>2. CASE /\ job' = [job EXCEPT ![e] = Box!Added(@)]
               /\ repeated' = repeated \cup {e}
      BY <3>2
    <3>3. QED
      BY <1>10, <3>1, <3>2 DEF Box!EnqueueFails
  <2>4. \A x \in Events \ {e} : row'[x] = row[x] /\ job'[x] = job[x] /\ (x \in repeated' <=> x \in repeated)
    BY <1>10, <1>t, <2>3 DEF Box!EnqueueFails, Box!TypeOK
  <2>5. job'[e] = job[e] \/ (job'[e].state = "waiting" /\ job'[e].made = 0 /\ e \in repeated')
    <3>1. CASE job' = job
      BY <3>1
    <3>2. CASE job' = [job EXCEPT ![e] = Box!Added(@)] /\ e \in repeated'
      <4>1. job'[e] = Box!Added(job[e])
        BY <1>t, <3>2 DEF Box!TypeOK
      <4>2. QED
        BY <3>2, <4>1 DEF Box!Added
    <3>3. QED
      BY <2>3, <3>1, <3>2
  <2>6. Box!TypeOK'
    <3>1. row' \in [Events -> [status : Box!Statuses, attempts : 0..MaxOutboxAttempts]]
      BY <1>10, <1>t, WritesTyped DEF Box!EnqueueFails, Box!TypeOK
    <3>2. job' \in [Events -> [state : Box!JobStates, made : 0..JobAttempts]]
      BY <1>t, <2>3, WritesTyped DEF Box!TypeOK
    <3>3. holds' \in [Pollers -> SUBSET Events] /\ outboxFaults' \in 0..MaxFaults
      BY <1>10, <1>t DEF Box!EnqueueFails, Box!Fault, Box!TypeOK, Box!OutboxAssumption
    <3>4. QED
      BY <1>t, <2>2, <2>3, <3>1, <3>2, <3>3 DEF Box!TypeOK
  <2>7. ASSUME NEW x \in Events
        PROVE  Box!Bounded(x)' /\ Box!HeldByOne(x)' /\ Box!DeliveredOnce(x)'
    <3>1. CASE x = e
      <4>1. Box!Bounded(e)'
        BY <1>i, <1>t, <2>1, <2>2, <2>5 DEF Box!Bounded, Box!Unheld, Box!TypeOK, Box!OutboxAssumption
      <4>2. Box!HeldByOne(e)'
        BY <1>i, <2>1, <2>2, <2>5 DEF Box!HeldByOne
      <4>3. Box!DeliveredOnce(e)'
        <5>1. CASE e \in repeated'
          BY <5>1 DEF Box!DeliveredOnce
        <5>2. CASE e \notin repeated'
          <6>1. job[e].state = "absent" /\ job'[e] = job[e] /\ e \notin repeated
            BY <2>3, <2>5, <5>2
          <6>2. delivered[e] <= 1 /\ delivered[e] # 1
            BY <1>i, <2>2, <6>1 DEF Box!DeliveredOnce, Box!Over, Box!Unheld
          <6>3. QED
            BY <2>1, <2>2, <6>2 DEF Box!DeliveredOnce
        <5>3. QED
          BY <5>1, <5>2
      <4>4. QED
        BY <3>1, <4>1, <4>2, <4>3
    <3>2. CASE x # e
      BY <1>i, <2>2, <2>4, <3>2 DEF Box!Bounded, Box!HeldByOne, Box!DeliveredOnce, Box!Over, Box!Unheld
    <3>3. QED
      BY <3>1, <3>2
  <2>8. QED
    BY <2>6, <2>7 DEF Box!OutboxInv
<1>11. CASE UNCHANGED Box!vars
  BY <1>11, <1>t, <1>i DEF Box!vars, Box!OutboxInv, Box!Bounded, Box!HeldByOne, Box!DeliveredOnce,
       Box!Over, Box!Unheld, Box!TypeOK
<1>12. QED
  BY <1>1, <1>2, <1>3, <1>4, <1>5, <1>6, <1>7, <1>8, <1>9, <1>10, <1>11 DEF Box!Next

LEMMA OutboxSays == Box!OutboxInv => Box!TypeOK /\ Box!ClaimedByOne /\ Box!DuplicateNeedsARace
BY DEF Box!OutboxInv, Box!TypeOK, Box!HeldByOne, Box!DeliveredOnce, Box!ClaimedByOne,
   Box!DuplicateNeedsARace

\* An event is handed to BullMQ by one poller, delivered twice only after a named race,
\* and every variable keeps its type.
THEOREM OutboxCorrect ==
    ASSUME Box!OutboxAssumption
    PROVE  Box!Spec => [](Box!TypeOK /\ Box!ClaimedByOne /\ Box!DuplicateNeedsARace)
<1>1. Box!Init => Box!OutboxInv
  BY OutboxInit
<1>2. Box!OutboxInv /\ [Box!Next]_(Box!vars) => Box!OutboxInv'
  BY OutboxStep
<1>3. QED
  BY <1>1, <1>2, OutboxSays, PTL DEF Box!Spec

\* The job of an event that is over fails no more, and queue.add fails on it only in a race.
LEMMA ReopensInARace ==
    ASSUME Box!OutboxInv, [Box!Next]_(Box!vars), NEW x \in Events, Box!Reopens(x)
    PROVE  x \in repeated'
<1>1. /\ Box!TypeOK
      /\ x \notin repeated => Box!Over(x)
      /\ row[x].status = "processed" /\ row'[x] # row[x] /\ row'[x].status # "processed"
  BY DEF Box!OutboxInv, Box!DeliveredOnce, Box!Reopens
<1>2. ASSUME NEW e \in Events, Box!WriteToOutbox(e)
      PROVE  x \in repeated'
  BY <1>1, <1>2 DEF Box!WriteToOutbox, Box!TypeOK
<1>3. ASSUME NEW e \in Events, Box!Succeed(e)
      PROVE  x \in repeated'
  BY <1>1, <1>3 DEF Box!Succeed, Box!TypeOK
<1>4. ASSUME NEW e \in Events, Box!JobFails(e) \/ Box!Postpone(e)
      PROVE  x \in repeated'
  <2>1. x = e
    BY <1>1, <1>4 DEF Box!JobFails, Box!Postpone, Box!TypeOK
  <2>2. job[e].state = "waiting" /\ repeated' = repeated
    BY <1>4 DEF Box!JobFails, Box!Postpone
  <2>3. QED
    BY <1>1, <2>1, <2>2 DEF Box!Over
<1>5. ASSUME NEW e \in Events, Box!Stall(e)
      PROVE  x \in repeated'
  <2>1. x = e
    BY <1>1, <1>5 DEF Box!Stall, Box!TypeOK
  <2>2. QED
    BY <1>5, <2>1 DEF Box!Stall
<1>6. ASSUME NEW p \in Pollers, Box!Claim(p)
      PROVE  x \in repeated'
  BY <1>1, <1>6 DEF Box!Claim, Box!Pending, Box!TypeOK
<1>7. ASSUME NEW p \in Pollers, NEW e \in Events, Box!EnqueueFails(p, e)
      PROVE  x \in repeated'
  <2>1. x = e /\ e \in holds[p]
    BY <1>1, <1>7 DEF Box!EnqueueFails, Box!TypeOK
  <2>2. x \in repeated \/ job[x].state = "completed"
    BY <1>1, <2>1 DEF Box!Over, Box!Unheld
  <2>3. CASE /\ repeated' = IF job[e].state = "absent" THEN repeated ELSE repeated \cup {e}
             /\ UNCHANGED job
    BY <2>1, <2>2, <2>3
  <2>4. CASE repeated' = repeated \cup {e}
    BY <2>1, <2>4
  <2>5. QED
    BY <1>7, <2>3, <2>4 DEF Box!EnqueueFails
<1>8. ~UNCHANGED row
  BY <1>1
<1>9. QED
  BY <1>2, <1>3, <1>4, <1>5, <1>6, <1>7, <1>8
     DEF Box!Next, Box!vars, Box!Retention, Box!PollerCrash, Box!Enqueue

\* A processed row is reopened by nothing but a late failure: the job of an event
\* that is over fails no more, and queue.add fails on it only in a race.
THEOREM OutboxStaysDone ==
    ASSUME Box!OutboxAssumption
    PROVE  Box!Spec => Box!ReopenedByARace
<1>1. Box!Init => Box!OutboxInv
  BY OutboxInit
<1>2. Box!OutboxInv /\ [Box!Next]_(Box!vars) => Box!OutboxInv'
  BY OutboxStep
<1>3. Box!OutboxInv /\ [Box!Next]_(Box!vars) => [\A e \in Events : Box!Reopens(e) => e \in repeated']_(Box!vars)
  BY ReopensInARace
<1>4. QED
  BY <1>1, <1>2, <1>3, PTL DEF Box!Spec, Box!ReopenedByARace

Handed(e) == row[e].status = "enqueued" => job[e].state # "absent" \/ ~Box!Unheld(e)
HandedInv == \A e \in Events : Handed(e)

\* What happens while no poller dies between its commit and Redis, and BullMQ keeps its jobs.
Calm ==
    \/ \E e \in Events : Box!WriteToOutbox(e) \/ Box!Succeed(e) \/ Box!JobFails(e) \/ Box!Postpone(e) \/ Box!Stall(e)
    \/ \E p \in Pollers : Box!Claim(p) \/ \E e \in Events : Box!Enqueue(p, e) \/ Box!EnqueueFails(p, e)

LEMMA CalmIs == CalmBox!Next => Calm
<1>1. \A kind : CalmBox!Fault(kind) => Box!Fault(kind) /\ kind \notin {"pollerCrash", "retention"}
  BY DEF CalmBox!Fault, Box!Fault
<1>2. \A e \in Events : CalmBox!WriteToOutbox(e) => Box!WriteToOutbox(e)
  BY DEF CalmBox!WriteToOutbox, Box!WriteToOutbox
<1>3. \A e \in Events : CalmBox!Succeed(e) => Box!Succeed(e)
  BY DEF CalmBox!Succeed, Box!Succeed
<1>4. \A e \in Events : CalmBox!JobFails(e) => Box!JobFails(e)
  BY <1>1 DEF CalmBox!JobFails, Box!JobFails, CalmBox!Failed, Box!Failed, CalmBox!Retried, Box!Retried
<1>5. \A e \in Events : CalmBox!Postpone(e) => Box!Postpone(e)
  BY <1>1 DEF CalmBox!Postpone, Box!Postpone, CalmBox!Retried, Box!Retried
<1>6. \A e \in Events : CalmBox!Stall(e) => Box!Stall(e)
  BY <1>1 DEF CalmBox!Stall, Box!Stall, CalmBox!Retried, Box!Retried
<1>7. \A p \in Pollers : CalmBox!Claim(p) => Box!Claim(p)
  BY DEF CalmBox!Claim, Box!Claim, CalmBox!Pending, Box!Pending
<1>8. \A p \in Pollers, e \in Events : CalmBox!Enqueue(p, e) => Box!Enqueue(p, e)
  BY DEF CalmBox!Enqueue, Box!Enqueue, CalmBox!Added, Box!Added
<1>9. \A p \in Pollers, e \in Events : CalmBox!EnqueueFails(p, e) => Box!EnqueueFails(p, e)
  BY <1>1 DEF CalmBox!EnqueueFails, Box!EnqueueFails, CalmBox!Added, Box!Added, CalmBox!Retried,
     Box!Retried
<1>10. ASSUME NEW e \in Events,
              \/ CalmBox!WriteToOutbox(e) \/ CalmBox!Succeed(e) \/ CalmBox!JobFails(e)
              \/ CalmBox!Postpone(e) \/ CalmBox!Stall(e) \/ CalmBox!Retention(e)
       PROVE  Calm
  <2>1. ~CalmBox!Retention(e)
    BY <1>1 DEF CalmBox!Retention
  <2>2. QED
    BY <1>2, <1>3, <1>4, <1>5, <1>6, <1>10, <2>1 DEF Calm
<1>11. ASSUME NEW p \in Pollers,
              \/ CalmBox!Claim(p) \/ CalmBox!PollerCrash(p)
              \/ \E e \in Events : CalmBox!Enqueue(p, e) \/ CalmBox!EnqueueFails(p, e)
       PROVE  Calm
  <2>1. ~CalmBox!PollerCrash(p)
    BY <1>1 DEF CalmBox!PollerCrash
  <2>2. QED
    BY <1>7, <1>8, <1>9, <1>11, <2>1 DEF Calm
<1>12. QED
  BY <1>10, <1>11 DEF CalmBox!Next

LEMMA CalmIsBox == CalmBox!Next => Box!Next
BY CalmIs DEF Calm, Box!Next

LEMMA HandsOverStep ==
    ASSUME Box!OutboxAssumption, Box!TypeOK, HandedInv, Calm \/ UNCHANGED Box!vars, NEW x \in Events, row'[x].status = "enqueued"
    PROVE  job'[x].state # "absent" \/ ~Box!Unheld(x)'
<1>1. Box!TypeOK /\ Handed(x)
  BY DEF HandedInv
<1>2. ASSUME NEW e \in Events,
     Box!WriteToOutbox(e) \/ Box!Succeed(e) \/ Box!JobFails(e) \/ Box!Postpone(e) \/ Box!Stall(e)
      PROVE  job'[x].state # "absent" \/ ~Box!Unheld(x)'
  <2>1. row'[x].status = row[x].status /\ UNCHANGED holds
    BY <1>1, <1>2
       DEF Box!WriteToOutbox, Box!Succeed, Box!JobFails, Box!Postpone, Box!Stall, Box!Retried, Box!TypeOK
  <2>2. job[x].state # "absent" => job'[x].state # "absent"
    <3>1. \/ UNCHANGED job
          \/ job' = [job EXCEPT ![e].state = "completed"]
          \/ job' = [job EXCEPT ![e] = Box!Failed(@)]
      BY <1>2 DEF Box!WriteToOutbox, Box!Succeed, Box!JobFails, Box!Postpone, Box!Stall
    <3>2. CASE job' = [job EXCEPT ![e].state = "completed"]
      BY <1>1, <3>2 DEF Box!TypeOK
    <3>3. CASE job' = [job EXCEPT ![e] = Box!Failed(@)]
      <4>1. Box!Failed(job[e]).state # "absent"
        BY DEF Box!Failed
      <4>2. QED
        BY <1>1, <3>3, <4>1 DEF Box!TypeOK
    <3>4. QED
      BY <3>1, <3>2, <3>3
  <2>3. QED
    BY <1>1, <2>1, <2>2 DEF Handed, Box!Unheld
<1>3. ASSUME NEW p \in Pollers, Box!Claim(p)
      PROVE  job'[x].state # "absent" \/ ~Box!Unheld(x)'
  <2>1. CASE x \in Box!Pending
    <3>1. x \in holds'[p]
      BY <1>1, <1>3, <2>1 DEF Box!Claim, Box!TypeOK
    <3>2. QED
      BY <3>1 DEF Box!Unheld
  <2>2. CASE x \notin Box!Pending
    <3>1. row'[x] = row[x] /\ UNCHANGED job
      BY <1>3, <2>2 DEF Box!Claim
    <3>2. \A q \in Pollers : x \in holds[q] => x \in holds'[q]
      BY <1>1, <1>3 DEF Box!Claim, Box!TypeOK
    <3>3. QED
      BY <1>1, <3>1, <3>2 DEF Handed, Box!Unheld
  <2>3. QED
    BY <2>1, <2>2
<1>4. ASSUME NEW p \in Pollers, NEW e \in Events, Box!Enqueue(p, e) \/ Box!EnqueueFails(p, e)
      PROVE  job'[x].state # "absent" \/ ~Box!Unheld(x)'
  <2>1. CASE x # e
    <3>1. row'[x] = row[x] /\ job'[x] = job[x]
      BY <1>1, <1>4, <2>1 DEF Box!Enqueue, Box!EnqueueFails, Box!TypeOK
    <3>2. \A q \in Pollers : x \in holds[q] => x \in holds'[q]
      BY <1>1, <1>4, <2>1 DEF Box!Enqueue, Box!EnqueueFails, Box!TypeOK
    <3>3. QED
      BY <1>1, <3>1, <3>2 DEF Handed, Box!Unheld
  <2>2. CASE x = e /\ Box!Enqueue(p, e)
    BY <1>1, <2>2 DEF Box!Enqueue, Box!Added, Box!TypeOK
  <2>3. CASE x = e /\ Box!EnqueueFails(p, e)
    <3>1. row'[x] = Box!Retried(row[x])
      BY <1>1, <2>3 DEF Box!EnqueueFails, Box!TypeOK
    <3>2. QED
      BY <1>1, <3>1, WritesTyped
  <2>4. QED
    BY <1>4, <2>1, <2>2, <2>3
<1>5. CASE UNCHANGED Box!vars
  BY <1>1, <1>5 DEF Box!vars, Handed, Box!Unheld
<1>6. QED
  BY <1>2, <1>3, <1>4, <1>5 DEF Calm

\* While no poller dies between its commit and Redis, and BullMQ keeps its jobs,
\* no row says 'enqueued' in vain.
THEOREM OutboxHandsOver ==
    ASSUME Box!OutboxAssumption
    PROVE  CalmBox!Spec => []CalmBox!EnqueuedIsHandedOver
<1>1. CalmBox!Init => Box!OutboxInv /\ HandedInv
  <2>1. CalmBox!Init => Box!Init
    BY DEF CalmBox!Init, Box!Init
  <2>2. Box!Init => HandedInv
    BY DEF Box!Init, HandedInv, Handed
  <2>3. QED
    BY <2>1, <2>2, OutboxInit
<1>2. Box!OutboxInv /\ HandedInv /\ [CalmBox!Next]_(CalmBox!vars) => Box!OutboxInv' /\ HandedInv'
  <2>1. SUFFICES ASSUME Box!OutboxInv, HandedInv, [CalmBox!Next]_(CalmBox!vars)
                 PROVE  Box!OutboxInv' /\ HandedInv'
    OBVIOUS
  <2>2. [Box!Next]_(Box!vars) /\ (Calm \/ UNCHANGED Box!vars)
    BY <2>1, CalmIs, CalmIsBox DEF CalmBox!vars, Box!vars
  <2>3. Box!OutboxInv' /\ Box!TypeOK
    BY <2>1, <2>2, OutboxStep DEF Box!OutboxInv
  <2>4. HandedInv'
    BY <2>1, <2>2, <2>3, HandsOverStep DEF HandedInv, Handed
  <2>5. QED
    BY <2>3, <2>4
<1>3. HandedInv => CalmBox!EnqueuedIsHandedOver
  BY DEF HandedInv, Handed, Box!Unheld, CalmBox!EnqueuedIsHandedOver
<1>4. QED
  BY <1>1, <1>2, <1>3, PTL DEF CalmBox!Spec
-----------------------------------------------------------------------------
\* Deliveries.

\* A run that has claimed and not yet given up what it claimed.
Has(w) == run[w].pc \in {"send", "store", "finish", "bounced", "error"}
Sends == {"send", "store"}

\* Attempts are left to a row that waits, and to a job that waits or runs.
AttemptsLeft ==
    /\ outbox.status = "pending" => outbox.attempts < MaxAttempts
    /\ queued.state \in {"waiting", "active"} => queued.made < MaxAttempts

\* Emails and texts: while the message can be claimed nobody has it, and what was sent
\* is known by the provider's id or by the run that is about to store it.
MessageOnce ==
    /\ message.status \in {"pending", "failed"} /\ message.attempts < MaxAttempts /\ ~message.provider
         => \A w \in Workers : ~Has(w)
    /\ \A v, w \in Workers : v # w /\ Has(v) /\ Has(w) => message.attempts >= MaxAttempts \/ message.provider
    /\ \A v, w \in Workers : v # w => ~(run[v].pc \in Sends /\ run[w].pc \in Sends \cup {"finish"})
    /\ \A w \in Workers : run[w].pc = "send" => sends = 0
    /\ sends <= 1
    /\ sends = 0 \/ message.provider \/ \E w \in Workers : run[w].pc = "store"

\* Pushes: the same of the row of the outbox; what was sent is accepted, and not put back.
PushKnows ==
    /\ ~message.provider
    /\ \A w \in Workers : run[w].pc \in {"idle", "claim", "send", "finish", "error", "unclaimed"}
PushOnce ==
    /\ outbox.status \notin {"processing", "processed"} => \A w \in Workers : ~Has(w)
    /\ \A v, w \in Workers : Has(v) /\ Has(w) => v = w
    /\ \A w \in Workers : run[w].pc \in {"send", "error"} => sends = 0
    /\ sends <= 1
    /\ \/ sends = 0 \/ \E w \in Workers : run[w].pc = "finish"
       \/ outbox.status = "processed" /\ delivery.state \notin Sending!Sendable

SendInv ==
    /\ Sending!TypeOK /\ AttemptsLeft
    /\ notice.channel # "push" => (~raced => MessageOnce)
    /\ notice.channel = "push" => PushKnows /\ (~raced => PushOnce)

\* The types of TypeOK, by name.
Notices == [channel : Channels, due : BOOLEAN, superseded : BOOLEAN, optedOut : BOOLEAN]
DeliveryRows == [state : Sending!DeliveryStates, attempts : 0..MaxAttempts]
Messages == [status : {"pending", "sending", "sent", "failed", "suppressed"},
             attempts : 0..MaxAttempts, provider : BOOLEAN, old : BOOLEAN]
OutboxRows == [status : {"pending", "enqueued", "processing", "processed", "failed"},
               attempts : 0..MaxAttempts, old : BOOLEAN]
QueuedJobs == [state : {"absent", "waiting", "active", "completed", "failed"}, made : 0..MaxAttempts]
Runs == [pc : {"idle", "claim", "send", "store", "finish", "error", "unclaimed", "bounced", "suppressed"}, late : BOOLEAN]
SendTyped ==
    /\ notice \in Notices /\ delivery \in DeliveryRows /\ message \in Messages
    /\ outbox \in OutboxRows /\ queued \in QueuedJobs /\ run \in [Workers -> Runs]
    /\ sends \in Nat /\ faults \in 0..MaxFaults

LEMMA SendTypes == Sending!TypeOK <=> SendTyped /\ raced \in BOOLEAN
BY DEF Sending!TypeOK, SendTyped, Notices, DeliveryRows, Messages, OutboxRows, QueuedJobs, Runs

LEMMA SendInit == Sending!DeliveryAssumption /\ Sending!Init => SendInv
<1> SUFFICES ASSUME Sending!DeliveryAssumption, Sending!Init PROVE SendInv
  OBVIOUS
<1>0. MaxAttempts \in Nat \ {0} /\ MaxFaults \in Nat
  BY DEF Sending!DeliveryAssumption
<1>1. \A w \in Workers : run[w].pc = "idle"
  BY DEF Sending!Init, Sending!NoRun
<1>2. notice \in Notices
  BY DEF Sending!Init, Notices
<1>3. delivery \in DeliveryRows
  BY <1>0 DEF Sending!Init, DeliveryRows, Sending!DeliveryStates
<1>4. message \in Messages /\ outbox \in OutboxRows /\ queued \in QueuedJobs
  BY <1>0 DEF Sending!Init, Messages, OutboxRows, QueuedJobs
<1>5. run \in [Workers -> Runs]
  BY DEF Sending!Init, Runs, Sending!NoRun
<1>6. sends \in Nat /\ faults \in 0..MaxFaults /\ raced \in BOOLEAN
  <2>1. sends = 0 /\ faults = 0 /\ raced = FALSE
    BY DEF Sending!Init
  <2>2. sends \in Nat /\ faults \in 0..MaxFaults
    BY <1>0, <2>1
  <2>3. raced \in BOOLEAN
    BY <2>1
  <2> QED BY <2>2, <2>3
<1>9. SendTyped
  BY <1>2, <1>3, <1>4, <1>5, <1>6 DEF SendTyped
<1>7. AttemptsLeft
  BY <1>0 DEF AttemptsLeft, Sending!Init
<1>8. MessageOnce /\ PushKnows /\ PushOnce
  BY <1>1 DEF Sending!Init, MessageOnce, PushKnows, PushOnce, Has, Sends
<1> QED BY <1>6, <1>9, <1>7, <1>8, SendTypes DEF SendInv

\* The writes of the workers stay in their types.
LEMMA SendWrites ==
    ASSUME Sending!DeliveryAssumption, SendTyped, AttemptsLeft
    PROVE  /\ Sending!Accepted(delivery) \in DeliveryRows
           /\ Sending!Accepted(delivery).state \notin Sending!Sendable
           /\ Sending!Suppressed(delivery) \in DeliveryRows
           /\ Sending!Suppressed(delivery).state \notin Sending!Sendable
           /\ Sending!Cancelled(delivery) \in DeliveryRows
           /\ Sending!Cancelled(delivery).state \notin Sending!Sendable
           /\ Sending!DeliveryFailure(delivery) \in DeliveryRows
           /\ Sending!Processed(outbox) \in OutboxRows
           /\ Sending!Processed(outbox).status = "processed"
           /\ Sending!PutBack(outbox) \in OutboxRows
           /\ (Sending!PutBack(outbox).status = "pending" => Sending!PutBack(outbox).attempts < MaxAttempts)
           /\ Sending!PutBack(outbox).status \in {"pending", "failed"}
           /\ Sending!Completed(queued) \in QueuedJobs
           /\ (Sending!Completed(queued).state \in {"waiting", "active"} => Sending!Completed(queued).made < MaxAttempts)
           /\ Sending!Thrown(queued) \in QueuedJobs
           /\ (Sending!Thrown(queued).state \in {"waiting", "active"} => Sending!Thrown(queued).made < MaxAttempts)
<1>1. /\ MaxAttempts \in Nat \ {0}
      /\ delivery \in DeliveryRows
      /\ outbox \in OutboxRows
      /\ queued \in QueuedJobs
  BY DEF Sending!DeliveryAssumption, SendTyped
<1>2. /\ Sending!Accepted(delivery) \in DeliveryRows
      /\ Sending!Accepted(delivery).state \notin Sending!Sendable
  BY <1>1 DEF DeliveryRows, Sending!Accepted, Sending!Least, Sending!DeliveryStates, Sending!Sendable
<1>3. /\ Sending!Suppressed(delivery) \in DeliveryRows
      /\ Sending!Suppressed(delivery).state \notin Sending!Sendable
      /\ Sending!Cancelled(delivery) \in DeliveryRows
      /\ Sending!Cancelled(delivery).state \notin Sending!Sendable
  BY <1>1 DEF DeliveryRows, Sending!Suppressed, Sending!Cancelled, Sending!DeliveryStates,
     Sending!Sendable
<1>4. Sending!DeliveryFailure(delivery) \in DeliveryRows
  BY <1>1 DEF DeliveryRows, Sending!DeliveryFailure, Sending!Least, Sending!DeliveryStates
<1>5. /\ Sending!Processed(outbox) \in OutboxRows
      /\ Sending!Processed(outbox).status = "processed"
  BY <1>1 DEF OutboxRows, Sending!Processed
<1>6. /\ Sending!PutBack(outbox) \in OutboxRows
      /\ (Sending!PutBack(outbox).status = "pending" => Sending!PutBack(outbox).attempts < MaxAttempts)
      /\ Sending!PutBack(outbox).status \in {"pending", "failed"}
  BY <1>1 DEF OutboxRows, Sending!PutBack
<1>7. /\ Sending!Completed(queued) \in QueuedJobs
      /\ (Sending!Completed(queued).state \in {"waiting", "active"} => Sending!Completed(queued).made < MaxAttempts)
  BY <1>1 DEF QueuedJobs, Sending!Completed, AttemptsLeft
<1>8. /\ Sending!Thrown(queued) \in QueuedJobs
      /\ (Sending!Thrown(queued).state \in {"waiting", "active"} => Sending!Thrown(queued).made < MaxAttempts)
  BY <1>1 DEF QueuedJobs, Sending!Thrown, AttemptsLeft
<1> QED BY <1>2, <1>3, <1>4, <1>5, <1>6, <1>7, <1>8

\* So do the other writes.
LEMMA RowWrites ==
    ASSUME Sending!DeliveryAssumption, SendTyped, AttemptsLeft
    PROVE  /\ [notice EXCEPT !.due = TRUE] \in Notices
           /\ [notice EXCEPT !.superseded = TRUE] \in Notices
           /\ [notice EXCEPT !.optedOut = TRUE] \in Notices
           /\ notice.superseded \in BOOLEAN
           /\ [delivery EXCEPT !.state = "queued"] \in DeliveryRows
           /\ [delivery EXCEPT !.state = "cancelled_superseded"] \in DeliveryRows
           /\ [message EXCEPT !.old = TRUE] \in Messages /\ [message EXCEPT !.old = FALSE] \in Messages
           /\ [message EXCEPT !.provider = TRUE] \in Messages
           /\ \A s \in {"pending", "failed", "sent", "suppressed"} : [message EXCEPT !.status = s] \in Messages
           /\ ~Sending!Exhausted => Sending!Sending(message) \in Messages
           /\ [outbox EXCEPT !.old = TRUE] \in OutboxRows /\ [outbox EXCEPT !.old = FALSE] \in OutboxRows
           /\ [outbox EXCEPT !.status = "processing", !.old = FALSE] \in OutboxRows
           /\ outbox.status = "pending" => [outbox EXCEPT !.status = "enqueued", !.attempts = @ + 1] \in OutboxRows
           /\ \A s \in {"active", "waiting", "completed"} : [queued EXCEPT !.state = s] \in QueuedJobs
           /\ [state |-> "waiting", made |-> 0] \in QueuedJobs
<1>a. MaxAttempts \in Nat \ {0}
  BY DEF Sending!DeliveryAssumption
<1>1. /\ [notice EXCEPT !.due = TRUE] \in Notices
      /\ [notice EXCEPT !.superseded = TRUE] \in Notices
      /\ [notice EXCEPT !.optedOut = TRUE] \in Notices
      /\ notice.superseded \in BOOLEAN
  BY DEF SendTyped, Notices
<1>2. /\ [delivery EXCEPT !.state = "queued"] \in DeliveryRows
      /\ [delivery EXCEPT !.state = "cancelled_superseded"] \in DeliveryRows
  BY DEF SendTyped, DeliveryRows, Sending!DeliveryStates
<1>3. message \in Messages
  BY DEF SendTyped
<1>4. /\ [message EXCEPT !.provider = TRUE] \in Messages
      /\ \A s \in {"pending", "failed", "sent", "suppressed"} : [message EXCEPT !.status = s] \in Messages
  BY <1>3 DEF Messages
<1>10. [message EXCEPT !.old = TRUE] \in Messages /\ [message EXCEPT !.old = FALSE] \in Messages
  BY <1>3 DEF Messages
<1>5. ASSUME ~Sending!Exhausted PROVE Sending!Sending(message) \in Messages
  <2> DEFINE n == IF message.status = "sending" THEN message.attempts ELSE message.attempts + 1
  <2>1. n \in 0..MaxAttempts
    BY <1>a, <1>3, <1>5 DEF Messages, Sending!Exhausted
  <2>2. Sending!Sending(message) = [message EXCEPT !.status = "sending", !.old = FALSE, !.attempts = n]
    BY <1>3 DEF Sending!Sending, Messages
  <2> HIDE DEF n
  <2> QED BY <1>3, <2>1, <2>2 DEF Messages
<1>6. outbox \in OutboxRows /\ queued \in QueuedJobs
  BY DEF SendTyped
<1>11. [outbox EXCEPT !.old = TRUE] \in OutboxRows /\ [outbox EXCEPT !.old = FALSE] \in OutboxRows
  BY <1>6 DEF OutboxRows
<1>7. [outbox EXCEPT !.status = "processing", !.old = FALSE] \in OutboxRows
  BY <1>6 DEF OutboxRows
<1>8. ASSUME outbox.status = "pending" PROVE [outbox EXCEPT !.status = "enqueued", !.attempts = @ + 1] \in OutboxRows
  <2> DEFINE n == outbox.attempts + 1
  <2>1. n \in 0..MaxAttempts
    BY <1>a, <1>6, <1>8 DEF OutboxRows, AttemptsLeft
  <2>2. [outbox EXCEPT !.status = "enqueued", !.attempts = @ + 1] = [outbox EXCEPT !.status = "enqueued", !.attempts = n]
    BY <1>6 DEF OutboxRows
  <2> HIDE DEF n
  <2> QED BY <1>6, <2>1, <2>2 DEF OutboxRows
<1>9. /\ \A s \in {"active", "waiting", "completed"} : [queued EXCEPT !.state = s] \in QueuedJobs
      /\ [state |-> "waiting", made |-> 0] \in QueuedJobs
  BY <1>a, <1>6 DEF QueuedJobs
<1> QED BY <1>1, <1>2, <1>4, <1>5, <1>7, <1>8, <1>9, <1>10, <1>11

\* A run is where a step leaves it, and no other run moves.
RunAt(w, pc) == run' \in [Workers -> Runs] /\ run'[w].pc = pc /\ \A v \in Workers \ {w} : run'[v] = run[v]

LEMMA RunMoves ==
    ASSUME notice \in Notices, run \in [Workers -> Runs], NEW w \in Workers
    PROVE  /\ Sending!Return(w) => RunAt(w, "idle")
           /\ run' = [run EXCEPT ![w] = Sending!NoRun] => RunAt(w, "idle")
           /\ Sending!Claimed(w) => RunAt(w, "send")
           /\ \A pc \in {"claim", "store", "finish", "error", "unclaimed", "bounced", "suppressed"} :
                Sending!Goto(w, pc) => RunAt(w, pc)
<1>1. ASSUME NEW r \in Runs, run' = [run EXCEPT ![w] = r] PROVE RunAt(w, r.pc)
  BY <1>1 DEF RunAt
<1>2. Sending!NoRun \in Runs /\ Sending!NoRun.pc = "idle"
  BY DEF Runs, Sending!NoRun
<1>3. Sending!Claimed(w) => RunAt(w, "send")
  <2> DEFINE r == [pc |-> "send", late |-> notice.superseded]
  <2>1. r \in Runs /\ r.pc = "send"
    BY DEF Runs, Notices
  <2>2. Sending!Claimed(w) => run' = [run EXCEPT ![w] = r]
    BY DEF Sending!Claimed
  <2> HIDE DEF r
  <2> QED BY <1>1, <2>1, <2>2
<1>4. ASSUME NEW pc \in {"claim", "store", "finish", "error", "unclaimed", "bounced", "suppressed"}, Sending!Goto(w, pc)
      PROVE  RunAt(w, pc)
  <2> DEFINE r == [run[w] EXCEPT !.pc = pc]
  <2>1. r \in Runs /\ r.pc = pc
    BY DEF Runs
  <2>2. run' = [run EXCEPT ![w] = r]
    BY <1>4 DEF Sending!Goto
  <2> HIDE DEF r
  <2> QED BY <1>1, <2>1, <2>2
<1> QED BY <1>1, <1>2, <1>3, <1>4 DEF Sending!Return

\* Every step keeps the types, and attempts for what waits.
LEMMA SendTypedStep ==
    ASSUME Sending!DeliveryAssumption, SendTyped, AttemptsLeft, Sending!Next
    PROVE  SendTyped' /\ AttemptsLeft'
<1>a. MaxAttempts \in Nat \ {0} /\ MaxFaults \in Nat
  BY DEF Sending!DeliveryAssumption
<1>t. /\ notice \in Notices /\ delivery \in DeliveryRows /\ message \in Messages
      /\ outbox \in OutboxRows /\ queued \in QueuedJobs /\ run \in [Workers -> Runs]
      /\ sends \in Nat /\ faults \in 0..MaxFaults
  BY DEF SendTyped
<1>f. \A kind : Sending!Fault(kind) => faults' \in 0..MaxFaults
  BY <1>a, <1>t DEF Sending!Fault
<1>1. CASE Sending!BecomeDue
  BY <1>a, <1>t, <1>1, SendWrites, RowWrites DEF Sending!BecomeDue, AttemptsLeft, SendTyped
<1>2. CASE Sending!Enqueue
  BY <1>a, <1>t, <1>2, SendWrites, RowWrites DEF Sending!Enqueue, AttemptsLeft, SendTyped
<1>3. CASE Sending!Supersede
  BY <1>a, <1>t, <1>3, SendWrites, RowWrites DEF Sending!Supersede, AttemptsLeft, SendTyped
<1>4. CASE Sending!OptOut
  BY <1>a, <1>t, <1>4, SendWrites, RowWrites DEF Sending!OptOut, AttemptsLeft, SendTyped
<1>5. CASE Sending!ClaimAges
  <2>1. UNCHANGED <<notice, delivery, queued, run, sends, raced, faults>>
    BY <1>5 DEF Sending!ClaimAges
  <2>2. message' = [message EXCEPT !.old = TRUE] \/ message' = [message EXCEPT !.old = FALSE]
    BY <1>5 DEF Sending!ClaimAges
  <2>3. outbox' = [outbox EXCEPT !.old = TRUE] \/ outbox' = [outbox EXCEPT !.old = FALSE]
    BY <1>5 DEF Sending!ClaimAges
  <2>4. message' \in Messages /\ outbox' \in OutboxRows
    BY <2>2, <2>3, RowWrites
  <2>5. outbox'.status = outbox.status /\ outbox'.attempts = outbox.attempts
    BY <1>t, <2>3 DEF OutboxRows
  <2> QED BY <1>t, <2>1, <2>4, <2>5 DEF SendTyped, AttemptsLeft
<1>6. ASSUME NEW w \in Workers, Sending!Take(w) PROVE SendTyped' /\ AttemptsLeft'
  BY <1>a, <1>t, <1>f, <1>6, SendWrites, RowWrites, RunMoves DEF Sending!Take, SendTyped, AttemptsLeft,
     RunAt, QueuedJobs
<1>7. ASSUME NEW w \in Workers, Sending!Retire(w) PROVE SendTyped' /\ AttemptsLeft'
  BY <1>a, <1>t, <1>f, <1>7, SendWrites, RowWrites, RunMoves DEF Sending!Retire, SendTyped, AttemptsLeft,
     RunAt, QueuedJobs
<1>8. ASSUME NEW w \in Workers, Sending!Replay(w) PROVE SendTyped' /\ AttemptsLeft'
  BY <1>a, <1>t, <1>f, <1>8, SendWrites, RowWrites, RunMoves DEF Sending!Replay, Sending!Return,
     SendTyped, AttemptsLeft, RunAt
<1>9. ASSUME NEW w \in Workers, Sending!EmailClaim(w) PROVE SendTyped' /\ AttemptsLeft'
  <2>1. message' \in Messages
    BY <1>t, <1>9, RowWrites DEF Sending!EmailClaim
  <2>2. run' \in [Workers -> Runs]
    BY <1>t, <1>9, RunMoves DEF Sending!EmailClaim, RunAt
  <2>3. outbox' = outbox \/ outbox' = Sending!Processed(outbox)
    BY <1>9 DEF Sending!EmailClaim
  <2>4. queued' = queued \/ queued' = Sending!Completed(queued)
    BY <1>9 DEF Sending!EmailClaim, Sending!Return
  <2>5. UNCHANGED <<notice, delivery, sends, faults>>
    BY <1>9 DEF Sending!EmailClaim
  <2> QED BY <1>t, <2>1, <2>2, <2>3, <2>4, <2>5, SendWrites DEF SendTyped, AttemptsLeft
<1>10. ASSUME NEW w \in Workers, Sending!SmsClaim(w) PROVE SendTyped' /\ AttemptsLeft'
  <2>1. message' \in Messages
    BY <1>t, <1>10, RowWrites DEF Sending!SmsClaim
  <2>2. run' \in [Workers -> Runs]
    BY <1>t, <1>10, RunMoves DEF Sending!SmsClaim, RunAt
  <2>3. queued' = queued \/ queued' = Sending!Completed(queued)
    BY <1>10 DEF Sending!SmsClaim, Sending!Return
  <2>4. UNCHANGED <<notice, delivery, outbox, sends, faults>>
    BY <1>10 DEF Sending!SmsClaim
  <2> QED BY <1>t, <2>1, <2>2, <2>3, <2>4, SendWrites DEF SendTyped, AttemptsLeft
<1>11. ASSUME NEW w \in Workers, Sending!PushClaim(w) PROVE SendTyped' /\ AttemptsLeft'
  <2>1. outbox' \in OutboxRows
    BY <1>t, <1>11, RowWrites DEF Sending!PushClaim
  <2>2. run' \in [Workers -> Runs]
    BY <1>t, <1>11, RunMoves DEF Sending!PushClaim, RunAt
  <2>3. queued' = queued \/ queued' = Sending!Completed(queued)
    BY <1>11 DEF Sending!PushClaim, Sending!Return
  <2>4. outbox' = outbox \/ outbox'.status = "processing"
    BY <1>t, <1>11 DEF Sending!PushClaim, OutboxRows
  <2>5. UNCHANGED <<notice, delivery, message, sends, faults>>
    BY <1>11 DEF Sending!PushClaim
  <2> QED BY <1>t, <2>1, <2>2, <2>3, <2>4, <2>5, SendWrites DEF SendTyped, AttemptsLeft
<1>12. ASSUME NEW w \in Workers, Sending!EmailOptedOut(w) PROVE SendTyped' /\ AttemptsLeft'
  BY <1>a, <1>t, <1>f, <1>12, SendWrites, RowWrites, RunMoves DEF Sending!EmailOptedOut, Sending!Return,
     SendTyped, AttemptsLeft, RunAt
<1>13. ASSUME NEW w \in Workers, Sending!Send(w) PROVE SendTyped' /\ AttemptsLeft'
  <2>1. run' \in [Workers -> Runs]
    BY <1>t, <1>13, RunMoves DEF Sending!Send, RunAt
  <2>2. sends' \in Nat /\ faults' \in 0..MaxFaults
    BY <1>t, <1>f, <1>13 DEF Sending!Send
  <2>3. UNCHANGED <<notice, delivery, message, outbox, queued>>
    BY <1>13 DEF Sending!Send
  <2> QED BY <1>t, <2>1, <2>2, <2>3 DEF SendTyped, AttemptsLeft
<1>14. ASSUME NEW w \in Workers, Sending!StoreProviderId(w) PROVE SendTyped' /\ AttemptsLeft'
  BY <1>a, <1>t, <1>f, <1>14, SendWrites, RowWrites, RunMoves DEF Sending!StoreProviderId, SendTyped,
     AttemptsLeft, RunAt
<1>15. ASSUME NEW w \in Workers, Sending!MessageFinish(w) PROVE SendTyped' /\ AttemptsLeft'
  <2>1. message' \in Messages /\ delivery' \in DeliveryRows
    BY <1>t, <1>15, SendWrites, RowWrites DEF Sending!MessageFinish
  <2>2. outbox' = outbox \/ outbox' = Sending!Processed(outbox)
    BY <1>15 DEF Sending!MessageFinish
  <2>3. run' \in [Workers -> Runs]
    BY <1>t, <1>15, RunMoves DEF Sending!MessageFinish, RunAt
  <2>4. queued' = Sending!Completed(queued)
    BY <1>15 DEF Sending!MessageFinish, Sending!Return
  <2>5. UNCHANGED <<notice, sends, faults>>
    BY <1>15 DEF Sending!MessageFinish
  <2> QED BY <1>t, <2>1, <2>2, <2>3, <2>4, <2>5, SendWrites DEF SendTyped, AttemptsLeft
<1>16. ASSUME NEW w \in Workers, Sending!PushFinish(w) PROVE SendTyped' /\ AttemptsLeft'
  BY <1>a, <1>t, <1>f, <1>16, SendWrites, RowWrites, RunMoves DEF Sending!PushFinish, Sending!Return,
     SendTyped, AttemptsLeft, RunAt
<1>17. ASSUME NEW w \in Workers, Sending!Fail(w) PROVE SendTyped' /\ AttemptsLeft'
  BY <1>a, <1>t, <1>f, <1>17, SendWrites, RowWrites, RunMoves DEF Sending!Fail, Sending!Ending,
     SendTyped, AttemptsLeft, RunAt
<1>18. ASSUME NEW w \in Workers, Sending!EmailSuppressed(w) PROVE SendTyped' /\ AttemptsLeft'
  BY <1>a, <1>t, <1>f, <1>18, SendWrites, RowWrites, RunMoves DEF Sending!EmailSuppressed,
     Sending!Return, SendTyped, AttemptsLeft, RunAt
<1>19. ASSUME NEW w \in Workers, Sending!EmailBounced(w) PROVE SendTyped' /\ AttemptsLeft'
  BY <1>a, <1>t, <1>f, <1>19, SendWrites, RowWrites, RunMoves DEF Sending!EmailBounced, Sending!Ending,
     SendTyped, AttemptsLeft, RunAt
<1>20. ASSUME NEW w \in Workers, Sending!NotDue(w) PROVE SendTyped' /\ AttemptsLeft'
  BY <1>a, <1>t, <1>f, <1>20, SendWrites, RowWrites, RunMoves DEF Sending!NotDue, SendTyped,
     AttemptsLeft, RunAt, QueuedJobs
<1>21. ASSUME NEW w \in Workers, Sending!PushNoDevice(w) PROVE SendTyped' /\ AttemptsLeft'
  BY <1>a, <1>t, <1>f, <1>21, SendWrites, RowWrites, RunMoves DEF Sending!PushNoDevice, Sending!Return,
     SendTyped, AttemptsLeft, RunAt
<1>22. ASSUME NEW w \in Workers, Sending!FinishFails(w) PROVE SendTyped' /\ AttemptsLeft'
  BY <1>a, <1>t, <1>f, <1>22, SendWrites, RowWrites, RunMoves DEF Sending!FinishFails, SendTyped,
     AttemptsLeft, RunAt
<1>23. ASSUME NEW w \in Workers, Sending!Crash(w) PROVE SendTyped' /\ AttemptsLeft'
  BY <1>a, <1>t, <1>f, <1>23, SendWrites, RowWrites, RunMoves DEF Sending!Crash, SendTyped, AttemptsLeft,
     RunAt, QueuedJobs
<1>24. ASSUME NEW w \in Workers, Sending!ClaimFails(w) PROVE SendTyped' /\ AttemptsLeft'
  BY <1>a, <1>t, <1>f, <1>24, RunMoves DEF Sending!ClaimFails, SendTyped, AttemptsLeft, RunAt
<1>25. ASSUME NEW w \in Workers, Sending!StoreFails(w) PROVE SendTyped' /\ AttemptsLeft'
  BY <1>a, <1>t, <1>f, <1>25, RunMoves DEF Sending!StoreFails, SendTyped, AttemptsLeft, RunAt
<1> QED BY <1>1, <1>2, <1>3, <1>4, <1>5, <1>6, <1>7, <1>8, <1>9, <1>10, <1>11, <1>12, <1>13, <1>14, <1>15,
     <1>16, <1>17, <1>18, <1>19, <1>20, <1>21, <1>22, <1>23, <1>24, <1>25 DEF Sending!Next, Sending!Step

\* A run that ends leaves the others alone; if it has sent, the provider's id is stored.
LEMMA RunQuits ==
    ASSUME sends \in Nat, run \in [Workers -> Runs], MessageOnce, NEW w \in Workers, RunAt(w, "idle"),
           run[w].pc = "store" => message.provider, sends' = sends,
           message'.attempts = message.attempts, message'.provider = message.provider,
           message'.status = message.status \/ message'.status \in {"sent", "suppressed"}
    PROVE  MessageOnce'
BY DEF MessageOnce, Has, Sends, RunAt

\* And one that claims the message is the first to have it.
LEMMA RunClaims ==
    ASSUME sends \in Nat, run \in [Workers -> Runs], MessageOnce, NEW w \in Workers, RunAt(w, "send"),
           message.status \in {"pending", "failed"}, ~message.provider, message.attempts < MaxAttempts,
           sends' = sends, message'.status = "sending", message'.provider = message.provider
    PROVE  MessageOnce'
BY DEF MessageOnce, Has, Sends, RunAt

\* Runs that look at the message and do not take it.
LEMMA RunPasses ==
    ASSUME sends \in Nat, MaxAttempts \in Nat, run \in [Workers -> Runs], message \in Messages, MessageOnce, NEW w \in Workers,
           run[w].pc = "claim", message' = message, sends' = sends,
           \/ RunAt(w, "idle") \/ RunAt(w, "suppressed")
           \/ RunAt(w, "error") /\ message.attempts >= MaxAttempts
    PROVE  MessageOnce'
BY DEF MessageOnce, Has, Sends, RunAt, Messages
\* Emails and texts are sent once.
LEMMA MessageStep ==
    ASSUME Sending!DeliveryAssumption, SendTyped, notice.channel # "push", MessageOnce, Sending!Next, ~raced'
    PROVE  MessageOnce'
<1>a. MaxAttempts \in Nat \ {0} /\ MaxFaults \in Nat
  BY DEF Sending!DeliveryAssumption
<1>t. notice \in Notices /\ message \in Messages /\ run \in [Workers -> Runs] /\ sends \in Nat
  BY DEF SendTyped
<1>m. message.attempts \in 0..MaxAttempts
  BY <1>t DEF Messages
<1>s. Sending!Sending(message).status = "sending" /\ Sending!Sending(message).provider = message.provider
  BY <1>t DEF Sending!Sending, Messages
<1>r. ASSUME NEW w \in Workers, run[w].pc = "claim", ~message.provider, sends' = sends,
             \/ message' = message /\ RunAt(w, "idle")
             \/ message' = message /\ RunAt(w, "suppressed")
             \/ message' = message /\ RunAt(w, "error") /\ message.attempts >= MaxAttempts
             \/ /\ message' = Sending!Sending(message) /\ message.attempts < MaxAttempts
                /\ message.status \in {"pending", "failed"} /\ RunAt(w, "send")
      PROVE  MessageOnce'
  BY <1>a, <1>t, <1>s, <1>r, RunPasses, RunClaims
<1>1. CASE Sending!BecomeDue
  BY <1>t, <1>m, <1>1 DEF Sending!BecomeDue, Sending!Channel, MessageOnce, Has, Messages
<1>2. CASE Sending!Enqueue
  BY <1>t, <1>m, <1>2 DEF Sending!Enqueue, Sending!Channel, MessageOnce, Has, Messages
<1>3. CASE Sending!Supersede
  BY <1>t, <1>m, <1>3 DEF Sending!Supersede, Sending!Channel, MessageOnce, Has, Messages
<1>4. CASE Sending!OptOut
  BY <1>t, <1>m, <1>4 DEF Sending!OptOut, Sending!Channel, MessageOnce, Has, Messages
<1>5. CASE Sending!ClaimAges
  BY <1>t, <1>m, <1>5 DEF Sending!ClaimAges, Sending!Channel, MessageOnce, Has, Messages
<1>6. ASSUME NEW w \in Workers, Sending!Take(w) PROVE MessageOnce'
  BY <1>a, <1>t, <1>m, <1>6, RunMoves DEF Sending!Take, Sending!Channel, Sending!Exhausted,
     Sending!Unsent, Sending!Sending, MessageOnce, Has, Sends, RunAt, Messages
<1>7. ASSUME NEW w \in Workers, Sending!Retire(w) PROVE MessageOnce'
  BY <1>a, <1>t, <1>m, <1>7, RunMoves DEF Sending!Retire, Sending!Channel, Sending!Exhausted,
     Sending!Unsent, Sending!Sending, MessageOnce, Has, Sends, RunAt, Messages
<1>8. ASSUME NEW w \in Workers, Sending!Replay(w) PROVE MessageOnce'
  <2>1. run[w].pc # "store" /\ RunAt(w, "idle") /\ sends' = sends
    BY <1>t, <1>8, RunMoves DEF Sending!Replay, Sending!Return
  <2>2. /\ message'.attempts = message.attempts /\ message'.provider = message.provider
        /\ message'.status = message.status \/ message'.status \in {"sent", "suppressed"}
    BY <1>t, <1>8 DEF Sending!Replay, Messages
  <2> QED BY <1>t, <2>1, <2>2, RunQuits
<1>9. ASSUME NEW w \in Workers, Sending!EmailClaim(w) PROVE MessageOnce'
  <2>1. run[w].pc = "claim" /\ ~message.provider /\ sends' = sends
    BY <1>9 DEF Sending!EmailClaim, Sending!Unsent
  <2>2. \/ message' = message /\ RunAt(w, "idle")
        \/ message' = message /\ RunAt(w, "suppressed")
        \/ message' = message /\ RunAt(w, "error") /\ message.attempts >= MaxAttempts
        \/ /\ message' = Sending!Sending(message) /\ message.attempts < MaxAttempts
           /\ message.status \in {"pending", "failed", "sending"} /\ RunAt(w, "send")
           /\ raced' = (raced \/ message.status = "sending")
    BY <1>a, <1>t, <1>m, <1>9, RunMoves DEF Sending!EmailClaim, Sending!Exhausted, Sending!Return
  <2>3. raced' = (raced \/ message.status = "sending") => message.status # "sending"
    OBVIOUS
  <2> QED BY <1>r, <2>1, <2>2, <2>3
<1>10. ASSUME NEW w \in Workers, Sending!SmsClaim(w) PROVE MessageOnce'
  <2>1. run[w].pc = "claim" /\ ~message.provider /\ sends' = sends
    BY <1>10 DEF Sending!SmsClaim, Sending!Unsent
  <2>2. \/ message' = message /\ RunAt(w, "idle")
        \/ message' = message /\ RunAt(w, "error") /\ message.attempts >= MaxAttempts
        \/ /\ message' = Sending!Sending(message) /\ message.attempts < MaxAttempts
           /\ message.status \in {"pending", "failed"} /\ RunAt(w, "send")
    BY <1>a, <1>t, <1>m, <1>10, RunMoves DEF Sending!SmsClaim, Sending!Exhausted, Sending!Return
  <2> QED BY <1>r, <2>1, <2>2
<1>11. ASSUME NEW w \in Workers, Sending!PushClaim(w) PROVE MessageOnce'
  BY <1>a, <1>t, <1>m, <1>11, RunMoves DEF Sending!PushClaim, Sending!Channel, Sending!Exhausted,
     Sending!Unsent, Sending!Sending, MessageOnce, Has, Sends, RunAt, Messages
<1>12. ASSUME NEW w \in Workers, Sending!EmailOptedOut(w) PROVE MessageOnce'
  BY <1>a, <1>t, <1>m, <1>12, RunMoves DEF Sending!EmailOptedOut, Sending!Return, Sending!Channel,
     Sending!Exhausted, Sending!Unsent, Sending!Sending, MessageOnce, Has, Sends, RunAt, Messages
<1>13. ASSUME NEW w \in Workers, Sending!Send(w) PROVE MessageOnce'
  BY <1>a, <1>t, <1>m, <1>13, RunMoves DEF Sending!Send, Sending!Channel, Sending!Exhausted,
     Sending!Unsent, Sending!Sending, MessageOnce, Has, Sends, RunAt, Messages
<1>14. ASSUME NEW w \in Workers, Sending!StoreProviderId(w) PROVE MessageOnce'
  BY <1>a, <1>t, <1>m, <1>14, RunMoves DEF Sending!StoreProviderId, Sending!Channel, Sending!Exhausted,
     Sending!Unsent, Sending!Sending, MessageOnce, Has, Sends, RunAt, Messages
<1>15. ASSUME NEW w \in Workers, Sending!MessageFinish(w) PROVE MessageOnce'
  <2>1. run[w].pc # "store" /\ RunAt(w, "idle") /\ sends' = sends
    BY <1>t, <1>15, RunMoves DEF Sending!MessageFinish, Sending!Return
  <2>2. /\ message'.attempts = message.attempts /\ message'.provider = message.provider
        /\ message'.status = message.status \/ message'.status \in {"sent", "suppressed"}
    BY <1>t, <1>15 DEF Sending!MessageFinish, Messages
  <2> QED BY <1>t, <2>1, <2>2, RunQuits
<1>16. ASSUME NEW w \in Workers, Sending!PushFinish(w) PROVE MessageOnce'
  BY <1>a, <1>t, <1>m, <1>16, RunMoves DEF Sending!PushFinish, Sending!Return, Sending!Channel,
     Sending!Exhausted, Sending!Unsent, Sending!Sending, MessageOnce, Has, Sends, RunAt, Messages
<1>17. ASSUME NEW w \in Workers, Sending!Fail(w) PROVE MessageOnce'
  <2>1. run[w].pc \in {"error", "unclaimed"} /\ RunAt(w, "idle") /\ sends' = sends
    BY <1>t, <1>17, RunMoves DEF Sending!Fail, Sending!Ending
  <2>2. message'.attempts = message.attempts /\ message'.provider = message.provider
    BY <1>t, <1>17 DEF Sending!Fail, Messages
  <2>3. message.attempts < MaxAttempts /\ ~message.provider => \A v \in Workers \ {w} : ~Has(v)
    <3>1. CASE run[w].pc = "error"
      BY <1>a, <1>m, <3>1 DEF MessageOnce, Has
    <3>2. CASE run[w].pc = "unclaimed"
      <4>1. raced' = (raced \/ Sending!PutsBackAnothers(w))
        BY <1>17 DEF Sending!Fail
      <4> QED BY <3>2, <4>1 DEF Sending!PutsBackAnothers, Has
    <3> QED BY <2>1, <3>1, <3>2
  <2> QED BY <1>t, <2>1, <2>2, <2>3 DEF MessageOnce, Has, Sends, RunAt
<1>18. ASSUME NEW w \in Workers, Sending!EmailSuppressed(w) PROVE MessageOnce'
  <2>1. run[w].pc # "store" /\ RunAt(w, "idle") /\ sends' = sends
    BY <1>t, <1>18, RunMoves DEF Sending!EmailSuppressed, Sending!Return
  <2>2. /\ message'.attempts = message.attempts /\ message'.provider = message.provider
        /\ message'.status = message.status \/ message'.status \in {"sent", "suppressed"}
    BY <1>t, <1>18 DEF Sending!EmailSuppressed, Messages
  <2> QED BY <1>t, <2>1, <2>2, RunQuits
<1>19. ASSUME NEW w \in Workers, Sending!EmailBounced(w) PROVE MessageOnce'
  <2>1. run[w].pc # "store" /\ RunAt(w, "idle") /\ sends' = sends
    BY <1>t, <1>19, RunMoves DEF Sending!EmailBounced, Sending!Ending
  <2>2. /\ message'.attempts = message.attempts /\ message'.provider = message.provider
        /\ message'.status = message.status \/ message'.status \in {"sent", "suppressed"}
    BY <1>t, <1>19 DEF Sending!EmailBounced, Messages
  <2> QED BY <1>t, <2>1, <2>2, RunQuits
<1>20. ASSUME NEW w \in Workers, Sending!NotDue(w) PROVE MessageOnce'
  BY <1>a, <1>t, <1>m, <1>20, RunMoves DEF Sending!NotDue, Sending!Channel, Sending!Exhausted,
     Sending!Unsent, Sending!Sending, MessageOnce, Has, Sends, RunAt, Messages
<1>21. ASSUME NEW w \in Workers, Sending!PushNoDevice(w) PROVE MessageOnce'
  BY <1>a, <1>t, <1>m, <1>21, RunMoves DEF Sending!PushNoDevice, Sending!Return, Sending!Channel,
     Sending!Exhausted, Sending!Unsent, Sending!Sending, MessageOnce, Has, Sends, RunAt, Messages
<1>22. ASSUME NEW w \in Workers, Sending!FinishFails(w) PROVE MessageOnce'
  BY <1>a, <1>t, <1>m, <1>22, RunMoves DEF Sending!FinishFails, Sending!Channel, Sending!Exhausted,
     Sending!Unsent, Sending!Sending, MessageOnce, Has, Sends, RunAt, Messages
<1>23. ASSUME NEW w \in Workers, Sending!Crash(w) PROVE MessageOnce'
  <2>1. (run[w].pc = "store" => message.provider) /\ RunAt(w, "idle") /\ sends' = sends
    BY <1>t, <1>23, RunMoves DEF Sending!Crash
  <2>2. /\ message'.attempts = message.attempts /\ message'.provider = message.provider
        /\ message'.status = message.status \/ message'.status \in {"sent", "suppressed"}
    BY <1>t, <1>23 DEF Sending!Crash, Messages
  <2> QED BY <1>t, <2>1, <2>2, RunQuits
<1>24. ASSUME NEW w \in Workers, Sending!ClaimFails(w) PROVE MessageOnce'
  BY <1>a, <1>t, <1>m, <1>24, RunMoves DEF Sending!ClaimFails, MessageOnce, Has, Sends, RunAt, Messages
<1>25. ASSUME NEW w \in Workers, Sending!StoreFails(w) PROVE MessageOnce'
  BY <1>25 DEF Sending!StoreFails
<1> QED BY <1>1, <1>2, <1>3, <1>4, <1>5, <1>6, <1>7, <1>8, <1>9, <1>10, <1>11, <1>12, <1>13, <1>14, <1>15,
     <1>16, <1>17, <1>18, <1>19, <1>20, <1>21, <1>22, <1>23, <1>24, <1>25 DEF Sending!Next, Sending!Step

\* Pushes know nothing of a message.
LEMMA PushKnowsStep ==
    ASSUME SendTyped, notice.channel = "push", PushKnows, Sending!Next
    PROVE  PushKnows'
<1>t. notice \in Notices /\ message \in Messages /\ run \in [Workers -> Runs]
  BY DEF SendTyped
<1>1. CASE Sending!BecomeDue
  BY <1>t, <1>1 DEF Sending!BecomeDue, Sending!Channel, PushKnows, Messages
<1>2. CASE Sending!Enqueue
  BY <1>t, <1>2 DEF Sending!Enqueue, Sending!Channel, PushKnows, Messages
<1>3. CASE Sending!Supersede
  BY <1>t, <1>3 DEF Sending!Supersede, Sending!Channel, PushKnows, Messages
<1>4. CASE Sending!OptOut
  BY <1>t, <1>4 DEF Sending!OptOut, Sending!Channel, PushKnows, Messages
<1>5. CASE Sending!ClaimAges
  BY <1>t, <1>5 DEF Sending!ClaimAges, Sending!Channel, PushKnows, Messages
<1>6. ASSUME NEW w \in Workers, Sending!Take(w) PROVE PushKnows'
  BY <1>t, <1>6, RunMoves DEF Sending!Take, Sending!Channel, PushKnows, RunAt, Messages
<1>7. ASSUME NEW w \in Workers, Sending!Retire(w) PROVE PushKnows'
  BY <1>t, <1>7, RunMoves DEF Sending!Retire, Sending!Channel, PushKnows, RunAt, Messages
<1>8. ASSUME NEW w \in Workers, Sending!Replay(w) PROVE PushKnows'
  BY <1>t, <1>8, RunMoves DEF Sending!Replay, Sending!Return, Sending!Channel, PushKnows, RunAt, Messages
<1>9. ASSUME NEW w \in Workers, Sending!EmailClaim(w) PROVE PushKnows'
  BY <1>t, <1>9, RunMoves DEF Sending!EmailClaim, Sending!Channel, PushKnows, RunAt, Messages
<1>10. ASSUME NEW w \in Workers, Sending!SmsClaim(w) PROVE PushKnows'
  BY <1>t, <1>10, RunMoves DEF Sending!SmsClaim, Sending!Channel, PushKnows, RunAt, Messages
<1>11. ASSUME NEW w \in Workers, Sending!PushClaim(w) PROVE PushKnows'
  BY <1>t, <1>11, RunMoves DEF Sending!PushClaim, Sending!Channel, PushKnows, RunAt, Messages
<1>12. ASSUME NEW w \in Workers, Sending!EmailOptedOut(w) PROVE PushKnows'
  BY <1>t, <1>12, RunMoves DEF Sending!EmailOptedOut, Sending!Return, Sending!Channel, PushKnows, RunAt,
     Messages
<1>13. ASSUME NEW w \in Workers, Sending!Send(w) PROVE PushKnows'
  BY <1>t, <1>13, RunMoves DEF Sending!Send, Sending!Channel, PushKnows, RunAt, Messages
<1>14. ASSUME NEW w \in Workers, Sending!StoreProviderId(w) PROVE PushKnows'
  BY <1>t, <1>14, RunMoves DEF Sending!StoreProviderId, Sending!Channel, PushKnows, RunAt, Messages
<1>15. ASSUME NEW w \in Workers, Sending!MessageFinish(w) PROVE PushKnows'
  BY <1>t, <1>15, RunMoves DEF Sending!MessageFinish, Sending!Return, Sending!Channel, PushKnows, RunAt,
     Messages
<1>16. ASSUME NEW w \in Workers, Sending!PushFinish(w) PROVE PushKnows'
  BY <1>t, <1>16, RunMoves DEF Sending!PushFinish, Sending!Return, Sending!Channel, PushKnows, RunAt,
     Messages
<1>17. ASSUME NEW w \in Workers, Sending!Fail(w) PROVE PushKnows'
  BY <1>t, <1>17, RunMoves DEF Sending!Fail, Sending!Ending, Sending!Channel, PushKnows, RunAt, Messages
<1>18. ASSUME NEW w \in Workers, Sending!EmailSuppressed(w) PROVE PushKnows'
  BY <1>t, <1>18, RunMoves DEF Sending!EmailSuppressed, Sending!Return, Sending!Channel, PushKnows,
     RunAt, Messages
<1>19. ASSUME NEW w \in Workers, Sending!EmailBounced(w) PROVE PushKnows'
  BY <1>t, <1>19, RunMoves DEF Sending!EmailBounced, Sending!Ending, Sending!Channel, PushKnows, RunAt,
     Messages
<1>20. ASSUME NEW w \in Workers, Sending!NotDue(w) PROVE PushKnows'
  BY <1>t, <1>20, RunMoves DEF Sending!NotDue, Sending!Channel, PushKnows, RunAt, Messages
<1>21. ASSUME NEW w \in Workers, Sending!PushNoDevice(w) PROVE PushKnows'
  BY <1>t, <1>21, RunMoves DEF Sending!PushNoDevice, Sending!Return, Sending!Channel, PushKnows, RunAt,
     Messages
<1>22. ASSUME NEW w \in Workers, Sending!FinishFails(w) PROVE PushKnows'
  BY <1>t, <1>22, RunMoves DEF Sending!FinishFails, Sending!Channel, PushKnows, RunAt, Messages
<1>23. ASSUME NEW w \in Workers, Sending!Crash(w) PROVE PushKnows'
  BY <1>t, <1>23, RunMoves DEF Sending!Crash, Sending!Channel, PushKnows, RunAt, Messages
<1>24. ASSUME NEW w \in Workers, Sending!ClaimFails(w) PROVE PushKnows'
  BY <1>t, <1>24, RunMoves DEF Sending!ClaimFails, Sending!Channel, PushKnows, PushOnce, Has, RunAt
<1>25. ASSUME NEW w \in Workers, Sending!StoreFails(w) PROVE PushKnows'
  BY <1>t, <1>25, RunMoves DEF Sending!StoreFails, Sending!Channel, PushKnows, PushOnce, Has, RunAt
<1> QED BY <1>1, <1>2, <1>3, <1>4, <1>5, <1>6, <1>7, <1>8, <1>9, <1>10, <1>11, <1>12, <1>13, <1>14, <1>15,
     <1>16, <1>17, <1>18, <1>19, <1>20, <1>21, <1>22, <1>23, <1>24, <1>25 DEF Sending!Next, Sending!Step

\* They are sent once.
LEMMA PushStep ==
    ASSUME Sending!DeliveryAssumption, SendTyped, AttemptsLeft, notice.channel = "push", PushKnows, PushOnce, Sending!Next, ~raced'
    PROVE  PushOnce'
<1>t. /\ notice \in Notices /\ delivery \in DeliveryRows /\ message \in Messages /\ run \in [Workers -> Runs]
      /\ outbox \in OutboxRows /\ sends \in Nat
  BY DEF SendTyped
<1>1. CASE Sending!BecomeDue
  BY <1>t, <1>1, SendWrites DEF Sending!BecomeDue, Sending!Channel, PushOnce, Has, Sending!Sendable,
     DeliveryRows, OutboxRows
<1>2. CASE Sending!Enqueue
  BY <1>t, <1>2, SendWrites DEF Sending!Enqueue, Sending!Channel, PushOnce, Has, Sending!Sendable,
     DeliveryRows, OutboxRows
<1>3. CASE Sending!Supersede
  BY <1>t, <1>3, SendWrites DEF Sending!Supersede, Sending!Channel, PushOnce, Has, Sending!Sendable,
     DeliveryRows, OutboxRows
<1>4. CASE Sending!OptOut
  BY <1>t, <1>4, SendWrites DEF Sending!OptOut, Sending!Channel, PushOnce, Has, Sending!Sendable,
     DeliveryRows, OutboxRows
<1>5. CASE Sending!ClaimAges
  BY <1>t, <1>5, SendWrites DEF Sending!ClaimAges, Sending!Channel, PushOnce, Has, Sending!Sendable,
     DeliveryRows, OutboxRows
<1>6. ASSUME NEW w \in Workers, Sending!Take(w) PROVE PushOnce'
  BY <1>t, <1>6, RunMoves, SendWrites DEF Sending!Take, Sending!Channel, PushKnows, PushOnce, Has, RunAt,
     Sending!Settled, OutboxRows
<1>7. ASSUME NEW w \in Workers, Sending!Retire(w) PROVE PushOnce'
  BY <1>t, <1>7, RunMoves, SendWrites DEF Sending!Retire, Sending!Channel, PushKnows, PushOnce, Has,
     RunAt, Sending!Settled, OutboxRows
<1>8. ASSUME NEW w \in Workers, Sending!Replay(w) PROVE PushOnce'
  BY <1>t, <1>8, RunMoves, SendWrites DEF Sending!Replay, Sending!Return, Sending!Channel, PushKnows,
     PushOnce, Has, RunAt, Sending!Settled, OutboxRows
<1>9. ASSUME NEW w \in Workers, Sending!EmailClaim(w) PROVE PushOnce'
  BY <1>t, <1>9, RunMoves, SendWrites DEF Sending!EmailClaim, Sending!Channel, PushKnows, PushOnce, Has,
     RunAt, Sending!Settled, OutboxRows
<1>10. ASSUME NEW w \in Workers, Sending!SmsClaim(w) PROVE PushOnce'
  BY <1>t, <1>10, RunMoves, SendWrites DEF Sending!SmsClaim, Sending!Channel, PushKnows, PushOnce, Has,
     RunAt, Sending!Settled, OutboxRows
<1>11. ASSUME NEW w \in Workers, Sending!PushClaim(w) PROVE PushOnce'
  <2>1. /\ run[w].pc = "claim" /\ sends' = sends /\ delivery' = delivery
        /\ \/ outbox' = outbox /\ RunAt(w, "idle")
           \/ /\ outbox' = [outbox EXCEPT !.status = "processing", !.old = FALSE] /\ RunAt(w, "send")
              /\ outbox.status # "processed"
              /\ raced' = (raced \/ outbox.status = "processing")
    BY <1>t, <1>11, RunMoves DEF Sending!PushClaim, Sending!Return
  <2>2. raced' = (raced \/ outbox.status = "processing") => outbox.status # "processing"
    OBVIOUS
  <2>3. [outbox EXCEPT !.status = "processing", !.old = FALSE].status = "processing"
    BY <1>t DEF OutboxRows
  <2>4. CASE outbox' = outbox /\ RunAt(w, "idle")
    BY <1>t, <2>1, <2>4 DEF PushOnce, Has, RunAt
  <2>5. CASE outbox'.status = "processing" /\ outbox.status \notin {"processing", "processed"} /\ RunAt(w, "send")
    <3>1. (\A v \in Workers : ~Has(v)) /\ sends = 0
      BY <2>5 DEF PushOnce, Has
    <3> QED BY <1>t, <2>1, <2>5, <3>1 DEF PushOnce, Has, RunAt
  <2> QED BY <2>1, <2>2, <2>3, <2>4, <2>5
<1>12. ASSUME NEW w \in Workers, Sending!EmailOptedOut(w) PROVE PushOnce'
  BY <1>t, <1>12, RunMoves, SendWrites DEF Sending!EmailOptedOut, Sending!Return, Sending!Channel,
     PushKnows, PushOnce, Has, RunAt, Sending!Settled, OutboxRows
<1>13. ASSUME NEW w \in Workers, Sending!Send(w) PROVE PushOnce'
  BY <1>t, <1>13, RunMoves, SendWrites DEF Sending!Send, Sending!Channel, PushKnows, PushOnce, Has,
     RunAt, Sending!Settled, OutboxRows
<1>14. ASSUME NEW w \in Workers, Sending!StoreProviderId(w) PROVE PushOnce'
  BY <1>t, <1>14, RunMoves, SendWrites DEF Sending!StoreProviderId, Sending!Channel, PushKnows, PushOnce,
     Has, RunAt, Sending!Settled, OutboxRows
<1>15. ASSUME NEW w \in Workers, Sending!MessageFinish(w) PROVE PushOnce'
  BY <1>t, <1>15, RunMoves, SendWrites DEF Sending!MessageFinish, Sending!Return, Sending!Channel,
     PushKnows, PushOnce, Has, RunAt, Sending!Settled, OutboxRows
<1>16. ASSUME NEW w \in Workers, Sending!PushFinish(w) PROVE PushOnce'
  BY <1>t, <1>16, RunMoves, SendWrites DEF Sending!PushFinish, Sending!Return, Sending!Channel,
     PushKnows, PushOnce, Has, RunAt, Sending!Settled, OutboxRows
<1>17. ASSUME NEW w \in Workers, Sending!Fail(w) PROVE PushOnce'
  <2>1. RunAt(w, "idle") /\ sends' = sends /\ run[w].pc \in {"error", "unclaimed"}
    BY <1>t, <1>17, RunMoves DEF Sending!Fail, Sending!Ending
  <2>2. sends = 0 /\ \A v \in Workers \ {w} : ~Has(v)
    <3>1. CASE run[w].pc = "error"
      BY <3>1 DEF PushOnce, Has
    <3>2. CASE run[w].pc = "unclaimed"
      <4>1. raced' = (raced \/ Sending!PutsBackAnothers(w))
        BY <1>17 DEF Sending!Fail
      <4> QED BY <3>2, <4>1 DEF Sending!PutsBackAnothers, PushOnce, Has
    <3> QED BY <2>1, <3>1, <3>2
  <2> QED BY <1>t, <2>1, <2>2 DEF PushOnce, Has, RunAt
<1>18. ASSUME NEW w \in Workers, Sending!EmailSuppressed(w) PROVE PushOnce'
  BY <1>t, <1>18, RunMoves, SendWrites DEF Sending!EmailSuppressed, Sending!Return, Sending!Channel,
     PushKnows, PushOnce, Has, RunAt, Sending!Settled, OutboxRows
<1>19. ASSUME NEW w \in Workers, Sending!EmailBounced(w) PROVE PushOnce'
  BY <1>t, <1>19, RunMoves, SendWrites DEF Sending!EmailBounced, Sending!Ending, Sending!Channel,
     PushKnows, PushOnce, Has, RunAt, Sending!Settled, OutboxRows
<1>20. ASSUME NEW w \in Workers, Sending!NotDue(w) PROVE PushOnce'
  BY <1>t, <1>20, RunMoves, SendWrites DEF Sending!NotDue, Sending!Channel, PushKnows, PushOnce, Has,
     RunAt, Sending!Settled, OutboxRows
<1>21. ASSUME NEW w \in Workers, Sending!PushNoDevice(w) PROVE PushOnce'
  BY <1>t, <1>21, RunMoves, SendWrites DEF Sending!PushNoDevice, Sending!Return, Sending!Channel,
     PushKnows, PushOnce, Has, RunAt, Sending!Settled, OutboxRows
<1>22. ASSUME NEW w \in Workers, Sending!FinishFails(w) PROVE PushOnce'
  BY <1>t, <1>22, RunMoves, SendWrites DEF Sending!FinishFails, Sending!Channel, PushKnows, PushOnce,
     Has, RunAt, Sending!Settled, OutboxRows
<1>23. ASSUME NEW w \in Workers, Sending!Crash(w) PROVE PushOnce'
  <2>1. raced' = (raced \/ (run[w].pc \in {"store", "finish"} /\ ~message.provider))
    BY <1>23 DEF Sending!Crash
  <2>2. run[w].pc # "finish"
    BY <2>1 DEF PushKnows
  <2>3. RunAt(w, "idle") /\ sends' = sends /\ delivery' = delivery /\ outbox' = outbox
    BY <1>t, <1>23, RunMoves DEF Sending!Crash
  <2> QED BY <1>t, <2>2, <2>3 DEF PushOnce, Has, RunAt
<1>24. ASSUME NEW w \in Workers, Sending!ClaimFails(w) PROVE PushOnce'
  BY <1>t, <1>24, RunMoves DEF Sending!ClaimFails, Sending!Channel, PushKnows, PushOnce, Has, RunAt
<1>25. ASSUME NEW w \in Workers, Sending!StoreFails(w) PROVE PushOnce'
  BY <1>t, <1>25, RunMoves DEF Sending!StoreFails, Sending!Channel, PushKnows, PushOnce, Has, RunAt
<1> QED BY <1>1, <1>2, <1>3, <1>4, <1>5, <1>6, <1>7, <1>8, <1>9, <1>10, <1>11, <1>12, <1>13, <1>14, <1>15,
     <1>16, <1>17, <1>18, <1>19, <1>20, <1>21, <1>22, <1>23, <1>24, <1>25 DEF Sending!Next, Sending!Step

\* What happens around every step: the channel stays, and a race stays on record.
LEMMA SendKeeps ==
    ASSUME SendTyped, raced \in BOOLEAN, Sending!Next
    PROVE  notice'.channel = notice.channel /\ raced' \in BOOLEAN /\ (raced => raced')
<1>t. notice \in Notices
  BY DEF SendTyped
<1>1. notice'.channel = notice.channel
  BY <1>t DEF Sending!Next, Sending!Step, Notices,
     Sending!BecomeDue, Sending!Enqueue, Sending!Supersede, Sending!OptOut, Sending!ClaimAges,
     Sending!Take, Sending!Retire, Sending!Replay, Sending!EmailClaim, Sending!SmsClaim,
     Sending!PushClaim, Sending!EmailOptedOut, Sending!Send, Sending!StoreProviderId,
     Sending!MessageFinish, Sending!PushFinish, Sending!Fail, Sending!EmailSuppressed,
     Sending!EmailBounced, Sending!NotDue, Sending!PushNoDevice, Sending!FinishFails, Sending!Crash,
     Sending!ClaimFails, Sending!StoreFails
<1>2. raced' \in BOOLEAN /\ (raced => raced')
  <2>1. raced' = raced \/ (raced' \in BOOLEAN /\ (raced => raced'))
    BY DEF Sending!Next, Sending!Step,
       Sending!BecomeDue, Sending!Enqueue, Sending!Supersede, Sending!OptOut, Sending!ClaimAges,
       Sending!Take, Sending!Retire, Sending!Replay, Sending!EmailClaim, Sending!SmsClaim,
       Sending!PushClaim, Sending!EmailOptedOut, Sending!Send, Sending!StoreProviderId,
       Sending!MessageFinish, Sending!PushFinish, Sending!Fail, Sending!EmailSuppressed,
       Sending!EmailBounced, Sending!NotDue, Sending!PushNoDevice, Sending!FinishFails, Sending!Crash,
       Sending!ClaimFails, Sending!StoreFails
  <2> QED BY <2>1
<1> QED BY <1>1, <1>2

LEMMA SendStep ==
    ASSUME Sending!DeliveryAssumption, SendInv, [Sending!Next]_(Sending!vars)
    PROVE  SendInv'
<1>1. SendTyped /\ raced \in BOOLEAN /\ AttemptsLeft
  BY SendTypes DEF SendInv
<1>2. CASE UNCHANGED Sending!vars
  BY <1>2 DEF SendInv, Sending!vars, Sending!TypeOK, AttemptsLeft, MessageOnce, PushKnows, PushOnce, Has
<1>3. CASE Sending!Next
  <2>1. SendTyped' /\ AttemptsLeft'
    BY <1>1, <1>3, SendTypedStep
  <2>2. notice'.channel = notice.channel /\ raced' \in BOOLEAN /\ (raced => raced')
    BY <1>1, <1>3, SendKeeps
  <2>3. Sending!TypeOK'
    BY <2>1, <2>2 DEF Sending!TypeOK, SendTyped, Notices, DeliveryRows, Messages, OutboxRows, QueuedJobs,
       Runs
  <2>4. ASSUME notice.channel # "push", ~raced' PROVE MessageOnce'
    BY <1>1, <1>3, <2>2, <2>4, MessageStep DEF SendInv
  <2>5. ASSUME notice.channel = "push" PROVE PushKnows'
    BY <1>1, <1>3, <2>5, PushKnowsStep DEF SendInv
  <2>6. ASSUME notice.channel = "push", ~raced' PROVE PushOnce'
    BY <1>1, <1>3, <2>2, <2>6, PushStep DEF SendInv
  <2> QED BY <2>1, <2>2, <2>3, <2>4, <2>5, <2>6 DEF SendInv
<1> QED BY <1>2, <1>3

LEMMA SendOnce == SendInv => Sending!SecondSendNeedsARace
<1> SUFFICES ASSUME SendInv, ~raced PROVE ~(sends > 1)
  BY DEF Sending!SecondSendNeedsARace
<1>1. sends \in Nat /\ sends <= 1
  BY SendTypes DEF SendInv, SendTyped, MessageOnce, PushOnce
<1> QED BY <1>1

\* The deliveries without crashes only do less.
LEMMA CalmIsSending == CalmSending!Next => Sending!Next
<1>1. \A k : CalmSending!Fault(k) => Sending!Fault(k)
  BY DEF CalmSending!Fault, Sending!Fault
<1>2. CalmSending!BecomeDue => Sending!BecomeDue
  BY DEF CalmSending!BecomeDue, Sending!BecomeDue
<1>3. CalmSending!Enqueue => Sending!Enqueue
  BY DEF CalmSending!Enqueue, Sending!Enqueue
<1>4. CalmSending!Supersede => Sending!Supersede
  BY DEF CalmSending!Supersede, Sending!Supersede, CalmSending!Channel, Sending!Channel,
     CalmSending!Sendable, Sending!Sendable,
     CalmSending!Processed, Sending!Processed
<1>5. CalmSending!OptOut => Sending!OptOut
  BY DEF CalmSending!OptOut, Sending!OptOut, CalmSending!Channel, Sending!Channel
<1>6. CalmSending!ClaimAges => Sending!ClaimAges
  BY DEF CalmSending!ClaimAges, Sending!ClaimAges
<1>7. \A w \in Workers : CalmSending!Take(w) => Sending!Take(w)
  BY <1>1 DEF CalmSending!Take, Sending!Take, CalmSending!Sendable, Sending!Sendable, CalmSending!Goto,
     Sending!Goto
<1>8. \A w \in Workers : CalmSending!Retire(w) => Sending!Retire(w)
  BY DEF CalmSending!Retire, Sending!Retire, CalmSending!Settled, Sending!Settled, CalmSending!Sendable,
     Sending!Sendable,
     CalmSending!DeliveryStates, Sending!DeliveryStates, CalmSending!Cancelled, Sending!Cancelled,
     CalmSending!Processed, Sending!Processed
<1>9. \A w \in Workers : CalmSending!Replay(w) => Sending!Replay(w)
  BY DEF CalmSending!Replay, Sending!Replay, CalmSending!Channel, Sending!Channel, CalmSending!Accepted,
     Sending!Accepted,
     CalmSending!Sendable, Sending!Sendable, CalmSending!Least, Sending!Least, CalmSending!Processed,
     Sending!Processed,
     CalmSending!Return, Sending!Return, CalmSending!NoRun, Sending!NoRun, CalmSending!Completed,
     Sending!Completed
<1>10. \A w \in Workers : CalmSending!EmailClaim(w) => Sending!EmailClaim(w)
  BY DEF CalmSending!EmailClaim, Sending!EmailClaim, CalmSending!Channel, Sending!Channel,
     CalmSending!Unsent, Sending!Unsent,
     CalmSending!Exhausted, Sending!Exhausted, CalmSending!Sending, Sending!Sending, CalmSending!Claimed,
     Sending!Claimed,
     CalmSending!Goto, Sending!Goto, CalmSending!Return, Sending!Return, CalmSending!NoRun,
     Sending!NoRun,
     CalmSending!Completed, Sending!Completed, CalmSending!Processed, Sending!Processed
<1>11. \A w \in Workers : CalmSending!SmsClaim(w) => Sending!SmsClaim(w)
  BY DEF CalmSending!SmsClaim, Sending!SmsClaim, CalmSending!Channel, Sending!Channel,
     CalmSending!Unsent, Sending!Unsent,
     CalmSending!Exhausted, Sending!Exhausted, CalmSending!Sending, Sending!Sending, CalmSending!Claimed,
     Sending!Claimed,
     CalmSending!Goto, Sending!Goto, CalmSending!Return, Sending!Return, CalmSending!NoRun,
     Sending!NoRun,
     CalmSending!Completed, Sending!Completed
<1>12. \A w \in Workers : CalmSending!PushClaim(w) => Sending!PushClaim(w)
  BY DEF CalmSending!PushClaim, Sending!PushClaim, CalmSending!Channel, Sending!Channel,
     CalmSending!Claimed, Sending!Claimed,
     CalmSending!Return, Sending!Return, CalmSending!NoRun, Sending!NoRun, CalmSending!Completed,
     Sending!Completed
<1>13. \A w \in Workers : CalmSending!EmailOptedOut(w) => Sending!EmailOptedOut(w)
  BY DEF CalmSending!EmailOptedOut, Sending!EmailOptedOut, CalmSending!Processed, Sending!Processed,
     CalmSending!Suppressed, Sending!Suppressed,
     CalmSending!Return, Sending!Return, CalmSending!NoRun, Sending!NoRun, CalmSending!Completed,
     Sending!Completed
<1>14. \A w \in Workers : CalmSending!Send(w) => Sending!Send(w)
  BY <1>1 DEF CalmSending!Send, Sending!Send, CalmSending!Channel, Sending!Channel, CalmSending!Goto,
     Sending!Goto
<1>15. \A w \in Workers : CalmSending!StoreProviderId(w) => Sending!StoreProviderId(w)
  BY DEF CalmSending!StoreProviderId, Sending!StoreProviderId, CalmSending!Goto, Sending!Goto
<1>16. \A w \in Workers : CalmSending!MessageFinish(w) => Sending!MessageFinish(w)
  BY DEF CalmSending!MessageFinish, Sending!MessageFinish, CalmSending!Channel, Sending!Channel,
     CalmSending!Accepted, Sending!Accepted,
     CalmSending!Sendable, Sending!Sendable, CalmSending!Least, Sending!Least, CalmSending!Processed,
     Sending!Processed,
     CalmSending!Return, Sending!Return, CalmSending!NoRun, Sending!NoRun, CalmSending!Completed,
     Sending!Completed
<1>17. \A w \in Workers : CalmSending!PushFinish(w) => Sending!PushFinish(w)
  BY DEF CalmSending!PushFinish, Sending!PushFinish, CalmSending!Channel, Sending!Channel,
     CalmSending!Accepted, Sending!Accepted,
     CalmSending!Sendable, Sending!Sendable, CalmSending!Least, Sending!Least, CalmSending!Processed,
     Sending!Processed,
     CalmSending!Return, Sending!Return, CalmSending!NoRun, Sending!NoRun, CalmSending!Completed,
     Sending!Completed
<1>18. \A w \in Workers : CalmSending!Fail(w) => Sending!Fail(w)
  BY DEF CalmSending!Fail, Sending!Fail, CalmSending!Channel, Sending!Channel, CalmSending!Exhausted,
     Sending!Exhausted,
     CalmSending!DeliveryFailure, Sending!DeliveryFailure, CalmSending!Least, Sending!Least,
     CalmSending!PutBack, Sending!PutBack,
     CalmSending!Ending, Sending!Ending, CalmSending!NoRun, Sending!NoRun, CalmSending!Completed,
     Sending!Completed,
     CalmSending!Thrown, Sending!Thrown, CalmSending!PutsBackAnothers, Sending!PutsBackAnothers
<1>19. \A w \in Workers : CalmSending!EmailSuppressed(w) => Sending!EmailSuppressed(w)
  BY DEF CalmSending!EmailSuppressed, Sending!EmailSuppressed, CalmSending!Suppressed,
     Sending!Suppressed, CalmSending!PutBack, Sending!PutBack,
     CalmSending!Return, Sending!Return, CalmSending!NoRun, Sending!NoRun, CalmSending!Completed,
     Sending!Completed
<1>20. \A w \in Workers : CalmSending!EmailBounced(w) => Sending!EmailBounced(w)
  BY DEF CalmSending!EmailBounced, Sending!EmailBounced, CalmSending!Channel, Sending!Channel,
     CalmSending!Exhausted, Sending!Exhausted,
     CalmSending!Suppressed, Sending!Suppressed, CalmSending!PutBack, Sending!PutBack,
     CalmSending!Ending, Sending!Ending,
     CalmSending!NoRun, Sending!NoRun, CalmSending!Completed, Sending!Completed, CalmSending!Thrown,
     Sending!Thrown
<1>21. \A w \in Workers : CalmSending!NotDue(w) => Sending!NotDue(w)
  BY <1>1 DEF CalmSending!NotDue, Sending!NotDue, CalmSending!Sendable, Sending!Sendable,
     CalmSending!PutBack, Sending!PutBack
<1>22. \A w \in Workers : CalmSending!PushNoDevice(w) => Sending!PushNoDevice(w)
  BY <1>1 DEF CalmSending!PushNoDevice, Sending!PushNoDevice, CalmSending!Channel, Sending!Channel,
     CalmSending!Suppressed, Sending!Suppressed,
     CalmSending!Processed, Sending!Processed, CalmSending!Return, Sending!Return, CalmSending!NoRun,
     Sending!NoRun,
     CalmSending!Completed, Sending!Completed
<1>23. \A w \in Workers : CalmSending!FinishFails(w) => Sending!FinishFails(w)
  BY <1>1 DEF CalmSending!FinishFails, Sending!FinishFails, CalmSending!Channel, Sending!Channel,
     CalmSending!Accepted, Sending!Accepted,
     CalmSending!Sendable, Sending!Sendable, CalmSending!Least, Sending!Least, CalmSending!Goto,
     Sending!Goto
<1>24. \A w \in Workers : CalmSending!Crash(w) => Sending!Crash(w)
  BY <1>1 DEF CalmSending!Crash, Sending!Crash, CalmSending!NoRun, Sending!NoRun
<1>25. \A w \in Workers : CalmSending!ClaimFails(w) => Sending!ClaimFails(w)
  BY <1>1 DEF CalmSending!ClaimFails, Sending!ClaimFails, CalmSending!Goto, Sending!Goto
<1>26. \A w \in Workers : CalmSending!StoreFails(w) => Sending!StoreFails(w)
  BY <1>1 DEF CalmSending!StoreFails, Sending!StoreFails, CalmSending!Goto, Sending!Goto
<1> QED
  BY <1>2, <1>3, <1>4, <1>5, <1>6, <1>7, <1>8, <1>9, <1>10, <1>11, <1>12, <1>13, <1>14, <1>15, <1>16,
     <1>17, <1>18, <1>19, <1>20, <1>21, <1>22, <1>23, <1>24, <1>25, <1>26
  DEF CalmSending!Next, CalmSending!Step, Sending!Next, Sending!Step

-----------------------------------------------------------------------------
\* Deliveries without crashes: one run at a time, so the message of a run that is
\* about to claim is in nobody's hands, and if its notification was superseded,
\* supersedePriorNotifications has taken it out of the claim's reach.
CalmKnows ==
    /\ queued.state # "active" => \A w \in Workers : run[w].pc = "idle"
    /\ \A v, w \in Workers : run[v].pc # "idle" /\ run[w].pc # "idle" => v = w
    /\ notice.channel # "push" =>
         /\ message.status = "sending" => \E w \in Workers : run[w].pc \notin {"idle", "claim", "suppressed"}
         /\ \A w \in Workers : run[w].pc = "claim" /\ notice.superseded => message.status \notin {"pending", "failed"}
         /\ \A w \in Workers : run[w].pc = "send" => ~run[w].late

LEMMA CalmKeeps ==
    ASSUME SendTyped, CalmKnows, CalmSending!Next
    PROVE  CalmKnows'
<1>t. /\ notice \in Notices /\ message \in Messages /\ outbox \in OutboxRows /\ queued \in QueuedJobs
      /\ run \in [Workers -> Runs]
  BY DEF SendTyped
<1>1. CASE CalmSending!BecomeDue
  BY <1>t, <1>1 DEF CalmSending!BecomeDue, CalmKnows, Notices, Messages, QueuedJobs, Runs
<1>2. CASE CalmSending!Enqueue
  BY <1>t, <1>2 DEF CalmSending!Enqueue, CalmKnows, Notices, Messages, QueuedJobs, Runs
<1>3. CASE CalmSending!Supersede
  BY <1>t, <1>3 DEF CalmSending!Supersede, CalmSending!Channel, CalmKnows, Notices, Messages, QueuedJobs,
     Runs
<1>4. CASE CalmSending!OptOut
  BY <1>t, <1>4 DEF CalmSending!OptOut, CalmKnows, Notices, Messages, QueuedJobs, Runs
<1>5. CASE CalmSending!ClaimAges
  BY <1>t, <1>5 DEF CalmSending!ClaimAges, CalmKnows, Notices, Messages, QueuedJobs, Runs
<1>6. ASSUME NEW w \in Workers, CalmSending!Take(w) PROVE CalmKnows'
  BY <1>t, <1>6 DEF CalmSending!Take, CalmSending!Fault, CalmSending!Goto, CalmKnows, Notices, Messages,
     QueuedJobs, Runs
<1>7. ASSUME NEW w \in Workers, CalmSending!Retire(w) PROVE CalmKnows'
  BY <1>t, <1>7 DEF CalmSending!Retire, CalmKnows, Notices, Messages, QueuedJobs, Runs
<1>8. ASSUME NEW w \in Workers, CalmSending!Replay(w) PROVE CalmKnows'
  BY <1>t, <1>8 DEF CalmSending!Replay, CalmSending!Channel, CalmSending!Return, CalmSending!NoRun,
     CalmSending!Completed, CalmKnows, Notices, Messages, QueuedJobs, Runs
<1>9. ASSUME NEW w \in Workers, CalmSending!EmailClaim(w) PROVE CalmKnows'
  BY <1>t, <1>9 DEF CalmSending!EmailClaim, CalmSending!Channel, CalmSending!Unsent,
     CalmSending!Exhausted, CalmSending!Sending, CalmSending!Claimed, CalmSending!Goto,
     CalmSending!Return, CalmSending!NoRun, CalmSending!Completed, CalmKnows, Notices, Messages,
     QueuedJobs, Runs
<1>10. ASSUME NEW w \in Workers, CalmSending!SmsClaim(w) PROVE CalmKnows'
  BY <1>t, <1>10 DEF CalmSending!SmsClaim, CalmSending!Channel, CalmSending!Unsent,
     CalmSending!Exhausted, CalmSending!Sending, CalmSending!Claimed, CalmSending!Goto,
     CalmSending!Return, CalmSending!NoRun, CalmSending!Completed, CalmKnows, Notices, Messages,
     QueuedJobs, Runs
<1>11. ASSUME NEW w \in Workers, CalmSending!PushClaim(w) PROVE CalmKnows'
  BY <1>t, <1>11 DEF CalmSending!PushClaim, CalmSending!Channel, CalmSending!Claimed, CalmSending!Return,
     CalmSending!NoRun, CalmSending!Completed, CalmKnows, Notices, Messages, QueuedJobs, Runs
<1>12. ASSUME NEW w \in Workers, CalmSending!EmailOptedOut(w) PROVE CalmKnows'
  BY <1>t, <1>12 DEF CalmSending!EmailOptedOut, CalmSending!Return, CalmSending!NoRun,
     CalmSending!Completed, CalmKnows, Notices, Messages, QueuedJobs, Runs
<1>13. ASSUME NEW w \in Workers, CalmSending!Send(w) PROVE CalmKnows'
  BY <1>t, <1>13 DEF CalmSending!Send, CalmSending!Channel, CalmSending!Goto, CalmKnows, Notices,
     Messages, QueuedJobs, Runs
<1>14. ASSUME NEW w \in Workers, CalmSending!StoreProviderId(w) PROVE CalmKnows'
  BY <1>t, <1>14 DEF CalmSending!StoreProviderId, CalmSending!Goto, CalmKnows, Notices, Messages,
     QueuedJobs, Runs
<1>15. ASSUME NEW w \in Workers, CalmSending!MessageFinish(w) PROVE CalmKnows'
  BY <1>t, <1>15 DEF CalmSending!MessageFinish, CalmSending!Channel, CalmSending!Return,
     CalmSending!NoRun, CalmSending!Completed, CalmKnows, Notices, Messages, QueuedJobs, Runs
<1>16. ASSUME NEW w \in Workers, CalmSending!PushFinish(w) PROVE CalmKnows'
  BY <1>t, <1>16 DEF CalmSending!PushFinish, CalmSending!Channel, CalmSending!Return, CalmSending!NoRun,
     CalmSending!Completed, CalmKnows, Notices, Messages, QueuedJobs, Runs
<1>17. ASSUME NEW w \in Workers, CalmSending!Fail(w) PROVE CalmKnows'
  BY <1>t, <1>17 DEF CalmSending!Fail, CalmSending!Channel, CalmSending!Exhausted, CalmSending!Ending,
     CalmSending!NoRun, CalmSending!Completed, CalmSending!Thrown, CalmKnows, Notices, Messages,
     QueuedJobs, Runs
<1>18. ASSUME NEW w \in Workers, CalmSending!EmailSuppressed(w) PROVE CalmKnows'
  BY <1>t, <1>18 DEF CalmSending!EmailSuppressed, CalmSending!Return, CalmSending!NoRun,
     CalmSending!Completed, CalmKnows, Notices, Messages, QueuedJobs, Runs
<1>19. ASSUME NEW w \in Workers, CalmSending!EmailBounced(w) PROVE CalmKnows'
  BY <1>t, <1>19 DEF CalmSending!EmailBounced, CalmSending!Channel, CalmSending!Exhausted,
     CalmSending!Ending, CalmSending!NoRun, CalmSending!Completed, CalmSending!Thrown, CalmKnows,
     Notices, Messages, QueuedJobs, Runs
<1>20. ASSUME NEW w \in Workers, CalmSending!PushNoDevice(w) PROVE CalmKnows'
  BY <1>t, <1>20 DEF CalmSending!PushNoDevice, CalmSending!Channel, CalmSending!Return,
     CalmSending!NoRun, CalmSending!Completed, CalmKnows, Notices, Messages, QueuedJobs, Runs
<1>21. ASSUME NEW w \in Workers PROVE ~CalmSending!NotDue(w)
  BY DEF CalmSending!NotDue, CalmSending!Fault
<1>22. ASSUME NEW w \in Workers PROVE ~CalmSending!FinishFails(w)
  BY DEF CalmSending!FinishFails, CalmSending!Fault
<1>23. ASSUME NEW w \in Workers PROVE ~CalmSending!Crash(w)
  BY DEF CalmSending!Crash, CalmSending!Fault
<1>24. ASSUME NEW w \in Workers PROVE ~CalmSending!ClaimFails(w) /\ ~CalmSending!StoreFails(w)
  BY DEF CalmSending!ClaimFails, CalmSending!StoreFails, CalmSending!Fault
<1> QED BY <1>1, <1>2, <1>3, <1>4, <1>5, <1>6, <1>7, <1>8, <1>9, <1>10, <1>11, <1>12, <1>13, <1>14, <1>15,
     <1>16, <1>17, <1>18, <1>19, <1>20, <1>21, <1>22, <1>23, <1>24 DEF CalmSending!Next, CalmSending!Step

\* A run that claimed after the supersession is a push, and a push is not stored.
LEMMA LateIsNotSent ==
    ASSUME SendTyped, CalmKnows, CalmSending!Next
    PROVE  ~Sending!SupersededIsSent
<1> SUFFICES ASSUME NEW v \in Workers, run[v].late, run[v].pc = "send", run'[v].pc = "store"
             PROVE  FALSE
  BY DEF Sending!SupersededIsSent
<1>t. run \in [Workers -> Runs]
  BY DEF SendTyped
<1>1. notice.channel = "push"
  BY DEF CalmKnows
<1>2. ASSUME NEW w \in Workers, CalmSending!Send(w) PROVE FALSE
  <2>1. run'[w].pc # "store"
    BY <1>t, <1>1, <1>2 DEF CalmSending!Send, CalmSending!Channel, CalmSending!Goto, Runs
  <2>2. v # w => run'[v] = run[v]
    BY <1>t, <1>2 DEF CalmSending!Send, CalmSending!Goto
  <2> QED BY <2>1, <2>2
<1>3. ASSUME NEW w \in Workers, CalmSending!Step(w), ~CalmSending!Send(w) PROVE FALSE
  <2>1. CASE \/ CalmSending!Retire(w) \/ CalmSending!Replay(w) \/ CalmSending!EmailOptedOut(w)
             \/ CalmSending!MessageFinish(w) \/ CalmSending!PushFinish(w) \/ CalmSending!Fail(w)
             \/ CalmSending!EmailSuppressed(w) \/ CalmSending!EmailBounced(w)
    <3>1. UNCHANGED run \/ run' = [run EXCEPT ![w] = CalmSending!NoRun]
      BY <2>1 DEF CalmSending!Retire, CalmSending!Replay, CalmSending!EmailOptedOut,
         CalmSending!MessageFinish,
         CalmSending!PushFinish, CalmSending!Fail, CalmSending!EmailSuppressed, CalmSending!EmailBounced,
         CalmSending!Return, CalmSending!Ending
    <3> QED BY <1>t, <3>1 DEF CalmSending!NoRun, Runs
  <2>2. CASE \/ CalmSending!Take(w) \/ CalmSending!EmailClaim(w) \/ CalmSending!SmsClaim(w)
             \/ CalmSending!PushClaim(w) \/ CalmSending!StoreProviderId(w)
    <3>1. run[w].pc # "send"
      BY <2>2 DEF CalmSending!Take, CalmSending!EmailClaim, CalmSending!SmsClaim, CalmSending!PushClaim,
         CalmSending!StoreProviderId
    <3>2. \A x \in Workers \ {w} : run'[x] = run[x]
      BY <1>t, <2>2 DEF CalmSending!Take, CalmSending!EmailClaim, CalmSending!SmsClaim,
         CalmSending!PushClaim,
         CalmSending!StoreProviderId, CalmSending!Goto, CalmSending!Return, CalmSending!Claimed
    <3> QED BY <3>1, <3>2
  <2> QED BY <1>3, <2>1, <2>2 DEF CalmSending!Step
<1>4. ~UNCHANGED run
  OBVIOUS
<1>5. ASSUME NEW w \in Workers, CalmSending!PushNoDevice(w) PROVE FALSE
  BY <1>t, <1>5 DEF CalmSending!PushNoDevice, CalmSending!Return, CalmSending!NoRun, Runs
<1>6. ASSUME NEW w \in Workers,
             \/ CalmSending!NotDue(w) \/ CalmSending!FinishFails(w) \/ CalmSending!Crash(w)
             \/ CalmSending!ClaimFails(w) \/ CalmSending!StoreFails(w)
      PROVE  FALSE
  BY <1>6 DEF CalmSending!NotDue, CalmSending!FinishFails, CalmSending!Crash, CalmSending!ClaimFails,
     CalmSending!StoreFails, CalmSending!Fault
<1> QED BY <1>2, <1>3, <1>4, <1>5, <1>6
           DEF CalmSending!Next, CalmSending!BecomeDue, CalmSending!Enqueue, CalmSending!Supersede,
               CalmSending!OptOut, CalmSending!ClaimAges
-----------------------------------------------------------------------------
\* Creation. Every fault, and a check of the limits that may answer anything: the
\* parts differ in nothing else.
Every == INSTANCE NotificationCreation WITH
    FaultKinds <- {"crash", "queueError", "redisError"}, MaxFaults <- MaxCreationFaults,
    raced <- overtaken, faults <- creationFaults

AnyCheck(c) ==
    /\ Every!At(c, "check")
    /\ \/ Every!Return(c) /\ notes' \in {notes, Every!Batched(Every!MyCategory(c))}
       \/ Every!Goto(c, "group") /\ UNCHANGED notes
    /\ UNCHANGED <<counter, answered, overtaken, creationFaults>>

\* What a process does but for the check.
Creates(c) ==
    \/ \E k \in Every!Keys : Every!Start(c, k)
    \/ Every!CheckFailsOpen(c) \/ Every!FindGroup(c) \/ Every!Insert(c) \/ Every!Supersede(c)
    \/ Every!IncrementFrequency(c) \/ Every!WriteDelivery(c) \/ Every!QueueChannel(c) \/ Every!Crash(c)

LEMMA EverySets ==
    /\ \A S : Every!Cardinality(S) = Cardinality(S)
    /\ \A S : Every!IsFiniteSet(S) <=> IsFiniteSet(S)
<1>1. \A S : Every!Cardinality(S) = Cardinality(S)
  BY DEF Every!Cardinality, Cardinality
<1>2. \A S : Every!IsFiniteSet(S) <=> IsFiniteSet(S)
  BY DEF Every!IsFiniteSet, IsFiniteSet
<1> QED BY <1>1, <1>2

NoteRows ==
    [key : Every!Keys, group : Every!Indices, pos : Nat, batched : BOOLEAN, by : 0..Every!Cardinality(Every!Keys),
     delivery : {"none", "pending", "queued", "retry_pending", "failed_terminal", "cancelled"},
     attempts : 0..MaxAttempts, outbox : BOOLEAN]
CallRecords ==
    [pc : {"idle", "check", "group", "insert", "supersede", "count", "deliver", "queue"},
     key : Every!Keys, group : 0..Every!Cardinality(Every!Keys), pos : Nat, note : 0..Every!Cardinality(Every!Keys)]

\* Beyond the types: a key has one notification, and groups and calls name those there are.
NotesKnow ==
    /\ \A i, j \in DOMAIN notes : notes[i].key = notes[j].key => i = j
    /\ \A i \in DOMAIN notes : notes[i].group \in DOMAIN notes
CallsKnow ==
    \A c \in Creators :
        /\ call[c].pc \in {"supersede", "count", "deliver", "queue"} => call[c].note \in DOMAIN notes
        /\ call[c].pc = "insert" => call[c].group \in {0} \cup DOMAIN notes

\* A group that is not full has room for each other process.
Joins(n) == {c \in Creators : call[c].pc = "insert" /\ call[c].group = n}
GroupsHaveRoom ==
    \A n \in Every!Indices :
        Cardinality(Every!Group(n)) + Cardinality(Joins(n)) <= GroupMax + Cardinality(Creators) - 1

\* What is newer than a notification about to supersede was inserted since.
NewerIsKnown ==
    \A c \in Creators : call[c].pc = "supersede" =>
        \A i \in DOMAIN notes : i > call[c].note => i \in overtaken

CreationInv ==
    /\ Every!TypeOK /\ NotesKnow /\ CallsKnow
    /\ GroupsHaveRoom /\ NewerIsKnown /\ Every!OlderSupersedesInARace

CreationTyped ==
    /\ notes \in Seq(NoteRows) /\ call \in [Creators -> CallRecords]
    /\ counter \in [Every!Categories -> Nat]
    /\ answered \subseteq Every!Indices /\ overtaken \subseteq Every!Indices
    /\ creationFaults \in 0..MaxCreationFaults

LEMMA CreationTypes == Every!TypeOK <=> CreationTyped
<1>1. Every!TypeOK => CreationTyped
  BY DEF Every!TypeOK, CreationTyped, NoteRows, CallRecords
<1>2. CreationTyped => Every!TypeOK
  BY DEF Every!TypeOK, CreationTyped, NoteRows, CallRecords
<1> QED BY <1>1, <1>2

\* The sizes the lemmas count with.
LEMMA CreationSizes ==
    ASSUME Every!CreationAssumption
    PROVE  /\ IsFiniteSet(Creators) /\ IsFiniteSet(Every!Keys)
           /\ Cardinality(Creators) \in Nat /\ Cardinality(Every!Keys) \in Nat \ {0}
           /\ HourlyLimit \in Nat \ {0} /\ GroupMax \in Nat \ {0} /\ MaxAttempts \in Nat \ {0} /\ MaxCreationFaults \in Nat
           /\ Every!Idle \in CallRecords /\ Every!Idle.pc = "idle" /\ Every!Idle.group = 0
<1>1. /\ IsFiniteSet(Creators) /\ IsFiniteSet(Every!Keys) /\ Every!Keys # {}
      /\ HourlyLimit \in Nat \ {0} /\ GroupMax \in Nat \ {0} /\ MaxAttempts \in Nat \ {0} /\ MaxCreationFaults \in Nat
  <2>1. /\ IsFiniteSet(Creators) /\ IsFiniteSet(Every!Keys) /\ Every!Keys # {}
        /\ {HourlyLimit, DailyLimit, GroupMax, MaxAttempts} \subseteq Nat \ {0} /\ MaxCreationFaults \in Nat
    BY EverySets DEF Every!CreationAssumption
  <2> QED BY <2>1
<1>2. Cardinality(Creators) \in Nat /\ Cardinality(Every!Keys) \in Nat \ {0}
  BY <1>1, FS_CardinalityType, FS_EmptySet
<1>3. PICK k \in Every!Keys : k = CHOOSE l \in Every!Keys : TRUE
  BY <1>1
<1>4. Every!Idle = [pc |-> "idle", key |-> k, group |-> 0, pos |-> 0, note |-> 0]
  BY <1>3 DEF Every!Idle
<1>5. Every!Idle \in CallRecords /\ Every!Idle.pc = "idle" /\ Every!Idle.group = 0
  BY <1>2, <1>4, EverySets DEF CallRecords
<1> QED BY <1>1, <1>2, <1>5

\* Rewriting rows leaves their keys and groups.
NotesKept ==
    /\ notes' \in Seq(NoteRows) /\ DOMAIN notes' = DOMAIN notes
    /\ \A i \in DOMAIN notes : notes'[i].key = notes[i].key /\ notes'[i].group = notes[i].group
ByKept == \A i \in DOMAIN notes : notes'[i].by = notes[i].by

\* A call moves, and no other does.
CallAt(c, pc) ==
    /\ call' \in [Creators -> CallRecords] /\ call'[c].pc = pc
    /\ pc # "idle" => /\ call'[c].key = call[c].key /\ call'[c].group = call[c].group
                      /\ call'[c].note = call[c].note
    /\ \A d \in Creators \ {c} : call'[d] = call[d]

LEMMA CreatorMoves ==
    ASSUME Every!CreationAssumption, call \in [Creators -> CallRecords], NEW c \in Creators
    PROVE  /\ Every!Return(c) => CallAt(c, "idle")
           /\ \A pc \in {"group", "count", "deliver", "queue"} : Every!Goto(c, pc) => CallAt(c, pc)
<1>1. Every!Return(c) => CallAt(c, "idle")
  <2>1. Every!Return(c) => call' = [call EXCEPT ![c] = Every!Idle]
    BY DEF Every!Return
  <2> QED BY <2>1, CreationSizes DEF CallAt
<1>2. ASSUME NEW pc \in {"group", "count", "deliver", "queue"}, Every!Goto(c, pc) PROVE CallAt(c, pc)
  <2> DEFINE r == [call[c] EXCEPT !.pc = pc]
  <2>1. r \in CallRecords /\ r.pc = pc /\ r.key = call[c].key /\ r.group = call[c].group /\ r.note = call[c].note
    BY DEF CallRecords
  <2>2. call' = [call EXCEPT ![c] = r]
    BY <1>2 DEF Every!Goto
  <2> HIDE DEF r
  <2> QED BY <2>1, <2>2 DEF CallAt
<1> QED BY <1>1, <1>2

LEMMA OneNote ==
    ASSUME notes \in Seq(NoteRows), NEW i \in DOMAIN notes, NEW r \in NoteRows,
           r.key = notes[i].key, r.group = notes[i].group, notes' = [notes EXCEPT ![i] = r]
    PROVE  NotesKept /\ (r.by = notes[i].by => ByKept)
<1>1. DOMAIN notes = 1..Len(notes)
  BY LenProperties
<1>2. notes' \in Seq(NoteRows) /\ Len(notes') = Len(notes)
  BY <1>1, ExceptSeq
<1>3. DOMAIN notes' = DOMAIN notes /\ \A j \in DOMAIN notes : notes'[j] = IF j = i THEN r ELSE notes[j]
  OBVIOUS
<1> QED BY <1>2, <1>3 DEF NotesKept, ByKept

\* The groups as sets.
LEMMA GroupSets ==
    ASSUME Every!CreationAssumption, CreationTyped
    PROVE  /\ \A n : IsFiniteSet(Joins(n)) /\ Cardinality(Joins(n)) \in Nat /\ Cardinality(Joins(n)) <= Cardinality(Creators)
           /\ \A n : IsFiniteSet(Every!Group(n)) /\ Cardinality(Every!Group(n)) \in Nat
           /\ DOMAIN notes = 1..Len(notes) /\ IsFiniteSet(DOMAIN notes) /\ Len(notes) \in Nat
<1>1. \A n : Joins(n) \in SUBSET Creators
  BY DEF Joins
<1>2. DOMAIN notes = 1..Len(notes) /\ Len(notes) \in Nat
  BY LenProperties DEF CreationTyped
<1>3. IsFiniteSet(DOMAIN notes)
  BY <1>2, FS_Interval
<1>4. \A n : Every!Group(n) \in SUBSET (DOMAIN notes)
  BY DEF Every!Group
<1>5. \A n : IsFiniteSet(Joins(n)) /\ Cardinality(Joins(n)) \in Nat /\ Cardinality(Joins(n)) <= Cardinality(Creators)
  BY <1>1, CreationSizes, FS_Subset, FS_CardinalityType
<1>6. \A n : IsFiniteSet(Every!Group(n)) /\ Cardinality(Every!Group(n)) \in Nat
  BY <1>3, <1>4, FS_Subset, FS_CardinalityType
<1> QED BY <1>2, <1>3, <1>5, <1>6

\* There are no more notifications than keys.
LEMMA NotesFit ==
    ASSUME Every!CreationAssumption, CreationTyped, NotesKnow
    PROVE  /\ Len(notes) <= Cardinality(Every!Keys)
           /\ \A k \in Every!Keys : Every!Replays(k) = {} => Len(notes) + 1 <= Cardinality(Every!Keys)
<1>1. DOMAIN notes = 1..Len(notes) /\ Len(notes) \in Nat
  BY GroupSets
<1>2. \A i \in 1..Len(notes) : notes[i].key \in Every!Keys
  <2>1. \A i \in 1..Len(notes) : notes[i] \in NoteRows
    BY ElementOfSeq DEF CreationTyped
  <2> QED BY <2>1 DEF NoteRows
<1>3. ASSUME NEW k \in Every!Keys, Every!Replays(k) = {} PROVE Len(notes) + 1 <= Cardinality(Every!Keys)
  <2> DEFINE n == Len(notes) + 1
             f == [i \in 1..n |-> IF i = n THEN k ELSE notes[i].key]
  <2>1. f \in [1..n -> Every!Keys]
    BY <1>1, <1>2, <1>3
  <2>2. \A x, y \in 1..n : f[x] = f[y] => x = y
    BY <1>1, <1>3 DEF NotesKnow, Every!Replays
  <2>5. n \in Nat
    BY <1>1
  <2> HIDE DEF n, f
  <2>3. IsFiniteSet(1..n) /\ Cardinality(1..n) = n
    BY <2>5, FS_Interval
  <2>4. ~(Cardinality(Every!Keys) < Cardinality(1..n))
    <3>1. IsFiniteSet(Every!Keys)
      BY CreationSizes
    <3>2. Cardinality(Every!Keys) < Cardinality(1..n) => \E x, y \in 1..n : x # y /\ f[x] = f[y]
      BY <2>1, <2>3, <3>1, FS_PigeonHole
    <3> QED BY <2>2, <3>2
  <2>6. n <= Cardinality(Every!Keys)
    BY <2>3, <2>4, <2>5, CreationSizes
  <2> QED BY <2>6 DEF n
<1>4. Len(notes) <= Cardinality(Every!Keys)
  <2> DEFINE n == Len(notes)
             f == [i \in 1..n |-> notes[i].key]
  <2>1. f \in [1..n -> Every!Keys]
    BY <1>2
  <2>2. \A x, y \in 1..n : f[x] = f[y] => x = y
    BY <1>1 DEF NotesKnow
  <2>6. n \in Nat
    BY <1>1
  <2> HIDE DEF n, f
  <2>3. IsFiniteSet(1..n) /\ Cardinality(1..n) = n
    BY <2>6, FS_Interval
  <2>4. ~(Cardinality(Every!Keys) < Cardinality(1..n))
    <3>1. IsFiniteSet(Every!Keys)
      BY CreationSizes
    <3>2. Cardinality(Every!Keys) < Cardinality(1..n) => \E x, y \in 1..n : x # y /\ f[x] = f[y]
      BY <2>1, <2>3, <3>1, FS_PigeonHole
    <3> QED BY <2>2, <3>2
  <2>5. n <= Cardinality(Every!Keys)
    BY <2>3, <2>4, <2>6, CreationSizes
  <2> QED BY <2>5 DEF n
<1> QED BY <1>3, <1>4

\* Steps that keep the notes: no process joins a group or is about to supersede.
Quiet ==
    \A c \in Creators :
        \/ call'[c] = call[c]
        \/ call'[c].pc \in {"idle", "check", "group"}
        \/ call'[c].pc \in {"count", "deliver", "queue"} /\ call'[c].note \in DOMAIN notes

LEMMA QuietStep ==
    ASSUME Every!CreationAssumption, CreationInv, NotesKept, Quiet, overtaken' = overtaken
    PROVE  /\ NotesKnow' /\ CallsKnow' /\ GroupsHaveRoom' /\ NewerIsKnown'
           /\ ByKept => Every!OlderSupersedesInARace'
<1>1. NotesKnow' /\ CallsKnow' /\ NewerIsKnown'
  BY DEF CreationInv, NotesKnow, CallsKnow, NewerIsKnown, NotesKept, Quiet
<1>2. ByKept => Every!OlderSupersedesInARace'
  BY DEF CreationInv, Every!OlderSupersedesInARace, NotesKept, ByKept
<1>3. ASSUME NEW n \in Every!Indices
      PROVE  Cardinality(Every!Group(n)') + Cardinality(Joins(n)') <= GroupMax + Cardinality(Creators) - 1
  <2>1. Every!Group(n)' = Every!Group(n)
    BY DEF Every!Group, NotesKept
  <2>2. Joins(n)' \in SUBSET Joins(n)
    BY DEF Joins, Quiet
  <2>3. CreationTyped
    BY CreationTypes DEF CreationInv
  <2>4. IsFiniteSet(Joins(n)) /\ Cardinality(Joins(n)) \in Nat /\ Cardinality(Every!Group(n)) \in Nat
    BY <2>3, GroupSets
  <2>5. Cardinality(Joins(n)') <= Cardinality(Joins(n)) /\ Cardinality(Joins(n)') \in Nat
    BY <2>2, <2>4, FS_Subset, FS_CardinalityType
  <2>6. Cardinality(Every!Group(n)) + Cardinality(Joins(n)) <= GroupMax + Cardinality(Creators) - 1
    BY DEF CreationInv, GroupsHaveRoom
  <2>7. GroupMax \in Nat /\ Cardinality(Creators) \in Nat
    BY CreationSizes
  <2> QED BY <2>1, <2>4, <2>5, <2>6, <2>7
<1>4. GroupsHaveRoom'
  BY <1>3 DEF GroupsHaveRoom, Every!Indices
<1> QED BY <1>1, <1>2, <1>4

\* A process joins a group that is not full, or starts one.
LEMMA JoinStep ==
    ASSUME Every!CreationAssumption, CreationInv, NEW c \in Creators, Every!FindGroup(c)
    PROVE  CreationInv'
<1>t. CreationTyped
  BY CreationTypes DEF CreationInv
<1>0. /\ UNCHANGED <<notes, counter, answered, overtaken, creationFaults>>
      /\ call[c].pc = "group"
  BY DEF Every!FindGroup, Every!At
<1>1. PICK g \in {0} \cup DOMAIN notes, p \in Nat :
        /\ call' = [call EXCEPT ![c] = [@ EXCEPT !.pc = "insert", !.group = g, !.pos = p]]
        /\ g # 0 => Cardinality(Every!Group(g)) < GroupMax
  <2>1. \A i \in DOMAIN notes : notes[i].pos \in Nat
    <3>1. \A i \in DOMAIN notes : notes[i] \in NoteRows
      BY <1>t, GroupSets, ElementOfSeq DEF CreationTyped
    <3> QED BY <3>1 DEF NoteRows
  <2>2. \A i \in Every!Of(Every!MyCategory(c)) : i \in DOMAIN notes /\ notes[i].group \in DOMAIN notes
    BY DEF Every!Of, CreationInv, NotesKnow
  <2>3. CASE call' = [call EXCEPT ![c] = [@ EXCEPT !.pc = "insert", !.group = 0, !.pos = 1]]
    BY <2>3
  <2>4. ASSUME NEW i \in DOMAIN notes, notes[i].group \in DOMAIN notes,
               Cardinality(Every!Group(notes[i].group)) < GroupMax,
               call' = [call EXCEPT ![c] = [@ EXCEPT !.pc = "insert", !.group = notes[i].group, !.pos = notes[i].pos + 1]]
        PROVE  \E g \in {0} \cup DOMAIN notes, p \in Nat :
                 /\ call' = [call EXCEPT ![c] = [@ EXCEPT !.pc = "insert", !.group = g, !.pos = p]]
                 /\ g # 0 => Cardinality(Every!Group(g)) < GroupMax
    <3>1. notes[i].pos + 1 \in Nat
      BY <2>1
    <3> QED BY <2>4, <3>1
  <2> QED BY <2>2, <2>3, <2>4, EverySets DEF Every!FindGroup
<1>2. DOMAIN notes = 1..Len(notes) /\ Len(notes) \in Nat /\ Len(notes) <= Cardinality(Every!Keys)
  BY <1>t, GroupSets, NotesFit DEF CreationInv
<1> DEFINE r == [call[c] EXCEPT !.pc = "insert", !.group = g, !.pos = p]
<1>3. call[c] \in CallRecords /\ Cardinality(Every!Keys) \in Nat
  BY <1>t, CreationSizes DEF CreationTyped
<1>4. r \in CallRecords /\ r.pc = "insert" /\ r.group = g /\ call' = [call EXCEPT ![c] = r]
  <2>1. g \in 0..Every!Cardinality(Every!Keys)
    BY <1>2, <1>3, EverySets
  <2>2. r \in CallRecords
    BY <1>3, <2>1 DEF CallRecords
  <2>3. r.pc = "insert" /\ r.group = g
    BY <1>3 DEF CallRecords
  <2> QED BY <1>1, <2>2, <2>3
<1> HIDE DEF r
<1>5. call' \in [Creators -> CallRecords] /\ call'[c] = r /\ \A d \in Creators \ {c} : call'[d] = call[d]
  BY <1>t, <1>4 DEF CreationTyped
<1>6. CreationTyped'
  BY <1>t, <1>0, <1>5 DEF CreationTyped
<1>7. NotesKnow' /\ CallsKnow' /\ NewerIsKnown' /\ Every!OlderSupersedesInARace'
  BY <1>0, <1>4, <1>5 DEF CreationInv, NotesKnow, CallsKnow, NewerIsKnown, Every!OlderSupersedesInARace
<1>8. ASSUME NEW n \in Every!Indices
      PROVE  Cardinality(Every!Group(n)') + Cardinality(Joins(n)') <= GroupMax + Cardinality(Creators) - 1
  <2>1. Every!Group(n)' = Every!Group(n)
    BY <1>0 DEF Every!Group
  <2>2. /\ IsFiniteSet(Joins(n)) /\ Cardinality(Joins(n)) \in Nat /\ Cardinality(Every!Group(n)) \in Nat
        /\ GroupMax \in Nat \ {0} /\ Cardinality(Creators) \in Nat /\ IsFiniteSet(Creators)
    BY <1>t, GroupSets, CreationSizes
  <2>3. CASE n # g
    <3>1. Joins(n)' = Joins(n)
      BY <1>0, <1>4, <1>5, <2>3 DEF Joins
    <3> QED BY <2>1, <3>1 DEF CreationInv, GroupsHaveRoom
  <2>4. CASE n = g
    <3>1. g # 0
      BY <2>4 DEF Every!Indices
    <3>2. Cardinality(Every!Group(n)) <= GroupMax - 1
      BY <1>1, <2>2, <2>4, <3>1
    <3>3. Joins(n)' \in SUBSET Creators
      BY DEF Joins
    <3>4. Cardinality(Joins(n)') <= Cardinality(Creators) /\ Cardinality(Joins(n)') \in Nat
      BY <2>2, <3>3, FS_Subset, FS_CardinalityType
    <3> QED BY <2>1, <2>2, <3>2, <3>4
  <2> QED BY <2>3, <2>4
<1>9. GroupsHaveRoom'
  BY <1>8 DEF GroupsHaveRoom, Every!Indices
<1> QED BY <1>6, <1>7, <1>9, CreationTypes DEF CreationInv, CreationTyped, Every!TypeOK, NoteRows, CallRecords

\* A notification is inserted.
Inserts(c) ==
    /\ Every!Insert(c)
    /\ Every!Replays(call[c].key) = {}

LEMMA InsertStep ==
    ASSUME Every!CreationAssumption, CreationInv, NEW c \in Creators, Inserts(c)
    PROVE  CreationInv'
<1>t. CreationTyped
  BY CreationTypes DEF CreationInv
<1> DEFINE i == Len(notes) + 1
           g == call[c].group
           r == [key |-> call[c].key, group |-> IF g = 0 THEN i ELSE g, pos |-> call[c].pos, batched |-> FALSE,
                 by |-> 0, delivery |-> "none", attempts |-> 0, outbox |-> FALSE]
           q == [call[c] EXCEPT !.pc = "supersede", !.note = i]
           others == {d \in Creators : call[d].pc = "supersede"}
<1>1. /\ call[c].pc = "insert" /\ Every!Replays(call[c].key) = {}
      /\ notes' = Append(notes, r) /\ call' = [call EXCEPT ![c] = q]
      /\ overtaken' = IF others # {} THEN overtaken \cup {i} ELSE overtaken
      /\ UNCHANGED <<answered, counter, creationFaults>>
  BY DEF Inserts, Every!Insert, Every!At
<1>2. /\ DOMAIN notes = 1..Len(notes) /\ Len(notes) \in Nat
      /\ Cardinality(Every!Keys) \in Nat \ {0} /\ MaxAttempts \in Nat \ {0}
      /\ GroupMax \in Nat \ {0} /\ Cardinality(Creators) \in Nat /\ IsFiniteSet(Creators)
  BY <1>t, GroupSets, CreationSizes
<1>3. /\ call[c] \in CallRecords /\ call[c].key \in Every!Keys /\ call[c].pos \in Nat
      /\ g \in {0} \cup DOMAIN notes
  BY <1>t, <1>1 DEF CreationTyped, CallRecords, CreationInv, CallsKnow
<1>4. i <= Cardinality(Every!Keys)
  BY <1>t, <1>1, <1>3, NotesFit DEF CreationInv
<1>5. i \in Every!Indices /\ i \in 0..Every!Cardinality(Every!Keys) /\ (g # 0 => g \in Every!Indices /\ g < i)
  BY <1>2, <1>3, <1>4, EverySets DEF Every!Indices
<1>6. /\ r \in NoteRows /\ r.key = call[c].key /\ r.group = (IF g = 0 THEN i ELSE g) /\ r.by = 0
      /\ q \in CallRecords /\ q.pc = "supersede" /\ q.note = i
  <2>1. r.group \in Every!Indices
    BY <1>5
  <2>2. 0 \in 0..Every!Cardinality(Every!Keys) /\ 0 \in 0..MaxAttempts
    BY <1>2, EverySets
  <2>3. r \in NoteRows
    BY <1>3, <2>1, <2>2 DEF NoteRows
  <2>4. q \in CallRecords
    BY <1>3, <1>5 DEF CallRecords
  <2>5. q.pc = "supersede" /\ q.note = i
    BY <1>3 DEF CallRecords
  <2> QED BY <2>3, <2>4, <2>5
<1>7. /\ notes' \in Seq(NoteRows) /\ DOMAIN notes' = 1..i /\ notes'[i] = r
      /\ \A j \in 1..Len(notes) : notes'[j] = notes[j]
  BY <1>t, <1>1, <1>2, <1>6 DEF CreationTyped
<1>8. call' \in [Creators -> CallRecords] /\ call'[c] = q /\ \A d \in Creators \ {c} : call'[d] = call[d]
  BY <1>t, <1>1, <1>6 DEF CreationTyped
<1> HIDE DEF r, q
<1>9. CreationTyped'
  BY <1>t, <1>1, <1>5, <1>7, <1>8 DEF CreationTyped
<1>10. NotesKnow'
  <2>1. \A j \in 1..Len(notes) : notes'[j].key # r.key
    BY <1>1, <1>2, <1>6, <1>7 DEF Every!Replays
  <2>2. \A j, k \in 1..Len(notes) : notes'[j].key = notes'[k].key => j = k
    BY <1>2, <1>7 DEF CreationInv, NotesKnow
  <2>3. \A j \in 1..Len(notes) : notes'[j].group \in 1..Len(notes)
    BY <1>2, <1>7 DEF CreationInv, NotesKnow
  <2>4. r.group \in 1..i
    BY <1>2, <1>3, <1>6
  <2>5. ASSUME NEW j \in 1..i, NEW k \in 1..i, notes'[j].key = notes'[k].key
        PROVE  j = k
    <3>1. \A l \in 1..i : l = i \/ l \in 1..Len(notes)
      BY <1>2
    <3> QED BY <1>7, <2>1, <2>2, <2>5, <3>1
  <2>6. ASSUME NEW j \in 1..i
        PROVE  notes'[j].group \in 1..i
    <3>1. j = i \/ j \in 1..Len(notes)
      BY <1>2
    <3>2. 1..Len(notes) \subseteq 1..i
      BY <1>2
    <3> QED BY <1>7, <2>3, <2>4, <3>1, <3>2
  <2> QED BY <1>7, <2>5, <2>6 DEF NotesKnow
<1>11. CallsKnow'
  BY <1>2, <1>6, <1>7, <1>8 DEF CreationInv, CallsKnow
<1>12. NewerIsKnown'
  <2>1. ASSUME NEW d \in Creators, call'[d].pc = "supersede", NEW j \in 1..i, j > call'[d].note
        PROVE  j \in overtaken'
    <3>1. d # c
      BY <1>2, <1>6, <1>8, <2>1
    <3>2. call[d].pc = "supersede" /\ j > call[d].note
      BY <1>8, <2>1, <3>1
    <3>3. CASE j = i
      BY <1>1, <3>2, <3>3
    <3>4. CASE j \in DOMAIN notes
      BY <1>1, <3>2, <3>4 DEF CreationInv, NewerIsKnown
    <3> QED BY <1>2, <3>3, <3>4
  <2> QED BY <1>7, <2>1 DEF NewerIsKnown
<1>13. Every!OlderSupersedesInARace'
  BY <1>1, <1>2, <1>6, <1>7 DEF CreationInv, Every!OlderSupersedesInARace
<1>14. ASSUME NEW n \in Every!Indices
       PROVE  Cardinality(Every!Group(n)') + Cardinality(Joins(n)') <= GroupMax + Cardinality(Creators) - 1
  <2>1. /\ IsFiniteSet(Every!Group(n)) /\ Cardinality(Every!Group(n)) \in Nat
        /\ IsFiniteSet(Joins(n)) /\ Cardinality(Joins(n)) \in Nat
        /\ Cardinality(Every!Group(n)) + Cardinality(Joins(n)) <= GroupMax + Cardinality(Creators) - 1
    BY <1>t, GroupSets DEF CreationInv, GroupsHaveRoom
  <2>2. Joins(n)' = Joins(n) \ {c}
    BY <1>6, <1>8 DEF Joins
  <2>3. Cardinality(Joins(n)') = (IF c \in Joins(n) THEN Cardinality(Joins(n)) - 1 ELSE Cardinality(Joins(n)))
    BY <2>1, <2>2, FS_RemoveElement
  <2>4. CASE n # r.group
    <3>1. Every!Group(n)' = Every!Group(n)
      BY <1>2, <1>7, <2>4 DEF Every!Group
    <3> QED BY <1>2, <2>1, <2>3, <3>1
  <2>5. CASE n = r.group /\ g # 0
    <3>1. Every!Group(n)' = Every!Group(n) \cup {i}
      BY <1>2, <1>7, <2>5 DEF Every!Group
    <3>2. Cardinality(Every!Group(n)') <= Cardinality(Every!Group(n)) + 1 /\ Cardinality(Every!Group(n)') \in Nat
      <4>1. /\ IsFiniteSet(Every!Group(n) \cup {i})
            /\ Cardinality(Every!Group(n) \cup {i}) \in {Cardinality(Every!Group(n)), Cardinality(Every!Group(n)) + 1}
        BY <2>1, FS_AddElement
      <4> QED BY <2>1, <3>1, <4>1
    <3>3. c \in Joins(n)
      BY <1>1, <1>6, <2>5 DEF Joins
    <3> QED BY <1>2, <2>1, <2>3, <3>2, <3>3
  <2>6. CASE n = r.group /\ g = 0
    <3>1. n = i
      BY <1>6, <2>6
    <3>2. Every!Group(n)' = {i}
      <4>1. \A j \in 1..Len(notes) : notes'[j].group # i
        BY <1>2, <1>7 DEF CreationInv, NotesKnow
      <4>2. notes'[i].group = i /\ i \in 1..i
        BY <1>2, <1>6, <1>7, <2>6
      <4>3. \A j \in 1..i : j = i \/ j \in 1..Len(notes)
        BY <1>2
      <4> QED BY <1>7, <3>1, <4>1, <4>2, <4>3 DEF Every!Group
    <3>3. Joins(n)' = {}
      BY <1>2, <2>2, <3>1 DEF Joins, CreationInv, CallsKnow
    <3>4. Cardinality(Creators) # 0
      BY <1>2, FS_EmptySet
    <3>5. Cardinality({i}) = 1 /\ Cardinality({}) = 0
      BY FS_EmptySet, FS_Singleton
    <3> HIDE DEF i
    <3> QED BY <1>2, <3>2, <3>3, <3>4, <3>5
  <2> QED BY <2>4, <2>5, <2>6
<1>15. GroupsHaveRoom'
  BY <1>14 DEF GroupsHaveRoom, Every!Indices
<1> QED BY <1>9, <1>10, <1>11, <1>12, <1>13, <1>15, CreationTypes DEF CreationInv, CreationTyped,
     Every!TypeOK, NoteRows, CallRecords

\* What remains of a step that keeps the notes: its types.
CallsTyped ==
    /\ counter' \in [Every!Categories -> Nat] /\ answered' \subseteq Every!Indices
    /\ creationFaults' \in 0..MaxCreationFaults /\ call' \in [Creators -> CallRecords]

LEMMA QuietInv ==
    ASSUME Every!CreationAssumption, CreationInv, NotesKept, Quiet, overtaken' = overtaken, CallsTyped,
           ByKept \/ Every!OlderSupersedesInARace'
    PROVE  CreationInv'
<1>1. CreationTyped'
  BY CreationTypes DEF CreationInv, CreationTyped, NotesKept, CallsTyped
<1>2. Every!TypeOK'
  BY <1>1 DEF CreationTyped, Every!TypeOK, NoteRows, CallRecords
<1> QED BY <1>2, QuietStep DEF CreationInv

LEMMA NotesSame == CreationTyped /\ notes' = notes => NotesKept /\ ByKept
BY DEF NotesKept, ByKept, CreationTyped

\* A row of the notes takes the event of a later one in.
LEMMA BatchKeeps ==
    ASSUME CreationTyped, NEW g, notes' = Every!Batched(g)
    PROVE  NotesKept /\ ByKept
<1>1. CASE notes' = notes
  BY <1>1, NotesSame
<1>2. CASE notes' # notes
  <2> DEFINE i == Every!Latest(Every!Of(g))
             r == [notes[i] EXCEPT !.batched = TRUE]
  <2>1. notes' = [notes EXCEPT ![i] = r]
    BY <1>2 DEF Every!Batched
  <2>2. i \in DOMAIN notes
    BY <1>2, <2>1, LenProperties DEF CreationTyped
  <2>3. notes[i] \in NoteRows
    BY <2>2, LenProperties, ElementOfSeq DEF CreationTyped
  <2>4. r \in NoteRows /\ r.key = notes[i].key /\ r.group = notes[i].group /\ r.by = notes[i].by
    BY <2>3 DEF NoteRows
  <2> HIDE DEF i, r
  <2> QED BY <2>1, <2>2, <2>4, OneNote DEF CreationTyped
<1> QED BY <1>1, <1>2

\* Writes to a row of a delivery.
LEMMA DeliveryWrites ==
    ASSUME Every!CreationAssumption, CreationTyped, NEW i \in DOMAIN notes
    PROVE  /\ notes' = [notes EXCEPT ![i].delivery = "pending"] => NotesKept /\ ByKept
           /\ notes' = [notes EXCEPT ![i].outbox = TRUE] => NotesKept /\ ByKept
           /\ notes' = [notes EXCEPT ![i] = [@ EXCEPT !.outbox = TRUE, !.delivery = "queued"]] => NotesKept /\ ByKept
           /\ \A d \in {"retry_pending", "failed_terminal"} :
                notes' = [notes EXCEPT ![i] = Every!Failed(@, d)]
                  => NotesKept /\ ByKept
<1>1. notes[i] \in NoteRows /\ notes \in Seq(NoteRows) /\ MaxAttempts \in Nat \ {0}
  BY LenProperties, ElementOfSeq, CreationSizes DEF CreationTyped
<1>2. ASSUME NEW r \in NoteRows, r.key = notes[i].key, r.group = notes[i].group, r.by = notes[i].by,
             notes' = [notes EXCEPT ![i] = r]
      PROVE  NotesKept /\ ByKept
  BY <1>1, <1>2, OneNote
<1>3. ASSUME notes' = [notes EXCEPT ![i].delivery = "pending"] PROVE NotesKept /\ ByKept
  <2> DEFINE r == [notes[i] EXCEPT !.delivery = "pending"]
  <2>1. r \in NoteRows /\ r.key = notes[i].key /\ r.group = notes[i].group /\ r.by = notes[i].by
    BY <1>1 DEF NoteRows
  <2>2. notes' = [notes EXCEPT ![i] = r]
    BY <1>3
  <2> HIDE DEF r
  <2> QED BY <1>2, <2>1, <2>2
<1>4. ASSUME notes' = [notes EXCEPT ![i].outbox = TRUE] PROVE NotesKept /\ ByKept
  <2> DEFINE r == [notes[i] EXCEPT !.outbox = TRUE]
  <2>1. r \in NoteRows /\ r.key = notes[i].key /\ r.group = notes[i].group /\ r.by = notes[i].by
    BY <1>1 DEF NoteRows
  <2>2. notes' = [notes EXCEPT ![i] = r]
    BY <1>4
  <2> HIDE DEF r
  <2> QED BY <1>2, <2>1, <2>2
<1>5. ASSUME notes' = [notes EXCEPT ![i] = [@ EXCEPT !.outbox = TRUE, !.delivery = "queued"]] PROVE NotesKept /\ ByKept
  <2> DEFINE r == [notes[i] EXCEPT !.outbox = TRUE, !.delivery = "queued"]
  <2>1. r \in NoteRows /\ r.key = notes[i].key /\ r.group = notes[i].group /\ r.by = notes[i].by
    BY <1>1 DEF NoteRows
  <2>2. notes' = [notes EXCEPT ![i] = r]
    BY <1>5
  <2> HIDE DEF r
  <2> QED BY <1>2, <2>1, <2>2
<1>6. ASSUME NEW d \in {"retry_pending", "failed_terminal"},
             notes' = [notes EXCEPT ![i] = Every!Failed(@, d)]
      PROVE  NotesKept /\ ByKept
  <2> DEFINE r == Every!Failed(notes[i], d)
             a == IF notes[i].attempts < MaxAttempts THEN notes[i].attempts + 1 ELSE notes[i].attempts
  <2>1. a \in 0..MaxAttempts
    BY <1>1 DEF NoteRows
  <2>2. r = [notes[i] EXCEPT !.delivery = d, !.attempts = a]
    BY <1>1 DEF NoteRows, Every!Failed
  <2>3. notes' = [notes EXCEPT ![i] = r]
    BY <1>6
  <2> HIDE DEF a, r
  <2>4. r \in NoteRows /\ r.key = notes[i].key /\ r.group = notes[i].group /\ r.by = notes[i].by
    BY <1>1, <2>1, <2>2 DEF NoteRows
  <2> QED BY <1>2, <2>3, <2>4
<1> QED BY <1>3, <1>4, <1>5, <1>6

\* The other steps of a creation keep the notes.
LEMMA CreationQuiet ==
    ASSUME Every!CreationAssumption, CreationInv, NEW c \in Creators, NEW pc,
           pc \in {"idle", "group"} \/ (pc \in {"count", "deliver", "queue"} /\ call[c].note \in DOMAIN notes),
           CallAt(c, pc), NotesKept, ByKept \/ Every!OlderSupersedesInARace', overtaken' = overtaken,
           counter' \in [Every!Categories -> Nat], answered' \subseteq Every!Indices, creationFaults' \in 0..MaxCreationFaults
    PROVE  CreationInv'
<1>1. Quiet /\ CallsTyped
  BY DEF Quiet, CallsTyped, CallAt
<1> QED BY <1>1, QuietInv

LEMMA CreationStep ==
    ASSUME Every!CreationAssumption, CreationInv,
           NEW c \in Creators, Creates(c) \/ AnyCheck(c)
    PROVE  CreationInv' /\ (NotesKept \/ Inserts(c))
<1>t. CreationTyped
  BY CreationTypes DEF CreationInv
<1>i. /\ call \in [Creators -> CallRecords] /\ counter \in [Every!Categories -> Nat]
      /\ answered \subseteq Every!Indices /\ creationFaults \in 0..MaxCreationFaults /\ MaxCreationFaults \in Nat
  BY <1>t, CreationSizes DEF CreationTyped
<1>r. \A k : Every!Replays(k) \subseteq Every!Indices /\ DOMAIN notes \subseteq Every!Indices
  <2>1. DOMAIN notes \subseteq Every!Indices
    BY <1>t, GroupSets, NotesFit, CreationSizes, EverySets DEF Every!Indices, CreationInv
  <2> QED BY <2>1 DEF Every!Replays
<1>f. \A kind : Every!Fault(kind) => creationFaults' \in 0..MaxCreationFaults
  BY <1>i DEF Every!Fault
<1>n. notes' = notes => NotesKept /\ ByKept
  BY <1>t, NotesSame
<1>1. ASSUME NEW k \in Every!Keys, Every!Start(c, k) PROVE CreationInv' /\ NotesKept
  <2> DEFINE r == [Every!Idle EXCEPT !.pc = "check", !.key = k]
  <2>1. /\ UNCHANGED <<notes, counter, overtaken, creationFaults>>
        /\ \/ call' = [call EXCEPT ![c] = r] /\ answered' = answered
           \/ call' = call /\ answered' = answered \cup Every!Replays(k)
    BY <1>1 DEF Every!Start
  <2>2. r \in CallRecords /\ r.pc = "check"
    BY CreationSizes DEF CallRecords
  <2> HIDE DEF r
  <2>3. call' \in [Creators -> CallRecords] /\ \A d \in Creators : call'[d] = call[d] \/ call'[d].pc = "check"
    BY <1>i, <2>1, <2>2
  <2>4. Quiet /\ CallsTyped
    BY <1>i, <1>r, <2>1, <2>3 DEF Quiet, CallsTyped
  <2> QED BY <1>n, <2>1, <2>4, QuietInv
<1>2. CASE AnyCheck(c) \/ Every!CheckFailsOpen(c)
  <2>1. UNCHANGED <<counter, answered, overtaken>> /\ creationFaults' \in 0..MaxCreationFaults
    BY <1>i, <1>f, <1>2 DEF AnyCheck, Every!CheckFailsOpen
  <2>2. CallAt(c, "idle") \/ CallAt(c, "group")
    BY <1>i, <1>2, CreatorMoves DEF AnyCheck, Every!CheckFailsOpen
  <2>3. NotesKept /\ ByKept
    BY <1>t, <1>n, <1>2, BatchKeeps DEF AnyCheck, Every!CheckFailsOpen
  <2> QED BY <1>i, <2>1, <2>2, <2>3, CreationQuiet
<1>3. CASE Every!FindGroup(c)
  BY <1>3, <1>n, JoinStep DEF Every!FindGroup
<1>4. CASE Every!Insert(c)
  <2>1. CASE Every!Replays(call[c].key) = {}
    BY <1>4, <2>1, InsertStep DEF Inserts
  <2>2. CASE Every!Replays(call[c].key) # {}
    <3>1. /\ UNCHANGED <<notes, counter, overtaken, creationFaults>> /\ Every!Return(c)
          /\ answered' = answered \cup Every!Replays(call[c].key)
      BY <1>4, <2>2 DEF Every!Insert
    <3> QED BY <1>i, <1>r, <1>n, <3>1, CreatorMoves, CreationQuiet
  <2> QED BY <2>1, <2>2
<1>5. CASE Every!Supersede(c)
  <2> DEFINE mine(i) == Every!Category(i) = Every!MyCategory(c) \/ notes[i].by # 0 \/ i = call[c].note
             next(i) == [notes[i] EXCEPT !.by = call[c].note,
                                         !.delivery = IF @ \in {"pending", "queued", "retry_pending"} THEN "cancelled" ELSE @]
  <2>1. /\ call[c].pc = "supersede" /\ Every!Goto(c, "count")
        /\ UNCHANGED <<counter, answered, overtaken, creationFaults>>
    BY <1>5 DEF Every!Supersede, Every!At
  <2>2. notes' = [i \in DOMAIN notes |-> IF mine(i) THEN notes[i] ELSE next(i)]
    BY <1>5 DEF Every!Supersede
  <2>3. call[c].note \in DOMAIN notes /\ call[c].note \in 0..Every!Cardinality(Every!Keys)
    BY <1>i, <2>1 DEF CreationInv, CallsKnow, CallRecords
  <2>4. \A i \in DOMAIN notes : notes[i] \in NoteRows
    BY <1>t, LenProperties, ElementOfSeq DEF CreationTyped
  <2>5. ASSUME NEW i \in DOMAIN notes
        PROVE  next(i) \in NoteRows /\ next(i).key = notes[i].key /\ next(i).group = notes[i].group /\ next(i).by = call[c].note
    BY <2>3, <2>4 DEF NoteRows
  <2> HIDE DEF next, mine
  <2>6. /\ DOMAIN notes' = DOMAIN notes
        /\ \A i \in DOMAIN notes : /\ notes'[i] \in NoteRows /\ notes'[i].key = notes[i].key /\ notes'[i].group = notes[i].group
                                   /\ notes'[i].by = notes[i].by \/ notes'[i].by = call[c].note
    BY <2>2, <2>4, <2>5
  <2>7. notes' \in Seq(NoteRows)
    <3>1. DOMAIN notes = 1..Len(notes) /\ Len(notes) \in Nat
      BY <1>t, GroupSets
    <3>2. notes' \in [1..Len(notes) -> NoteRows]
      BY <2>2, <2>6, <3>1
    <3> QED BY <3>1, <3>2, SeqDef
  <2>8. NotesKept
    BY <2>6, <2>7 DEF NotesKept
  <2>9. Every!OlderSupersedesInARace'
    BY <2>1, <2>3, <2>6 DEF Every!OlderSupersedesInARace, CreationInv, NewerIsKnown
  <2> QED BY <1>i, <2>1, <2>3, <2>8, <2>9, CreatorMoves, CreationQuiet
<1>6. CASE Every!IncrementFrequency(c)
  <2>1. call[c].pc = "count" /\ Every!Goto(c, "deliver") /\ UNCHANGED <<notes, answered, overtaken>>
    BY <1>6 DEF Every!IncrementFrequency, Every!At
  <2>2. counter' \in [Every!Categories -> Nat] /\ creationFaults' \in 0..MaxCreationFaults
    BY <1>i, <1>f, <1>6 DEF Every!IncrementFrequency
  <2>3. call[c].note \in DOMAIN notes
    BY <2>1 DEF CreationInv, CallsKnow
  <2> QED BY <1>i, <1>n, <2>1, <2>2, <2>3, CreatorMoves, CreationQuiet
<1>7. CASE Every!WriteDelivery(c)
  <2>1. call[c].pc = "deliver" /\ Every!Goto(c, "queue") /\ UNCHANGED <<counter, answered, overtaken, creationFaults>>
    BY <1>7 DEF Every!WriteDelivery, Every!At
  <2>2. call[c].note \in DOMAIN notes
    BY <2>1 DEF CreationInv, CallsKnow
  <2>3. NotesKept /\ ByKept
    BY <1>t, <1>7, <2>2, DeliveryWrites DEF Every!WriteDelivery
  <2> QED BY <1>i, <2>1, <2>2, <2>3, CreatorMoves, CreationQuiet
<1>8. CASE Every!QueueChannel(c)
  <2>1. /\ call[c].pc = "queue" /\ Every!Return(c) /\ UNCHANGED <<counter, overtaken>>
        /\ answered' = answered \cup {call[c].note}
    BY <1>8 DEF Every!QueueChannel, Every!At
  <2>2. call[c].note \in DOMAIN notes
    BY <2>1 DEF CreationInv, CallsKnow
  <2>3. NotesKept /\ ByKept
    BY <1>t, <1>8, <2>2, DeliveryWrites DEF Every!QueueChannel
  <2>4. creationFaults' \in 0..MaxCreationFaults
    BY <1>i, <1>f, <1>8 DEF Every!QueueChannel
  <2> QED BY <1>i, <1>r, <2>1, <2>2, <2>3, <2>4, CreatorMoves, CreationQuiet
<1>9. CASE Every!Crash(c)
  <2>1. Every!Return(c) /\ UNCHANGED <<notes, counter, answered, overtaken>> /\ creationFaults' \in 0..MaxCreationFaults
    BY <1>f, <1>9 DEF Every!Crash
  <2> QED BY <1>i, <1>n, <2>1, CreatorMoves, CreationQuiet
<1> QED BY <1>1, <1>2, <1>3, <1>4, <1>5, <1>6, <1>7, <1>8, <1>9 DEF Creates

\* And so does the recovery.
LEMMA RecoveryWrites ==
    ASSUME Every!CreationAssumption, CreationTyped, NEW i \in DOMAIN notes, Every!RecoverDue(i)
    PROVE  NotesKept /\ ByKept
<1>1. \/ notes' = [notes EXCEPT ![i] = [@ EXCEPT !.outbox = TRUE, !.delivery = "queued"]]
      \/ \E d \in {"retry_pending", "failed_terminal"} : notes' = [notes EXCEPT ![i] = Every!Failed(@, d)]
  BY DEF Every!RecoverDue
<1> QED BY <1>1, DeliveryWrites

LEMMA RecoveryStep ==
    ASSUME Every!CreationAssumption, CreationInv, NEW i \in DOMAIN notes, Every!RecoverDue(i)
    PROVE  CreationInv'
<1>t. CreationTyped
  BY CreationTypes DEF CreationInv
<1>1. UNCHANGED <<call, counter, answered, overtaken>>
  BY DEF Every!RecoverDue
<1>2. NotesKept /\ ByKept
  BY <1>t, RecoveryWrites
<1>3. creationFaults' \in 0..MaxCreationFaults
  BY <1>t, CreationSizes DEF Every!RecoverDue, Every!Fault, CreationTyped
<1>4. Quiet /\ CallsTyped
  BY <1>t, <1>1, <1>3 DEF Quiet, CallsTyped, CreationTyped
<1> QED BY <1>1, <1>2, <1>4, QuietInv

\* The limit of an hour. What is inserted is counted, about to be, or lost to a fault;
\* what has passed the check found the counter below the limit.
Passed(g) == {c \in Creators : call[c].pc \in {"group", "insert"} /\ Every!MyCategory(c) = g}
Uncounted(g) == {c \in Creators : call[c].pc \in {"supersede", "count"} /\ Every!MyCategory(c) = g}
QuotaInv ==
    \A g \in Every!Categories :
        /\ Cardinality(Every!Of(g)) <= counter[g] + Cardinality(Uncounted(g)) + creationFaults
        /\ Cardinality(Every!Of(g)) + Cardinality(Passed(g)) <= HourlyLimit + Cardinality(Creators) - 1 + creationFaults

LEMMA QuotaSets ==
    ASSUME Every!CreationAssumption, CreationTyped, NEW g \in Every!Categories
    PROVE  /\ IsFiniteSet(Every!Of(g)) /\ Cardinality(Every!Of(g)) \in Nat
           /\ IsFiniteSet(Passed(g)) /\ Cardinality(Passed(g)) \in Nat
           /\ IsFiniteSet(Uncounted(g)) /\ Cardinality(Uncounted(g)) \in Nat
           /\ counter[g] \in Nat /\ creationFaults \in Nat /\ HourlyLimit \in Nat \ {0}
           /\ Cardinality(Creators) \in Nat /\ IsFiniteSet(Creators)
           /\ \A c \in Creators : c \notin Passed(g) /\ c \notin Uncounted(g)
                => Cardinality(Passed(g)) + Cardinality(Uncounted(g)) + 1 <= Cardinality(Creators)
<1>1. Every!Of(g) \in SUBSET (DOMAIN notes) /\ Passed(g) \in SUBSET Creators /\ Uncounted(g) \in SUBSET Creators
  BY DEF Every!Of, Passed, Uncounted
<1>2. IsFiniteSet(DOMAIN notes)
  BY GroupSets
<1>3. HourlyLimit \in Nat \ {0} /\ Cardinality(Creators) \in Nat /\ IsFiniteSet(Creators)
  BY CreationSizes
<1>4. /\ IsFiniteSet(Every!Of(g)) /\ Cardinality(Every!Of(g)) \in Nat
      /\ IsFiniteSet(Passed(g)) /\ Cardinality(Passed(g)) \in Nat
      /\ IsFiniteSet(Uncounted(g)) /\ Cardinality(Uncounted(g)) \in Nat
  BY <1>1, <1>2, <1>3, FS_Subset, FS_CardinalityType
<1>5. counter[g] \in Nat /\ creationFaults \in Nat
  BY CreationSizes DEF CreationTyped
<1>6. ASSUME NEW c \in Creators, c \notin Passed(g), c \notin Uncounted(g)
      PROVE  Cardinality(Passed(g)) + Cardinality(Uncounted(g)) + 1 <= Cardinality(Creators)
  <2>1. Passed(g) \cap Uncounted(g) = {}
    BY DEF Passed, Uncounted
  <2>2. /\ IsFiniteSet(Passed(g) \cup Uncounted(g))
        /\ Cardinality(Passed(g) \cup Uncounted(g)) = Cardinality(Passed(g)) + Cardinality(Uncounted(g))
    <3>1. /\ IsFiniteSet(Passed(g) \cup Uncounted(g))
          /\ Cardinality(Passed(g) \cup Uncounted(g))
               = Cardinality(Passed(g)) + Cardinality(Uncounted(g)) - Cardinality(Passed(g) \cap Uncounted(g))
      BY <1>4, FS_Union
    <3>2. Cardinality(Passed(g) \cap Uncounted(g)) = 0
      BY <2>1, FS_EmptySet
    <3> QED BY <1>4, <3>1, <3>2
  <2>3. /\ IsFiniteSet((Passed(g) \cup Uncounted(g)) \cup {c})
        /\ Cardinality((Passed(g) \cup Uncounted(g)) \cup {c}) = Cardinality(Passed(g)) + Cardinality(Uncounted(g)) + 1
    BY <1>6, <2>2, FS_AddElement
  <2>4. (Passed(g) \cup Uncounted(g)) \cup {c} \in SUBSET Creators
    BY <1>1
  <2> QED BY <1>3, <2>3, <2>4, FS_Subset
<1> QED BY <1>3, <1>4, <1>5, <1>6

\* A step that inserts nothing, lets nothing pass, and counts or loses what it forgets.
LEMMA QuotaQuiet ==
    ASSUME Every!CreationAssumption, CreationInv, CreationTyped', QuotaInv, NotesKept, NEW c,
           creationFaults' \in {creationFaults, creationFaults + 1},
           \A g \in Every!Categories :
             /\ Passed(g)' \in {Passed(g), Passed(g) \ {c}}
             /\ \/ Uncounted(g)' = Uncounted(g) /\ counter'[g] = counter[g]
                \/ Uncounted(g)' = Uncounted(g) \ {c} /\ counter'[g] = counter[g] + 1
                \/ Uncounted(g)' = Uncounted(g) \ {c} /\ counter'[g] = counter[g] /\ creationFaults' = creationFaults + 1
    PROVE  QuotaInv'
<1>t. CreationTyped
  BY CreationTypes DEF CreationInv
<1>1. ASSUME NEW g \in Every!Categories
      PROVE  /\ Cardinality(Every!Of(g)') <= counter'[g] + Cardinality(Uncounted(g)') + creationFaults'
             /\ Cardinality(Every!Of(g)') + Cardinality(Passed(g)') <= HourlyLimit + Cardinality(Creators) - 1 + creationFaults'
  <2>1. Every!Of(g)' = Every!Of(g)
    BY DEF Every!Of, Every!Category, NotesKept
  <2>2. /\ Cardinality(Every!Of(g)) \in Nat /\ counter[g] \in Nat /\ creationFaults \in Nat
        /\ IsFiniteSet(Passed(g)) /\ Cardinality(Passed(g)) \in Nat
        /\ IsFiniteSet(Uncounted(g)) /\ Cardinality(Uncounted(g)) \in Nat
        /\ HourlyLimit \in Nat /\ Cardinality(Creators) \in Nat
    BY <1>t, QuotaSets
  <2>3. /\ Cardinality(Passed(g) \ {c}) \in {Cardinality(Passed(g)) - 1, Cardinality(Passed(g))}
        /\ Cardinality(Uncounted(g) \ {c}) \in {Cardinality(Uncounted(g)) - 1, Cardinality(Uncounted(g))}
    BY <2>2, FS_RemoveElement
  <2>4. /\ Cardinality(Every!Of(g)) <= counter[g] + Cardinality(Uncounted(g)) + creationFaults
        /\ Cardinality(Every!Of(g)) + Cardinality(Passed(g)) <= HourlyLimit + Cardinality(Creators) - 1 + creationFaults
    BY DEF QuotaInv
  <2>5. Cardinality(Passed(g)') <= Cardinality(Passed(g)) /\ Cardinality(Passed(g)') \in Int
    <3>1. CASE Passed(g)' = Passed(g)
      BY <2>2, <3>1
    <3>2. CASE Passed(g)' = Passed(g) \ {c}
      BY <2>2, <2>3, <3>2
    <3> QED BY <3>1, <3>2
  <2>6. Cardinality(Every!Of(g)) <= counter'[g] + Cardinality(Uncounted(g)') + creationFaults'
    <3>1. CASE Uncounted(g)' = Uncounted(g) /\ counter'[g] = counter[g]
      BY <2>2, <2>4, <3>1
    <3>2. CASE Uncounted(g)' = Uncounted(g) \ {c} /\ counter'[g] = counter[g] + 1
      BY <2>2, <2>3, <2>4, <3>2
    <3>3. CASE Uncounted(g)' = Uncounted(g) \ {c} /\ counter'[g] = counter[g] /\ creationFaults' = creationFaults + 1
      BY <2>2, <2>3, <2>4, <3>3
    <3> QED BY <3>1, <3>2, <3>3
  <2> QED BY <2>1, <2>2, <2>4, <2>5, <2>6
<1> QED BY <1>1 DEF QuotaInv, Every!Categories

\* A check that lets a call pass has found the counter below the limit, or failed open.
LEMMA QuotaPasses ==
    ASSUME Every!CreationAssumption, CreationInv, QuotaInv, NEW c \in Creators,
           Every!CheckFrequency(c) \/ Every!CheckFailsOpen(c), CallAt(c, "group"), notes' = notes
    PROVE  QuotaInv'
<1>t. CreationTyped
  BY CreationTypes DEF CreationInv
<1>1. call[c].pc = "check" /\ call'[c].pc = "group" /\ call'[c].key = call[c].key /\ counter' = counter
  BY DEF Every!CheckFrequency, Every!CheckFailsOpen, Every!At, CallAt
<1>2. ASSUME NEW g \in Every!Categories
      PROVE  /\ Cardinality(Every!Of(g)') <= counter'[g] + Cardinality(Uncounted(g)') + creationFaults'
             /\ Cardinality(Every!Of(g)') + Cardinality(Passed(g)') <= HourlyLimit + Cardinality(Creators) - 1 + creationFaults'
  <2>1. Every!Of(g)' = Every!Of(g)
    BY DEF Every!Of, Every!Category
  <2>2. Uncounted(g)' = Uncounted(g)
    BY <1>1 DEF Uncounted, Every!MyCategory, CallAt
  <2>3. /\ Cardinality(Every!Of(g)) \in Nat /\ counter[g] \in Nat /\ creationFaults \in Nat
        /\ IsFiniteSet(Passed(g)) /\ Cardinality(Passed(g)) \in Nat /\ Cardinality(Uncounted(g)) \in Nat
        /\ HourlyLimit \in Nat /\ Cardinality(Creators) \in Nat
        /\ (c \notin Passed(g) /\ c \notin Uncounted(g)
              => Cardinality(Passed(g)) + Cardinality(Uncounted(g)) + 1 <= Cardinality(Creators))
    BY <1>t, QuotaSets
  <2>4. /\ Cardinality(Every!Of(g)) <= counter[g] + Cardinality(Uncounted(g)) + creationFaults
        /\ Cardinality(Every!Of(g)) + Cardinality(Passed(g)) <= HourlyLimit + Cardinality(Creators) - 1 + creationFaults
    BY DEF QuotaInv
  <2>5. creationFaults' \in {creationFaults, creationFaults + 1}
    BY DEF Every!CheckFrequency, Every!CheckFailsOpen, Every!Fault
  <2>6. CASE Every!MyCategory(c) # g
    <3>1. Passed(g)' = Passed(g)
      BY <1>1, <2>6 DEF Passed, Every!MyCategory, CallAt
    <3> QED BY <1>1, <2>1, <2>2, <2>3, <2>4, <2>5, <3>1
  <2>7. CASE Every!MyCategory(c) = g
    <3>1. Passed(g)' = Passed(g) \cup {c}
      BY <1>1, <2>7 DEF Passed, Every!MyCategory, CallAt
    <3>2. c \notin Passed(g) /\ c \notin Uncounted(g)
      BY <1>1 DEF Passed, Uncounted
    <3>3. Cardinality(Passed(g)') = Cardinality(Passed(g)) + 1
      BY <2>3, <3>1, <3>2, FS_AddElement
    <3>4. CASE Every!CheckFailsOpen(c)
      <4>1. creationFaults' = creationFaults + 1
        BY <3>4 DEF Every!CheckFailsOpen, Every!Fault
      <4> QED BY <1>1, <2>1, <2>2, <2>3, <2>4, <3>3, <4>1
    <3>5. CASE Every!CheckFrequency(c)
      <4>1. counter[g] < HourlyLimit /\ creationFaults' = creationFaults
        <5>1. call' = [call EXCEPT ![c] = Every!Idle] => call'[c].pc = "idle"
          BY <1>t, CreationSizes DEF CreationTyped
        <5> QED BY <1>1, <2>3, <2>7, <3>5, <5>1 DEF Every!CheckFrequency, Every!Return
      <4> QED BY <1>1, <2>1, <2>2, <2>3, <2>4, <3>2, <3>3, <4>1
    <3> QED BY <3>4, <3>5
  <2> QED BY <2>6, <2>7
<1> QED BY <1>2 DEF QuotaInv, Every!Categories

LEMMA QuotaInserts ==
    ASSUME Every!CreationAssumption, CreationInv, QuotaInv, NEW c \in Creators, Inserts(c)
    PROVE  QuotaInv'
<1>t. CreationTyped
  BY CreationTypes DEF CreationInv
<1> DEFINE i == Len(notes) + 1
<1>1. PICK r : /\ call[c].pc = "insert" /\ r.key = call[c].key /\ notes' = Append(notes, r)
               /\ call' = [call EXCEPT ![c] = [@ EXCEPT !.pc = "supersede", !.note = i]]
               /\ UNCHANGED <<counter, creationFaults>>
  BY DEF Inserts, Every!Insert, Every!At
<1>2. DOMAIN notes = 1..Len(notes) /\ Len(notes) \in Nat
  BY <1>t, GroupSets
<1>3. DOMAIN notes' = 1..i /\ notes'[i] = r /\ \A j \in 1..Len(notes) : notes'[j] = notes[j]
  BY <1>t, <1>1, <1>2 DEF CreationTyped
<1>4. /\ call'[c].pc = "supersede" /\ call'[c].key = call[c].key
      /\ \A d \in Creators \ {c} : call'[d] = call[d]
  BY <1>t, <1>1 DEF CreationTyped, CallRecords
<1>5. ASSUME NEW g \in Every!Categories
      PROVE  /\ Cardinality(Every!Of(g)') <= counter'[g] + Cardinality(Uncounted(g)') + creationFaults'
             /\ Cardinality(Every!Of(g)') + Cardinality(Passed(g)') <= HourlyLimit + Cardinality(Creators) - 1 + creationFaults'
  <2>1. /\ IsFiniteSet(Every!Of(g)) /\ Cardinality(Every!Of(g)) \in Nat /\ counter[g] \in Nat /\ creationFaults \in Nat
        /\ IsFiniteSet(Passed(g)) /\ Cardinality(Passed(g)) \in Nat
        /\ IsFiniteSet(Uncounted(g)) /\ Cardinality(Uncounted(g)) \in Nat
        /\ HourlyLimit \in Nat /\ Cardinality(Creators) \in Nat
    BY <1>t, QuotaSets
  <2>2. /\ Cardinality(Every!Of(g)) <= counter[g] + Cardinality(Uncounted(g)) + creationFaults
        /\ Cardinality(Every!Of(g)) + Cardinality(Passed(g)) <= HourlyLimit + Cardinality(Creators) - 1 + creationFaults
    BY DEF QuotaInv
  <2>3. CASE Every!MyCategory(c) # g
    <3>1. Every!Of(g)' = Every!Of(g)
      BY <1>1, <1>2, <1>3, <2>3 DEF Every!Of, Every!Category, Every!MyCategory
    <3>2. Passed(g)' = Passed(g) /\ Uncounted(g)' = Uncounted(g)
      BY <1>4, <2>3 DEF Passed, Uncounted, Every!MyCategory
    <3> QED BY <1>1, <2>1, <2>2, <3>1, <3>2
  <2>4. CASE Every!MyCategory(c) = g
    <3>1. Every!Of(g)' = Every!Of(g) \cup {i}
      BY <1>1, <1>2, <1>3, <2>4 DEF Every!Of, Every!Category, Every!MyCategory
    <3>2. Passed(g)' = Passed(g) \ {c} /\ c \in Passed(g)
      BY <1>1, <1>4, <2>4 DEF Passed, Every!MyCategory
    <3>3. Uncounted(g)' = Uncounted(g) \cup {c} /\ c \notin Uncounted(g)
      BY <1>1, <1>4, <2>4 DEF Uncounted, Every!MyCategory
    <3>4. Cardinality(Passed(g)') = Cardinality(Passed(g)) - 1
      BY <2>1, <3>2, FS_RemoveElement
    <3>6. Cardinality(Uncounted(g)') = Cardinality(Uncounted(g)) + 1
      BY <2>1, <3>3, FS_AddElement
    <3>5. Cardinality(Every!Of(g) \cup {i}) \in {Cardinality(Every!Of(g)), Cardinality(Every!Of(g)) + 1}
      BY <2>1, FS_AddElement
    <3>7. Cardinality(Every!Of(g)') \in {Cardinality(Every!Of(g)), Cardinality(Every!Of(g)) + 1}
      BY <3>1, <3>5
    <3>8. counter'[g] = counter[g] /\ creationFaults' = creationFaults
      BY <1>1
    <3> QED BY <2>1, <2>2, <3>4, <3>6, <3>7, <3>8
  <2> QED BY <2>3, <2>4
<1> QED BY <1>5 DEF QuotaInv, Every!Categories

\* A process that goes on or ends.
LEMMA QuotaGoes ==
    ASSUME Every!CreationAssumption, CreationInv, CreationInv', QuotaInv, NotesKept, NEW c \in Creators, NEW pc, CallAt(c, pc),
           creationFaults' \in {creationFaults, creationFaults + 1},
           \/ /\ counter' = counter
              /\ \/ call[c].pc \in {"deliver", "queue"} /\ pc \in {"queue", "idle"}
                 \/ call[c].pc \in {"check", "group", "insert"} /\ pc = "idle"
                 \/ call[c].pc = "supersede" /\ pc = "count"
                 \/ pc = "idle" /\ creationFaults' = creationFaults + 1
           \/ /\ call[c].pc = "count" /\ pc = "deliver"
              /\ \/ counter' = [counter EXCEPT ![Every!MyCategory(c)] = @ + 1]
                 \/ counter' = counter /\ creationFaults' = creationFaults + 1
    PROVE  QuotaInv'
<1>t. CreationTyped /\ CreationTyped'
  BY CreationTypes DEF CreationInv, CreationTyped, Every!TypeOK, NoteRows, CallRecords
<1>1. /\ call'[c].pc = pc /\ \A d \in Creators \ {c} : call'[d] = call[d]
      /\ pc # "idle" => call'[c].key = call[c].key
  BY DEF CallAt
<1>2. ASSUME NEW g \in Every!Categories
      PROVE  /\ Passed(g)' \in {Passed(g), Passed(g) \ {c}}
             /\ Uncounted(g)' \in {Uncounted(g), Uncounted(g) \ {c}}
             /\ call[c].pc = "count" /\ pc = "deliver" /\ Every!MyCategory(c) # g => Uncounted(g)' = Uncounted(g)
             /\ call[c].pc = "count" /\ pc = "deliver" /\ Every!MyCategory(c) = g => Uncounted(g)' = Uncounted(g) \ {c}
             /\ call[c].pc \notin {"supersede", "count"} \/ pc = "count" => Uncounted(g)' = Uncounted(g)
  BY <1>1 DEF Passed, Uncounted, Every!MyCategory
<1>3. ASSUME NEW g \in Every!Categories
      PROVE  \/ Uncounted(g)' = Uncounted(g) /\ counter'[g] = counter[g]
             \/ Uncounted(g)' = Uncounted(g) \ {c} /\ counter'[g] = counter[g] + 1
             \/ Uncounted(g)' = Uncounted(g) \ {c} /\ counter'[g] = counter[g] /\ creationFaults' = creationFaults + 1
  BY <1>t, <1>2 DEF CreationTyped
<1>4. \A g \in Every!Categories :
        /\ Passed(g)' \in {Passed(g), Passed(g) \ {c}}
        /\ \/ Uncounted(g)' = Uncounted(g) /\ counter'[g] = counter[g]
           \/ Uncounted(g)' = Uncounted(g) \ {c} /\ counter'[g] = counter[g] + 1
           \/ Uncounted(g)' = Uncounted(g) \ {c} /\ counter'[g] = counter[g] /\ creationFaults' = creationFaults + 1
  BY <1>2, <1>3
<1> QED BY <1>t, <1>4, QuotaQuiet

LEMMA QuotaStep ==
    ASSUME Every!CreationAssumption, CreationInv, CreationInv', QuotaInv, NEW c \in Creators,
           Creates(c) \/ Every!CheckFrequency(c), NotesKept \/ Inserts(c)
    PROVE  QuotaInv'
<1>t. CreationTyped /\ CreationTyped'
  BY CreationTypes DEF CreationInv, CreationTyped, Every!TypeOK, NoteRows, CallRecords
<1>i. call \in [Creators -> CallRecords]
  BY <1>t DEF CreationTyped
<1>0. CASE Inserts(c)
  BY <1>0, QuotaInserts
<1>1. ASSUME NotesKept, NEW k \in Every!Keys, Every!Start(c, k) PROVE QuotaInv'
  <2>1. counter' = counter /\ creationFaults' = creationFaults
    BY <1>1 DEF Every!Start
  <2>2. call' = call \/ (call[c].pc = "idle" /\ call' = [call EXCEPT ![c] = [Every!Idle EXCEPT !.pc = "check", !.key = k]])
    BY <1>1 DEF Every!Start, Every!At
  <2>3. [Every!Idle EXCEPT !.pc = "check", !.key = k].pc = "check"
    BY CreationSizes DEF CallRecords
  <2>4. \A d \in Creators : call'[d] = call[d] \/ (call[d].pc = "idle" /\ call'[d].pc = "check")
    BY <1>i, <2>2, <2>3
  <2>5. \A g \in Every!Categories : Passed(g)' = Passed(g) /\ Uncounted(g)' = Uncounted(g)
    BY <2>4 DEF Passed, Uncounted, Every!MyCategory
  <2> QED BY <1>t, <1>1, <2>1, <2>5, QuotaQuiet
<1>2. ASSUME NotesKept, Every!CheckFrequency(c) \/ Every!CheckFailsOpen(c) PROVE QuotaInv'
  <2>1. /\ call[c].pc = "check" /\ counter' = counter /\ creationFaults' \in {creationFaults, creationFaults + 1}
        /\ \/ Every!Return(c)
           \/ Every!Goto(c, "group") /\ notes' = notes
    BY <1>2 DEF Every!CheckFrequency, Every!CheckFailsOpen, Every!At, Every!Fault
  <2>2. CASE CallAt(c, "idle")
    BY <1>2, <2>1, <2>2, QuotaGoes
  <2>3. CASE CallAt(c, "group") /\ notes' = notes
    BY <1>2, <2>3, QuotaPasses
  <2> QED BY <1>i, <2>1, <2>2, <2>3, CreatorMoves
<1>3. ASSUME NotesKept, Every!FindGroup(c) PROVE QuotaInv'
  <2>1. counter' = counter /\ creationFaults' = creationFaults /\ call[c].pc = "group"
    BY <1>3 DEF Every!FindGroup, Every!At
  <2>2. call'[c].pc = "insert" /\ call'[c].key = call[c].key /\ \A d \in Creators \ {c} : call'[d] = call[d]
    BY <1>i, <1>3 DEF Every!FindGroup, CallRecords
  <2>3. \A g \in Every!Categories : Passed(g)' = Passed(g) /\ Uncounted(g)' = Uncounted(g)
    BY <2>1, <2>2 DEF Passed, Uncounted, Every!MyCategory
  <2> QED BY <1>t, <1>3, <2>1, <2>3, QuotaQuiet
<1>4. ASSUME NotesKept, Every!Insert(c), ~Inserts(c) PROVE QuotaInv'
  <2>1. call[c].pc = "insert" /\ counter' = counter /\ creationFaults' = creationFaults /\ CallAt(c, "idle")
    BY <1>i, <1>4, CreatorMoves DEF Every!Insert, Every!At, Inserts
  <2> QED BY <1>4, <2>1, QuotaGoes
<1>5. ASSUME NotesKept, Every!Supersede(c) PROVE QuotaInv'
  <2>1. call[c].pc = "supersede" /\ counter' = counter /\ creationFaults' = creationFaults /\ CallAt(c, "count")
    BY <1>i, <1>5, CreatorMoves DEF Every!Supersede, Every!At
  <2> QED BY <1>5, <2>1, QuotaGoes
<1>6. ASSUME NotesKept, Every!IncrementFrequency(c) PROVE QuotaInv'
  <2>1. /\ call[c].pc = "count" /\ CallAt(c, "deliver")
        /\ \/ counter' = [counter EXCEPT ![Every!MyCategory(c)] = @ + 1] /\ creationFaults' = creationFaults
           \/ counter' = counter /\ creationFaults' = creationFaults + 1
    BY <1>i, <1>6, CreatorMoves DEF Every!IncrementFrequency, Every!At, Every!Fault
  <2> QED BY <1>6, <2>1, QuotaGoes
<1>7. ASSUME NotesKept, Every!WriteDelivery(c) PROVE QuotaInv'
  <2>1. call[c].pc = "deliver" /\ counter' = counter /\ creationFaults' = creationFaults /\ CallAt(c, "queue")
    BY <1>i, <1>7, CreatorMoves DEF Every!WriteDelivery, Every!At
  <2> QED BY <1>7, <2>1, QuotaGoes
<1>8. ASSUME NotesKept, Every!QueueChannel(c) PROVE QuotaInv'
  <2>1. /\ call[c].pc = "queue" /\ counter' = counter /\ CallAt(c, "idle")
        /\ creationFaults' \in {creationFaults, creationFaults + 1}
    BY <1>i, <1>8, CreatorMoves DEF Every!QueueChannel, Every!At, Every!Fault
  <2> QED BY <1>8, <2>1, QuotaGoes
<1>9. ASSUME NotesKept, Every!Crash(c) PROVE QuotaInv'
  <2>1. counter' = counter /\ creationFaults' = creationFaults + 1 /\ CallAt(c, "idle")
    BY <1>i, <1>9, CreatorMoves DEF Every!Crash, Every!Fault
  <2> QED BY <1>9, <2>1, QuotaGoes
<1> QED BY <1>0, <1>1, <1>2, <1>3, <1>4, <1>5, <1>6, <1>7, <1>8, <1>9 DEF Creates

LEMMA LimitedIs ==
    Limited!Next => \/ \E c \in Creators : Creates(c) \/ Every!CheckFrequency(c)
                \/ \E i \in DOMAIN notes : Every!RecoverDue(i)
<1>1. \A kind : Limited!Fault(kind) => Every!Fault(kind)
  BY DEF Limited!Fault, Every!Fault
<1>2. Limited!Keys = Every!Keys
  BY DEF Limited!Keys, Every!Keys
<1>3. \A c \in Creators, k \in Every!Keys : Limited!Start(c, k) => Every!Start(c, k)
  BY DEF Limited!Start, Every!Start, Limited!At, Every!At, Limited!Replays, Every!Replays, Limited!Idle,
     Every!Idle, Limited!Keys, Every!Keys
<1>4. \A c \in Creators : Limited!CheckFailsOpen(c) => Every!CheckFailsOpen(c)
  BY <1>1 DEF Limited!CheckFailsOpen, Every!CheckFailsOpen, Limited!At, Every!At, Limited!Goto,
     Every!Goto
<1>5. \A c \in Creators : Limited!FindGroup(c) => Every!FindGroup(c)
  BY DEF Limited!FindGroup, Every!FindGroup, Limited!At, Every!At, Limited!MyCategory, Every!MyCategory,
     Limited!Of,
     Every!Of, Limited!Category, Every!Category, Limited!Group, Every!Group, Limited!Cardinality,
     Every!Cardinality,
     Limited!CategoryOf, Every!CategoryOf, Limited!Keys, Every!Keys
<1>6. \A c \in Creators : Limited!Insert(c) => Every!Insert(c)
  BY DEF Limited!Insert, Every!Insert, Limited!At, Every!At, Limited!Replays, Every!Replays,
     Limited!Return,
     Every!Return, Limited!Idle, Every!Idle, Limited!Keys, Every!Keys
<1>7. \A c \in Creators : Limited!Supersede(c) => Every!Supersede(c)
  BY DEF Limited!Supersede, Every!Supersede, Limited!At, Every!At, Limited!Category, Every!Category,
     Limited!MyCategory,
     Every!MyCategory, Limited!Goto, Every!Goto, Limited!CategoryOf, Every!CategoryOf, Limited!Keys,
     Every!Keys
<1>8. \A c \in Creators : Limited!IncrementFrequency(c) => Every!IncrementFrequency(c)
  BY <1>1 DEF Limited!IncrementFrequency, Every!IncrementFrequency, Limited!At, Every!At,
     Limited!MyCategory, Every!MyCategory, Limited!Goto,
     Every!Goto, Limited!CategoryOf, Every!CategoryOf, Limited!Keys, Every!Keys
<1>9. \A c \in Creators : Limited!WriteDelivery(c) => Every!WriteDelivery(c)
  BY DEF Limited!WriteDelivery, Every!WriteDelivery, Limited!At, Every!At, Limited!Goto, Every!Goto
<1>10. \A c \in Creators : Limited!QueueChannel(c) => Every!QueueChannel(c)
  BY <1>1 DEF Limited!QueueChannel, Every!QueueChannel, Limited!At, Every!At, Limited!Failed,
     Every!Failed, Limited!Return,
     Every!Return, Limited!Idle, Every!Idle, Limited!Keys, Every!Keys
<1>11. \A c \in Creators : Limited!Crash(c) => Every!Crash(c)
  BY <1>1 DEF Limited!Crash, Every!Crash, Limited!At, Every!At, Limited!Return, Every!Return,
     Limited!Idle,
     Every!Idle, Limited!Keys, Every!Keys
<1>12. \A i \in DOMAIN notes : Limited!RecoverDue(i) => Every!RecoverDue(i)
  BY <1>1 DEF Limited!RecoverDue, Every!RecoverDue, Limited!Failed, Every!Failed
<1>13. \A c \in Creators : Limited!CheckFrequency(c) => Every!CheckFrequency(c)
  BY DEF Limited!CheckFrequency, Every!CheckFrequency, Limited!At, Every!At, Limited!MyCategory,
     Every!MyCategory, Limited!Return,
     Every!Return, Limited!Idle, Every!Idle, Limited!Batched, Every!Batched, Limited!Of, Every!Of,
     Limited!Latest, Every!Latest, Limited!Category, Every!Category, Limited!Goto, Every!Goto,
     Limited!CategoryOf,
     Every!CategoryOf, Limited!Keys, Every!Keys
<1> QED BY <1>2, <1>3, <1>4, <1>5, <1>6, <1>7, <1>8, <1>9, <1>10, <1>11, <1>12, <1>13 DEF Limited!Next, Creates

LEMMA FaultyIs ==
    Faulty!Next => \/ \E c \in Creators : Creates(c) \/ Every!CheckFrequency(c)
               \/ \E i \in DOMAIN notes : Every!RecoverDue(i)
<1>1. \A kind : Faulty!Fault(kind) => Every!Fault(kind)
  BY DEF Faulty!Fault, Every!Fault
<1>2. Faulty!Keys = Every!Keys
  BY DEF Faulty!Keys, Every!Keys
<1>3. \A c \in Creators, k \in Every!Keys : Faulty!Start(c, k) => Every!Start(c, k)
  BY DEF Faulty!Start, Every!Start, Faulty!At, Every!At, Faulty!Replays, Every!Replays, Faulty!Idle,
     Every!Idle, Faulty!Keys, Every!Keys
<1>4. \A c \in Creators : Faulty!CheckFailsOpen(c) => Every!CheckFailsOpen(c)
  BY <1>1 DEF Faulty!CheckFailsOpen, Every!CheckFailsOpen, Faulty!At, Every!At, Faulty!Goto, Every!Goto
<1>5. \A c \in Creators : Faulty!FindGroup(c) => Every!FindGroup(c)
  BY DEF Faulty!FindGroup, Every!FindGroup, Faulty!At, Every!At, Faulty!MyCategory, Every!MyCategory,
     Faulty!Of,
     Every!Of, Faulty!Category, Every!Category, Faulty!Group, Every!Group, Faulty!Cardinality,
     Every!Cardinality,
     Faulty!CategoryOf, Every!CategoryOf, Faulty!Keys, Every!Keys
<1>6. \A c \in Creators : Faulty!Insert(c) => Every!Insert(c)
  BY DEF Faulty!Insert, Every!Insert, Faulty!At, Every!At, Faulty!Replays, Every!Replays, Faulty!Return,
     Every!Return, Faulty!Idle, Every!Idle, Faulty!Keys, Every!Keys
<1>7. \A c \in Creators : Faulty!Supersede(c) => Every!Supersede(c)
  BY DEF Faulty!Supersede, Every!Supersede, Faulty!At, Every!At, Faulty!Category, Every!Category,
     Faulty!MyCategory,
     Every!MyCategory, Faulty!Goto, Every!Goto, Faulty!CategoryOf, Every!CategoryOf, Faulty!Keys,
     Every!Keys
<1>8. \A c \in Creators : Faulty!IncrementFrequency(c) => Every!IncrementFrequency(c)
  BY <1>1 DEF Faulty!IncrementFrequency, Every!IncrementFrequency, Faulty!At, Every!At,
     Faulty!MyCategory, Every!MyCategory, Faulty!Goto,
     Every!Goto, Faulty!CategoryOf, Every!CategoryOf, Faulty!Keys, Every!Keys
<1>9. \A c \in Creators : Faulty!WriteDelivery(c) => Every!WriteDelivery(c)
  BY DEF Faulty!WriteDelivery, Every!WriteDelivery, Faulty!At, Every!At, Faulty!Goto, Every!Goto
<1>10. \A c \in Creators : Faulty!QueueChannel(c) => Every!QueueChannel(c)
  BY <1>1 DEF Faulty!QueueChannel, Every!QueueChannel, Faulty!At, Every!At, Faulty!Failed, Every!Failed,
     Faulty!Return,
     Every!Return, Faulty!Idle, Every!Idle, Faulty!Keys, Every!Keys
<1>11. \A c \in Creators : Faulty!Crash(c) => Every!Crash(c)
  BY <1>1 DEF Faulty!Crash, Every!Crash, Faulty!At, Every!At, Faulty!Return, Every!Return, Faulty!Idle,
     Every!Idle, Faulty!Keys, Every!Keys
<1>12. \A i \in DOMAIN notes : Faulty!RecoverDue(i) => Every!RecoverDue(i)
  BY <1>1 DEF Faulty!RecoverDue, Every!RecoverDue, Faulty!Failed, Every!Failed
<1>13. \A c \in Creators : Faulty!CheckFrequency(c) => Every!CheckFrequency(c)
  BY DEF Faulty!CheckFrequency, Every!CheckFrequency, Faulty!At, Every!At, Faulty!MyCategory,
     Every!MyCategory, Faulty!Return,
     Every!Return, Faulty!Idle, Every!Idle, Faulty!Batched, Every!Batched, Faulty!Of, Every!Of,
     Faulty!Latest, Every!Latest, Faulty!Category, Every!Category, Faulty!Goto, Every!Goto,
     Faulty!CategoryOf,
     Every!CategoryOf, Faulty!Keys, Every!Keys
<1> QED BY <1>2, <1>3, <1>4, <1>5, <1>6, <1>7, <1>8, <1>9, <1>10, <1>11, <1>12, <1>13 DEF Faulty!Next, Creates

LEMMA GroupedIs ==
    Grouped!Next => \/ \E c \in Creators : Creates(c) \/ AnyCheck(c)
                \/ \E i \in DOMAIN notes : Every!RecoverDue(i)
<1>1. \A kind : Grouped!Fault(kind) => Every!Fault(kind)
  BY DEF Grouped!Fault, Every!Fault
<1>2. Grouped!Keys = Every!Keys
  BY DEF Grouped!Keys, Every!Keys
<1>3. \A c \in Creators, k \in Every!Keys : Grouped!Start(c, k) => Every!Start(c, k)
  BY DEF Grouped!Start, Every!Start, Grouped!At, Every!At, Grouped!Replays, Every!Replays, Grouped!Idle,
     Every!Idle, Grouped!Keys, Every!Keys
<1>4. \A c \in Creators : Grouped!CheckFailsOpen(c) => Every!CheckFailsOpen(c)
  BY <1>1 DEF Grouped!CheckFailsOpen, Every!CheckFailsOpen, Grouped!At, Every!At, Grouped!Goto,
     Every!Goto
<1>5. \A c \in Creators : Grouped!FindGroup(c) => Every!FindGroup(c)
  BY DEF Grouped!FindGroup, Every!FindGroup, Grouped!At, Every!At, Grouped!MyCategory, Every!MyCategory,
     Grouped!Of,
     Every!Of, Grouped!Category, Every!Category, Grouped!Group, Every!Group, Grouped!Cardinality,
     Every!Cardinality,
     Grouped!CategoryOf, Every!CategoryOf, Grouped!Keys, Every!Keys
<1>6. \A c \in Creators : Grouped!Insert(c) => Every!Insert(c)
  BY DEF Grouped!Insert, Every!Insert, Grouped!At, Every!At, Grouped!Replays, Every!Replays,
     Grouped!Return,
     Every!Return, Grouped!Idle, Every!Idle, Grouped!Keys, Every!Keys
<1>7. \A c \in Creators : Grouped!Supersede(c) => Every!Supersede(c)
  BY DEF Grouped!Supersede, Every!Supersede, Grouped!At, Every!At, Grouped!Category, Every!Category,
     Grouped!MyCategory,
     Every!MyCategory, Grouped!Goto, Every!Goto, Grouped!CategoryOf, Every!CategoryOf, Grouped!Keys,
     Every!Keys
<1>8. \A c \in Creators : Grouped!IncrementFrequency(c) => Every!IncrementFrequency(c)
  BY <1>1 DEF Grouped!IncrementFrequency, Every!IncrementFrequency, Grouped!At, Every!At,
     Grouped!MyCategory, Every!MyCategory, Grouped!Goto,
     Every!Goto, Grouped!CategoryOf, Every!CategoryOf, Grouped!Keys, Every!Keys
<1>9. \A c \in Creators : Grouped!WriteDelivery(c) => Every!WriteDelivery(c)
  BY DEF Grouped!WriteDelivery, Every!WriteDelivery, Grouped!At, Every!At, Grouped!Goto, Every!Goto
<1>10. \A c \in Creators : Grouped!QueueChannel(c) => Every!QueueChannel(c)
  BY <1>1 DEF Grouped!QueueChannel, Every!QueueChannel, Grouped!At, Every!At, Grouped!Failed,
     Every!Failed, Grouped!Return,
     Every!Return, Grouped!Idle, Every!Idle, Grouped!Keys, Every!Keys
<1>11. \A c \in Creators : Grouped!Crash(c) => Every!Crash(c)
  BY <1>1 DEF Grouped!Crash, Every!Crash, Grouped!At, Every!At, Grouped!Return, Every!Return,
     Grouped!Idle,
     Every!Idle, Grouped!Keys, Every!Keys
<1>12. \A i \in DOMAIN notes : Grouped!RecoverDue(i) => Every!RecoverDue(i)
  BY <1>1 DEF Grouped!RecoverDue, Every!RecoverDue, Grouped!Failed, Every!Failed
<1>13. \A c \in Creators : Grouped!CheckFrequency(c) => AnyCheck(c)
  BY DEF Grouped!CheckFrequency, Grouped!At, Every!At, Grouped!MyCategory, Every!MyCategory,
     Grouped!Return, Every!Return,
     Grouped!Idle, Every!Idle, Grouped!Batched, Every!Batched, Grouped!Of, Every!Of, Grouped!Latest,
     Every!Latest, Grouped!Category, Every!Category, Grouped!Goto, Every!Goto, Grouped!CategoryOf,
     Every!CategoryOf,
     Grouped!Keys, Every!Keys, AnyCheck
<1> QED BY <1>2, <1>3, <1>4, <1>5, <1>6, <1>7, <1>8, <1>9, <1>10, <1>11, <1>12, <1>13 DEF Grouped!Next, Creates

LEMMA RecoveredIs ==
    Recovered!Next => \/ \E c \in Creators : Creates(c) \/ AnyCheck(c)
                  \/ \E i \in DOMAIN notes : Every!RecoverDue(i)
<1>1. \A kind : Recovered!Fault(kind) => Every!Fault(kind)
  BY DEF Recovered!Fault, Every!Fault
<1>2. Recovered!Keys = Every!Keys
  BY DEF Recovered!Keys, Every!Keys
<1>3. \A c \in Creators, k \in Every!Keys : Recovered!Start(c, k) => Every!Start(c, k)
  BY DEF Recovered!Start, Every!Start, Recovered!At, Every!At, Recovered!Replays, Every!Replays,
     Recovered!Idle,
     Every!Idle, Recovered!Keys, Every!Keys
<1>4. \A c \in Creators : Recovered!CheckFailsOpen(c) => Every!CheckFailsOpen(c)
  BY <1>1 DEF Recovered!CheckFailsOpen, Every!CheckFailsOpen, Recovered!At, Every!At, Recovered!Goto,
     Every!Goto
<1>5. \A c \in Creators : Recovered!FindGroup(c) => Every!FindGroup(c)
  BY DEF Recovered!FindGroup, Every!FindGroup, Recovered!At, Every!At, Recovered!MyCategory,
     Every!MyCategory, Recovered!Of,
     Every!Of, Recovered!Category, Every!Category, Recovered!Group, Every!Group, Recovered!Cardinality,
     Every!Cardinality,
     Recovered!CategoryOf, Every!CategoryOf, Recovered!Keys, Every!Keys
<1>6. \A c \in Creators : Recovered!Insert(c) => Every!Insert(c)
  BY DEF Recovered!Insert, Every!Insert, Recovered!At, Every!At, Recovered!Replays, Every!Replays,
     Recovered!Return,
     Every!Return, Recovered!Idle, Every!Idle, Recovered!Keys, Every!Keys
<1>7. \A c \in Creators : Recovered!Supersede(c) => Every!Supersede(c)
  BY DEF Recovered!Supersede, Every!Supersede, Recovered!At, Every!At, Recovered!Category,
     Every!Category, Recovered!MyCategory,
     Every!MyCategory, Recovered!Goto, Every!Goto, Recovered!CategoryOf, Every!CategoryOf,
     Recovered!Keys, Every!Keys
<1>8. \A c \in Creators : Recovered!IncrementFrequency(c) => Every!IncrementFrequency(c)
  BY <1>1 DEF Recovered!IncrementFrequency, Every!IncrementFrequency, Recovered!At, Every!At,
     Recovered!MyCategory, Every!MyCategory, Recovered!Goto,
     Every!Goto, Recovered!CategoryOf, Every!CategoryOf, Recovered!Keys, Every!Keys
<1>9. \A c \in Creators : Recovered!WriteDelivery(c) => Every!WriteDelivery(c)
  BY DEF Recovered!WriteDelivery, Every!WriteDelivery, Recovered!At, Every!At, Recovered!Goto, Every!Goto
<1>10. \A c \in Creators : Recovered!QueueChannel(c) => Every!QueueChannel(c)
  BY <1>1 DEF Recovered!QueueChannel, Every!QueueChannel, Recovered!At, Every!At, Recovered!Failed,
     Every!Failed, Recovered!Return,
     Every!Return, Recovered!Idle, Every!Idle, Recovered!Keys, Every!Keys
<1>11. \A c \in Creators : Recovered!Crash(c) => Every!Crash(c)
  BY <1>1 DEF Recovered!Crash, Every!Crash, Recovered!At, Every!At, Recovered!Return, Every!Return,
     Recovered!Idle,
     Every!Idle, Recovered!Keys, Every!Keys
<1>12. \A i \in DOMAIN notes : Recovered!RecoverDue(i) => Every!RecoverDue(i)
  BY <1>1 DEF Recovered!RecoverDue, Every!RecoverDue, Recovered!Failed, Every!Failed
<1>13. \A c \in Creators : Recovered!CheckFrequency(c) => AnyCheck(c)
  BY DEF Recovered!CheckFrequency, Recovered!At, Every!At, Recovered!MyCategory, Every!MyCategory,
     Recovered!Return, Every!Return,
     Recovered!Idle, Every!Idle, Recovered!Batched, Every!Batched, Recovered!Of, Every!Of,
     Recovered!Latest,
     Every!Latest, Recovered!Category, Every!Category, Recovered!Goto, Every!Goto, Recovered!CategoryOf,
     Every!CategoryOf,
     Recovered!Keys, Every!Keys, AnyCheck
<1> QED BY <1>2, <1>3, <1>4, <1>5, <1>6, <1>7, <1>8, <1>9, <1>10, <1>11, <1>12, <1>13 DEF Recovered!Next,
     Creates

-----------------------------------------------------------------------------
\* What the parts of creation share.
LEMMA LimitedSets ==
    /\ \A S : Limited!Cardinality(S) = Cardinality(S)
    /\ \A S : Limited!IsFiniteSet(S) <=> IsFiniteSet(S)
    /\ Limited!Keys = Every!Keys /\ Limited!Categories = Every!Categories
    /\ Limited!Indices = Every!Indices
<1>1. \A S : Limited!Cardinality(S) = Cardinality(S)
  BY DEF Limited!Cardinality, Cardinality
<1>2. \A S : Limited!IsFiniteSet(S) <=> IsFiniteSet(S)
  BY DEF Limited!IsFiniteSet, IsFiniteSet
<1>3. Limited!Keys = Every!Keys /\ Limited!Categories = Every!Categories
  BY DEF Limited!Keys, Every!Keys, Limited!Categories, Every!Categories
<1>4. Limited!Indices = Every!Indices
  BY <1>1, <1>3, EverySets DEF Limited!Indices, Every!Indices
<1>5. QED
  BY <1>1, <1>2, <1>3, <1>4

LEMMA CreationAssumed == Limited!CreationAssumption => Every!CreationAssumption
<1>1. (\A S : Limited!IsFiniteSet(S) <=> Every!IsFiniteSet(S)) /\ Limited!Keys = Every!Keys
  BY LimitedSets, EverySets
<1>2. QED
  BY <1>1 DEF Limited!CreationAssumption, Every!CreationAssumption

LEMMA CreationInit == Limited!CreationAssumption /\ Limited!Init => CreationInv /\ QuotaInv
<1> SUFFICES ASSUME Limited!CreationAssumption, Limited!Init PROVE CreationInv /\ QuotaInv
  OBVIOUS
<1>1. Every!CreationAssumption
  BY CreationAssumed
<1>2. /\ Every!Idle \in CallRecords /\ Every!Idle.pc = "idle"
      /\ Cardinality(Creators) \in Nat /\ GroupMax \in Nat \ {0} /\ HourlyLimit \in Nat \ {0} /\ MaxCreationFaults \in Nat
  BY <1>1, CreationSizes
<1>3. Limited!Idle = Every!Idle
  BY DEF Limited!Idle, Every!Idle, Limited!Keys, Every!Keys
<1>4. /\ call = [c \in Creators |-> Every!Idle] /\ notes = << >>
      /\ counter = [g \in Every!Categories |-> 0] /\ answered = {} /\ overtaken = {} /\ creationFaults = 0
  BY <1>3, LimitedSets DEF Limited!Init
<1>5. \A c \in Creators : call[c].pc = "idle"
  BY <1>2, <1>4
<1>6. DOMAIN notes = {}
  BY <1>4
<1>7. CreationTyped
  BY <1>2, <1>4 DEF CreationTyped
<1>8. Every!TypeOK
  BY <1>7, CreationTypes
<1>9. NotesKnow /\ CallsKnow /\ NewerIsKnown /\ Every!OlderSupersedesInARace
  BY <1>5, <1>6 DEF NotesKnow, CallsKnow, NewerIsKnown, Every!OlderSupersedesInARace
<1>10. GroupsHaveRoom
  <2>1. \A n : Every!Group(n) = {} /\ Joins(n) = {}
    BY <1>5, <1>6 DEF Every!Group, Joins
  <2>2. \A n : Cardinality(Every!Group(n)) = 0 /\ Cardinality(Joins(n)) = 0
    BY <2>1, FS_EmptySet
  <2>3. QED
    BY <1>2, <2>2 DEF GroupsHaveRoom
<1>11. QuotaInv
  <2>1. \A g : Every!Of(g) = {} /\ Passed(g) = {} /\ Uncounted(g) = {}
    BY <1>5, <1>6 DEF Every!Of, Passed, Uncounted
  <2>2. \A g : Cardinality(Every!Of(g)) = 0 /\ Cardinality(Passed(g)) = 0 /\ Cardinality(Uncounted(g)) = 0
    BY <2>1, FS_EmptySet
  <2>3. \A g \in Every!Categories : counter[g] = 0
    BY <1>4
  <2>4. QED
    BY <1>2, <1>4, <2>2, <2>3 DEF QuotaInv
<1>12. QED
  BY <1>8, <1>9, <1>10, <1>11 DEF CreationInv

\* The check with its limits is one of all checks.
LEMMA CheckIsAny == \A c \in Creators : Every!CheckFrequency(c) => AnyCheck(c)
BY DEF Every!CheckFrequency, AnyCheck

LEMMA CreationStays == CreationInv /\ UNCHANGED callVars => CreationInv'
<1> SUFFICES ASSUME CreationInv, UNCHANGED callVars PROVE CreationInv'
  OBVIOUS
<1>1. UNCHANGED <<call, notes, counter, answered, overtaken, creationFaults>>
  BY DEF callVars
<1>2. Every!TypeOK'
  BY <1>1 DEF CreationInv, Every!TypeOK
<1>3. NotesKnow' /\ CallsKnow' /\ NewerIsKnown'
  BY <1>1 DEF CreationInv, NotesKnow, CallsKnow, NewerIsKnown
<1>4. GroupsHaveRoom'
  <2>1. \A n : Every!Group(n)' = Every!Group(n) /\ Joins(n)' = Joins(n)
    BY <1>1 DEF Every!Group, Joins
  <2>2. QED
    BY <2>1 DEF CreationInv, GroupsHaveRoom
<1>5. Every!OlderSupersedesInARace'
  BY <1>1 DEF CreationInv, Every!OlderSupersedesInARace
<1>6. QED
  BY <1>2, <1>3, <1>4, <1>5 DEF CreationInv

LEMMA QuotaStays == QuotaInv /\ UNCHANGED callVars => QuotaInv'
BY DEF callVars, QuotaInv, Every!Of, Every!Category, Passed, Uncounted, Every!MyCategory

\* The recovery job inserts nothing and touches no call.
LEMMA QuotaRecovers ==
    ASSUME Every!CreationAssumption, CreationInv, QuotaInv, NEW i \in DOMAIN notes, Every!RecoverDue(i)
    PROVE  QuotaInv'
<1>t. CreationTyped /\ CreationTyped'
  <2>1. CreationInv'
    BY RecoveryStep
  <2>2. QED
    BY <2>1, CreationTypes DEF CreationInv, CreationTyped, Every!TypeOK, NoteRows, CallRecords
<1>1. UNCHANGED <<call, counter, answered, overtaken>> /\ creationFaults' \in {creationFaults, creationFaults + 1}
  BY DEF Every!RecoverDue, Every!Fault
<1>2. NotesKept
  <2>1. CreationTyped
    BY <1>t
  <2>2. QED
    BY <2>1, RecoveryWrites
<1>3. \A g \in Every!Categories : Passed(g)' = Passed(g) /\ Uncounted(g)' = Uncounted(g) /\ counter'[g] = counter[g]
  BY <1>1 DEF Passed, Uncounted, Every!MyCategory
<1>4. QED
  BY <1>t, <1>1, <1>2, <1>3, QuotaQuiet

\* Every part that creates keeps the invariant, those with the limits of an hour keep the quota.
CreationMoves == Limited!Next \/ Grouped!Next \/ Faulty!Next \/ Recovered!Next

LEMMA CreationKeeps ==
    ASSUME Every!CreationAssumption, CreationInv, CreationMoves
    PROVE  CreationInv'
<1>1. \/ \E c \in Creators : Creates(c) \/ AnyCheck(c)
      \/ \E i \in DOMAIN notes : Every!RecoverDue(i)
  BY CheckIsAny, LimitedIs, FaultyIs, GroupedIs, RecoveredIs DEF CreationMoves
<1>2. QED
  BY <1>1, CreationStep, RecoveryStep

LEMMA QuotaKeeps ==
    ASSUME Every!CreationAssumption, CreationInv, QuotaInv, Limited!Next \/ Faulty!Next
    PROVE  QuotaInv'
<1>1. \/ \E c \in Creators : Creates(c) \/ Every!CheckFrequency(c)
      \/ \E i \in DOMAIN notes : Every!RecoverDue(i)
  BY LimitedIs, FaultyIs
<1>2. ASSUME NEW c \in Creators, Creates(c) \/ Every!CheckFrequency(c)
      PROVE  QuotaInv'
  <2>1. Creates(c) \/ AnyCheck(c)
    BY <1>2, CheckIsAny
  <2>2. CreationInv' /\ (NotesKept \/ Inserts(c))
    BY <2>1, CreationStep
  <2>3. QED
    BY <1>2, <2>2, QuotaStep
<1>3. QED
  BY <1>1, <1>2, QuotaRecovers

\* What the invariants say of the run's properties.
LEMMA CreationIsBounded ==
    ASSUME Limited!CreationAssumption, CreationInv
    PROVE  Limited!TypeOK /\ Limited!GroupOvershootIsBounded /\ Limited!OlderSupersedesInARace
<1>1. Limited!TypeOK
  BY LimitedSets, EverySets DEF CreationInv, Every!TypeOK, Limited!TypeOK
<1>2. ASSUME NEW n \in Limited!Indices
      PROVE  Limited!Cardinality(Limited!Group(n)) <= GroupMax + Limited!Cardinality(Creators) - 1
  <2>1. Limited!Group(n) = Every!Group(n)
    BY DEF Limited!Group, Every!Group
  <2>2. Cardinality(Every!Group(n)) + Cardinality(Joins(n)) <= GroupMax + Cardinality(Creators) - 1
    BY LimitedSets DEF CreationInv, GroupsHaveRoom
  <2>3. /\ Cardinality(Every!Group(n)) \in Nat /\ Cardinality(Joins(n)) \in Nat
        /\ GroupMax \in Nat /\ Cardinality(Creators) \in Nat
    <3>1. Every!CreationAssumption /\ CreationTyped
      BY CreationAssumed, CreationTypes DEF CreationInv
    <3>2. QED
      BY <3>1, GroupSets, CreationSizes
  <2>4. QED
    BY <2>1, <2>2, <2>3, LimitedSets
<1>3. Limited!OlderSupersedesInARace
  BY DEF CreationInv, Every!OlderSupersedesInARace, Limited!OlderSupersedesInARace
<1>4. QED
  BY <1>1, <1>2, <1>3 DEF Limited!GroupOvershootIsBounded

LEMMA QuotaIsBounded ==
    ASSUME Limited!CreationAssumption, CreationInv, QuotaInv
    PROVE  Limited!QuotaOvershootIsBounded
<1>1. Every!CreationAssumption /\ CreationTyped
  BY CreationAssumed, CreationTypes DEF CreationInv
<1>2. ASSUME NEW g \in Limited!Categories
      PROVE  Limited!Cardinality(Limited!Of(g)) <= HourlyLimit + Limited!Cardinality(Creators) - 1 + creationFaults
  <2>1. Limited!Of(g) = Every!Of(g)
    BY DEF Limited!Of, Every!Of, Limited!Category, Every!Category, Limited!CategoryOf, Every!CategoryOf,
       Limited!Keys, Every!Keys
  <2>2. g \in Every!Categories
    BY LimitedSets
  <2>3. Cardinality(Every!Of(g)) + Cardinality(Passed(g)) <= HourlyLimit + Cardinality(Creators) - 1 + creationFaults
    BY <2>2 DEF QuotaInv
  <2>4. /\ Cardinality(Every!Of(g)) \in Nat /\ Cardinality(Passed(g)) \in Nat /\ creationFaults \in Nat
        /\ HourlyLimit \in Nat /\ Cardinality(Creators) \in Nat
    BY <1>1, <2>2, QuotaSets
  <2>5. QED
    BY <2>1, <2>3, <2>4, LimitedSets
<1>3. QED
  BY <1>2 DEF Limited!QuotaOvershootIsBounded

-----------------------------------------------------------------------------
\* The parts together: what holds in each while another moves holds on.
DeliveryInv ==
    /\ part \in Parts
    /\ Box!OutboxInv /\ (part = "calmBox" => HandedInv)
    /\ SendInv
    /\ CreationInv /\ (part \in {"limited", "faulty"} => QuotaInv)

LEMMA DeliveryInit == Assumptions /\ Init => DeliveryInv
<1> SUFFICES ASSUME Assumptions, Init PROVE DeliveryInv
  OBVIOUS
<1>1. /\ Box!OutboxAssumption /\ Sending!DeliveryAssumption /\ Limited!CreationAssumption
      /\ Box!Init /\ Sending!Init /\ Limited!Init /\ part \in Parts
  BY DEF Assumptions, Init
<1>2. Box!OutboxInv /\ HandedInv
  BY <1>1, OutboxInit DEF Box!Init, HandedInv, Handed
<1>3. SendInv
  BY <1>1, SendInit
<1>4. CreationInv /\ QuotaInv
  BY <1>1, CreationInit
<1>5. QED
  BY <1>1, <1>2, <1>3, <1>4 DEF DeliveryInv

LEMMA BoxKeeps ==
    ASSUME Assumptions, Box!OutboxInv, part = "calmBox" => HandedInv, part' = part,
           \/ part = "box" /\ Box!Next
           \/ part = "calmBox" /\ CalmBox!Next
           \/ UNCHANGED boxVars
    PROVE  Box!OutboxInv' /\ (part' = "calmBox" => HandedInv')
<1>1. Box!OutboxAssumption /\ Box!TypeOK
  BY DEF Assumptions, Box!OutboxInv
<1>2. UNCHANGED boxVars <=> UNCHANGED Box!vars
  BY DEF boxVars, Box!vars
<1>3. [Box!Next]_(Box!vars)
  BY <1>2, CalmIsBox
<1>4. Box!OutboxInv'
  BY <1>1, <1>3, OutboxStep
<1>5. ASSUME part = "calmBox"
      PROVE  HandedInv'
  <2>1. HandedInv /\ (Calm \/ UNCHANGED Box!vars)
    BY <1>2, <1>5, CalmIs
  <2>2. QED
    BY <1>1, <2>1, HandsOverStep DEF HandedInv, Handed
<1>6. QED
  BY <1>4, <1>5

LEMMA SendingKeeps ==
    ASSUME Assumptions, SendInv, Sending!Next \/ CalmSending!Next \/ UNCHANGED sendVars
    PROVE  SendInv'
<1>1. Sending!DeliveryAssumption
  BY DEF Assumptions
<1>2. [Sending!Next]_(Sending!vars)
  BY CalmIsSending DEF sendVars, Sending!vars
<1>3. QED
  BY <1>1, <1>2, SendStep

LEMMA CreatingKeeps ==
    ASSUME Assumptions, CreationInv, part \in {"limited", "faulty"} => QuotaInv, part' = part,
           \/ part = "limited" /\ Limited!Next
           \/ part = "faulty" /\ Faulty!Next
           \/ part \in {"grouped", "recovered"} /\ CreationMoves
           \/ UNCHANGED callVars
    PROVE  CreationInv' /\ (part' \in {"limited", "faulty"} => QuotaInv')
<1>1. Every!CreationAssumption
  BY CreationAssumed DEF Assumptions
<1>2. CreationInv'
  BY <1>1, CreationKeeps, CreationStays DEF CreationMoves
<1>3. ASSUME part \in {"limited", "faulty"}
      PROVE  QuotaInv'
  BY <1>1, <1>3, QuotaKeeps, QuotaStays
<1>4. QED
  BY <1>2, <1>3

LEMMA DeliveryStep ==
    ASSUME Assumptions, DeliveryInv, [Next]_<<part, boxVars, sendVars, callVars>>
    PROVE  DeliveryInv'
<1>1. /\ part \in Parts /\ part' = part
      /\ \/ part = "box" /\ Box!Next /\ UNCHANGED <<sendVars, callVars>>
         \/ part = "calmBox" /\ CalmBox!Next /\ UNCHANGED <<sendVars, callVars>>
         \/ (Sending!Next \/ CalmSending!Next) /\ UNCHANGED <<boxVars, callVars>>
         \/ part = "limited" /\ Limited!Next /\ UNCHANGED <<boxVars, sendVars>>
         \/ part = "faulty" /\ Faulty!Next /\ UNCHANGED <<boxVars, sendVars>>
         \/ part \in {"grouped", "recovered"} /\ CreationMoves /\ UNCHANGED <<boxVars, sendVars>>
         \/ UNCHANGED <<boxVars, sendVars, callVars>>
  BY DEF DeliveryInv, Next, CreationMoves
<1>2. Box!OutboxInv' /\ (part' = "calmBox" => HandedInv')
  BY <1>1, BoxKeeps DEF DeliveryInv
<1>3. SendInv'
  BY <1>1, SendingKeeps DEF DeliveryInv
<1>4. CreationInv' /\ (part' \in {"limited", "faulty"} => QuotaInv')
  BY <1>1, CreatingKeeps DEF DeliveryInv
<1>5. QED
  BY <1>1, <1>2, <1>3, <1>4 DEF DeliveryInv

LEMMA DeliveryKept == Spec => []DeliveryInv
<1>1. Init => DeliveryInv
  BY DeliveryInit, DeliveryAssumption
<1>2. DeliveryInv /\ [Next]_<<part, boxVars, sendVars, callVars>> => DeliveryInv'
  BY DeliveryStep, DeliveryAssumption
<1>3. QED
  BY <1>1, <1>2, PTL DEF Spec

\* Every variable of outbox, deliveries and creation keeps its type.
THEOREM DeliveryTyped == Spec => []TypeOK
<1>1. DeliveryInv => TypeOK
  <2>1. SUFFICES ASSUME DeliveryInv PROVE TypeOK
    OBVIOUS
  <2>2. Limited!TypeOK
    BY <2>1, CreationIsBounded, DeliveryAssumption DEF DeliveryInv, Assumptions
  <2>3. Box!TypeOK /\ Sending!TypeOK
    BY <2>1 DEF DeliveryInv, Box!OutboxInv, SendInv
  <2>4. QED
    BY <2>2, <2>3 DEF TypeOK
<1>2. QED
  BY <1>1, DeliveryKept, PTL

\* One poller hands an event over, no enqueued row is lost while no poller dies, and
\* events and messages reach their worker and their provider twice only after a race.
THEOREM DeliverySentOnce == Spec => []SentOnce
<1>1. DeliveryInv => SentOnce
  <2>1. SUFFICES ASSUME DeliveryInv PROVE SentOnce
    OBVIOUS
  <2>2. ClaimedByOne /\ DuplicateNeedsARace
    BY <2>1, OutboxSays DEF DeliveryInv, ClaimedByOne, DuplicateNeedsARace
  <2>3. EnqueuedIsHandedOver
    BY <2>1 DEF DeliveryInv, HandedInv, Handed, Box!Unheld, EnqueuedIsHandedOver,
       CalmBox!EnqueuedIsHandedOver
  <2>4. SecondSendNeedsARace
    BY <2>1, SendOnce DEF DeliveryInv, SecondSendNeedsARace
  <2>5. QED
    BY <2>2, <2>3, <2>4 DEF SentOnce
<1>2. QED
  BY <1>1, DeliveryKept, PTL

\* The hourly limit is passed by no more than the processes and faults that can hide a
\* notification from the counter, a group's by no more than the other processes, and an
\* older notification supersedes a newer one only when their calls overlapped.
THEOREM DeliveryOvershoots == Spec => []OvershootIsBounded
<1>1. DeliveryInv => OvershootIsBounded
  <2>1. SUFFICES ASSUME DeliveryInv PROVE OvershootIsBounded
    OBVIOUS
  <2>2. Limited!CreationAssumption
    BY DeliveryAssumption DEF Assumptions
  <2>3. GroupOvershootIsBounded /\ OlderSupersedesInARace
    BY <2>1, <2>2, CreationIsBounded DEF DeliveryInv, GroupOvershootIsBounded, OlderSupersedesInARace
  <2>4. QuotaOvershootIsBounded
    BY <2>1, <2>2, QuotaIsBounded DEF DeliveryInv, QuotaOvershootIsBounded
  <2>5. QED
    BY <2>3, <2>4 DEF OvershootIsBounded
<1>2. QED
  BY <1>1, DeliveryKept, PTL

CalmInv == DeliveryInv /\ (part = "calmSending" => CalmKnows)

LEMMA CalmStep ==
    ASSUME Assumptions, CalmInv, [Next]_<<part, boxVars, sendVars, callVars>>
    PROVE  CalmInv'
<1>1. DeliveryInv'
  BY DeliveryStep DEF CalmInv
<1>2. CASE UNCHANGED <<part, sendVars>>
  BY <1>1, <1>2 DEF CalmInv, CalmKnows, sendVars
<1>3. CASE part = "calmSending" /\ CalmSending!Next
  <2>1. SendTyped
    BY SendTypes DEF CalmInv, DeliveryInv, SendInv
  <2>2. CalmKnows'
    BY <1>3, <2>1, CalmKeeps DEF CalmInv
  <2> QED BY <1>1, <2>2 DEF CalmInv
<1>4. CASE part = "sending" /\ part' = part
  BY <1>1, <1>4 DEF CalmInv
<1> QED BY <1>2, <1>3, <1>4 DEF Next

\* A processed row of the outbox is reopened only in a race, and without crashes a message
\* that was superseded before its claim is not sent.
THEOREM DeliveryStaysDone == Spec => StaysDone
<1>1. Init => CalmInv
  <2>1. Init => DeliveryInv
    BY DeliveryInit, DeliveryAssumption
  <2>2. Sending!Init => CalmKnows
    BY DEF Sending!Init, Sending!NoRun, CalmKnows
  <2> QED BY <2>1, <2>2 DEF Init, CalmInv
<1>2. CalmInv /\ [Next]_<<part, boxVars, sendVars, callVars>> => CalmInv'
  BY CalmStep, DeliveryAssumption
<1>3. ASSUME CalmInv, [Next]_<<part, boxVars, sendVars, callVars>>
      PROVE  [/\ \A e \in Events : Box!Reopens(e) => e \in repeated'
              /\ part = "calmSending" => ~Sending!SupersededIsSent]_<<part, boxVars, sendVars>>
  <2>1. Box!OutboxInv /\ SendTyped
    BY <1>3, SendTypes DEF CalmInv, DeliveryInv, SendInv
  <2>2. ASSUME NEW e \in Events, Box!Reopens(e)
        PROVE  e \in repeated'
    <3>1. [Box!Next]_(Box!vars)
      BY <1>3, CalmIsBox DEF Next, boxVars, Box!vars
    <3> QED BY <2>1, <2>2, <3>1, ReopensInARace
  <2>3. ASSUME part = "calmSending", Sending!SupersededIsSent
        PROVE  FALSE
    <3>1. UNCHANGED run \/ CalmSending!Next
      BY <1>3, <2>3 DEF Next, sendVars
    <3>2. ~UNCHANGED run
      BY <2>3 DEF Sending!SupersededIsSent
    <3> QED BY <1>3, <2>1, <2>3, <3>1, <3>2, LateIsNotSent DEF CalmInv
  <2> QED BY <2>2, <2>3
<1>4. CalmInv /\ [Next]_<<part, boxVars, sendVars, callVars>> =>
        [/\ \A e \in Events : Box!Reopens(e) => e \in repeated'
         /\ part = "calmSending" => ~Sending!SupersededIsSent]_<<part, boxVars, sendVars>>
  BY <1>3
<1> QED BY <1>1, <1>2, <1>4, PTL DEF Spec, StaysDone
=============================================================================
