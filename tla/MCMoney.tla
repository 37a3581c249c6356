-------------------------------- MODULE MCMoney --------------------------------
(***************************************************************************)
(* What follows a release, the insurance pool, the workers' accounts at    *)
(* Stripe, their cash-outs and tips, on small instances. The initial state *)
(* picks one part, and only that part moves, so the parts' states add up.  *)
(***************************************************************************)
EXTENDS Naturals

VARIABLES
    part,
    state, pc, fund, earned, taxes, intents, ledger, user, lock, counter, claw,
    pool, claim, call, transfers, keys,
    row, cashing, available, payout, event, receipts, told, lastTold,
    linked, enabled, account, links, onboarding, updates, changes, form, had,
    tip, tipIntents, day, tipCall, secrets, confirm, tipBooked, crossed

\* One release on the platform and one paid outside it, with every failure.
Effects == INSTANCE ReleaseEffects WITH
    Escrows <- {"e1", "e2"}, Offline <- {"e2"}, Intents <- {"p1"}, Refundable <- {"e1"},
    DailyCap <- 4, LevelStep <- 3, Redis <- "absent", Errors <- TRUE, pool <- fund
\* A cap of one award.
Capped == INSTANCE ReleaseEffects WITH
    Escrows <- {"e1", "e2"}, Offline <- {"e2"}, Intents <- {"p1"}, Refundable <- {"e1"},
    DailyCap <- 2, LevelStep <- 3, Redis <- "absent", Errors <- FALSE, pool <- fund
Cached == INSTANCE ReleaseEffects WITH
    Escrows <- {"e1", "e2"}, Offline <- {}, Intents <- {"p1"}, Refundable <- {"e1"},
    DailyCap <- 2, LevelStep <- 3, Redis <- "failing", Errors <- FALSE, pool <- fund

\* Concurrent calls of payClaim; and one that comes back when its key is forgotten.
Claims == INSTANCE InsurancePool WITH
    Tasks <- {"t1", "t2"}, MaxFilings <- 2, Amounts <- {1, 2}, MaxClaim <- 2, MaxDeposits <- 4,
    Payers <- {"p1", "p2"}, Crashes <- TRUE, KeysExpire <- FALSE
Days == INSTANCE InsurancePool WITH
    Tasks <- {"t1", "t2"}, MaxFilings <- 2, Amounts <- {1, 2}, MaxClaim <- 2, MaxDeposits <- 4,
    Payers <- {"p1"}, Crashes <- TRUE, KeysExpire <- TRUE

\* Two requests side by side; refusals and payouts that come back; lost answers too.
Paying == INSTANCE CashOut WITH
    Keys <- {"k1", "k2"}, Callers <- {"c1", "c2"}, Balance <- 2, Refuses <- FALSE, Loses <- FALSE,
    Returns <- FALSE, Kinds <- {"paid", "failed", "created"}, call <- cashing
Refused == INSTANCE CashOut WITH
    Keys <- {"k1", "k2"}, Callers <- {"c1"}, Balance <- 1, Refuses <- TRUE, Loses <- FALSE,
    Returns <- TRUE, Kinds <- {"paid", "failed"}, call <- cashing
Losing == INSTANCE CashOut WITH
    Keys <- {"k1", "k2"}, Callers <- {"c1"}, Balance <- 1, Refuses <- FALSE, Loses <- TRUE,
    Returns <- TRUE, Kinds <- {"paid", "failed"}, call <- cashing

\* One request at a time and events in order; and with failures.
Onboard == INSTANCE PayoutAccount WITH
    Accounts <- {"x1", "x2"}, Callers <- {"c1"}, Ordered <- TRUE, Faults <- FALSE, MaxChanges <- 4,
    call <- onboarding
Halting == INSTANCE PayoutAccount WITH
    Accounts <- {"x1", "x2"}, Callers <- {"c1"}, Ordered <- TRUE, Faults <- TRUE, MaxChanges <- 3,
    call <- onboarding

\* Two calls of createTip and one of confirmTip on one day, of any amounts; and
\* of one amount on two days.
Tipping == INSTANCE Tips WITH
    Calls <- {"c", "d"}, Confirmers <- {"k"}, Amounts <- {100, 200}, Price <- 10,
    Faults <- {"stripe", "insert", "lose", "cancel", "book", "die"}, MaxDays <- 1, MaxBooked <- 1,
    intents <- tipIntents, call <- tipCall, booked <- tipBooked
TippingLater == INSTANCE Tips WITH
    Calls <- {"c", "d"}, Confirmers <- {"k"}, Amounts <- {100}, Price <- 10,
    Faults <- {"insert", "die"}, MaxDays <- 2, MaxBooked <- 1,
    intents <- tipIntents, call <- tipCall, booked <- tipBooked

\* The constants are as the modules assume.
Assumptions ==
    /\ Effects!EffectsAssumption /\ Capped!EffectsAssumption /\ Cached!EffectsAssumption
    /\ Claims!PoolAssumption /\ Days!PoolAssumption
    /\ Paying!CashOutAssumption /\ Refused!CashOutAssumption /\ Losing!CashOutAssumption
    /\ Onboard!PayoutAccountAssumption /\ Halting!PayoutAccountAssumption
    /\ Tipping!TipsAssumption /\ TippingLater!TipsAssumption
ASSUME MoneyAssumption == Assumptions

effectVars == <<state, pc, fund, earned, taxes, intents, ledger, user, lock, counter, claw>>
poolVars == <<pool, claim, call, transfers, keys>>
cashVars == <<row, cashing, available, payout, event, receipts, told, lastTold>>
accountVars == <<linked, enabled, account, links, onboarding, updates, changes, form, had>>
tipVars == <<tip, tipIntents, day, tipCall, secrets, confirm, tipBooked, crossed>>

Init ==
    /\ part \in {"effects", "capped", "cached", "claims", "days", "paying", "refused", "losing",
                 "onboard", "halting", "tipping", "tippingLater"}
    /\ Effects!Init
    /\ IF part = "days" THEN Days!Init ELSE Claims!Init
    /\ IF part = "paying" THEN Paying!Init ELSE Refused!Init
    /\ Onboard!Init
    /\ IF part = "tippingLater" THEN TippingLater!Init ELSE Tipping!Init

Next ==
    \/ part = "effects" /\ Effects!Next /\ UNCHANGED <<part, poolVars, cashVars, accountVars, tipVars>>
    \/ part = "capped" /\ Capped!Next /\ UNCHANGED <<part, poolVars, cashVars, accountVars, tipVars>>
    \/ part = "cached" /\ Cached!Next /\ UNCHANGED <<part, poolVars, cashVars, accountVars, tipVars>>
    \/ part = "claims" /\ Claims!Next /\ UNCHANGED <<part, effectVars, cashVars, accountVars, tipVars>>
    \/ part = "days" /\ Days!Next /\ UNCHANGED <<part, effectVars, cashVars, accountVars, tipVars>>
    \/ part = "paying" /\ Paying!Next /\ UNCHANGED <<part, effectVars, poolVars, accountVars, tipVars>>
    \/ part = "refused" /\ Refused!Next /\ UNCHANGED <<part, effectVars, poolVars, accountVars, tipVars>>
    \/ part = "losing" /\ Losing!Next /\ UNCHANGED <<part, effectVars, poolVars, accountVars, tipVars>>
    \/ part = "onboard" /\ Onboard!Next /\ UNCHANGED <<part, effectVars, poolVars, cashVars, tipVars>>
    \/ part = "halting" /\ Halting!Next /\ UNCHANGED <<part, effectVars, poolVars, cashVars, tipVars>>
    \/ part = "tipping" /\ Tipping!Next /\ UNCHANGED <<part, effectVars, poolVars, cashVars, accountVars>>
    \/ /\ part = "tippingLater" /\ TippingLater!Next
       /\ UNCHANGED <<part, effectVars, poolVars, cashVars, accountVars>>

\* What the modules assume, for the parts whose liveness is checked.
Fairness ==
    /\ \A k \in {"k1", "k2"}, kind \in {"paid", "failed"} :
          WF_cashVars(part = "paying" /\ Paying!SyncProviderPayout(k, kind))
    /\ WF_accountVars(part = "onboard" /\ Onboard!HandleUpdate)
    /\ WF_accountVars(part = "onboard" /\ Onboard!Proceed("c1"))

Spec == Init /\ [][Next]_<<part, effectVars, poolVars, cashVars, accountVars, tipVars>> /\ Fairness

-----------------------------------------------------------------------------
\* The properties, each as its module states it, in the parts it is about.

\* Every variable stays in its type (ledgers and Redis; pool; requests; accounts; tips).
TypeOK ==
    /\ Effects!TypeOK /\ (IF part = "days" THEN Days!TypeOK ELSE Claims!TypeOK)
    /\ IF part = "paying" THEN Paying!TypeOK ELSE Refused!TypeOK
    /\ Onboard!TypeOK
    /\ IF part = "tippingLater" THEN TippingLater!TypeOK ELSE Tipping!TypeOK

\* Effects and reconciliations side by side count each release once.
EffectsOnce == Effects!EffectsOnce

\* A reconciliation that has succeeded leaves no effect of its release behind.
ReconciledIsComplete == IF part = "cached" THEN Cached!ReconciledIsComplete ELSE Effects!ReconciledIsComplete

\* xp_total is what the ledger and the settled taxes add up to.
TotalIsLedger == Effects!TotalIsLedger

\* A refunded escrow has given nothing: no contribution, earnings, tax or XP.
RefundedHasNoXp == Effects!RefundedHasNoXp

\* Without Redis the awards of a day stay within the cap.
CapIsKept == (part = "effects" => Effects!CapIsKept) /\ (part = "capped" => Capped!CapIsKept)

\* What the pool counts as claimed is what its active claims cover.
PoolIsReserved == IF part = "days" THEN Days!PoolIsReserved ELSE Claims!PoolIsReserved

\* While Stripe remembers a claim's key, however many calls transfer it once.
TransferredOnce == part = "claims" => Claims!TransferredOnce

\* Nothing lost or repeated makes a request say PAID of money that never reached the bank.
PaidWasPaid == IF part = "paying" THEN Paying!PaidWasPaid ELSE Refused!PaidWasPaid

\* A worker has one payout under way, unless Stripe's answer was lost.
OneLivePayout == (part = "paying" => Paying!OneLivePayout) /\ (part = "refused" => Refused!OneLivePayout)

\* With its events applied, in any order, a request says what became of the money.
SettledAgrees == (part = "paying" => Paying!SettledAgrees) /\ (part = "refused" => Refused!SettledAgrees)

\* With its events handled in order, the account is payable exactly when Stripe says so.
ReadyIsOnboarded ==
    (part = "onboard" => Onboard!ReadyIsOnboarded) /\ (part = "halting" => Halting!ReadyIsOnboarded)

\* A worker who has had a tax form has one, if no insert failed.
FormIsKept == part = "onboard" => Onboard!FormIsKept

\* However many calls overlap or fail, the poster pays the one tip on record, and
\* it is completed and booked only when it is paid.
PaidIsTheTip == IF part = "tippingLater" THEN TippingLater!PaidIsTheTip ELSE Tipping!PaidIsTheTip

\* A tip that can never be paid comes of overlapping calls or a failed insert.
DeadTipNeedsARace ==
    IF part = "tippingLater" THEN TippingLater!DeadTipNeedsARace ELSE Tipping!DeadTipNeedsARace

\* A payout that has ended ends its request.
RecordedInTheEnd == part = "paying" => Paying!RecordedInTheEnd

\* An account Stripe has enabled becomes payable.
OnboardedBecomesReady == part = "onboard" => Onboard!OnboardedBecomesReady

\* The above in one, by what they promise.
\* Retries and overlapping calls move each amount once.
MovedOnce == EffectsOnce /\ TransferredOnce /\ OneLivePayout /\ PaidIsTheTip

\* The totals are what their entries add up to, and within their limits.
TotalsAddUp == TotalIsLedger /\ PoolIsReserved /\ CapIsKept

\* What is settled is settled completely, and as it is at Stripe.
SettledIsComplete ==
    /\ ReconciledIsComplete /\ RefundedHasNoXp
    /\ PaidWasPaid /\ SettledAgrees /\ ReadyIsOnboarded /\ FormIsKept
    /\ DeadTipNeedsARace

\* What Stripe has decided is recorded.
StripeIsFollowed == RecordedInTheEnd /\ OnboardedBecomesReady
===============================================================================
