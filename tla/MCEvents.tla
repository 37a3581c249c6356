------------------------------- MODULE MCEvents -------------------------------
(***************************************************************************)
(* Events from Stripe, on small instances: the inbox that stores, claims   *)
(* and retries them, and the chargebacks they carry. The initial state     *)
(* picks one part, and only that part moves, so the parts' states add up.  *)
(* The constants are small for TLC; the proofs at the end are for any.     *)
(***************************************************************************)
EXTENDS Naturals, TLAPS

CONSTANTS
    Runners,     \* runs of the workers that handle events
    Disputes,    \* Stripe's disputes
    MaxEvents,   \* bound on the events of a payment, a payout, an invoice or a subscription
    MaxInTurn,   \* bound on the events of an account
    MaxFaults    \* bound on faults

VARIABLES
    part,
    emitted, inbox, job, serving, db, recovered, inboxFaults,
    stripe, events, run, row, user, escrow, raced, faults

Inbox == INSTANCE StripeInbox_proofs WITH
    Kinds <- {"payment_intent", "payout"}, Workers <- Runners, RiskMetadata <- FALSE,
    FaultKinds <- {"error", "crash", "slow", "redelivery"},
    run <- serving, raced <- recovered, faults <- inboxFaults
Billed == INSTANCE StripeInbox_proofs WITH
    Kinds <- {"invoice", "subscription"}, Workers <- Runners, RiskMetadata <- FALSE,
    FaultKinds <- {"error", "crash", "slow", "redelivery"},
    run <- serving, raced <- recovered, faults <- inboxFaults
\* Several events of one account: they may overtake each other.
Calm == INSTANCE StripeInbox_proofs WITH
    Kinds <- {"account"}, MaxEvents <- MaxInTurn, Workers <- Runners, RiskMetadata <- FALSE,
    FaultKinds <- {"error", "slow", "redelivery"}, MaxFaults <- 1,
    run <- serving, raced <- recovered, faults <- inboxFaults

Disputed == INSTANCE Chargeback WITH
    Workers <- Runners, Outcomes <- {"won", "lost", "warning_closed"}, InitialTier <- 4, PriorCount <- 1,
    FinalUpdate <- FALSE, FaultKinds <- {"reorder"}, MaxFaults <- 0
\* Events in Stripe's order.
Ordered == INSTANCE Chargeback WITH
    Workers <- Runners, Outcomes <- {"won", "warning_closed"}, InitialTier <- 4,
    PriorCount <- 1, FinalUpdate <- FALSE, FaultKinds <- {"redelivery"}, MaxFaults <- 1

\* The constants are as the modules assume.
Assumptions ==
    /\ Inbox!InboxAssumption /\ Billed!InboxAssumption /\ Calm!InboxAssumption
    /\ Disputed!ChargebackAssumption /\ Ordered!ChargebackAssumption
ASSUME EventsAssumption == Assumptions

inboxVars == <<emitted, inbox, job, serving, db, recovered, inboxFaults>>
disputeVars == <<stripe, events, run, row, user, escrow, raced, faults>>

Init ==
    /\ part \in {"inbox", "billed", "calm", "disputed", "ordered"}
    /\ IF part = "calm" THEN Calm!Init ELSE IF part = "billed" THEN Billed!Init ELSE Inbox!Init
    /\ Disputed!Init

Next ==
    \/ part = "inbox" /\ Inbox!Next /\ UNCHANGED <<part, disputeVars>>
    \/ part = "billed" /\ Billed!Next /\ UNCHANGED <<part, disputeVars>>
    \/ part = "calm" /\ Calm!Next /\ UNCHANGED <<part, disputeVars>>
    \/ part = "disputed" /\ Disputed!Next /\ UNCHANGED <<part, inboxVars>>
    \/ part = "ordered" /\ Ordered!Next /\ UNCHANGED <<part, inboxVars>>

\* What the modules assume, for the parts whose liveness is checked: Stripe
\* delivers until an event is stored, and free workers take waiting jobs.
Fairness ==
    /\ \A e \in Calm!Events : WF_inboxVars(part = "calm" /\ ~inbox[e].stored /\ Calm!ReceiveWebhook(e))
    /\ \A w \in Runners :
         WF_inboxVars(part = "calm" /\ Calm!Work(w)) /\ WF_disputeVars(part = "ordered" /\ Ordered!Work(w))

Spec == Init /\ [][Next]_<<part, inboxVars, disputeVars>> /\ Fairness

-----------------------------------------------------------------------------
\* The properties, each as its module states it, in the parts it is about.

\* Every variable stays in its type (stripe_events and its jobs, payment_disputes).
TypeOK ==
    /\ IF part = "calm" THEN Calm!TypeOK ELSE IF part = "billed" THEN Billed!TypeOK ELSE Inbox!TypeOK
    /\ IF part = "ordered" THEN Ordered!TypeOK ELSE Disputed!TypeOK

\* Two workers handle one event only after its claim was recovered.
HandledByOne ==
    IF part = "calm" THEN Calm!HandledByOne ELSE IF part = "billed" THEN Billed!HandledByOne ELSE Inbox!HandledByOne

\* Revenue and failed payouts are booked once per event.
RevenueIsBookedOnce ==
    IF part = "calm" THEN Calm!BookedOnce ELSE IF part = "billed" THEN Billed!BookedOnce ELSE Inbox!BookedOnce

\* When every event of an account is processed, the account is as the last says, unless
\* a retry or a second worker wrote an older one over it.
AccountIsCurrent == part = "calm" => Calm!AccountIsCurrent

\* An event Stripe made is processed, or its job has visibly failed.
EventSettles ==
    \A e \in Calm!Events : (part = "calm" /\ Calm!In(e)) ~> (part = "calm" /\ Calm!Settled(e))

\* Redelivered and concurrent events apply a chargeback once.
ChargebackAppliedOnce ==
    IF part = "ordered" THEN Ordered!ChargebackAppliedOnce ELSE Disputed!ChargebackAppliedOnce

\* While a chargeback is open payouts are locked, unless a count was overtaken.
OpenDisputeLocksPayouts ==
    IF part = "ordered" THEN Ordered!OpenDisputeLocksPayouts ELSE Disputed!OpenDisputeLocksPayouts

\* With events in order, a dispute that is won has its loss reversed.
WonIsReversed == part = "ordered" => Ordered!WonIsReversed

\* The above in one: redelivered, retried and concurrent events are booked once.
BookedOnce == HandledByOne /\ RevenueIsBookedOnce /\ ChargebackAppliedOnce

\* An account, and its lock, is as the events that are processed say, unless one of them
\* was overtaken.
AccountsAreCurrent == AccountIsCurrent /\ OpenDisputeLocksPayouts

\* Every event settles, and a dispute that is won is reversed.
EventsSettle == EventSettles /\ WonIsReversed

-----------------------------------------------------------------------------
\* What is proved of this system, for any workers, disputes and bounds: each part keeps
\* the invariant of its module, and a part moves nothing but its own variables.
Parts == {"inbox", "billed", "calm", "disputed", "ordered"}
moved == <<part, inboxVars, disputeVars>>
InboxHolds ==
    IF part = "calm" THEN Calm!AccountInv ELSE IF part = "billed" THEN Billed!HandlingInv ELSE Inbox!HandlingInv
DisputesHold == IF part = "ordered" THEN Ordered!ChargeInv ELSE Disputed!ChargeInv
EventsHold == Assumptions /\ part \in Parts /\ InboxHolds /\ DisputesHold

LEMMA OrderedInit == Disputed!Init => Ordered!Init
  BY DEF Disputed!Init, Ordered!Init, Disputed!Idle, Ordered!Idle

LEMMA HoldsInit == Init => EventsHold
<1> SUFFICES ASSUME Init PROVE EventsHold
  OBVIOUS
<1>1. Assumptions /\ part \in Parts /\ Disputed!Init
  BY EventsAssumption DEF Init, Parts
<1>2. InboxHolds
  <2>1. CASE part = "calm"
    <3>1. Calm!Init
      BY <2>1 DEF Init
    <3> QED BY <1>1, <2>1, <3>1, Calm!AccountInit DEF InboxHolds, Assumptions
  <2>2. CASE part = "billed"
    <3>1. Billed!Init
      BY <2>2 DEF Init
    <3> QED BY <1>1, <2>2, <3>1, Billed!HandlingInit DEF InboxHolds, Assumptions
  <2>3. CASE part \notin {"calm", "billed"}
    <3>1. Inbox!Init
      BY <2>3 DEF Init
    <3> QED BY <1>1, <2>3, <3>1, Inbox!HandlingInit DEF InboxHolds, Assumptions
  <2> QED BY <2>1, <2>2, <2>3
<1>3. DisputesHold
  BY <1>1, OrderedInit, Ordered!ChargeInit, Disputed!ChargeInit DEF DisputesHold, Assumptions
<1> QED BY <1>1, <1>2, <1>3 DEF EventsHold

\* A step is one of each module, of the part that moves, or leaves its variables alone.
LEMMA PartsMove ==
    ASSUME [Next]_moved
    PROVE  /\ part' = part
           /\ \/ part = "calm" /\ [Calm!Next]_(Calm!vars)
              \/ part = "billed" /\ [Billed!Next]_(Billed!vars)
              \/ part \notin {"calm", "billed"} /\ [Inbox!Next]_(Inbox!vars)
           /\ \/ part = "ordered" /\ [Ordered!Next]_(Ordered!vars)
              \/ part # "ordered" /\ [Disputed!Next]_(Disputed!vars)
  BY DEF Next, moved, inboxVars, disputeVars, Calm!vars, Billed!vars, Inbox!vars, Ordered!vars, Disputed!vars

LEMMA HoldsStep == ASSUME EventsHold, [Next]_moved PROVE EventsHold'
<1>1. part' = part /\ Assumptions
  BY PartsMove DEF EventsHold
<1>2. InboxHolds'
  <2>1. CASE part = "calm"
    <3>1. [Calm!Next]_(Calm!vars) /\ Calm!AccountInv /\ Calm!InboxAssumption
      BY <2>1, PartsMove DEF EventsHold, InboxHolds, Assumptions
    <3>2. Calm!AccountInv'
      BY <3>1, Calm!AccountStep
    <3> QED BY <1>1, <2>1, <3>2 DEF InboxHolds
  <2>2. CASE part = "billed"
    <3>1. [Billed!Next]_(Billed!vars) /\ Billed!HandlingInv /\ Billed!InboxAssumption
      BY <2>2, PartsMove DEF EventsHold, InboxHolds, Assumptions
    <3>2. Billed!HandlingInv'
      BY <3>1, Billed!HandlingStep
    <3> QED BY <1>1, <2>2, <3>2 DEF InboxHolds
  <2>3. CASE part \notin {"calm", "billed"}
    <3>1. [Inbox!Next]_(Inbox!vars) /\ Inbox!HandlingInv /\ Inbox!InboxAssumption
      BY <2>3, PartsMove DEF EventsHold, InboxHolds, Assumptions
    <3>2. Inbox!HandlingInv'
      BY <3>1, Inbox!HandlingStep
    <3> QED BY <1>1, <2>3, <3>2 DEF InboxHolds
  <2> QED BY <2>1, <2>2, <2>3
<1>3. DisputesHold'
  <2>1. CASE part = "ordered"
    <3>1. [Ordered!Next]_(Ordered!vars) /\ Ordered!ChargeInv /\ Ordered!ChargebackAssumption
      BY <2>1, PartsMove DEF EventsHold, DisputesHold, Assumptions
    <3>2. Ordered!ChargeInv'
      BY <3>1, Ordered!ChargeStep
    <3> QED BY <1>1, <2>1, <3>2 DEF DisputesHold
  <2>2. CASE part # "ordered"
    <3>1. [Disputed!Next]_(Disputed!vars) /\ Disputed!ChargeInv /\ Disputed!ChargebackAssumption
      BY <2>2, PartsMove DEF EventsHold, DisputesHold, Assumptions
    <3>2. Disputed!ChargeInv'
      BY <3>1, Disputed!ChargeStep
    <3> QED BY <1>1, <2>2, <3>2 DEF DisputesHold
  <2> QED BY <2>1, <2>2
<1>4. Assumptions' /\ part' \in Parts
  BY <1>1 DEF EventsHold, Assumptions
<1> QED BY <1>2, <1>3, <1>4 DEF EventsHold

\* Events and disputes stay in their types, whatever is retried, redelivered or reordered.
THEOREM EventsTyped == Spec => []TypeOK
<1>1. EventsHold => TypeOK
  BY Ordered!ChargeTyped, Disputed!ChargeTyped
     DEF EventsHold, InboxHolds, DisputesHold, TypeOK, Calm!AccountInv, Calm!HandlingInv, Billed!HandlingInv,
         Inbox!HandlingInv
<1> QED BY <1>1, HoldsInit, HoldsStep, PTL DEF Spec, moved

\* Redelivered, retried and concurrent events are handled by one worker at a time and
\* booked once, and a chargeback is applied once.
THEOREM EventsBookedOnce == Spec => []BookedOnce
<1>1. EventsHold => HandledByOne
  BY Calm!HandledAlone, Billed!HandledAlone, Inbox!HandledAlone
     DEF EventsHold, InboxHolds, Calm!AccountInv, HandledByOne
<1>2. EventsHold => RevenueIsBookedOnce
  BY DEF EventsHold, InboxHolds, RevenueIsBookedOnce, Calm!AccountInv, Calm!HandlingInv, Calm!Booked,
         Calm!BookedOnce, Billed!HandlingInv, Billed!Booked, Billed!BookedOnce, Inbox!HandlingInv, Inbox!Booked,
         Inbox!BookedOnce
<1>3. EventsHold => ChargebackAppliedOnce
  BY Ordered!ChargeApplied, Disputed!ChargeApplied DEF EventsHold, DisputesHold, ChargebackAppliedOnce
<1> QED BY <1>1, <1>2, <1>3, HoldsInit, HoldsStep, PTL DEF Spec, moved, BookedOnce

\* An account is as the last of its events says but where an older one was written over
\* it, and while a chargeback is open payouts are locked but for a count that was overtaken.
THEOREM AccountsStayCurrent == Spec => []AccountsAreCurrent
<1>1. EventsHold => AccountIsCurrent
  BY Calm!AccountFollows DEF EventsHold, InboxHolds, AccountIsCurrent
<1>2. EventsHold => OpenDisputeLocksPayouts
  BY DEF EventsHold, DisputesHold, OpenDisputeLocksPayouts, Ordered!ChargeInv, Disputed!ChargeInv
<1> QED BY <1>1, <1>2, HoldsInit, HoldsStep, PTL DEF Spec, moved, AccountsAreCurrent

===============================================================================
