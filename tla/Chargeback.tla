------------------------------ MODULE Chargeback ------------------------------
(***************************************************************************)
(* Stripe chargebacks against one poster: the events Stripe emits for each *)
(* dispute, and the three handlers of ChargebackService.                   *)
(*                                                                         *)
(* Each handler is a transaction, so it is one action; but the escrow's    *)
(* state is read before the transaction of 'created', and a won 'closed'   *)
(* counts the other open disputes in a statement before the one that       *)
(* unlocks the payouts, so another worker's commit fits in between.        *)
(***************************************************************************)
EXTENDS Naturals, FiniteSets, FiniteSetTheorems, TLAPS

CONSTANTS
    Disputes,     \* Stripe disputes, each about an escrow of its own
    Workers,      \* runs of the event worker: several processes, or a stalled job
    Outcomes,     \* how Stripe may end a dispute: subset of {"won", "lost", "warning_closed"}
    InitialTier,  \* trust_tier of the poster
    PriorCount,   \* dispute_count of the poster
    FinalUpdate,  \* does an 'updated' event carry the final status, too
    FaultKinds,   \* subset of {"reorder", "redelivery"}
    MaxFaults     \* bound on redeliveries

ChargebackAssumption ==
    /\ IsFiniteSet(Disputes) /\ Outcomes \subseteq {"won", "lost", "warning_closed"}
    /\ InitialTier \in 1..4 /\ PriorCount \in 0..1 /\ FinalUpdate \in BOOLEAN /\ MaxFaults \in Nat
    /\ FaultKinds \subseteq {"reorder", "redelivery"}

VARIABLES
    stripe,   \* external: the status of each dispute at Stripe
    events,   \* stripe_events: emitted, and how often each was handled
    run,      \* what each worker is doing
    row,      \* payment_disputes, with the entries of revenue_ledger about it
    user,     \* the poster
    escrow,   \* state of the disputed escrow
    raced,    \* history: a dispute was recorded between a count and its unlock
    faults

vars == <<stripe, events, run, row, user, escrow, raced, faults>>

Terminal == {"won", "lost", "closed"}
StripeStatuses == {"none", "needs_response", "under_review", "won", "lost", "warning_closed"}
Kinds == {"created", "updated", "closed"}
Event == [dispute : Disputes, kind : Kinds, status : StripeStatuses]

\* mapStripeDisputeStatus
MapStripeDisputeStatus(s) == IF s = "warning_closed" THEN "closed" ELSE s

\* enforce_dispute_forward_state: terminal is final, the rest moves forward only.
Order == [open |-> 1, needs_response |-> 2, under_review |-> 3, won |-> 10, lost |-> 10, closed |-> 10]
Forward(old, new) == IF old \in Terminal THEN old = new ELSE Order[old] <= Order[new]

Idle == [pc |-> "idle"]

TypeOK ==
    /\ stripe \in [Disputes -> StripeStatuses]
    /\ events \subseteq [event : Event, handled : Nat]
    /\ \A w \in Workers :
         \/ run[w] = Idle
         \/ run[w] \in [pc : {"created"}, event : Event, escrow : {"FUNDED", "RELEASED", "LOCKED_DISPUTE"}]
         \/ run[w] \in [pc : {"won"}, event : Event, others : 0..Cardinality(Disputes)]
    /\ row \in [Disputes ->
         [status : {"absent", "open", "needs_response", "under_review"} \cup Terminal,
          loss : {"none", "platform_loss", "payout_blocked", "escrow_locked_dispute"},
          entries : Nat, reversals : Nat]]
    /\ user \in [locked : BOOLEAN, disputes : Nat, lost : Nat, tier : 1..4]
    /\ escrow \in [Disputes -> {"FUNDED", "RELEASED", "LOCKED_DISPUTE"}]
    /\ raced \in BOOLEAN /\ faults \in 0..MaxFaults

Init ==
    /\ stripe = [d \in Disputes |-> "none"]
    /\ events = {}
    /\ run = [w \in Workers |-> Idle]
    /\ row = [d \in Disputes |-> [status |-> "absent", loss |-> "none", entries |-> 0, reversals |-> 0]]
    /\ user = [locked |-> FALSE, disputes |-> PriorCount, lost |-> 0, tier |-> InitialTier]
    /\ escrow = [d \in Disputes |-> "FUNDED"]
    /\ raced = FALSE
    /\ faults = 0

Recorded(d) == row[d].status # "absent"
Open(d) == Recorded(d) /\ row[d].status \notin Terminal

-----------------------------------------------------------------------------
\* Stripe, and the payout that may overtake it

Emit(d, kinds, s) ==
    events' = events \cup {[event |-> [dispute |-> d, kind |-> k, status |-> s], handled |-> 0] : k \in kinds}

\* Stripe opens a dispute, moves it on, and ends it.
StripeDispute(d) ==
    /\ \/ stripe[d] = "none" /\ stripe' = [stripe EXCEPT ![d] = "needs_response"]
          /\ Emit(d, {"created"}, "needs_response")
       \/ stripe[d] = "needs_response" /\ stripe' = [stripe EXCEPT ![d] = "under_review"]
          /\ Emit(d, {"updated"}, "under_review")
       \/ \E s \in Outcomes :
            /\ stripe[d] \in {"needs_response", "under_review"}
            /\ stripe' = [stripe EXCEPT ![d] = s]
            /\ Emit(d, IF FinalUpdate THEN {"updated", "closed"} ELSE {"closed"}, s)
    /\ UNCHANGED <<run, row, user, escrow, raced, faults>>

Release(d) ==
    /\ escrow[d] = "FUNDED"
    /\ escrow' = [escrow EXCEPT ![d] = "RELEASED"]
    /\ UNCHANGED <<stripe, events, run, row, user, raced, faults>>

-----------------------------------------------------------------------------
\* The worker

Stage(e) == CASE e.kind = "created" -> 1 [] e.kind = "updated" /\ e.status = "under_review" -> 2
              [] e.kind = "updated" -> 3 [] OTHER -> 4

\* The claim of an event; a second one needs a redelivery whose claim was reset.
Claims(w, e) ==
    /\ run[w] = Idle
    /\ \A v \in Workers : run[v] # Idle => run[v].event # e
    /\ \E h \in events :
         /\ h.event = e
         /\ \/ h.handled = 0 /\ UNCHANGED faults
            \/ h.handled > 0 /\ "redelivery" \in FaultKinds /\ faults < MaxFaults /\ faults' = faults + 1
    /\ "reorder" \in FaultKinds \/
       \A h \in events : h.event.dispute = e.dispute /\ Stage(h.event) < Stage(e) => h.handled > 0

Handled(e) ==
    events' = {IF h.event = e THEN [h EXCEPT !.handled = @ + 1] ELSE h : h \in events}

\* The row is not locked by a transaction that is closing it.
Unlocked(d) == \A w \in Workers : run[w].pc = "won" => run[w].event.dispute # d

\* handleDisputeCreated, before its transaction: the escrow is looked up.
ReadEscrow(w, e) ==
    /\ e.kind = "created"
    /\ Claims(w, e)
    /\ run' = [run EXCEPT ![w] = [pc |-> "created", event |-> e, escrow |-> escrow[e.dispute]]]
    /\ UNCHANGED <<stripe, events, row, user, escrow, raced>>

LossType(s) == CASE s = "RELEASED" -> "platform_loss"
                 [] s = "FUNDED" -> "payout_blocked"
                 [] OTHER -> "escrow_locked_dispute"

NewTier(tier, count) ==
    IF count >= 3 THEN 1 ELSE IF count >= 2 /\ tier > 1 THEN tier - 1 ELSE tier

\* A mutant: the INSERT is no witness, and a redelivery repeats the effects.
M_HandleDisputeCreated(w) ==
    /\ run[w].pc = "created"
    /\ LET d == run[w].event.dispute IN
         /\ row' = [row EXCEPT ![d] =
              [@ EXCEPT !.status = IF @ = "absent" THEN "open" ELSE @,
                        !.loss = LossType(run[w].escrow), !.entries = @ + 1]]
         /\ user' = [user EXCEPT !.locked = TRUE, !.disputes = @ + 1,
                                 !.tier = NewTier(@, user.disputes + 1)]
         /\ escrow' = [escrow EXCEPT ![d] = IF @ = "FUNDED" THEN "LOCKED_DISPUTE" ELSE @]
    /\ Handled(run[w].event)
    /\ run' = [run EXCEPT ![w] = Idle]
    /\ UNCHANGED <<stripe, raced, faults>>

\* One transaction: row, ledger entry, counter, payout lock, tier, escrow lock.
HandleDisputeCreated(w) ==
    /\ run[w].pc = "created"
    /\ LET d == run[w].event.dispute IN
       IF Recorded(d) THEN UNCHANGED <<row, user, escrow, raced>>
       ELSE /\ row' = [row EXCEPT ![d] = [status |-> "open", loss |-> LossType(run[w].escrow),
                                          entries |-> 1, reversals |-> 0]]
            /\ user' = [user EXCEPT !.locked = TRUE, !.disputes = @ + 1,
                                    !.tier = NewTier(@, user.disputes + 1)]
            /\ escrow' = [escrow EXCEPT ![d] = IF @ = "FUNDED" THEN "LOCKED_DISPUTE" ELSE @]
            /\ raced' = (raced \/ \E v \in Workers : run[v].pc = "won")
    /\ Handled(run[w].event)
    /\ run' = [run EXCEPT ![w] = Idle]
    /\ UNCHANGED <<stripe, faults>>

\* A mutant: Stripe's status is stored as it comes.
M_HandleDisputeUpdated(w, e) ==
    LET d == e.dispute IN
    /\ e.kind = "updated"
    /\ Claims(w, e) /\ Unlocked(d)
    /\ row' = [row EXCEPT ![d].status = IF Open(d) THEN "warning_under_review" ELSE @]
    /\ Handled(e)
    /\ UNCHANGED <<stripe, run, user, escrow, raced>>

\* An update of an unknown or ended dispute is skipped; one that goes back is
\* rejected by the trigger until the job's attempts are used up.
HandleDisputeUpdated(w, e) ==
    LET d == e.dispute
        new == MapStripeDisputeStatus(e.status) IN
    /\ e.kind = "updated"
    /\ Claims(w, e) /\ Unlocked(d)
    /\ IF Open(d) /\ Forward(row[d].status, new)
         THEN row' = [row EXCEPT ![d].status = new] ELSE UNCHANGED row
    /\ Handled(e)
    /\ UNCHANGED <<stripe, run, user, escrow, raced>>

\* The worker passes every status but 'won' as 'lost'.
HandleDisputeLost(w, e) ==
    LET d == e.dispute IN
    /\ e.kind = "closed" /\ (e.status # "won" \/ ~Open(d))
    /\ Claims(w, e) /\ Unlocked(d)
    /\ IF Open(d)
         THEN /\ row' = [row EXCEPT ![d].status = "lost"]
              /\ user' = [user EXCEPT !.lost = @ + 1]
         ELSE UNCHANGED <<row, user>>
    /\ Handled(e)
    /\ UNCHANGED <<stripe, run, escrow, raced>>

\* A won dispute: the row is locked and the other open disputes are counted.
CountOthers(w, e) ==
    LET d == e.dispute IN
    /\ e.kind = "closed" /\ e.status = "won" /\ Open(d)
    /\ Claims(w, e) /\ Unlocked(d)
    /\ run' = [run EXCEPT ![w] = [pc |-> "won", event |-> e,
                                  others |-> Cardinality({o \in Disputes \ {d} : Open(o)})]]
    /\ UNCHANGED <<stripe, events, row, user, escrow, raced>>

\* A mutant: the ledger write is forgotten.
M_WonUnbooked(w) ==
    /\ run[w].pc = "won"
    /\ row' = [row EXCEPT ![run[w].event.dispute].status = "won"]
    /\ user' = [user EXCEPT !.locked = IF run[w].others = 0 THEN FALSE ELSE @]
    /\ Handled(run[w].event)
    /\ run' = [run EXCEPT ![w] = Idle]
    /\ UNCHANGED <<stripe, escrow, raced, faults>>

HandleDisputeWon(w) ==
    /\ run[w].pc = "won"
    /\ LET d == run[w].event.dispute IN
       row' = [row EXCEPT ![d].status = "won", ![d].reversals = @ + 1]
    /\ user' = [user EXCEPT !.locked = IF run[w].others = 0 THEN FALSE ELSE @]
    /\ Handled(run[w].event)
    /\ run' = [run EXCEPT ![w] = Idle]
    /\ UNCHANGED <<stripe, escrow, raced, faults>>

-----------------------------------------------------------------------------

Work(w) ==
    \/ \E h \in events :
         \/ ReadEscrow(w, h.event) \/ HandleDisputeUpdated(w, h.event)
         \/ HandleDisputeLost(w, h.event) \/ CountOthers(w, h.event)
    \/ HandleDisputeCreated(w) \/ HandleDisputeWon(w)

Next ==
    \/ \E d \in Disputes : StripeDispute(d) \/ Release(d)
    \/ \E w \in Workers : Work(w)

\* Every stored event is handled, and a transaction that has begun ends.
Fairness == \A w \in Workers : WF_vars(Work(w))

Spec == Init /\ [][Next]_vars /\ Fairness

-----------------------------------------------------------------------------
\* Properties

\* Redelivered and concurrent events apply a chargeback once: one loss entry and
\* one count per recorded dispute, a reversal exactly for a dispute closed as won,
\* and the tier that the count calls for ("All state changes are idempotent").
ChargebackAppliedOnce ==
    LET n == PriorCount + Cardinality({d \in Disputes : Recorded(d)}) IN
    /\ user.disputes = n
    /\ user.tier = IF n >= 3 THEN 1 ELSE IF n = 2 /\ InitialTier > 1 THEN InitialTier - 1 ELSE InitialTier
    /\ \A d \in Disputes :
         /\ row[d].entries = IF Recorded(d) THEN 1 ELSE 0
         /\ row[d].reversals <= 1
         /\ row[d].reversals = 1 => row[d].status = "won"

\* While a chargeback is open the poster's payouts are locked, unless it was
\* recorded while another worker had already counted the open ones.
OpenDisputeLocksPayouts == (\E d \in Disputes : Open(d)) => user.locked \/ raced

\* A dispute Stripe says is won has its loss reversed in the ledger.
WonIsReversed ==
    \A d \in Disputes : stripe[d] = "won" ~> row[d].reversals = 1

\* A poster with a lost chargeback stays locked ("Do NOT unlock payouts when the
\* chargeback is LOST ... require admin manual review").
LostStaysLocked ==
    (\E d \in Disputes : row[d].status = "lost") => user.locked

\* Only lost chargebacks count as lost (a closed warning is a status of its own).
OnlyLostCounts ==
    user.lost <= Cardinality({d \in Disputes : stripe[d] = "lost"})

\* A loss booked as "payout blocked" is one whose escrow has not been paid out.
BlockedIsNotPaid ==
    \A d \in Disputes : row[d].loss = "payout_blocked" => escrow[d] # "RELEASED"

-----------------------------------------------------------------------------
\* Proofs

\* What is proved of chargebacks: events carry a status, the poster's counters are what
\* the recorded disputes call for, a worker that is closing a won dispute has it to
\* itself, and while nobody raced it has seen every other open one.
Sent == [dispute : Disputes, kind : Kinds, status : StripeStatuses \ {"none"}]
EscrowStates == {"FUNDED", "RELEASED", "LOCKED_DISPUTE"}
Disputed == [status : {"absent", "open", "needs_response", "under_review"} \cup Terminal,
             loss : {"none", "platform_loss", "payout_blocked", "escrow_locked_dispute"},
             entries : Nat, reversals : Nat]
Posters == [locked : BOOLEAN, disputes : Nat, lost : Nat, tier : 1..4]
Closers == {Idle} \cup [pc : {"created"}, event : Sent, escrow : EscrowStates]
                  \cup [pc : {"won"}, event : Sent, others : 0..Cardinality(Disputes)]
Entered == {d \in Disputes : Recorded(d)}
TierAt(n) == IF n >= 3 THEN 1 ELSE IF n = 2 /\ InitialTier > 1 THEN InitialTier - 1 ELSE InitialTier

ChargeTypes ==
    /\ row \in [Disputes -> Disputed] /\ user \in Posters /\ escrow \in [Disputes -> EscrowStates]
    /\ events \subseteq [event : Sent, handled : Nat] /\ run \in [Workers -> Closers]
    /\ stripe \in [Disputes -> StripeStatuses] /\ raced \in BOOLEAN /\ faults \in 0..MaxFaults
Counting ==
    /\ IsFiniteSet(Entered) /\ user.disputes = PriorCount + Cardinality(Entered)
    /\ user.tier = TierAt(user.disputes)
Reversing ==
    \A d \in Disputes :
        /\ row[d].entries = IF Recorded(d) THEN 1 ELSE 0
        /\ row[d].reversals <= 1 /\ (row[d].reversals = 1 => row[d].status = "won")
ClosedByOne ==
    \A v, w \in Workers :
        /\ run[w].pc = "won" => Open(run[w].event.dispute)
        /\ run[v].pc = "won" /\ run[w].pc = "won" /\ run[v].event.dispute = run[w].event.dispute => v = w
OthersSeen ==
    ~raced => \A w \in Workers : run[w].pc = "won" /\ run[w].others = 0 =>
                  \A d \in Disputes : Open(d) => d = run[w].event.dispute
ChargeInv ==
    ChargeTypes /\ Counting /\ Reversing /\ ClosedByOne /\ OthersSeen /\ OpenDisputeLocksPayouts

LEMMA ChargeInit == ChargebackAssumption /\ Init => ChargeInv
<1> SUFFICES ASSUME ChargebackAssumption, Init PROVE ChargeInv
  OBVIOUS
<1>1. row \in [Disputes -> Disputed] /\ \A d \in Disputes : ~Recorded(d) /\ ~Open(d)
                                             /\ row[d].entries = 0 /\ row[d].reversals = 0
  BY DEF Init, Disputed, Recorded, Open
<1>2. Entered = {}
  BY <1>1 DEF Entered
<1>3. user \in Posters /\ user.disputes = PriorCount /\ user.tier = TierAt(PriorCount)
  BY DEF Init, Posters, TierAt, ChargebackAssumption
<1>4. run \in [Workers -> Closers] /\ \A w \in Workers : run[w].pc = "idle"
  BY DEF Init, Closers, Idle
<1>5. ChargeTypes
  <2>1. stripe \in [Disputes -> StripeStatuses]
    BY DEF Init, StripeStatuses
  <2>2. escrow \in [Disputes -> EscrowStates]
    BY DEF Init, EscrowStates
  <2>3. events = {} /\ raced = FALSE /\ faults = 0 /\ 0 \in 0..MaxFaults
    BY DEF Init, ChargebackAssumption
  <2> QED
    BY <1>1, <1>3, <1>4, <2>1, <2>2, <2>3 DEF ChargeTypes
<1>6. Counting
  BY <1>2, <1>3, FS_EmptySet DEF Counting, ChargebackAssumption
<1>7. Reversing /\ ClosedByOne /\ OthersSeen /\ OpenDisputeLocksPayouts
  BY <1>1, <1>4 DEF Reversing, ClosedByOne, OthersSeen, OpenDisputeLocksPayouts
<1> QED
  BY <1>5, <1>6, <1>7 DEF ChargeInv

\* The write of a won dispute.
LEMMA WonRow ==
    ASSUME NEW r \in Disputed, NEW n \in Nat, n = r.reversals + 1
    PROVE  \E s \in Disputed : /\ s = [r EXCEPT !.status = "won", !.reversals = @ + 1]
                             /\ s.status = "won" /\ s.reversals = n /\ s.entries = r.entries
<1> DEFINE s == [r EXCEPT !.status = "won", !.reversals = n]
<1>1. s \in Disputed
  BY DEF Disputed, Terminal
<1>2. s.status = "won"
  BY DEF Disputed
<1>3. s.reversals = n
  BY DEF Disputed
<1>4. s.entries = r.entries
  BY DEF Disputed
<1>5. s = [r EXCEPT !.status = "won", !.reversals = @ + 1]
  <2>1. [r EXCEPT !.status = "won"].reversals = r.reversals
    BY DEF Disputed
  <2> QED
    BY <2>1, Zenon
<1> QED
  BY <1>1, <1>2, <1>3, <1>4, <1>5, Zenon

\* An event is handled: nothing else becomes of it.
LEMMA HandledTyped ==
    ASSUME ChargeTypes, NEW e, Handled(e)
    PROVE  events' \subseteq [event : Sent, handled : Nat]
<1>1. \A h \in [event : Sent, handled : Nat] : [h EXCEPT !.handled = @ + 1] \in [event : Sent, handled : Nat]
  OBVIOUS
<1> QED
  BY <1>1 DEF ChargeTypes, Handled

\* An event is claimed, by the worker's own or by a redelivery.
LEMMA ClaimTyped ==
    ASSUME ChargebackAssumption, ChargeTypes, NEW w, NEW e, Claims(w, e)
    PROVE  faults' \in 0..MaxFaults
BY DEF ChargebackAssumption, ChargeTypes, Claims

\* A worker takes something up, or puts it down.
LEMMA CloserMoves ==
    ASSUME ChargeTypes, NEW w \in Workers, NEW r \in Closers, run' = [run EXCEPT ![w] = r]
    PROVE  run' \in [Workers -> Closers] /\ run'[w] = r /\ \A v \in Workers \ {w} : run'[v] = run[v]
BY DEF ChargeTypes

\* The rows and the poster stay, and nobody begins to close a dispute.
LEMMA RowsStay ==
    ASSUME ChargeInv, ChargeTypes', UNCHANGED <<row, user, raced>>,
           \A w \in Workers : run'[w] = run[w] \/ run'[w].pc # "won"
    PROVE  ChargeInv'
<1>1. Entered' = Entered
  BY DEF Entered, Recorded
<1>2. Counting' /\ Reversing'
  BY <1>1 DEF ChargeInv, Counting, Reversing, Recorded, TierAt
<1>3. ClosedByOne' /\ OthersSeen' /\ OpenDisputeLocksPayouts'
  BY DEF ChargeInv, ClosedByOne, OthersSeen, OpenDisputeLocksPayouts, Open, Recorded
<1> QED
  BY <1>2, <1>3 DEF ChargeInv

\* A row that nobody is closing moves on, or ends.
LEMMA RowMovesOn ==
    ASSUME ChargeInv, ChargeTypes', NEW d \in Disputes, NEW s \in {"open", "needs_response", "under_review"} \cup Terminal,
           Open(d), Unlocked(d), row' = [row EXCEPT ![d].status = s],
           UNCHANGED <<run, raced>>,
           user'.locked = user.locked, user'.disputes = user.disputes, user'.tier = user.tier
    PROVE  ChargeInv'
<1>1. row \in [Disputes -> Disputed] /\ row[d].status \notin Terminal /\ row[d].status # "absent"
  BY DEF ChargeInv, ChargeTypes, Open, Recorded
<1>2. /\ row'[d].status = s /\ row'[d].entries = row[d].entries /\ row'[d].reversals = row[d].reversals
      /\ \A o \in Disputes : o # d => row'[o] = row[o]
  BY <1>1 DEF Disputed
<1>3. \A o \in Disputes : (Recorded(o)' <=> Recorded(o)) /\ (Open(o)' => Open(o)) /\ (o # d => (Open(o)' <=> Open(o)))
  BY <1>1, <1>2 DEF Recorded, Open, Terminal
<1>4. Entered' = Entered
  BY <1>3 DEF Entered
<1>5. Counting'
  BY <1>4 DEF ChargeInv, Counting, TierAt
<1>6. Reversing'
  <2>1. row[d].reversals # 1
    BY <1>1 DEF ChargeInv, Reversing, Terminal
  <2> QED
    BY <1>2, <1>3, <2>1 DEF ChargeInv, Reversing
<1>7. ClosedByOne'
  <2>1. \A w \in Workers : run[w].pc = "won" => run[w].event.dispute \in Disputes /\ run[w].event.dispute # d
    BY DEF Unlocked, ChargeInv, ChargeTypes, Closers, Idle, Sent
  <2> QED
    BY <1>3, <2>1 DEF ChargeInv, ClosedByOne
<1>8. OthersSeen' /\ OpenDisputeLocksPayouts'
  BY <1>3 DEF ChargeInv, OthersSeen, OpenDisputeLocksPayouts
<1> QED
  BY <1>5, <1>6, <1>7, <1>8 DEF ChargeInv

\* A dispute is recorded for the first time.
LEMMA DisputeRecorded ==
    ASSUME ChargebackAssumption, ChargeInv, NEW w \in Workers, HandleDisputeCreated(w), ~Recorded(run[w].event.dispute)
    PROVE  ChargeInv'
<1> DEFINE d == run[w].event.dispute
           new == [status |-> "open", loss |-> LossType(run[w].escrow), entries |-> 1, reversals |-> 0]
<1>1. run[w] \in [pc : {"created"}, event : Sent, escrow : EscrowStates] /\ d \in Disputes
      /\ UNCHANGED <<stripe, faults>>
  BY DEF HandleDisputeCreated, ChargeInv, ChargeTypes, Closers, Idle, Sent
<1>2. /\ row' = [row EXCEPT ![d] = new] /\ run' = [run EXCEPT ![w] = Idle] /\ Handled(run[w].event)
      /\ user' = [user EXCEPT !.locked = TRUE, !.disputes = @ + 1, !.tier = NewTier(@, user.disputes + 1)]
      /\ escrow' = [escrow EXCEPT ![d] = IF @ = "FUNDED" THEN "LOCKED_DISPUTE" ELSE @]
      /\ raced' = (raced \/ \E v \in Workers : run[v].pc = "won")
  BY DEF HandleDisputeCreated
<1>t. /\ row \in [Disputes -> Disputed] /\ user \in Posters /\ escrow \in [Disputes -> EscrowStates] /\ ChargeTypes
      /\ PriorCount \in 0..1 /\ InitialTier \in 1..4
  BY DEF ChargeInv, ChargeTypes, ChargebackAssumption
<1>3. new \in Disputed /\ row' \in [Disputes -> Disputed] /\ row'[d] = new /\ \A o \in Disputes \ {d} : row'[o] = row[o]
  BY <1>1, <1>2, <1>t DEF Disputed, LossType
<1>4. \A o \in Disputes : Recorded(o)' <=> Recorded(o) \/ o = d
  BY <1>1, <1>3 DEF Recorded
<1>5. Entered' = Entered \cup {d} /\ d \notin Entered
  BY <1>1, <1>4 DEF Entered
<1>6. IsFiniteSet(Entered') /\ Cardinality(Entered') = Cardinality(Entered) + 1 /\ Cardinality(Entered) \in Nat
  BY <1>5, FS_AddElement, FS_CardinalityType DEF ChargeInv, Counting
<1>7. user' \in Posters /\ user'.locked /\ user'.disputes = user.disputes + 1 /\ user'.tier = TierAt(user.disputes + 1)
  <2>1. user.tier = TierAt(user.disputes) /\ user.disputes \in Nat /\ user.tier \in 1..4
    BY <1>t DEF ChargeInv, Counting, Posters
  <2>2. NewTier(user.tier, user.disputes + 1) = TierAt(user.disputes + 1)
    BY <1>t, <2>1 DEF NewTier, TierAt
  <2>3. TierAt(user.disputes + 1) \in 1..4
    BY <1>t, <2>1 DEF TierAt
  <2>4. PICK n \in Nat, t \in 1..4 : n = user.disputes + 1 /\ t = TierAt(user.disputes + 1)
    BY <2>1, <2>3
  <2>5. user' = [user EXCEPT !.locked = TRUE, !.disputes = n, !.tier = t]
    BY <1>2, <2>2, <2>4
  <2> QED
    <3>1. user \in Posters
      BY <1>t
    <3>2. user' \in Posters
      BY <2>5, <3>1 DEF Posters
    <3>3. user'.locked /\ user'.disputes = n /\ user'.tier = t
      BY <2>5, <3>1 DEF Posters
    <3> QED
      BY <2>4, <3>2, <3>3
<1>8. Counting'
  BY <1>6, <1>7, <1>t DEF ChargeInv, Counting, TierAt
<1>9. run' \in [Workers -> Closers] /\ run'[w] = Idle /\ \A v \in Workers \ {w} : run'[v] = run[v]
  BY <1>2, <1>t, CloserMoves DEF Closers
<1>10. ChargeTypes'
  BY <1>1, <1>2, <1>3, <1>7, <1>9, <1>t, HandledTyped DEF ChargeTypes, EscrowStates
<1>11. Reversing'
  BY <1>1, <1>3, <1>4 DEF ChargeInv, Reversing
<1>12. \A o \in Disputes : o # d => (Open(o)' <=> Open(o))
  BY <1>1, <1>3 DEF Open, Recorded
<1>13. \A v \in Workers : run'[v].pc = "won" => run'[v] = run[v] /\ v # w
  BY <1>9 DEF Idle
<1>14. ASSUME NEW v \in Workers, run[v].pc = "won"
       PROVE  \E o \in Disputes : o = run[v].event.dispute /\ Open(o) /\ Open(o)'
  <2>1. PICK o \in Disputes : o = run[v].event.dispute /\ Open(o)
    BY <1>t, <1>14 DEF ChargeInv, ClosedByOne, ChargeTypes, Closers, Idle, Sent
  <2>2. row'[o] = row[o]
    BY <1>3, <2>1 DEF Open
  <2> QED
    BY <2>1, <2>2 DEF Open, Recorded
<1>15. ClosedByOne'
  BY <1>13, <1>14 DEF ChargeInv, ClosedByOne, Open, Recorded
<1>16. OthersSeen'
  BY <1>2, <1>13 DEF OthersSeen
<1> QED
  BY <1>7, <1>8, <1>10, <1>11, <1>15, <1>16 DEF ChargeInv, OpenDisputeLocksPayouts

\* A worker begins to close a won dispute: it counts the others.
LEMMA ClosingBegins ==
    ASSUME ChargebackAssumption, ChargeInv, NEW w \in Workers, NEW e \in Sent, CountOthers(w, e)
    PROVE  ChargeInv'
<1> DEFINE d == e.dispute
           open == {o \in Disputes \ {d} : Open(o)}
<1>t. ChargeTypes /\ d \in Disputes
  BY DEF ChargeInv, Sent
<1>1. /\ Open(d) /\ Unlocked(d) /\ UNCHANGED <<stripe, events, row, user, escrow, raced>> /\ faults' \in 0..MaxFaults
      /\ run' = [run EXCEPT ![w] = [pc |-> "won", event |-> e, others |-> Cardinality(open)]]
  BY <1>t, ClaimTyped DEF CountOthers
<1>2. /\ Cardinality(open) \in 0..Cardinality(Disputes)
      /\ Cardinality(open) = 0 => open = {}
  <2>1. open \subseteq Disputes /\ IsFiniteSet(Disputes)
    BY DEF ChargebackAssumption
  <2>2. IsFiniteSet(open) /\ Cardinality(open) <= Cardinality(Disputes)
    BY <2>1, FS_Subset
  <2>3. Cardinality(open) \in Nat /\ Cardinality(Disputes) \in Nat
    BY <2>1, <2>2, FS_CardinalityType
  <2> QED
    BY <2>2, <2>3, FS_EmptySet
<1>3. /\ run' \in [Workers -> Closers] /\ run'[w] = [pc |-> "won", event |-> e, others |-> Cardinality(open)]
      /\ \A v \in Workers \ {w} : run'[v] = run[v]
  BY <1>1, <1>2, <1>t, CloserMoves DEF Closers
<1>4. ChargeTypes'
  BY <1>1, <1>3, <1>t DEF ChargeTypes
<1>5. Entered' = Entered /\ \A o \in Disputes : Open(o)' <=> Open(o)
  BY <1>1 DEF Entered, Recorded, Open
<1>6. Counting' /\ Reversing' /\ OpenDisputeLocksPayouts'
  BY <1>1, <1>5 DEF ChargeInv, Counting, Reversing, TierAt, Recorded, OpenDisputeLocksPayouts
<1>7. \A v \in Workers \ {w} : run[v].pc = "won" => run[v].event.dispute # d
  BY <1>1 DEF Unlocked
<1>8. ClosedByOne'
  <2> SUFFICES ASSUME NEW u \in Workers, NEW v \in Workers
               PROVE  /\ run'[v].pc = "won" => Open(run[v].event.dispute)' \/ v = w
                      /\ run'[u].pc = "won" /\ run'[v].pc = "won" /\ run'[u].event.dispute = run'[v].event.dispute => u = v
    BY <1>1, <1>3 DEF ClosedByOne, Open, Recorded
  <2> QED
    BY <1>1, <1>3, <1>7 DEF ChargeInv, ClosedByOne, Open, Recorded
<1>9. OthersSeen'
  <2>1. Cardinality(open) = 0 => \A o \in Disputes : Open(o) => o = d
    BY <1>2
  <2> QED
    BY <1>1, <1>3, <1>5, <2>1 DEF ChargeInv, OthersSeen
<1> QED
  BY <1>4, <1>6, <1>8, <1>9 DEF ChargeInv

\* A won dispute is closed: only its worker had it.
LEMMA ClosingEnds ==
    ASSUME ChargeInv, NEW w \in Workers, HandleDisputeWon(w)
    PROVE  ChargeInv'
<1> DEFINE d == run[w].event.dispute
<1>t. /\ ChargeTypes /\ row \in [Disputes -> Disputed] /\ user \in Posters
      /\ d \in Disputes /\ run[w].others \in Int /\ run[w].pc = "won"
  BY DEF HandleDisputeWon, ChargeInv, ChargeTypes, Closers, Idle, Sent
<1>1. Open(d) /\ \A v \in Workers \ {w} : run[v].pc = "won" => run[v].event.dispute # d /\ Open(run[v].event.dispute)
  BY <1>t DEF ChargeInv, ClosedByOne
<1>2. /\ row' = [row EXCEPT ![d].status = "won", ![d].reversals = @ + 1]
      /\ user' = [user EXCEPT !.locked = IF run[w].others = 0 THEN FALSE ELSE @]
      /\ Handled(run[w].event) /\ run' = [run EXCEPT ![w] = Idle] /\ UNCHANGED <<stripe, escrow, raced, faults>>
  BY DEF HandleDisputeWon
<1>3. row[d].reversals \in Nat /\ row[d].reversals <= 1 /\ row[d].reversals # 1
  BY <1>1, <1>t DEF ChargeInv, Reversing, Open, Terminal, Disputed
<1>4. /\ row' \in [Disputes -> Disputed] /\ row'[d].status = "won" /\ row'[d].reversals = 1
      /\ row'[d].entries = row[d].entries /\ \A o \in Disputes \ {d} : row'[o] = row[o]
  <2>1. PICK r \in Disputed : r = row[d]
    BY <1>t
  <2>2. r.reversals = 0 /\ 1 = r.reversals + 1 /\ 1 \in Nat
    BY <1>3, <2>1
  <2>3. PICK s \in Disputed : /\ s = [r EXCEPT !.status = "won", !.reversals = @ + 1]
                             /\ s.status = "won" /\ s.reversals = 1 /\ s.entries = r.entries
    BY <2>2, WonRow, Zenon
  <2>4. row' = [row EXCEPT ![d] = s]
    BY <1>2, <1>t, <2>1, <2>3
  <2> QED
    BY <1>t, <2>1, <2>3, <2>4
<1>5. \A o \in Disputes : (Recorded(o)' <=> Recorded(o)) /\ (Open(o)' <=> Open(o) /\ o # d)
  BY <1>1, <1>4 DEF Recorded, Open, Terminal
<1>6. Entered' = Entered
  BY <1>5 DEF Entered
<1>7. user' \in Posters /\ user'.disputes = user.disputes /\ user'.tier = user.tier
      /\ user'.locked = IF run[w].others = 0 THEN FALSE ELSE user.locked
  BY <1>2, <1>t, Zenon DEF Posters
<1>8. run' \in [Workers -> Closers] /\ run'[w] = Idle /\ \A v \in Workers \ {w} : run'[v] = run[v]
  BY <1>2, <1>t, CloserMoves DEF Closers
<1>9. ChargeTypes'
  BY <1>2, <1>4, <1>7, <1>8, <1>t, HandledTyped DEF ChargeTypes
<1>10. Counting' /\ Reversing'
  BY <1>4, <1>5, <1>6, <1>7 DEF ChargeInv, Counting, Reversing, TierAt
<1>11. \A v \in Workers : run'[v].pc = "won" => v # w /\ run'[v] = run[v] /\ run[v].pc = "won"
  BY <1>8 DEF Idle
<1>12. ClosedByOne'
  <2>1. ASSUME NEW v \in Workers, run'[v].pc = "won"
        PROVE  \E o \in Disputes : o = run'[v].event.dispute /\ Open(o)'
    <3>1. PICK o \in Disputes : o = run[v].event.dispute /\ o # d /\ Open(o)
      BY <1>1, <1>11, <1>t, <2>1 DEF ChargeTypes, Closers, Idle, Sent
    <3>2. row'[o] = row[o] /\ run'[v] = run[v]
      BY <1>4, <1>11, <2>1, <3>1
    <3> QED
      BY <3>1, <3>2 DEF Open, Recorded
  <2> QED
    BY <1>11, <2>1 DEF ChargeInv, ClosedByOne, Open, Recorded
<1>13. OthersSeen'
  BY <1>2, <1>5, <1>11 DEF ChargeInv, OthersSeen
<1>14. OpenDisputeLocksPayouts'
  BY <1>2, <1>5, <1>7, <1>t DEF ChargeInv, OpenDisputeLocksPayouts, OthersSeen
<1> QED
  BY <1>9, <1>10, <1>12, <1>13, <1>14 DEF ChargeInv

LEMMA ChargeStep ==
    ASSUME ChargebackAssumption, ChargeInv, [Next]_vars
    PROVE  ChargeInv'
<1>t. ChargeTypes /\ row \in [Disputes -> Disputed] /\ user \in Posters
  BY DEF ChargeInv, ChargeTypes
<1>1. ASSUME NEW d \in Disputes, StripeDispute(d) PROVE ChargeInv'
  <2>1. /\ events' \subseteq [event : Sent, handled : Nat]
        /\ stripe' \in [Disputes -> StripeStatuses] /\ UNCHANGED <<run, row, user, escrow, raced, faults>>
    <3>1. \A k \in Kinds, s \in StripeStatuses \ {"none"} :
              [event |-> [dispute |-> d, kind |-> k, status |-> s], handled |-> 0] \in [event : Sent, handled : Nat]
      BY DEF Sent
    <3>2. PICK kinds \in SUBSET Kinds, s \in StripeStatuses \ {"none"} : Emit(d, kinds, s)
      BY <1>1 DEF StripeDispute, Kinds, StripeStatuses, ChargebackAssumption
    <3>3. stripe' \in [Disputes -> StripeStatuses]
      BY <1>1, <1>t DEF StripeDispute, StripeStatuses, ChargebackAssumption, ChargeTypes
    <3> QED
      BY <1>1, <1>t, <3>1, <3>2, <3>3 DEF StripeDispute, Emit, ChargeTypes
  <2>2. ChargeTypes'
    BY <1>t, <2>1 DEF ChargeTypes
  <2> QED
    BY <2>1, <2>2, RowsStay
<1>2. ASSUME NEW d \in Disputes, Release(d) PROVE ChargeInv'
  <2>1. ChargeTypes' /\ UNCHANGED <<run, row, user, raced>>
    BY <1>2, <1>t DEF Release, ChargeTypes, EscrowStates
  <2> QED
    BY <2>1, RowsStay
<1>3. ASSUME NEW w \in Workers, NEW e \in Sent, ReadEscrow(w, e) PROVE ChargeInv'
  <2>1. [pc |-> "created", event |-> e, escrow |-> escrow[e.dispute]] \in Closers
    BY <1>t DEF Closers, ChargeTypes, Sent
  <2>2. /\ run' \in [Workers -> Closers] /\ run'[w].pc = "created" /\ \A v \in Workers \ {w} : run'[v] = run[v]
        /\ UNCHANGED <<stripe, events, row, user, escrow, raced>> /\ faults' \in 0..MaxFaults
    BY <1>3, <1>t, <2>1, CloserMoves, ClaimTyped DEF ReadEscrow
  <2>3. ChargeTypes'
    BY <1>t, <2>2 DEF ChargeTypes
  <2> QED
    BY <2>2, <2>3, RowsStay
<1>4. ASSUME NEW w \in Workers, NEW e \in Sent, HandleDisputeUpdated(w, e) PROVE ChargeInv'
  <2> DEFINE d == e.dispute
             new == MapStripeDisputeStatus(e.status)
  <2>1. /\ d \in Disputes /\ new \in {"open", "needs_response", "under_review"} \cup Terminal
        /\ Unlocked(d) /\ UNCHANGED <<stripe, run, user, escrow, raced>> /\ Handled(e) /\ faults' \in 0..MaxFaults
        /\ \/ Open(d) /\ row' = [row EXCEPT ![d].status = new]
           \/ UNCHANGED row
    BY <1>4, <1>t, ClaimTyped DEF HandleDisputeUpdated, Sent, MapStripeDisputeStatus, StripeStatuses, Terminal
  <2>2. row' \in [Disputes -> Disputed]
    BY <1>t, <2>1 DEF Disputed
  <2>3. ChargeTypes'
    BY <1>t, <2>1, <2>2, HandledTyped DEF ChargeTypes
  <2> QED
    BY <2>1, <2>3, RowsStay, RowMovesOn
<1>5. ASSUME NEW w \in Workers, NEW e \in Sent, HandleDisputeLost(w, e) PROVE ChargeInv'
  <2> DEFINE d == e.dispute
  <2>1. /\ d \in Disputes /\ Unlocked(d) /\ UNCHANGED <<stripe, run, escrow, raced>> /\ Handled(e) /\ faults' \in 0..MaxFaults
        /\ \/ Open(d) /\ row' = [row EXCEPT ![d].status = "lost"] /\ user' = [user EXCEPT !.lost = @ + 1]
           \/ UNCHANGED <<row, user>>
    BY <1>5, <1>t, ClaimTyped DEF HandleDisputeLost, Sent
  <2>2. row' \in [Disputes -> Disputed] /\ user' \in Posters
        /\ user'.locked = user.locked /\ user'.disputes = user.disputes /\ user'.tier = user.tier
    BY <1>t, <2>1 DEF Disputed, Posters, Terminal
  <2>3. ChargeTypes'
    BY <1>t, <2>1, <2>2, HandledTyped DEF ChargeTypes
  <2>4. "lost" \in {"open", "needs_response", "under_review"} \cup Terminal
    BY DEF Terminal
  <2> QED
    BY <2>1, <2>2, <2>3, <2>4, RowsStay, RowMovesOn
<1>6. ASSUME NEW w \in Workers, HandleDisputeCreated(w) PROVE ChargeInv'
  <2>1. CASE ~Recorded(run[w].event.dispute)
    BY <1>6, <2>1, DisputeRecorded
  <2>2. CASE Recorded(run[w].event.dispute)
    <3>1. UNCHANGED <<stripe, row, user, escrow, raced, faults>> /\ Handled(run[w].event) /\ run' = [run EXCEPT ![w] = Idle]
      BY <1>6, <2>2 DEF HandleDisputeCreated
    <3>2. run' \in [Workers -> Closers] /\ run'[w].pc = "idle" /\ \A v \in Workers \ {w} : run'[v] = run[v]
      BY <1>t, <3>1, CloserMoves DEF Closers, Idle
    <3>3. ChargeTypes'
      BY <1>t, <3>1, <3>2, HandledTyped DEF ChargeTypes
    <3> QED
      BY <3>1, <3>2, <3>3, RowsStay
  <2> QED
    BY <2>1, <2>2
<1>7. CASE UNCHANGED vars
  <2>1. ChargeTypes' /\ UNCHANGED <<run, row, user, raced>>
    BY <1>7, <1>t DEF vars, ChargeTypes
  <2> QED
    BY <2>1, RowsStay
<1>8. \A h \in events : h.event \in Sent
  BY <1>t DEF ChargeTypes
<1> QED
  BY <1>1, <1>2, <1>3, <1>4, <1>5, <1>6, <1>7, <1>8, ClosingBegins, ClosingEnds DEF Next, Work

LEMMA ChargeTyped == ASSUME ChargeInv PROVE TypeOK
<1>1. ASSUME NEW w \in Workers
      PROVE  \/ run[w] = Idle
             \/ run[w] \in [pc : {"created"}, event : Event, escrow : {"FUNDED", "RELEASED", "LOCKED_DISPUTE"}]
             \/ run[w] \in [pc : {"won"}, event : Event, others : 0..Cardinality(Disputes)]
  BY DEF ChargeInv, ChargeTypes, Closers, Sent, Event, EscrowStates
<1>2. events \subseteq [event : Event, handled : Nat]
  BY DEF ChargeInv, ChargeTypes, Sent, Event
<1> QED
  BY <1>1, <1>2 DEF ChargeInv, ChargeTypes, TypeOK, Disputed, Posters, EscrowStates

LEMMA ChargeApplied == ASSUME ChargeInv PROVE ChargebackAppliedOnce
  BY DEF ChargeInv, Counting, Reversing, TierAt, Entered, ChargebackAppliedOnce

\* Redelivered, repeated and concurrent events apply a chargeback once: one loss entry
\* and one count for each recorded dispute, the tier the count calls for, and a reversal
\* for a dispute that is won only.
THEOREM ChargebackOnce == ASSUME ChargebackAssumption PROVE Spec => [](TypeOK /\ ChargebackAppliedOnce)
  BY ChargeTyped, ChargeApplied, ChargeInit, ChargeStep, PTL DEF Spec

\* While a chargeback is open its poster is not paid out, unless it was recorded after a
\* worker that closed another one had counted the open ones.
THEOREM PayoutsAreLocked == ASSUME ChargebackAssumption PROVE Spec => []OpenDisputeLocksPayouts
<1>1. ChargeInv => OpenDisputeLocksPayouts
  BY DEF ChargeInv
<1> QED
  BY <1>1, ChargeInit, ChargeStep, PTL DEF Spec

=============================================================================
