------------------------- MODULE StripeInbox_proofs -------------------------
(***************************************************************************)
(* Proofs about Stripe's events, for any number of events of each kind, of *)
(* workers and of faults.                                                  *)
(***************************************************************************)
EXTENDS StripeInbox, FiniteSetTheorems, TLAPS

\* A waiting job has an attempt left; an event that is handled is claimed, or its
\* claim was recovered.
Waits(e) ==
    /\ job[e].state = "waiting" => job[e].made < JobAttempts
    /\ ~inbox[e].stored => job[e].state = "none" /\ job[e].made = 0
Claimed(e) == Held(e) => inbox[e].claimed \/ e \in raced
Alone(e) == \A v, w \in Workers : Holds(v, e) /\ Holds(w, e) => v = w \/ e \in raced

\* The ledger's unique event id, and the notification that comes after it.
Booked(e) ==
    /\ db.ledger[e] \in {0, 1} /\ db.told[e] \in {0, 1}
    /\ db.told[e] = 1 => db.ledger[e] = 1
    /\ \A w \in Workers : Holds(w, e) /\ run[w].pc = "tell" => db.ledger[e] = 1

HandlingInv == TypeOK /\ \A e \in Events : Waits(e) /\ Claimed(e) /\ Alone(e) /\ Booked(e)

Rows == [stored : BOOLEAN, claimed : BOOLEAN, old : BOOLEAN, processed : BOOLEAN,
         result : {"none", "processing", "success", "failed"}]
Jobs == [state : {"none", "waiting", "active", "completed", "failed"}, made : 0..JobAttempts]
Books == [ledger : [Events -> 0..2], told : [Events -> 0..2], funded : BOOLEAN,
          account : 0..MaxEvents, overtaken : BOOLEAN, plan : Plans]
Pcs == {"effect", "tell", "finish", "fail"}
Runs == {Idle} \cup [pc : Pcs, event : Events]

-----------------------------------------------------------------------------
\* The three writes of a claim: taken, released, ended.
LEMMA RowWrites ==
    ASSUME NEW r \in Rows
    PROVE  /\ [r EXCEPT !.claimed = TRUE, !.old = FALSE, !.result = "processing"] \in Rows
           /\ [r EXCEPT !.claimed = FALSE, !.result = "failed"] \in Rows
           /\ [r EXCEPT !.processed = TRUE, !.result = "success"] \in Rows
<1>1. [r EXCEPT !.claimed = TRUE, !.old = FALSE, !.result = "processing"] \in Rows
  BY DEF Rows
<1>2. [r EXCEPT !.claimed = FALSE, !.result = "failed"] \in Rows
  BY DEF Rows
<1>3. [r EXCEPT !.processed = TRUE, !.result = "success"] \in Rows
  BY DEF Rows
<1>4. QED
  BY <1>1, <1>2, <1>3

\* A worker that goes on keeps its event.
LEMMA GoesOn ==
    ASSUME TypeOK, NEW w \in Workers, run[w] # Idle, NEW pc \in Pcs, Goto(w, pc)
    PROVE  /\ run' \in [Workers -> Runs]
           /\ run'[w].pc = pc /\ run'[w].event = run[w].event
           /\ \A v \in Workers \ {w} : run'[v] = run[v]
           /\ \A v \in Workers, e \in Events : Holds(v, e)' <=> Holds(v, e)
<1>1. run[w] \in [pc : Pcs, event : Events]
  BY DEF TypeOK, Pcs
<1>2. [run[w] EXCEPT !.pc = pc] \in [pc : Pcs, event : Events]
  BY <1>1
<1>3. run' = [run EXCEPT ![w] = [run[w] EXCEPT !.pc = pc]]
  BY DEF Goto
<1>4. run'[w] = [run[w] EXCEPT !.pc = pc] /\ \A v \in Workers \ {w} : run'[v] = run[v]
  BY <1>3 DEF TypeOK
<1>5. run'[w].pc = pc /\ run'[w].event = run[w].event /\ run'[w] # Idle
  BY <1>1, <1>4 DEF Idle, Pcs
<1>6. run' \in [Workers -> Runs]
  BY <1>2, <1>3 DEF TypeOK, Runs, Pcs
<1>7. QED
  BY <1>4, <1>5, <1>6 DEF Holds

\* A worker that leaves holds nothing, and the others what they held.
LEMMA Leaves ==
    ASSUME TypeOK, NEW w \in Workers, run' = [run EXCEPT ![w] = Idle]
    PROVE  /\ run' \in [Workers -> Runs] /\ run'[w] = Idle
           /\ \A v \in Workers \ {w} : run'[v] = run[v]
           /\ \A v \in Workers, e \in Events : Holds(v, e)' => Holds(v, e) /\ v # w
BY DEF TypeOK, Runs, Pcs, Holds

\* The steps of a handler: its effect on the ledger, and nothing on the claims.
LEMMA HandlerStep ==
    ASSUME HandlingInv, NEW w \in Workers, run[w] # Idle, NEW pc \in Pcs, Goto(w, pc),
           UNCHANGED <<emitted, inbox, job, raced>>, faults' \in 0..MaxFaults,
           db' \in Books,
           \A e \in Events :
               /\ db'.ledger[e] \in {db.ledger[e], 1} /\ db'.told[e] \in {db.told[e], 1}
               /\ db'.told[e] # db.told[e] => db.ledger[e] = 1,
           pc = "tell" => db'.ledger[run[w].event] = 1
    PROVE  HandlingInv'
<1>1. TypeOK'
  BY GoesOn DEF HandlingInv, TypeOK, Runs, Pcs, Books
<1>2. ASSUME NEW e \in Events
      PROVE  (Waits(e) /\ Claimed(e) /\ Alone(e))'
  BY GoesOn DEF HandlingInv, Waits, Claimed, Alone, Held
<1>3. ASSUME NEW e \in Events
      PROVE  Booked(e)'
  <2>1. /\ db'.ledger[e] \in {0, 1} /\ db'.told[e] \in {0, 1}
        /\ db.ledger[e] = 1 => db'.ledger[e] = 1
        /\ db'.told[e] = 1 => db'.ledger[e] = 1
    BY DEF HandlingInv, Booked
  <2>2. ASSUME NEW v \in Workers, Holds(v, e)', run'[v].pc = "tell"
        PROVE  db'.ledger[e] = 1
    <3>1. CASE v = w
      BY <2>2, <3>1, GoesOn DEF HandlingInv, Holds
    <3>2. CASE v # w
      BY <2>1, <2>2, <3>2, GoesOn DEF HandlingInv, Booked
    <3>3. QED
      BY <3>1, <3>2
  <2>3. QED
    BY <2>1, <2>2 DEF Booked
<1>4. QED
  BY <1>1, <1>2, <1>3 DEF HandlingInv

\* The end of a run: its worker is free, its event is claimed no more or processed.
LEMMA Released ==
    ASSUME HandlingInv, NEW w \in Workers, run[w] # Idle, run[w].event \in Events,
           run' = [run EXCEPT ![w] = Idle], UNCHANGED <<emitted, db, raced, faults>>,
           inbox' \in [Events -> Rows], job' \in [Events -> Jobs],
           \A x \in Events : inbox'[x].stored = inbox[x].stored,
           \A x \in Events \ {run[w].event} : inbox'[x].claimed = inbox[x].claimed,
           \A x \in Events :
               /\ job'[x].made = job[x].made
               /\ job'[x].state = job[x].state \/ job[x].state = "active"
               /\ job'[x].state = "waiting" => job[x].state = "waiting" \/ job[x].made < JobAttempts
    PROVE  HandlingInv'
<1>t. TypeOK /\ \A e \in Events : Waits(e) /\ Claimed(e) /\ Alone(e) /\ Booked(e)
  BY DEF HandlingInv
<1>1. TypeOK'
  BY <1>t, Leaves DEF TypeOK, Rows, Jobs, Runs, Pcs
<1>2. ASSUME NEW x \in Events
      PROVE  (Waits(x) /\ Claimed(x) /\ Alone(x) /\ Booked(x))'
  <2>1. \A v \in Workers : Holds(v, x)' => Holds(v, x) /\ v # w /\ run'[v] = run[v]
    BY <1>t, Leaves
  <2>2. Waits(x)'
    BY <1>t DEF Waits
  <2>3. Claimed(x)'
    <3>1. CASE x = run[w].event
      <4>1. Holds(w, x)
        BY <3>1 DEF Holds
      <4>2. QED
        BY <1>t, <2>1, <4>1 DEF Claimed, Held, Alone
    <3>2. CASE x # run[w].event
      BY <1>t, <2>1, <3>2 DEF Claimed, Held
    <3>3. QED
      BY <3>1, <3>2
  <2>4. (Alone(x) /\ Booked(x))'
    BY <1>t, <2>1 DEF Alone, Booked
  <2>5. QED
    BY <2>2, <2>3, <2>4
<1>3. QED
  BY <1>1, <1>2 DEF HandlingInv

LEMMA HandlingInit == InboxAssumption /\ Init => HandlingInv
BY DEF InboxAssumption, Init, HandlingInv, TypeOK, Waits, Claimed, Alone, Booked, Held, Holds, Plans,
       JobAttempts, Events

\* The handlers of the five kinds of event, the notification and their failure.
LEMMA HandlersKeep ==
    ASSUME InboxAssumption, HandlingInv, NEW w \in Workers,
           \/ HandlePaymentIntent(w) \/ HandleAccountUpdated(w) \/ ProcessSubscription(w)
           \/ HandleInvoicePaid(w) \/ HandlePayout(w) \/ NotifyTerminalState(w) \/ HandlerFails(w)
    PROVE  HandlingInv'
<1>t. /\ TypeOK /\ run[w].pc \in {"effect", "tell", "finish"} /\ run[w] # Idle
      /\ run[w].event \in Events /\ run[w].event.n \in 1..MaxEvents
  BY DEF HandlingInv, TypeOK, Idle, Events, Handles, HandlePaymentIntent, FundEscrow, HandleAccountUpdated,
         ProcessSubscription, HandleInvoicePaid, HandlePayout, NotifyTerminalState, HandlerFails
<1>1. CASE HandlePaymentIntent(w)
  <2>1. \E pc \in Pcs : Goto(w, pc) /\ pc # "tell"
    BY <1>1 DEF HandlePaymentIntent, FundEscrow, Pcs
  <2>2. /\ UNCHANGED <<emitted, inbox, job, raced>> /\ faults' \in 0..MaxFaults
        /\ UNCHANGED <<db.ledger, db.told>>
        /\ db' = [db EXCEPT !.funded = TRUE] \/ db' = db
    BY <1>1, <1>t DEF HandlePaymentIntent, FundEscrow, TypeOK
  <2>3. QED
    BY <1>t, <2>1, <2>2, HandlerStep DEF TypeOK, Books
<1>2. CASE HandleAccountUpdated(w)
  <2> DEFINE over == IF run[w].event.n < db.account THEN TRUE ELSE db.overtaken
  <2>1. db' = [db EXCEPT !.account = run[w].event.n, !.overtaken = over] /\ Goto(w, "finish")
    BY <1>2 DEF HandleAccountUpdated
  <2>2. db' \in Books
    <3>1. db \in Books /\ run[w].event.n \in 0..MaxEvents
      BY <1>t DEF TypeOK, Books
    <3>2. db.overtaken \in BOOLEAN
      BY <3>1 DEF Books
    <3>3. over \in BOOLEAN
      BY <3>2, Zenon
    <3> HIDE DEF over
    <3>4. QED
      BY <2>1, <3>1, <3>3 DEF Books
  <2>3. QED
    BY <1>2, <1>t, <2>1, <2>2, HandlerStep DEF HandleAccountUpdated, Pcs, TypeOK, Books
<1>3. CASE ProcessSubscription(w)
  <2>1. db' = [db EXCEPT !.plan = PlanOf(run[w].event.n)] /\ Goto(w, "finish")
    BY <1>3 DEF ProcessSubscription, Once
  <2>2. db' \in Books
    BY <1>t, <2>1 DEF TypeOK, Books, PlanOf, Plans
  <2>3. QED
    BY <1>3, <1>t, <2>1, <2>2, HandlerStep DEF ProcessSubscription, Pcs, TypeOK, Books
<1>4. CASE HandleInvoicePaid(w)
  <2>1. db' = [db EXCEPT !.ledger[run[w].event] = 1] /\ Goto(w, "finish")
    BY <1>4 DEF HandleInvoicePaid, Once
  <2>2. db' \in Books
    <3>1. [db.ledger EXCEPT ![run[w].event] = 1] \in [Events -> 0..2]
      BY <1>t DEF TypeOK
    <3>2. QED
      BY <1>t, <2>1, <3>1 DEF TypeOK, Books
  <2>3. QED
    BY <1>4, <1>t, <2>1, <2>2, HandlerStep DEF HandleInvoicePaid, Pcs, TypeOK, Books
<1>5. CASE HandlePayout(w)
  <2>1. db' = [db EXCEPT !.ledger[run[w].event] = 1] /\ Goto(w, "tell")
    BY <1>5 DEF HandlePayout, Once
  <2>2. db' \in Books
    <3>1. [db.ledger EXCEPT ![run[w].event] = 1] \in [Events -> 0..2]
      BY <1>t DEF TypeOK
    <3>2. QED
      BY <1>t, <2>1, <3>1 DEF TypeOK, Books
  <2>3. QED
    <3>1. /\ "tell" \in Pcs /\ UNCHANGED <<emitted, inbox, job, raced>> /\ faults' \in 0..MaxFaults
          /\ db'.ledger[run[w].event] = 1
          /\ \A e \in Events : db'.ledger[e] \in {db.ledger[e], 1} /\ db'.told[e] = db.told[e]
      BY <1>5, <1>t, <2>1 DEF HandlePayout, Pcs, TypeOK, Books
    <3>2. QED
      BY <1>t, <2>1, <2>2, <3>1, HandlerStep DEF Books
<1>6. CASE NotifyTerminalState(w)
  <2>1. db.ledger[run[w].event] = 1
    BY <1>6, <1>t DEF NotifyTerminalState, HandlingInv, Booked, Holds
  <2>2. QED
    BY <1>6, <1>t, <2>1, HandlerStep DEF NotifyTerminalState, Pcs, TypeOK, Books
<1>7. CASE HandlerFails(w)
  BY <1>7, <1>t, HandlerStep DEF HandlerFails, Fault, Pcs, TypeOK, Books, InboxAssumption
<1>8. QED
  BY <1>1, <1>2, <1>3, <1>4, <1>5, <1>6, <1>7

LEMMA HandlingStep ==
    ASSUME InboxAssumption, HandlingInv, [Next]_vars
    PROVE  HandlingInv'
<1>t. TypeOK /\ \A e \in Events : Waits(e) /\ Claimed(e) /\ Alone(e) /\ Booked(e)
  BY DEF HandlingInv
<1>1. ASSUME NEW k \in Kinds, Emit(k)
      PROVE  HandlingInv'
  BY <1>1, <1>t DEF Emit, HandlingInv, InboxAssumption, TypeOK, Waits, Claimed, Alone, Booked, Held, Holds
<1>2. ASSUME NEW e \in Events, ReceiveWebhook(e)
      PROVE  HandlingInv'
  <2>1. UNCHANGED <<emitted, run, db, raced>> /\ faults' \in 0..MaxFaults
    BY <1>2, <1>t DEF ReceiveWebhook, Fault, TypeOK, InboxAssumption
  <2>2. /\ inbox' \in [Events -> Rows]
        /\ \A x \in Events : /\ inbox'[x].claimed = inbox[x].claimed
                             /\ inbox[x].stored => inbox'[x].stored
        /\ inbox'[e].stored /\ \A x \in Events \ {e} : inbox'[x].stored = inbox[x].stored
    <3>1. inbox' = [inbox EXCEPT ![e].stored = TRUE]
      BY <1>2 DEF ReceiveWebhook
    <3>2. inbox'[e] = [inbox[e] EXCEPT !.stored = TRUE] /\ inbox[e] \in Rows
      BY <1>t, <3>1 DEF TypeOK, Rows
    <3>3. inbox'[e].claimed = inbox[e].claimed /\ inbox'[e].stored
      BY <3>2 DEF Rows
    <3>4. inbox' \in [Events -> Rows] /\ \A x \in Events \ {e} : inbox'[x] = inbox[x]
      <4>1. inbox \in [Events -> Rows]
        BY <1>t DEF TypeOK, Rows
      <4>2. [inbox[e] EXCEPT !.stored = TRUE] \in Rows
        BY <3>2 DEF Rows
      <4>3. QED
        BY <3>1, <4>1, <4>2
    <3>5. QED
      BY <3>3, <3>4
  <2>3. /\ job' \in [Events -> Jobs]
        /\ \A x \in Events : /\ job'[x].made = job[x].made
                             /\ job'[x].state = "waiting" => job[x].state = "waiting" \/ job[x].made = 0
        /\ \A x \in Events \ {e} : job'[x] = job[x]
    BY <1>2, <1>t DEF ReceiveWebhook, TypeOK, Jobs, Waits
  <2>4. TypeOK'
    BY <1>t, <2>1, <2>2, <2>3 DEF TypeOK, Rows, Jobs
  <2>5. ASSUME NEW x \in Events
        PROVE  (Waits(x) /\ Claimed(x) /\ Alone(x) /\ Booked(x))'
    <3>1. Waits(x)'
      <4>1. CASE x = e
        BY <1>t, <2>2, <2>3, <4>1 DEF Waits, JobAttempts
      <4>2. CASE x # e
        BY <1>t, <2>2, <2>3, <4>2 DEF Waits
      <4>3. QED
        BY <4>1, <4>2
    <3>2. (Claimed(x) /\ Alone(x) /\ Booked(x))'
      BY <1>t, <2>1, <2>2 DEF Claimed, Alone, Booked, Held, Holds
    <3>3. QED
      BY <3>1, <3>2
  <2>6. QED
    BY <2>4, <2>5 DEF HandlingInv
<1>3. ASSUME NEW e \in Events, Age(e)
      PROVE  HandlingInv'
  <2>1. /\ inbox' \in [Events -> Rows]
        /\ \A x \in Events : inbox'[x].claimed = inbox[x].claimed /\ inbox'[x].stored = inbox[x].stored
        /\ UNCHANGED <<emitted, job, run, db, raced, faults>>
    <3>1. inbox' = [inbox EXCEPT ![e] = [inbox[e] EXCEPT !.old = TRUE]]
      BY <1>3 DEF Age
    <3>2. /\ inbox \in [Events -> Rows] /\ inbox[e] \in Rows
          /\ [inbox[e] EXCEPT !.old = TRUE] \in Rows
      <4>1. inbox \in [Events -> Rows] /\ inbox[e] \in Rows
        BY <1>t DEF TypeOK, Rows
      <4>2. QED
        BY <4>1 DEF Rows
    <3>3. /\ [inbox[e] EXCEPT !.old = TRUE].claimed = inbox[e].claimed
          /\ [inbox[e] EXCEPT !.old = TRUE].stored = inbox[e].stored
      BY <3>2 DEF Rows
    <3>4. UNCHANGED <<emitted, job, run, db, raced, faults>>
      BY <1>3 DEF Age
    <3>5. QED
      BY <3>1, <3>2, <3>3, <3>4
  <2>2. TypeOK'
    BY <1>t, <2>1 DEF TypeOK, Rows
  <2>3. QED
    BY <1>t, <2>1, <2>2 DEF HandlingInv, Waits, Claimed, Alone, Booked, Held, Holds
<1>4. ASSUME NEW e \in Events, RecoverStuckStripeEvents(e)
      PROVE  HandlingInv'
  <2>1. /\ inbox' \in [Events -> Rows]
        /\ \A x \in Events : inbox'[x].stored = inbox[x].stored
        /\ \A x \in Events \ {e} : inbox'[x].claimed = inbox[x].claimed
        /\ UNCHANGED <<emitted, job, run, db, faults>>
        /\ raced' = IF Held(e) THEN raced \cup {e} ELSE raced
    <3>1. /\ UNCHANGED <<emitted, job, run, db, faults>>
          /\ raced' = IF Held(e) THEN raced \cup {e} ELSE raced
          /\ inbox' = [inbox EXCEPT ![e] = [inbox[e] EXCEPT !.claimed = FALSE, !.old = FALSE, !.result = "none"]]
      BY <1>4 DEF RecoverStuckStripeEvents
    <3>2. inbox \in [Events -> Rows] /\ inbox[e] \in Rows
      BY <1>t DEF TypeOK, Rows
    <3>3. LET r == [inbox[e] EXCEPT !.claimed = FALSE, !.old = FALSE, !.result = "none"]
          IN  r \in Rows /\ r.stored = inbox[e].stored
      BY <3>2 DEF Rows
    <3>4. QED
      BY <3>1, <3>2, <3>3
  <2>2. TypeOK'
    BY <1>t, <2>1 DEF TypeOK, Rows
  <2>3. QED
    BY <1>t, <2>1, <2>2 DEF HandlingInv, Waits, Claimed, Alone, Booked, Held, Holds
<1>5. ASSUME NEW w \in Workers, NEW e \in Events, Claim(w, e)
      PROVE  HandlingInv'
  <2>1. CASE Claimable(e)
    <3>1. run' = [run EXCEPT ![w] = [pc |-> "effect", event |-> e]]
      BY <1>5, <2>1 DEF Claim
    <3>2. /\ run' \in [Workers -> Runs]
          /\ \A x \in Events : Holds(w, x)' <=> x = e
          /\ \A v \in Workers \ {w}, x \in Events : Holds(v, x)' <=> Holds(v, x)
          /\ run'[w].pc # "tell" /\ \A v \in Workers \ {w} : run'[v] = run[v]
      BY <1>t, <3>1 DEF TypeOK, Runs, Pcs, Holds, Idle
    <3>3. /\ inbox' \in [Events -> Rows]
          /\ inbox'[e].claimed /\ inbox'[e].stored = inbox[e].stored
          /\ \A x \in Events \ {e} : inbox'[x] = inbox[x]
      <4> DEFINE r == [inbox[e] EXCEPT !.claimed = TRUE, !.old = FALSE, !.result = "processing"]
      <4>1. r \in Rows /\ r.claimed /\ r.stored = inbox[e].stored
        <5>1. inbox[e] \in Rows
          BY <1>t DEF TypeOK, Rows
        <5>2. r \in Rows
          BY <5>1, RowWrites
        <5>3. r.claimed /\ r.stored = inbox[e].stored
          BY <5>1 DEF Rows
        <5>4. QED
          BY <5>2, <5>3
      <4>2. inbox' = [inbox EXCEPT ![e] = r]
        BY <1>5, <1>t, <2>1 DEF Claim, TypeOK
      <4> HIDE DEF r
      <4>3. QED
        BY <1>t, <4>1, <4>2 DEF TypeOK, Rows
    <3>4. /\ job' \in [Events -> Jobs] /\ job'[e].state = "active" /\ job[e].state = "waiting"
          /\ \A x \in Events \ {e} : job'[x] = job[x]
      <4>1. job[e].made \in 0..JobAttempts /\ job[e].made < JobAttempts
        BY <1>5, <1>t DEF Claim, TypeOK, Waits
      <4>2. job' = [job EXCEPT ![e] = [state |-> "active", made |-> job[e].made + 1]]
        BY <1>5, <2>1 DEF Claim
      <4>3. QED
        BY <1>5, <1>t, <4>1, <4>2 DEF Claim, TypeOK, Jobs, JobAttempts
    <3>5. UNCHANGED <<emitted, db, raced, faults>>
      BY <1>5 DEF Claim
    <3>6. TypeOK'
      BY <1>t, <3>2, <3>3, <3>4, <3>5 DEF TypeOK, Runs, Pcs, Rows, Jobs
    <3>7. ASSUME NEW x \in Events
          PROVE  (Waits(x) /\ Claimed(x) /\ Alone(x) /\ Booked(x))'
      <4>1. Waits(x)'
        BY <1>t, <3>3, <3>4 DEF Waits
      <4>2. ~Held(e) \/ e \in raced
        BY <1>t, <2>1 DEF Claimable, Claimed
      <4>3. (Claimed(x) /\ Alone(x))'
        BY <1>t, <3>2, <3>3, <3>5, <4>2 DEF Claimed, Alone, Held
      <4>4. Booked(x)'
        BY <1>t, <3>2, <3>5 DEF Booked
      <4>5. QED
        BY <4>1, <4>3, <4>4
    <3>8. QED
      BY <3>6, <3>7 DEF HandlingInv
  <2>2. CASE ~Claimable(e)
    <3>1. UNCHANGED <<emitted, inbox, run, db, raced, faults>>
      BY <1>5, <2>2 DEF Claim
    <3>2. job' = [job EXCEPT ![e] = [state |-> "completed", made |-> job[e].made + 1]]
      BY <1>5, <2>2 DEF Claim
    <3>3. job[e].made \in 0..JobAttempts /\ job[e].made < JobAttempts /\ inbox[e].stored
      BY <1>5, <1>t DEF Claim, TypeOK, Waits
    <3>4. TypeOK'
      BY <1>t, <3>1, <3>2, <3>3 DEF TypeOK, JobAttempts
    <3>5. QED
      BY <1>t, <3>1, <3>2, <3>3, <3>4 DEF HandlingInv, TypeOK, Waits, Claimed, Alone, Booked, Held, Holds
  <2>3. QED
    BY <2>1, <2>2
<1>6. ASSUME NEW w \in Workers, MarkSuccess(w)
      PROVE  HandlingInv'
  <2> DEFINE e == run[w].event
  <2>1. e \in Events /\ run[w] # Idle
    BY <1>6, <1>t DEF MarkSuccess, TypeOK, Idle
  <2>2. /\ inbox' \in [Events -> Rows]
        /\ \A x \in Events : inbox'[x].claimed = inbox[x].claimed /\ inbox'[x].stored = inbox[x].stored
    <3> DEFINE r == [inbox[e] EXCEPT !.processed = TRUE, !.result = "success"]
    <3>1. r \in Rows /\ r.claimed = inbox[e].claimed /\ r.stored = inbox[e].stored
      <4>1. inbox[e] \in Rows
        BY <1>t, <2>1 DEF TypeOK, Rows
      <4>2. r \in Rows
        BY <4>1, RowWrites
      <4>3. r.stored = inbox[e].stored /\ r.claimed = inbox[e].claimed
        BY <4>1 DEF Rows
      <4>4. QED
        BY <4>2, <4>3
    <3>2. inbox' = [inbox EXCEPT ![e] = r]
      BY <1>6, <1>t, <2>1 DEF MarkSuccess, TypeOK
    <3> HIDE DEF r
    <3>3. QED
      BY <1>t, <2>1, <3>1, <3>2 DEF TypeOK, Rows
  <2>3. run' = [run EXCEPT ![w] = Idle] /\ UNCHANGED <<emitted, db, raced, faults>>
    BY <1>6 DEF MarkSuccess, Ends
  <2>4. /\ job' \in [Events -> Jobs]
        /\ \A x \in Events : /\ job'[x].made = job[x].made
                             /\ job'[x].state = job[x].state \/ job[x].state = "active"
                             /\ job'[x].state = "waiting" => job[x].state = "waiting"
    BY <1>6, <1>t, <2>1 DEF MarkSuccess, Ends, TypeOK, Jobs
  <2>5. QED
    BY <1>t, <2>1, <2>2, <2>3, <2>4, Released
<1>7. ASSUME NEW w \in Workers, ReleaseFailedClaim(w)
      PROVE  HandlingInv'
  <2> DEFINE e == run[w].event
  <2>1. e \in Events /\ run[w] # Idle /\ Holds(w, e)
    BY <1>7, <1>t DEF ReleaseFailedClaim, TypeOK, Idle, Holds
  <2>2. /\ inbox' \in [Events -> Rows]
        /\ \A x \in Events \ {e} : inbox'[x].claimed = inbox[x].claimed
        /\ \A x \in Events : inbox'[x].stored = inbox[x].stored
    <3> DEFINE r == [inbox[e] EXCEPT !.claimed = FALSE, !.result = "failed"]
    <3>1. r \in Rows /\ r.stored = inbox[e].stored
      <4>1. inbox[e] \in Rows
        BY <1>t, <2>1 DEF TypeOK, Rows
      <4>2. r \in Rows
        BY <4>1, RowWrites
      <4>3. r.stored = inbox[e].stored
        BY <4>1 DEF Rows
      <4>4. QED
        BY <4>2, <4>3
    <3>2. inbox' = [inbox EXCEPT ![e] = r]
      BY <1>7, <1>t, <2>1 DEF ReleaseFailedClaim, TypeOK
    <3> HIDE DEF r
    <3>3. QED
      BY <1>t, <2>1, <3>1, <3>2 DEF TypeOK, Rows
  <2>3. run' = [run EXCEPT ![w] = Idle] /\ UNCHANGED <<emitted, db, raced, faults>>
    BY <1>7 DEF ReleaseFailedClaim, Ends
  <2>4. /\ job' \in [Events -> Jobs]
        /\ \A x \in Events : /\ job'[x].made = job[x].made
                             /\ job'[x].state = job[x].state \/ job[x].state = "active"
                             /\ job'[x].state = "waiting" =>
                                    job[x].state = "waiting" \/ job[x].made < JobAttempts
    BY <1>7, <1>t, <2>1, ZenonT(60) DEF ReleaseFailedClaim, Ends, Retry, TypeOK, Jobs
  <2>5. QED
    BY <1>t, <2>1, <2>2, <2>3, <2>4, Released
<1>8. ASSUME NEW w \in Workers, Redeliver(w)
      PROVE  HandlingInv'
  <2> DEFINE e == run[w].event
  <2>1. e \in Events /\ run[w] # Idle
    BY <1>8, <1>t DEF Redeliver, TypeOK, Idle
  <2>2. /\ run' = [run EXCEPT ![w] = Idle] \/ run' = run
        /\ UNCHANGED <<emitted, inbox, db, raced>> /\ faults' \in 0..MaxFaults
    BY <1>8, <1>t DEF Redeliver, Fault, TypeOK, InboxAssumption
  <2>3. /\ job' \in [Events -> Jobs]
        /\ \A x \in Events : /\ job'[x].made = job[x].made
                             /\ job'[x].state = job[x].state \/ job[x].state = "active"
                             /\ job'[x].state = "waiting" =>
                                    job[x].state = "waiting" \/ job[x].made < JobAttempts
    BY <1>8, <1>t, <2>1 DEF Redeliver, TypeOK, Jobs
  <2>4. TypeOK'
    BY <1>t, <2>2, <2>3, Leaves DEF TypeOK, Jobs, Runs, Pcs
  <2>5. \A v \in Workers, x \in Events : Holds(v, x)' => Holds(v, x) /\ run'[v] = run[v]
    BY <1>t, <2>2, Leaves DEF Holds
  <2>6. QED
    BY <1>t, <2>2, <2>3, <2>4, <2>5 DEF HandlingInv, Waits, Claimed, Alone, Booked, Held
<1>9. CASE UNCHANGED vars
  BY <1>9, <1>t DEF vars, HandlingInv, TypeOK, Waits, Claimed, Alone, Booked, Held, Holds
<1>10. QED
  BY <1>1, <1>2, <1>3, <1>4, <1>5, <1>6, <1>7, <1>8, <1>9, HandlersKeep DEF Next, Work

\* Who is alone at an event is all there is at it.
LEMMA HandledAlone == ASSUME HandlingInv PROVE HandledByOne
<1>1. SUFFICES ASSUME NEW e \in Events, e \notin raced
               PROVE  Cardinality({w \in Workers : Holds(w, e)}) <= 1
  BY DEF HandledByOne
<1>2. CASE {w \in Workers : Holds(w, e)} = {}
  BY <1>2, FS_EmptySet
<1>3. CASE {w \in Workers : Holds(w, e)} # {}
  <2>1. PICK v \in Workers : Holds(v, e)
    BY <1>3
  <2>2. {w \in Workers : Holds(w, e)} = {v}
    BY <1>1, <2>1 DEF HandlingInv, Alone
  <2>3. Cardinality({v}) = 1
    BY FS_Singleton
  <2>4. QED
    BY <2>2, <2>3
<1>4. QED
  BY <1>2, <1>3

\* Two workers are at one event only after its claim was recovered, and revenue
\* and failed payouts are booked once, whatever is retried, redelivered or slow.
THEOREM EventsHandledOnce ==
    ASSUME InboxAssumption
    PROVE  Spec => [](TypeOK /\ HandledByOne /\ BookedOnce)
<1>1. Init => HandlingInv
  BY HandlingInit
<1>2. HandlingInv /\ [Next]_vars => HandlingInv'
  BY HandlingStep
<1>3. HandlingInv => TypeOK /\ HandledByOne /\ BookedOnce
  BY HandledAlone DEF HandlingInv, Booked, BookedOnce
<1>4. QED
  BY <1>1, <1>2, <1>3, PTL DEF Spec

\* A processed event is claimed by nobody: the claim asks for it.
THEOREM ProcessedStaysFinal ==
    ASSUME InboxAssumption
    PROVE  Spec => ProcessedIsFinal
<1>1. Init => HandlingInv
  BY HandlingInit
<1>2. HandlingInv /\ [Next]_vars => HandlingInv'
  BY HandlingStep
<1>3. ASSUME HandlingInv, [Next]_vars, NEW v \in Workers, run[v] = Idle, run'[v] # Idle
      PROVE  ~inbox[run'[v].event].processed
  <2>1. TypeOK /\ ~UNCHANGED run
    BY <1>3 DEF HandlingInv
  <2>2. ASSUME NEW w \in Workers, NEW e \in Events, Claim(w, e)
        PROVE  ~inbox[run'[v].event].processed
    <3>1. Claimable(e) /\ run' = [run EXCEPT ![w] = [pc |-> "effect", event |-> e]]
      BY <2>1, <2>2 DEF Claim
    <3>2. run'[v].event = e
      BY <1>3, <2>1, <3>1 DEF TypeOK
    <3>3. QED
      BY <3>1, <3>2 DEF Claimable
  <2>3. ASSUME NEW w \in Workers, Work(w) \/ HandlerFails(w) \/ Redeliver(w), ~\E e \in Events : Claim(w, e)
        PROVE  FALSE
    <3>1. run[w].pc # "idle" => run[w] # Idle
      BY DEF Idle
    <3>2. run[w] # Idle
      BY <2>3, <3>1 DEF Work, HandlerFails, Redeliver, HandlePaymentIntent, FundEscrow, HandleAccountUpdated,
         ProcessSubscription, HandleInvoicePaid, HandlePayout, NotifyTerminalState, MarkSuccess,
         ReleaseFailedClaim, Handles
    <3>3. \A x \in Workers \ {w} : run'[x] = run[x]
      BY <2>1, <2>3 DEF Work, HandlerFails, Redeliver, HandlePaymentIntent, FundEscrow, HandleAccountUpdated,
         ProcessSubscription, HandleInvoicePaid, HandlePayout, NotifyTerminalState, MarkSuccess,
         ReleaseFailedClaim, Ends, Goto, TypeOK
    <3>4. QED
      BY <1>3, <3>2, <3>3
  <2>4. QED
    BY <1>3, <2>1, <2>2, <2>3 DEF Next, vars, Emit, ReceiveWebhook, Age, RecoverStuckStripeEvents
<1>4. HandlingInv /\ [Next]_vars =>
        [\A w \in Workers : run[w] = Idle /\ run'[w] # Idle => ~inbox[run'[w].event].processed]_vars
  BY <1>3
<1>5. QED
  BY <1>1, <1>2, <1>4, PTL DEF Spec, ProcessedIsFinal

-----------------------------------------------------------------------------
\* The account's events, whatever order they come in.

\* The account is at least as new as every event applied, unless an older one was
\* written over a newer.
Applied(e) == inbox[e].processed \/ \E w \in Workers : Holds(w, e) /\ run[w].pc = "finish"
Follows(e) ==
    e.kind = "account" =>
        /\ \A w \in Workers : Holds(w, e) => run[w].pc # "tell"
        /\ Applied(e) => e.n <= db.account \/ db.overtaken
Made(e) == (inbox[e].stored => In(e)) /\ (Held(e) => inbox[e].stored)
AccountInv ==
    /\ HandlingInv
    /\ \A e \in Events : Made(e) /\ Follows(e)
    /\ "account" \in Kinds => db.account <= emitted["account"]

LEMMA AccountInit == InboxAssumption /\ Init => AccountInv
<1>1. ASSUME InboxAssumption, Init
      PROVE  AccountInv
  <2>1. HandlingInv
    BY <1>1, HandlingInit
  <2>2. \A e \in Events : ~Held(e) /\ ~inbox[e].stored /\ ~inbox[e].processed
    BY <1>1 DEF Init, Held, Holds
  <2>3. "account" \in Kinds => db.account <= emitted["account"]
    BY <1>1 DEF Init
  <2>4. QED
    BY <2>1, <2>2, <2>3 DEF AccountInv, Made, Follows, Applied, Held
<1>2. QED
  BY <1>1

\* A step that leaves the account alone, starts no run at "tell" or "finish" for an
\* account's event, and only processes what was applied.
LEMMA AccountRests ==
    ASSUME AccountInv, HandlingInv',
           db'.account = db.account, db'.overtaken = db.overtaken,
           "account" \in Kinds => emitted'["account"] >= emitted["account"],
           \A e \in Events :
               /\ In(e) => In(e)'
               /\ inbox[e].stored => inbox'[e].stored
               /\ inbox'[e].stored => inbox[e].stored \/ In(e)
               /\ Held(e)' => Held(e) \/ inbox[e].stored
               /\ e.kind = "account" =>
                      /\ inbox'[e].processed => Applied(e)
                      /\ \A w \in Workers : Holds(w, e)' =>
                            \/ Holds(w, e) /\ run'[w].pc = run[w].pc
                            \/ run'[w].pc \in {"effect", "fail"}
    PROVE  AccountInv'
<1>1. ASSUME NEW e \in Events
      PROVE  Made(e)'
  BY DEF AccountInv, Made
<1>2. ASSUME NEW e \in Events
      PROVE  Follows(e)'
  <2>1. e.kind = "account" /\ Applied(e)' => Applied(e)
    BY DEF Applied
  <2>2. e.kind = "account" => \A w \in Workers : Holds(w, e)' => run'[w].pc # "tell"
    BY DEF AccountInv, Follows
  <2>3. QED
    BY <2>1, <2>2 DEF AccountInv, Follows
<1>3. "account" \in Kinds => db'.account <= emitted'["account"]
  <2>1. ASSUME "account" \in Kinds
        PROVE  db.account \in Nat /\ emitted["account"] \in Nat /\ emitted'["account"] \in Nat
    BY <2>1 DEF AccountInv, HandlingInv, TypeOK
  <2>2. QED
    BY <2>1 DEF AccountInv
<1>4. QED
  BY <1>1, <1>2, <1>3 DEF AccountInv

\* handleAccountUpdated: what was applied is not ahead of this event, or is overtaken.
LEMMA AccountUpdatedStep ==
    ASSUME AccountInv, HandlingInv', NEW w \in Workers, HandleAccountUpdated(w)
    PROVE  AccountInv'
<1> DEFINE e == run[w].event
<1>t. /\ TypeOK /\ run[w] # Idle /\ e \in Events /\ e.n \in 1..MaxEvents
      /\ e.kind = "account" /\ Holds(w, e) /\ db.account \in Nat
  BY DEF AccountInv, HandlingInv, TypeOK, HandleAccountUpdated, Handles, Idle, Holds, Events
<1>1. /\ db'.account = e.n /\ Goto(w, "finish") /\ UNCHANGED <<emitted, inbox>>
      /\ db'.overtaken = (IF e.n < db.account THEN TRUE ELSE db.overtaken)
  BY <1>t DEF HandleAccountUpdated, TypeOK
<1>2. /\ \A v \in Workers, x \in Events : Holds(v, x)' <=> Holds(v, x)
      /\ \A v \in Workers \ {w} : run'[v] = run[v]
      /\ run'[w].pc = "finish"
  BY <1>t, <1>1, GoesOn DEF Pcs
<1>3. ASSUME NEW x \in Events
      PROVE  Made(x)'
  BY <1>1, <1>2 DEF AccountInv, Made, Held, In
<1>4. ASSUME NEW x \in Events
      PROVE  Follows(x)'
  <2>1. SUFFICES ASSUME x.kind = "account"
                 PROVE  /\ \A v \in Workers : Holds(v, x) => run'[v].pc # "tell"
                        /\ Applied(x)' => x.n <= e.n \/ db'.overtaken
    BY <1>1, <1>2 DEF Follows
  <2>2. \A v \in Workers : Holds(v, x) => run'[v].pc # "tell"
    BY <1>2, <2>1 DEF AccountInv, Follows
  <2>3. x.n \in Nat
    BY DEF Events
  <2>4. Applied(x)' => Applied(x) \/ x = e
    BY <1>1, <1>2 DEF Applied, Holds
  <2>5. Applied(x) => x.n <= db.account \/ db.overtaken
    BY <2>1 DEF AccountInv, Follows
  <2>6. x.n <= db.account => x.n <= e.n \/ db'.overtaken
    BY <1>t, <1>1, <2>3
  <2>7. db.overtaken => db'.overtaken
    BY <1>1, Zenon
  <2>8. QED
    BY <1>t, <2>2, <2>3, <2>4, <2>5, <2>6, <2>7
<1>5. "account" \in Kinds => db'.account <= emitted'["account"]
  <2>1. In(e)
    BY <1>t DEF AccountInv, Made, Held
  <2>2. QED
    BY <1>t, <1>1, <2>1 DEF In
<1>6. QED
  BY <1>3, <1>4, <1>5 DEF AccountInv

LEMMA AccountStep ==
    ASSUME InboxAssumption, AccountInv, [Next]_vars
    PROVE  AccountInv'
<1>t. /\ TypeOK /\ HandlingInv /\ HandlingInv' /\ db.account \in Nat
      /\ \A e \in Events : Made(e) /\ Follows(e) /\ Waits(e)
  BY HandlingStep DEF AccountInv, HandlingInv, TypeOK
<1>n. /\ \A x \in Events : inbox[x].processed => Applied(x)
      /\ "account" \in Kinds => emitted["account"] \in Nat
  BY <1>t DEF Applied, TypeOK
<1>1. ASSUME NEW k \in Kinds, Emit(k)
      PROVE  AccountInv'
  <2>1. \A x \in Events : In(x) => In(x)'
    BY <1>1, <1>t DEF Emit, In, TypeOK, Events
  <2>2. "account" \in Kinds => emitted'["account"] >= emitted["account"]
    BY <1>1, <1>t DEF Emit, TypeOK
  <2>3. QED
    BY <1>1, <1>t, <1>n, <2>1, <2>2, AccountRests DEF Emit, Held, Holds
<1>2. ASSUME NEW e \in Events, ReceiveWebhook(e) \/ Age(e) \/ RecoverStuckStripeEvents(e)
      PROVE  AccountInv'
  <2>1. UNCHANGED <<emitted, run, db>>
    BY <1>2 DEF ReceiveWebhook, Age, RecoverStuckStripeEvents
  <2>2. \A x \in Events \ {e} : inbox'[x] = inbox[x]
    BY <1>2, <1>t DEF ReceiveWebhook, Age, RecoverStuckStripeEvents, TypeOK
  <2>3. /\ inbox'[e].processed = inbox[e].processed
        /\ inbox[e].stored => inbox'[e].stored
        /\ inbox'[e].stored => inbox[e].stored \/ In(e)
    <3> DEFINE r == inbox[e]
    <3>1. /\ r \in Rows
          /\ \/ inbox'[e] = [r EXCEPT !.stored = TRUE] /\ In(e)
             \/ inbox'[e] = [r EXCEPT !.old = TRUE]
             \/ inbox'[e] = [r EXCEPT !.claimed = FALSE, !.old = FALSE, !.result = "none"]
      BY <1>2, <1>t DEF ReceiveWebhook, Age, RecoverStuckStripeEvents, TypeOK, Rows
    <3> HIDE DEF r
    <3>2. /\ inbox'[e].processed = r.processed
          /\ r.stored => inbox'[e].stored
          /\ inbox'[e].stored => r.stored \/ In(e)
      BY <3>1 DEF Rows
    <3>3. QED
      BY <3>2 DEF r
  <2>4. /\ \A x \in Events : (In(x)' <=> In(x)) /\ (Held(x)' <=> Held(x))
        /\ \A w \in Workers, x \in Events : Holds(w, x)' => Holds(w, x) /\ run'[w].pc = run[w].pc
        /\ "account" \in Kinds => emitted'["account"] >= emitted["account"]
    BY <1>n, <2>1 DEF In, Held, Holds
  <2>5. \A x \in Events :
          /\ inbox[x].stored => inbox'[x].stored
          /\ inbox'[x].stored => inbox[x].stored \/ In(x)
          /\ inbox'[x].processed => Applied(x)
    BY <1>n, <2>2, <2>3
  <2>6. QED
    BY <1>t, <2>1, <2>4, <2>5, AccountRests
<1>3. ASSUME NEW w \in Workers, NEW e \in Events, Claim(w, e)
      PROVE  AccountInv'
  <2>1. UNCHANGED <<emitted, db>> /\ job[e].state = "waiting" /\ inbox[e].stored
    BY <1>3, <1>t DEF Claim, Waits
  <2>2. CASE Claimable(e)
    <3>1. /\ run' = [run EXCEPT ![w] = [pc |-> "effect", event |-> e]]
          /\ inbox' = [inbox EXCEPT ![e].claimed = TRUE, ![e].old = FALSE, ![e].result = "processing"]
      BY <1>3, <2>2 DEF Claim
    <3>2. /\ \A x \in Events : Holds(w, x)' <=> x = e
          /\ \A v \in Workers \ {w}, x \in Events : Holds(v, x)' <=> Holds(v, x)
          /\ run'[w].pc = "effect" /\ \A v \in Workers \ {w} : run'[v] = run[v]
      BY <1>t, <3>1 DEF TypeOK, Holds, Idle
    <3>3. \A x \in Events : inbox'[x].processed = inbox[x].processed /\ inbox'[x].stored = inbox[x].stored
      <4> DEFINE r == inbox[e]
      <4>1. inbox'[e] = [r EXCEPT !.claimed = TRUE, !.old = FALSE, !.result = "processing"] /\ r \in Rows
        BY <1>t, <3>1 DEF TypeOK, Rows
      <4>2. \A x \in Events \ {e} : inbox'[x] = inbox[x]
        BY <1>t, <3>1 DEF TypeOK
      <4> HIDE DEF r
      <4>3. inbox'[e].processed = r.processed /\ inbox'[e].stored = r.stored
        BY <4>1 DEF Rows
      <4>4. QED
        BY <4>2, <4>3 DEF r
    <3>4. \A x \in Events : (In(x)' <=> In(x)) /\ (Held(x)' => Held(x) \/ inbox[x].stored)
      BY <2>1, <3>2 DEF In, Held
    <3>5. QED
      BY <1>t, <1>n, <2>1, <3>2, <3>3, <3>4, AccountRests
  <2>3. CASE ~Claimable(e)
    <3>1. UNCHANGED <<emitted, inbox, run, db>>
      BY <1>3, <2>1, <2>3 DEF Claim
    <3>2. QED
      BY <1>t, <1>n, <3>1, AccountRests DEF In, Held, Holds
  <2>4. QED
    BY <2>2, <2>3
<1>4. ASSUME NEW w \in Workers, HandlePaymentIntent(w) \/ ProcessSubscription(w) \/ HandleInvoicePaid(w)
                                \/ HandlePayout(w) \/ NotifyTerminalState(w) \/ HandlerFails(w)
      PROVE  AccountInv'
  <2> DEFINE e == run[w].event
  <2>1. /\ run[w] # Idle /\ e \in Events /\ Holds(w, e)
        /\ UNCHANGED <<emitted, inbox>> /\ db'.account = db.account /\ db'.overtaken = db.overtaken
    BY <1>4, <1>t DEF HandlePaymentIntent, FundEscrow, ProcessSubscription, HandleInvoicePaid, HandlePayout, Once,
       NotifyTerminalState, HandlerFails, Handles, TypeOK, Idle, Holds
  <2>2. \E pc \in Pcs : Goto(w, pc) /\ (pc = "fail" \/ e.kind # "account")
    <3>1. CASE NotifyTerminalState(w)
      BY <1>t, <2>1, <3>1 DEF NotifyTerminalState, Follows, Pcs
    <3>2. CASE HandlerFails(w)
      BY <3>2 DEF HandlerFails, Pcs
    <3>3. CASE HandlePaymentIntent(w) \/ ProcessSubscription(w) \/ HandleInvoicePaid(w) \/ HandlePayout(w)
      BY <3>3 DEF HandlePaymentIntent, FundEscrow, ProcessSubscription, HandleInvoicePaid, HandlePayout, Handles, Pcs
    <3>4. QED
      BY <1>4, <3>1, <3>2, <3>3
  <2>3. PICK pc \in Pcs : Goto(w, pc) /\ (pc = "fail" \/ e.kind # "account")
    BY <2>2
  <2>4. /\ run'[w].pc = pc
        /\ \A v \in Workers \ {w} : run'[v] = run[v]
        /\ \A v \in Workers, x \in Events : Holds(v, x)' <=> Holds(v, x)
    BY <1>t, <2>1, <2>3, GoesOn
  <2>5. ASSUME NEW x \in Events, x.kind = "account", NEW v \in Workers, Holds(v, x)'
        PROVE  \/ Holds(v, x) /\ run'[v].pc = run[v].pc
               \/ run'[v].pc \in {"effect", "fail"}
    <3>1. CASE v = w
      BY <2>1, <2>3, <2>4, <2>5, <3>1 DEF Holds
    <3>2. CASE v # w
      BY <2>4, <2>5, <3>2
    <3>3. QED
      BY <3>1, <3>2
  <2>6. /\ \A x \in Events : (In(x)' <=> In(x)) /\ (Held(x)' <=> Held(x))
        /\ "account" \in Kinds => emitted'["account"] >= emitted["account"]
    BY <1>n, <2>1, <2>4 DEF In, Held
  <2>7. QED
    BY <1>t, <1>n, <2>1, <2>5, <2>6, AccountRests
<1>5. ASSUME NEW w \in Workers, MarkSuccess(w) \/ ReleaseFailedClaim(w) \/ Redeliver(w)
      PROVE  AccountInv'
  <2> DEFINE e == run[w].event
             r == inbox[e]
  <2>1. /\ run[w] # Idle /\ e \in Events /\ Holds(w, e) /\ UNCHANGED <<emitted, db>>
        /\ run' = [run EXCEPT ![w] = Idle] \/ run' = run
    BY <1>5, <1>t DEF MarkSuccess, ReleaseFailedClaim, Redeliver, Ends, TypeOK, Idle, Holds
  <2>2. \A x \in Events \ {e} : inbox'[x] = inbox[x]
    BY <1>5, <1>t, <2>1 DEF MarkSuccess, ReleaseFailedClaim, Redeliver, TypeOK
  <2>3. /\ r \in Rows
        /\ \/ inbox'[e] = [r EXCEPT !.processed = TRUE, !.result = "success"] /\ run[w].pc = "finish"
           \/ inbox'[e] = [r EXCEPT !.claimed = FALSE, !.result = "failed"]
           \/ inbox'[e] = r
    BY <1>5, <1>t, <2>1 DEF MarkSuccess, ReleaseFailedClaim, Redeliver, TypeOK, Rows
  <2>4. /\ inbox'[e].stored = r.stored
        /\ inbox'[e].processed => r.processed \/ run[w].pc = "finish"
    <3> HIDE DEF r
    <3>1. QED
      BY <2>3 DEF Rows
  <2>5. \A x \in Events :
          /\ inbox'[x].stored = inbox[x].stored
          /\ inbox'[x].processed => Applied(x)
    BY <1>n, <2>1, <2>2, <2>4 DEF Applied
  <2>6. \A v \in Workers, x \in Events : Holds(v, x)' => Holds(v, x) /\ run'[v].pc = run[v].pc
    <3>1. CASE run' = run
      BY <3>1 DEF Holds
    <3>2. CASE run' = [run EXCEPT ![w] = Idle]
      BY <1>t, <3>2, Leaves
    <3>3. QED
      BY <2>1, <3>1, <3>2
  <2>7. /\ \A x \in Events : (In(x)' <=> In(x)) /\ (Held(x)' => Held(x))
        /\ "account" \in Kinds => emitted'["account"] >= emitted["account"]
    BY <1>n, <2>1, <2>6 DEF In, Held
  <2>8. QED
    BY <1>t, <2>1, <2>5, <2>6, <2>7, AccountRests
<1>6. CASE UNCHANGED vars
  BY <1>6, <1>t, <1>n, AccountRests DEF vars, Held, Holds, In
<1>7. QED
  BY <1>t, <1>1, <1>2, <1>3, <1>4, <1>5, <1>6, AccountUpdatedStep DEF Next, Work

\* Nothing that is processed is ahead of the account, so the last event is what it says.
LEMMA AccountFollows == ASSUME AccountInv PROVE AccountIsCurrent
<1>1. SUFFICES ASSUME "account" \in Kinds, \A e \in Events : e.kind = "account" /\ In(e) => inbox[e].processed,
                      ~db.overtaken
               PROVE  db.account = emitted["account"]
  BY DEF AccountIsCurrent
<1>2. db.account \in Nat /\ emitted["account"] \in 0..MaxEvents /\ db.account <= emitted["account"]
  BY <1>1 DEF AccountInv, HandlingInv, TypeOK
<1>3. CASE emitted["account"] > 0
  <2> DEFINE e == [kind |-> "account", n |-> emitted["account"]]
  <2>1. e \in Events /\ e.kind = "account" /\ In(e)
    BY <1>1, <1>2, <1>3 DEF Events, In
  <2>2. emitted["account"] <= db.account
    BY <1>1, <2>1 DEF AccountInv, Follows, Applied
  <2>3. QED
    BY <1>2, <2>2
<1>4. QED
  BY <1>2, <1>3

\* When every event of the account has been processed, the account is as the last one
\* says, unless a retry or a second worker wrote an older one over it: no other failure,
\* crash, slow worker or redelivery leaves it behind its events.
THEOREM AccountIsKept ==
    ASSUME InboxAssumption
    PROVE  Spec => []AccountIsCurrent
<1>1. Init => AccountInv
  BY AccountInit
<1>2. AccountInv /\ [Next]_vars => AccountInv'
  BY AccountStep
<1>3. QED
  BY <1>1, <1>2, AccountFollows, PTL DEF Spec

=============================================================================
