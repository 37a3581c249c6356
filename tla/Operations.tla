--------------------------------- MODULE Operations ---------------------------------
(***************************************************************************)
(* Operators and the deliveries that failed for good: a cluster of them is *)
(* claimed and given back, a failed delivery whose message was never       *)
(* queued is given one more attempt, and that attempt may be called off    *)
(* until it is due. The recovery job and the message worker run meanwhile. *)
(***************************************************************************)
EXTENDS Naturals, Sequences, FiniteSets

CONSTANTS
    Admins,
    OwnerKeys,   \* idempotency keys of claims and releases an operator may send
    ActionKeys,  \* idempotency keys of retries and cancellations
    Expires,     \* may notifications expire
    Deliveries,  \* failed deliveries of one cluster: one provider and channel
    Base,        \* attempts a delivery was made for
    Ceiling,     \* attempts no delivery exceeds
    Faults       \* what may fail: subset of {"queue", "mark", "bounce"}

OperationsAssumption ==
    /\ Base \in Nat \ {0} /\ Ceiling \in Nat /\ Base <= Ceiling
    /\ Expires \in BOOLEAN
    /\ Faults \subseteq {"queue", "mark", "bounce"}

VARIABLES
    delivery,   \* rows of notification_deliveries
    owner,      \* the operator who owns the cluster
    claims,     \* operations_exception_ownership_events
    actions,    \* operations_exception_action_events
    cancelling, \* by operator, a cancellation that has read the retry it reverses
    recovery,   \* by delivery, what the recovery job is about to do with it
    outrun      \* history: a cancellation that another operator's action overtook

vars == <<delivery, owner, claims, actions, cancelling, recovery, outrun>>

None == "none"
NoCancel == [event |-> 0, key |-> None, early |-> FALSE, seen |-> 0]

\* Every attempt was used up before the message could be queued.
Init ==
    /\ delivery = [d \in Deliveries |-> [state |-> "failed_terminal", attempts |-> Base, max |-> Base, due |-> TRUE,
                                         work |-> FALSE, over |-> FALSE, sent |-> FALSE]]
    /\ owner = None /\ claims = <<>> /\ actions = <<>>
    /\ cancelling = [a \in Admins |-> NoCancel]
    /\ recovery = [d \in Deliveries |-> "idle"]
    /\ outrun = FALSE

TypeOK ==
    /\ delivery \in [Deliveries -> [state : {"failed_terminal", "retry_pending", "queued", "provider_accepted"},
                                    attempts : 0..Ceiling, max : 1..Ceiling, due : BOOLEAN, work : BOOLEAN,
                                    over : BOOLEAN, sent : BOOLEAN]]
    /\ owner \in Admins \cup {None}
    /\ \A i \in DOMAIN claims : claims[i] \in [by : Admins, key : OwnerKeys, from : Admins \cup {None}, to : Admins \cup {None}]
    /\ \A i \in DOMAIN actions : /\ actions[i].by \in Admins /\ actions[i].key \in ActionKeys /\ actions[i].of \in Deliveries
                                 /\ actions[i].reverses \in 0..(i - 1)
    /\ \A a \in Admins : cancelling[a].event \in 0..Len(actions)
    /\ recovery \in [Deliveries -> {"idle", "eligible", "queued", "failing"}]
    /\ outrun \in BOOLEAN

-----------------------------------------------------------------------------
\* operations_exception_signals has a row for each delivery that failed for good; the
\* cluster is there while one of them is.
Signals == {d \in Deliveries : delivery[d].state = "failed_terminal"}
Current == Signals # {}

\* The list and the detail show a current cluster, as it was before and after each later
\* event; what an operator scheduled, its answer told it.
Shown(a) == {i \in DOMAIN actions : Current \/ i < Len(actions) \/ actions[i].by = a}

\* missingWorkPredicate.
MissingWork(d) == ~delivery[d].work /\ ~delivery[d].over

\* UNIQUE (actor_admin_id, idempotency_key): a key answers again what it did, and does
\* nothing else.
Fresh(log, a, k) == \A i \in DOMAIN log : ~(log[i].by = a /\ log[i].key = k)

Claim(a, k) ==
    /\ Fresh(claims, a, k)
    /\ Current
    /\ owner \in {None, a}
    /\ claims' = Append(claims, [by |-> a, key |-> k, from |-> owner, to |-> a])
    /\ owner' = a
    /\ UNCHANGED <<delivery, actions, cancelling, recovery, outrun>>

\* The cluster need not be current any more.
Release(a, k) ==
    /\ Fresh(claims, a, k)
    /\ owner = a
    /\ claims' = Append(claims, [by |-> a, key |-> k, from |-> a, to |-> None])
    /\ owner' = None
    /\ UNCHANGED <<delivery, actions, cancelling, recovery, outrun>>

-----------------------------------------------------------------------------
Eligible(d) ==
    /\ delivery[d].state = "failed_terminal"
    /\ delivery[d].attempts < Ceiling /\ delivery[d].max < Ceiling
    /\ MissingWork(d)

\* Any operator may, whoever owns the cluster.
ScheduleRetry(a, d, k) ==
    /\ Fresh(actions, a, k)
    /\ Eligible(d)
    /\ delivery' = [delivery EXCEPT ![d].state = "retry_pending", ![d].max = @ + 1, ![d].due = FALSE]
    /\ actions' = Append(actions, [by |-> a, key |-> k, of |-> d, reverses |-> 0, attempts |-> delivery[d].attempts,
                                   max |-> delivery[d].max, newMax |-> delivery[d].max + 1])
    /\ UNCHANGED <<owner, claims, cancelling, recovery, outrun>>

Scheduled(i) == actions[i].reverses = 0
Reversals(i) == {j \in DOMAIN actions : actions[j].reverses = i}

\* The retry is read without a lock, and NOW() is from here on the time of this step.
ReadSchedule(a, i, k) ==
    /\ cancelling[a] = NoCancel
    /\ Fresh(actions, a, k)
    /\ i \in Shown(a) /\ Scheduled(i) /\ Reversals(i) = {}
    /\ cancelling' = [cancelling EXCEPT ![a] = [event |-> i, key |-> k, early |-> ~delivery[actions[i].of].due,
                                                seen |-> Len(actions)]]
    /\ UNCHANGED <<delivery, owner, claims, actions, recovery, outrun>>

Cancellable(c) ==
    LET d == actions[c.event].of IN
    /\ delivery[d].state = "retry_pending"
    /\ c.early \/ ~delivery[d].due
    /\ delivery[d].max = actions[c.event].newMax
    /\ MissingWork(d)

Restored(d, e) ==
    [delivery[d] EXCEPT !.state = "failed_terminal", !.attempts = e.attempts, !.max = e.max, !.due = TRUE]

CancelRetry(a) ==
    LET c == cancelling[a]  e == actions[c.event] IN
    /\ c # NoCancel
    /\ IF Cancellable(c) /\ Fresh(actions, a, c.key)
         THEN /\ delivery' = [delivery EXCEPT ![e.of] = Restored(e.of, e)]
              /\ actions' = Append(actions, [by |-> a, key |-> c.key, of |-> e.of, reverses |-> c.event,
                                             attempts |-> delivery[e.of].attempts, max |-> delivery[e.of].max, newMax |-> e.max])
              /\ outrun' = (outrun \/ Len(actions) > c.seen)
         ELSE UNCHANGED <<delivery, actions, outrun>>
    /\ cancelling' = [cancelling EXCEPT ![a] = NoCancel]
    /\ UNCHANGED <<owner, claims, recovery>>

-----------------------------------------------------------------------------
\* The five minutes of a retry pass; the notification expires.
BecomeDue(d) ==
    /\ ~delivery[d].due
    /\ delivery' = [delivery EXCEPT ![d].due = TRUE]
    /\ UNCHANGED <<owner, claims, actions, cancelling, recovery, outrun>>
Expire(d) ==
    /\ Expires /\ ~delivery[d].over
    /\ delivery' = [delivery EXCEPT ![d].over = TRUE]
    /\ UNCHANGED <<owner, claims, actions, cancelling, recovery, outrun>>

\* The recovery job asks whether the work is missing, not whether it has expired.
TakeDue(d) ==
    /\ recovery[d] = "idle"
    /\ delivery[d].state = "retry_pending" /\ delivery[d].due /\ ~delivery[d].work
    /\ recovery' = [recovery EXCEPT ![d] = "eligible"]
    /\ UNCHANGED <<delivery, owner, claims, actions, cancelling, outrun>>

\* retryDelivery: the message and its event.
QueueWork(d) ==
    /\ recovery[d] = "eligible"
    /\ \/ /\ delivery' = [delivery EXCEPT ![d].work = TRUE]
          /\ recovery' = [recovery EXCEPT ![d] = "queued"]
       \/ /\ "queue" \in Faults
          /\ recovery' = [recovery EXCEPT ![d] = "failing"]
          /\ UNCHANGED delivery
    /\ UNCHANGED <<owner, claims, actions, cancelling, outrun>>

\* A delivery that is not waiting for a retry any more stays as it is.
MarkQueued(d) ==
    /\ recovery[d] = "queued"
    /\ \/ /\ delivery' = IF delivery[d].state = "retry_pending" THEN [delivery EXCEPT ![d].state = "queued"] ELSE delivery
          /\ recovery' = [recovery EXCEPT ![d] = "idle"]
       \/ /\ "mark" \in Faults
          /\ recovery' = [recovery EXCEPT ![d] = "failing"]
          /\ UNCHANGED delivery
    /\ UNCHANGED <<owner, claims, actions, cancelling, outrun>>

\* markNotificationDeliveryFailure looks at no state.
Failed(r) ==
    [r EXCEPT !.state = IF r.attempts + 1 >= r.max THEN "failed_terminal" ELSE "retry_pending",
              !.attempts = IF r.attempts + 1 <= r.max THEN r.attempts + 1 ELSE r.max,
              !.due = r.attempts + 1 >= r.max]
MarkFailed(d) ==
    /\ recovery[d] = "failing"
    /\ delivery' = [delivery EXCEPT ![d] = Failed(delivery[d])]
    /\ recovery' = [recovery EXCEPT ![d] = "idle"]
    /\ UNCHANGED <<owner, claims, actions, cancelling, outrun>>

\* The message worker asks authorizeNotificationDelivery before the provider.
Authorized(d) == delivery[d].state \in {"retry_pending", "queued"} /\ delivery[d].due
Send(d) ==
    /\ delivery[d].work /\ ~delivery[d].sent /\ Authorized(d)
    /\ \/ delivery' = [delivery EXCEPT ![d].state = "provider_accepted", ![d].sent = TRUE,
                                       ![d].attempts = IF @ < delivery[d].max THEN @ + 1 ELSE @]
       \/ "bounce" \in Faults /\ delivery' = [delivery EXCEPT ![d] = Failed(delivery[d])]
    /\ UNCHANGED <<owner, claims, actions, cancelling, recovery, outrun>>

Next ==
    \/ \E a \in Admins, k \in OwnerKeys : Claim(a, k) \/ Release(a, k)
    \/ \E a \in Admins, k \in ActionKeys, d \in Deliveries : ScheduleRetry(a, d, k)
    \/ \E a \in Admins, k \in ActionKeys : \E i \in DOMAIN actions : ReadSchedule(a, i, k)
    \/ \E a \in Admins : CancelRetry(a)
    \/ \E d \in Deliveries : BecomeDue(d) \/ Expire(d)
    \/ \E d \in Deliveries : TakeDue(d) \/ QueueWork(d) \/ MarkQueued(d) \/ MarkFailed(d) \/ Send(d)

Spec == Init /\ [][Next]_vars

-----------------------------------------------------------------------------
LastOf(d) == {i \in DOMAIN actions : actions[i].of = d /\ \A j \in DOMAIN actions : actions[j].of = d => j <= i}
Schedules(d) == {i \in DOMAIN actions : actions[i].of = d /\ Scheduled(i)}
Cancels(d) == {i \in DOMAIN actions : actions[i].of = d /\ ~Scheduled(i)}

\* The evidence is append-only and explains the rows: who owns the cluster is whom the
\* last event names, each event starting from the owner before it and none taking the
\* cluster from another operator; a delivery has the attempts it was made for and one for
\* each retry that was not called off, never more than the ceiling.
EvidenceExplains ==
    /\ owner = IF claims = <<>> THEN None ELSE claims[Len(claims)].to
    /\ \A i \in 2..Len(claims) : claims[i].from = claims[i - 1].to
    /\ \A i \in DOMAIN claims : claims[i].from \in {None, claims[i].by}
    /\ \A d \in Deliveries : /\ delivery[d].max + Cardinality(Cancels(d)) = Base + Cardinality(Schedules(d))
                             /\ delivery[d].attempts <= delivery[d].max /\ delivery[d].max <= Ceiling

\* A retry is called off at most once, and what was called off last is not sent, unless
\* another operator's action came between a cancellation's two steps.
CancelledOnce == outrun \/ \A i \in DOMAIN actions : Cardinality(Reversals(i)) <= 1
CancelledIsUnsent == \A d \in Deliveries : delivery[d].sent => \A i \in LastOf(d) : Scheduled(i)

\* A message that was sent for a delivery counts on it, also when its state could not be
\* updated after the message was queued.
SentIsAccepted == \A d \in Deliveries : delivery[d].sent => delivery[d].state = "provider_accepted"

\* Calling a retry off takes no attempt back and leaves no message to be sent.
CancelRewindsNothing ==
    \A d \in Deliveries :
      (delivery[d].state = "retry_pending" /\ delivery'[d].state = "failed_terminal" /\ delivery'[d].max < delivery[d].max)
        => (delivery'[d].attempts = delivery[d].attempts /\ ~delivery[d].work)
CancelIsHarmless == [][CancelRewindsNothing]_vars
===================================================================================
