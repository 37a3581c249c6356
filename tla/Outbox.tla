------------------------------- MODULE Outbox -------------------------------
(***************************************************************************)
(* The transactional outbox: a row of outbox_events per event, the         *)
(* pollers that hand rows to BullMQ, and the job each row becomes.         *)
(*                                                                         *)
(* A poller claims rows in one transaction and calls Redis after the       *)
(* commit, so a poller can die, and Redis can fail, with the row already   *)
(* 'enqueued'.  BullMQ ignores an add whose job id it still knows, and the *)
(* id is the row's idempotency key.                                        *)
(***************************************************************************)
EXTENDS Naturals, FiniteSets

CONSTANTS
    Events,       \* idempotency keys
    Marking,      \* events whose worker writes back to the row (push, email, sms)
    Pollers,      \* processes running the outbox loop
    MaxAttempts,  \* MAX_OUTBOX_ATTEMPTS
    JobAttempts,  \* attempts of the queue
    FaultKinds,   \* the faults that happen, a subset of AllFaultKinds
    MaxFaults     \* bound on faults

AllFaultKinds ==
    {"pollerCrash", "queueError", "lostReply", "jobError", "stall", "postpone", "retention"}

OutboxAssumption ==
    /\ Marking \subseteq Events
    /\ MaxAttempts \in Nat \ {0} /\ JobAttempts \in Nat \ {0} /\ MaxFaults \in Nat
    /\ FaultKinds \subseteq AllFaultKinds

VARIABLES
    row,        \* status and attempts of the row
    job,        \* external: the BullMQ job with the row's key
    holds,      \* the rows each poller has claimed and not yet handed over
    delivered,  \* history: runs of the event's handler that did its work
    raced,      \* history: events handed over or run twice at the same time
    faults

vars == <<row, job, holds, delivered, raced, faults>>

Statuses == {"absent", "pending", "enqueued", "processed", "failed"}
JobStates == {"absent", "waiting", "completed", "failed"}

TypeOK ==
    /\ row \in [Events -> [status : Statuses, attempts : 0..MaxAttempts]]
    /\ job \in [Events -> [state : JobStates, made : 0..JobAttempts]]
    /\ holds \in [Pollers -> SUBSET Events]
    /\ delivered \in [Events -> Nat]
    /\ raced \subseteq Events
    /\ faults \in 0..MaxFaults

Init ==
    /\ row = [e \in Events |-> [status |-> "absent", attempts |-> 0]]
    /\ job = [e \in Events |-> [state |-> "absent", made |-> 0]]
    /\ holds = [p \in Pollers |-> {}]
    /\ delivered = [e \in Events |-> 0]
    /\ raced = {}
    /\ faults = 0

Fault(kind) ==
    /\ kind \in FaultKinds
    /\ faults < MaxFaults
    /\ faults' = faults + 1

Pending == {e \in Events : row[e].status = "pending"}

\* A mutant: no last attempt.
M_Retried(r) == [r EXCEPT !.status = "pending"]

\* The CASE of both recovery paths; neither looks at the status it overwrites.
Retried(r) == [r EXCEPT !.status = IF r.attempts < MaxAttempts THEN "pending" ELSE "failed"]

\* queue.add: an id that BullMQ still knows is not added again.
Added(j) == IF j.state = "absent" THEN [state |-> "waiting", made |-> 0] ELSE j

\* One more run of the handler failed.
Failed(j) ==
    [state |-> IF j.made + 1 < JobAttempts THEN "waiting" ELSE "failed", made |-> j.made + 1]

-----------------------------------------------------------------------------
\* The row

\* A mutant: ON CONFLICT DO UPDATE reopens a finished row.
M_WriteToOutbox(e) ==
    /\ row' = [row EXCEPT ![e] =
                 IF @.status \in {"absent", "processed", "failed"}
                   THEN [status |-> "pending", attempts |-> 0] ELSE @]
    /\ UNCHANGED <<job, holds, delivered, raced, faults>>

\* ON CONFLICT (idempotency_key) DO NOTHING.
WriteToOutbox(e) ==
    /\ row' = [row EXCEPT ![e] =
                 IF @.status = "absent" THEN [status |-> "pending", attempts |-> 0] ELSE @]
    /\ UNCHANGED <<job, holds, delivered, raced, faults>>

\* A mutant: the claim of a build that reads the batch in one transaction and updates it in the next.
M_Claim(p) ==
    /\ holds[p] = {}
    /\ \E q \in Pollers : Pending \cup holds[q] # {}
    /\ holds' = [holds EXCEPT ![p] = Pending \cup UNION {holds[q] : q \in Pollers}]
    /\ row' = [e \in Events |->
                 IF e \in Pending THEN [status |-> "enqueued", attempts |-> row[e].attempts + 1]
                                  ELSE row[e]]
    /\ UNCHANGED <<job, delivered, raced, faults>>

\* FOR UPDATE SKIP LOCKED and the status test make a claim exclusive.
Claim(p) ==
    /\ holds[p] = {}
    /\ Pending # {}
    /\ holds' = [holds EXCEPT ![p] = Pending]
    /\ row' = [e \in Events |->
                 IF e \in Pending THEN [status |-> "enqueued", attempts |-> row[e].attempts + 1]
                                  ELSE row[e]]
    /\ UNCHANGED <<job, delivered, raced, faults>>

Enqueue(p, e) ==
    /\ e \in holds[p]
    /\ holds' = [holds EXCEPT ![p] = @ \ {e}]
    /\ job' = [job EXCEPT ![e] = Added(@)]
    /\ UNCHANGED <<row, delivered, raced, faults>>

\* queue.add throws, before the job is stored or after it was (the reply is lost).
EnqueueFails(p, e) ==
    /\ e \in holds[p]
    /\ holds' = [holds EXCEPT ![p] = @ \ {e}]
    /\ row' = [row EXCEPT ![e] = Retried(@)]
    /\ \/ /\ Fault("queueError")
          /\ raced' = IF job[e].state = "absent" THEN raced ELSE raced \cup {e}
          /\ UNCHANGED job
       \/ /\ Fault("lostReply")
          /\ job' = [job EXCEPT ![e] = Added(@)]
          /\ raced' = raced \cup {e}
    /\ UNCHANGED delivered

\* The row stays 'enqueued' and nothing looks at it again.
PollerCrash(p) ==
    /\ holds[p] # {}
    /\ Fault("pollerCrash")
    /\ holds' = [holds EXCEPT ![p] = {}]
    /\ UNCHANGED <<row, job, delivered, raced>>

-----------------------------------------------------------------------------
\* The job

Succeed(e) ==
    /\ job[e].state = "waiting"
    /\ job' = [job EXCEPT ![e].state = "completed"]
    /\ delivered' = [delivered EXCEPT ![e] = @ + 1]
    /\ row' = [row EXCEPT ![e].status = IF e \in Marking THEN "processed" ELSE @]
    /\ UNCHANGED <<holds, raced, faults>>

\* The handler throws; a worker that writes back has called markOutboxEventFailed.
JobFails(e) ==
    /\ job[e].state = "waiting"
    /\ Fault("jobError")
    /\ job' = [job EXCEPT ![e] = Failed(@)]
    /\ row' = [row EXCEPT ![e] = IF e \in Marking THEN Retried(@) ELSE @]
    /\ UNCHANGED <<holds, delivered, raced>>

\* The push worker finds the delivery not due: the row is pending again and the
\* job is complete.
Postpone(e) ==
    /\ e \in Marking
    /\ job[e].state = "waiting"
    /\ Fault("postpone")
    /\ job' = [job EXCEPT ![e].state = "completed"]
    /\ row' = [row EXCEPT ![e] = Retried(@)]
    /\ UNCHANGED <<holds, delivered, raced>>

\* A stalled job is run a second time while its first run goes on, and the first
\* run ends, in success or in failure, after the second.
Stall(e) ==
    /\ job[e].state = "completed"
    /\ Fault("stall")
    /\ raced' = raced \cup {e}
    /\ \/ /\ delivered' = [delivered EXCEPT ![e] = @ + 1]
          /\ row' = [row EXCEPT ![e].status = IF e \in Marking THEN "processed" ELSE @]
       \/ /\ row' = [row EXCEPT ![e] = IF e \in Marking THEN Retried(@) ELSE @]
          /\ UNCHANGED delivered
    /\ UNCHANGED <<job, holds>>

\* A finished job is removed after its retention time, hours after a pending row
\* of its event has been claimed.
Retention(e) ==
    /\ job[e].state \in {"completed", "failed"}
    /\ row[e].status # "pending"
    /\ e \notin UNION {holds[p] : p \in Pollers}
    /\ Fault("retention")
    /\ job' = [job EXCEPT ![e] = [state |-> "absent", made |-> 0]]
    /\ UNCHANGED <<row, holds, delivered, raced>>

-----------------------------------------------------------------------------

Next ==
    \/ \E e \in Events :
         WriteToOutbox(e) \/ Succeed(e) \/ JobFails(e) \/ Postpone(e) \/ Stall(e) \/ Retention(e)
    \/ \E p \in Pollers :
         \/ Claim(p)
         \/ PollerCrash(p)
         \/ \E e \in Events : Enqueue(p, e) \/ EnqueueFails(p, e)

\* setInterval polls forever and BullMQ runs every waiting job; a process that
\* holds rows goes on with them unless it crashes.
Fairness ==
    /\ \A p \in Pollers : WF_vars(Claim(p)) /\ \A e \in Events : WF_vars(Enqueue(p, e))
    /\ \A e \in Events : WF_vars(Succeed(e))

Spec == Init /\ [][Next]_vars /\ Fairness

-----------------------------------------------------------------------------
\* Properties

\* An event that has not become a job is in the hands of one poller, so it is
\* handed over once (the SKIP LOCKED claim of processOutboxEvents).  Once there is
\* a job, its failure can put the row back while a poller holds it, and a second
\* poller takes it too: BullMQ ignores what they add.
ClaimedByOne ==
    \A p, q \in Pollers : p # q =>
        \A e \in holds[p] \cap holds[q] : job[e].state # "absent"

\* Without a crash, a row that says 'enqueued' is in the hands of a poller or has
\* become a job: a Redis error puts it back.
EnqueuedIsHandedOver ==
    \A e \in Events : row[e].status = "enqueued" =>
        \/ \E p \in Pollers : e \in holds[p]
        \/ job[e].state # "absent"
        \/ delivered[e] > 0

\* Delivery is exactly once unless a run stalled or Redis lost a reply: neither
\* two pollers nor the recovery of a failed row repeats a delivered event.
DuplicateNeedsARace == \A e \in Events : delivered[e] > 1 => e \in raced

\* A processed row is reopened only by the late failure of a stalled run, or of an
\* enqueue that raced with the job it names: the reply was lost, or BullMQ's own
\* retry succeeded meanwhile (both UPDATEs match on the key alone).
Reopens(e) == row[e].status = "processed" /\ row'[e].status # "processed"
ReopenedByARace == [][\A e \in Events : Reopens(e) => e \in raced']_vars

\* An event that is written is delivered, or its row or job says that it failed,
\* whatever Redis and the handlers do.
EventIsDelivered ==
    \A e \in Events : row[e].status = "pending" ~>
        delivered[e] > 0 \/ row[e].status = "failed" \/ job[e].state = "failed"

\* A row whose job has used up its attempts does not stay 'enqueued': it is reset
\* until it is 'failed', where an operator can see it (markOutboxEventFailed).
ExhaustedRowFails ==
    \A e \in Marking : job[e].state = "failed" ~> row[e].status \in {"failed", "processed"}

-----------------------------------------------------------------------------
(***************************************************************************)
(* Proofs about the outbox, for any number of events and pollers, any      *)
(* numbers of attempts and any bound on the faults.                        *)
(***************************************************************************)
Unheld(e) == \A p \in Pollers : e \notin holds[p]

\* Counters stop in time, and only a written row is held, has a job or is delivered.
Bounded(e) ==
    /\ row[e].status = "pending" => row[e].attempts < MaxAttempts
    /\ job[e].state = "waiting" => job[e].made < JobAttempts
    /\ row[e].status = "absent" => job[e].state = "absent" /\ Unheld(e) /\ delivered[e] = 0

\* Before there is a job, the row of a poller's event says 'enqueued', which
\* keeps the other pollers out.
HeldByOne(e) ==
    job[e].state = "absent" =>
        /\ \A p \in Pollers : e \in holds[p] => row[e].status = "enqueued"
        /\ \A p, q \in Pollers : e \in holds[p] /\ e \in holds[q] => p = q

\* A finished event: BullMQ still knows its job, or forgot it when no poller was
\* going to add it again.
Over(e) ==
    \/ job[e].state = "completed"
    \/ job[e].state = "absent" /\ Unheld(e) /\ row[e].status # "pending"

DeliveredOnce(e) ==
    e \notin raced =>
        /\ delivered[e] <= 1
        /\ delivered[e] = 1 \/ row[e].status = "processed" => Over(e)

OutboxInv ==
    /\ TypeOK
    /\ \A e \in Events : Bounded(e) /\ HeldByOne(e) /\ DeliveredOnce(e)
=============================================================================
