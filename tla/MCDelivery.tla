------------------------------ MODULE MCDelivery ------------------------------
(***************************************************************************)
(* How notifications and events travel, on small instances: creation,      *)
(* outbox, and the delivery by each channel. The initial state picks one   *)
(* part, and only that part moves: the run explores the parts one after    *)
(* another, and their states add up instead of multiplying.                *)
(***************************************************************************)
EXTENDS Naturals

CONSTANTS
    \* The outbox: events, those whose worker writes back, processes that poll.
    Events, Marking, Pollers, MaxOutboxAttempts, JobAttempts,
    \* Deliveries: the channels, and the runs of a job side by side.
    Channels, Workers,
    \* Creation: the processes, the dedupe keys, and the keys of each part.
    Creators, Submissions, Rejections, LimitKeys, GroupKeys, FaultKeys, RecoveryKeys,
    \* The limits of an hour, of a day and of a group; and limits that are not reached.
    HourlyLimit, DailyLimit, WideLimit, GroupMax,
    \* Attempts of a delivery, and bounds on the faults of each part.
    MaxAttempts, MaxFaults, MaxCreationFaults

VARIABLES
    part,
    row, job, holds, delivered, repeated, outboxFaults,
    notice, delivery, message, outbox, queued, run, sends, raced, faults,
    call, notes, counter, answered, overtaken, creationFaults

Box == INSTANCE Outbox WITH
    MaxAttempts <- MaxOutboxAttempts,
    FaultKinds <- {"pollerCrash", "queueError", "lostReply", "jobError", "stall", "postpone", "retention"},
    raced <- repeated, faults <- outboxFaults
\* Without crashes of the poller, and without the repeated faults of time.
CalmBox == INSTANCE Outbox WITH
    MaxAttempts <- MaxOutboxAttempts, FaultKinds <- {"queueError", "lostReply", "jobError", "stall"},
    raced <- repeated, faults <- outboxFaults

Sending == INSTANCE NotificationDelivery WITH
    FaultKinds <- {"refuse", "bounce", "lostReply", "skew", "dbError", "crash", "stall"}, job <- queued
\* Without crashes, stalls and clocks that differ.
CalmSending == INSTANCE NotificationDelivery WITH FaultKinds <- {"refuse", "bounce", "lostReply"}, job <- queued

\* The limits of an hour; with crashes and lost readings of the counter too.
Limited == INSTANCE NotificationCreation WITH
    FaultKinds <- {}, MaxFaults <- MaxCreationFaults, raced <- overtaken, faults <- creationFaults
Faulty == INSTANCE NotificationCreation WITH
    FaultKinds <- {"crash", "redisError"}, MaxFaults <- MaxCreationFaults,
    raced <- overtaken, faults <- creationFaults
\* Groups, without limits; and failing writes to the outbox only.
Grouped == INSTANCE NotificationCreation WITH
    HourlyLimit <- WideLimit, DailyLimit <- WideLimit, FaultKinds <- {}, MaxFaults <- MaxCreationFaults,
    raced <- overtaken, faults <- creationFaults
Recovered == INSTANCE NotificationCreation WITH
    HourlyLimit <- WideLimit, DailyLimit <- WideLimit, FaultKinds <- {"queueError"}, MaxFaults <- MaxCreationFaults,
    raced <- overtaken, faults <- creationFaults

\* The constants are as the modules assume.
Assumptions ==
    /\ Box!OutboxAssumption /\ Sending!DeliveryAssumption
    /\ Limited!CreationAssumption /\ Grouped!CreationAssumption
ASSUME DeliveryAssumption == Assumptions

boxVars == <<row, job, holds, delivered, repeated, outboxFaults>>
sendVars == <<notice, delivery, message, outbox, queued, run, sends, raced, faults>>
callVars == <<call, notes, counter, answered, overtaken, creationFaults>>

Parts == {"box", "calmBox", "sending", "calmSending", "limited", "grouped", "faulty", "recovered"}

Init ==
    /\ part \in Parts
    /\ Box!Init /\ Sending!Init /\ Limited!Init
    /\ part \notin {"sending", "calmSending"} => notice.due /\ notice.channel = "email"

\* Only these keys are asked for.
Asked(keys) == \A c \in Creators : call'[c].pc # "idle" => call'[c].key \in keys

Next ==
    \/ part = "box" /\ Box!Next /\ UNCHANGED <<part, sendVars, callVars>>
    \/ part = "calmBox" /\ CalmBox!Next /\ UNCHANGED <<part, sendVars, callVars>>
    \/ part = "sending" /\ Sending!Next /\ UNCHANGED <<part, boxVars, callVars>>
    \/ part = "calmSending" /\ CalmSending!Next /\ UNCHANGED <<part, boxVars, callVars>>
    \/ part = "limited" /\ Limited!Next /\ Asked(LimitKeys) /\ UNCHANGED <<part, boxVars, sendVars>>
    \/ part = "grouped" /\ Grouped!Next /\ Asked(GroupKeys) /\ UNCHANGED <<part, boxVars, sendVars>>
    \/ part = "faulty" /\ Faulty!Next /\ Asked(FaultKeys) /\ UNCHANGED <<part, boxVars, sendVars>>
    \/ part = "recovered" /\ Recovered!Next /\ Asked(RecoveryKeys) /\ UNCHANGED <<part, boxVars, sendVars>>

\* What the modules assume of their parts, for the parts whose liveness is checked.
Create(c) ==
    /\ part = "recovered"
    /\ \/ Recovered!CheckFrequency(c) \/ Recovered!FindGroup(c) \/ Recovered!Insert(c) \/ Recovered!Supersede(c)
       \/ Recovered!IncrementFrequency(c) \/ Recovered!WriteDelivery(c) \/ Recovered!QueueChannel(c)

Fairness ==
    /\ \A p \in Pollers :
         /\ WF_boxVars(part = "calmBox" /\ CalmBox!Claim(p))
         /\ \A e \in Events : WF_boxVars(part = "calmBox" /\ CalmBox!Enqueue(p, e))
    /\ \A e \in Events : WF_boxVars(part = "calmBox" /\ CalmBox!Succeed(e))
    /\ WF_sendVars(part = "calmSending" /\ (CalmSending!BecomeDue \/ CalmSending!Enqueue))
    /\ \A w \in Workers : WF_sendVars(part = "calmSending" /\ CalmSending!Step(w))
    /\ \A c \in Creators : WF_callVars(Create(c))
    /\ WF_callVars(part = "recovered" /\ \E i \in DOMAIN notes : Recovered!RecoverDue(i))

Spec == Init /\ [][Next]_<<part, boxVars, sendVars, callVars>> /\ Fairness

-----------------------------------------------------------------------------
\* The properties, each as its module states it, in the parts it is about.

\* Every variable stays in its type (outbox_events, notification_deliveries and
\* the calls of createNotification).
TypeOK == Box!TypeOK /\ Sending!TypeOK /\ Limited!TypeOK

\* No two pollers hold the same row of outbox_events before it has become a job.
ClaimedByOne == Box!ClaimedByOne

\* An event is delivered once unless a run stalled or Redis lost a reply.
DuplicateNeedsARace == Box!DuplicateNeedsARace

\* Without a crash a row that says 'enqueued' is held by a poller or has a job.
EnqueuedIsHandedOver == part = "calmBox" => CalmBox!EnqueuedIsHandedOver

\* Without a crash every event is delivered, or its failure is on record.
EventIsDelivered == part = "calmBox" => CalmBox!EventIsDelivered

\* A provider gets a message twice only after a lost answer or write, or a named race.
SecondSendNeedsARace == Sending!SecondSendNeedsARace

\* Without a crash every delivery comes to an end.
DeliverySettles == part = "calmSending" => CalmSending!DeliverySettles

\* The hourly limit is overshot by at most one for each other process and fault.
QuotaOvershootIsBounded == part \in {"limited", "faulty"} => Limited!QuotaOvershootIsBounded

\* A full group grows by at most one for each other process.
GroupOvershootIsBounded == Limited!GroupOvershootIsBounded

\* An older notification supersedes a newer one only in a race of their inserts.
OlderSupersedesInARace == Limited!OlderSupersedesInARace

\* Without a crash every notification is queued, superseded or visibly failed.
NotificationIsQueued == part = "recovered" => Recovered!NotificationIsQueued

\* The above in one, by what they promise.
\* Nothing is claimed, handed over or sent twice, or lost on the way, but in a named race.
SentOnce == ClaimedByOne /\ DuplicateNeedsARace /\ EnqueuedIsHandedOver /\ SecondSendNeedsARace

\* Limits of concurrent creations are overshot by no more than the races between them.
OvershootIsBounded == QuotaOvershootIsBounded /\ GroupOvershootIsBounded /\ OlderSupersedesInARace

\* A processed row is reopened only by a late failure, and a message that was
\* superseded before its claim is not sent.
StaysDone ==
    [][/\ \A e \in Events : Box!Reopens(e) => e \in repeated'
       /\ part = "calmSending" => ~Sending!SupersededIsSent]_<<part, boxVars, sendVars>>

\* Without a crash every event, notification and delivery comes to its end.
EverythingIsDelivered == EventIsDelivered /\ DeliverySettles /\ NotificationIsQueued
===============================================================================
