------------------------ MODULE NotificationDelivery ------------------------
(***************************************************************************)
(* One notification on one external channel: its row in                    *)
(* notification_deliveries, the message row (email_outbox or sms_outbox;   *)
(* a push has none), the outbox row, the BullMQ job, and the workers that  *)
(* authorize, claim, call the provider and record the result, each step a  *)
(* transaction of its own.                                                 *)
(***************************************************************************)
EXTENDS Naturals, FiniteSets

CONSTANTS
    Channels,     \* the external channels looked at, of "email", "sms" and "push"
    Workers,      \* runs of the job that can be in flight
    MaxAttempts,  \* max_attempts of the delivery and of the message, attempts of the queue
    FaultKinds,   \* the faults that happen, a subset of AllFaultKinds
    MaxFaults     \* bound on faults

\* refuse, bounce: the provider's answer; lostReply: it accepted, and the call throws;
\* skew: the application's clock is behind the database's; dbError: a run's claim or one
\* of its later UPDATEs fails; stall: the job is run again while its run goes on.
AllFaultKinds == {"refuse", "bounce", "lostReply", "skew", "dbError", "crash", "stall"}

DeliveryAssumption ==
    /\ Channels \subseteq {"email", "sms", "push"}
    /\ MaxAttempts \in Nat \ {0} /\ MaxFaults \in Nat
    /\ FaultKinds \subseteq AllFaultKinds

VARIABLES
    notice,    \* its channel; due: available_at has passed; superseded; optedOut: users.do_not_email
    delivery,  \* the row of notification_deliveries
    message,   \* the row of email_outbox or sms_outbox
    outbox,    \* the row of outbox_events
    job,       \* external: the BullMQ job
    run,       \* the runs in flight; late: superseded before the claim
    sends,     \* history: messages the provider accepted
    raced,     \* history: what may have been sent was given up, taken over or put back
    faults

vars == <<notice, delivery, message, outbox, job, run, sends, raced, faults>>

DeliveryStates ==
    {"deferred", "queued", "retry_pending", "provider_accepted", "suppressed",
     "cancelled_superseded", "failed_terminal"}
Sendable == {"deferred", "queued", "retry_pending"}
Settled  == DeliveryStates \ Sendable

\* The channel of the delivery, which never changes.
Channel == notice.channel

NoRun == [pc |-> "idle", late |-> FALSE]

TypeOK ==
    /\ notice \in [channel : Channels, due : BOOLEAN, superseded : BOOLEAN, optedOut : BOOLEAN]
    /\ delivery \in [state : DeliveryStates, attempts : 0..MaxAttempts]
    /\ message \in [status : {"pending", "sending", "sent", "failed", "suppressed"},
                    attempts : 0..MaxAttempts, provider : BOOLEAN, old : BOOLEAN]
    /\ outbox \in [status : {"pending", "enqueued", "processing", "processed", "failed"},
                   attempts : 0..MaxAttempts, old : BOOLEAN]
    /\ job \in [state : {"absent", "waiting", "active", "completed", "failed"},
                made : 0..MaxAttempts]
    /\ run \in [Workers -> [pc : {"idle", "claim", "send", "store", "finish", "error",
                                  "unclaimed", "bounced", "suppressed"}, late : BOOLEAN]]
    /\ sends \in Nat
    /\ raced \in BOOLEAN
    /\ faults \in 0..MaxFaults

\* queueNotificationChannels has written the delivery, the message and the outbox
\* row; quiet hours or a task in execution defer them.
Init ==
    /\ notice \in [channel : Channels, due : BOOLEAN, superseded : {FALSE}, optedOut : {FALSE}]
    /\ delivery = [state |-> IF notice.due THEN "queued" ELSE "deferred", attempts |-> 0]
    /\ message = [status |-> "pending", attempts |-> 0, provider |-> FALSE, old |-> FALSE]
    /\ outbox = [status |-> "pending", attempts |-> 0, old |-> FALSE]
    /\ job = [state |-> "absent", made |-> 0]
    /\ run = [w \in Workers |-> NoRun]
    /\ sends = 0
    /\ raced = FALSE
    /\ faults = 0

Fault(kind) ==
    /\ kind \in FaultKinds
    /\ faults < MaxFaults
    /\ faults' = faults + 1

Least(a, b) == IF a < b THEN a ELSE b

-----------------------------------------------------------------------------
\* The UPDATEs of NotificationDeliveryState and of the outbox

Accepted(d) ==
    IF d.state \in Sendable
      THEN [state |-> "provider_accepted", attempts |-> Least(d.attempts + 1, MaxAttempts)] ELSE d

Suppressed(d) == [d EXCEPT !.state = "suppressed"]

Cancelled(d) ==
    IF d.state = "provider_accepted" THEN d ELSE [d EXCEPT !.state = "cancelled_superseded"]

\* Whatever the state was.
DeliveryFailure(d) ==
    [state    |-> IF d.attempts + 1 >= MaxAttempts THEN "failed_terminal" ELSE "retry_pending",
     attempts |-> Least(d.attempts + 1, MaxAttempts)]

Processed(o) == [o EXCEPT !.status = "processed"]

PutBack(o) == [o EXCEPT !.status = IF o.attempts < MaxAttempts THEN "pending" ELSE "failed"]

\* A run's end decides the job only while the job is active.
Completed(j) == IF j.state = "active" THEN [j EXCEPT !.state = "completed"] ELSE j
Thrown(j) ==
    IF j.state # "active" THEN j
    ELSE [state |-> IF j.made + 1 < MaxAttempts THEN "waiting" ELSE "failed", made |-> j.made + 1]

Goto(w, pc) == run' = [run EXCEPT ![w].pc = pc]

\* The handler returns: the job is complete.
Return(w) ==
    /\ run' = [run EXCEPT ![w] = NoRun]
    /\ job' = Completed(job)

-----------------------------------------------------------------------------
\* Around the worker

\* Quiet hours end, or releaseFocusDeferred runs.
BecomeDue ==
    /\ ~notice.due
    /\ notice' = [notice EXCEPT !.due = TRUE]
    /\ delivery' = IF delivery.state = "deferred" THEN [delivery EXCEPT !.state = "queued"]
                                                 ELSE delivery
    /\ UNCHANGED <<message, outbox, job, run, sends, raced, faults>>

\* The outbox loop; BullMQ ignores a job id that it knows.
Enqueue ==
    /\ outbox.status = "pending"
    /\ notice.due
    /\ outbox' = [outbox EXCEPT !.status = "enqueued", !.attempts = @ + 1]
    /\ job' = IF job.state = "absent" THEN [state |-> "waiting", made |-> 0] ELSE job
    /\ UNCHANGED <<notice, delivery, message, run, sends, raced, faults>>

\* A newer notification of the same object; only a push row has the notification
\* as its aggregate_id.
Supersede ==
    /\ ~notice.superseded
    /\ notice' = [notice EXCEPT !.superseded = TRUE]
    /\ delivery' = IF delivery.state \in Sendable
                     THEN [delivery EXCEPT !.state = "cancelled_superseded"] ELSE delivery
    /\ message' = IF Channel # "push" /\ message.status \in {"pending", "failed"}
                    THEN [message EXCEPT !.status = "suppressed"] ELSE message
    /\ outbox' = IF Channel = "push" /\ outbox.status = "pending" THEN Processed(outbox) ELSE outbox
    /\ UNCHANGED <<job, run, sends, raced, faults>>

OptOut ==
    /\ Channel = "email" /\ ~notice.optedOut
    /\ notice' = [notice EXCEPT !.optedOut = TRUE]
    /\ UNCHANGED <<delivery, message, outbox, job, run, sends, raced, faults>>

\* Five minutes pass over a claim.
ClaimAges ==
    /\ \/ message.status = "sending" /\ ~message.old
       \/ outbox.status = "processing" /\ ~outbox.old
    /\ message' = [message EXCEPT !.old = message.status = "sending"]
    /\ outbox' = [outbox EXCEPT !.old = outbox.status = "processing"]
    /\ UNCHANGED <<notice, delivery, job, run, sends, raced, faults>>

-----------------------------------------------------------------------------
\* The worker: authorizeNotificationDelivery

Take(w) ==
    /\ run[w].pc = "idle"
    /\ \/ job.state = "waiting" /\ UNCHANGED faults
       \/ job.state = "active" /\ Fault("stall")
    /\ job' = [job EXCEPT !.state = "active"]
    /\ ~notice.superseded /\ delivery.state \in Sendable
    /\ Goto(w, "claim")
    /\ UNCHANGED <<notice, delivery, message, outbox, sends, raced>>

\* Superseded, or the delivery has come to an end: the event is done.
Retire(w) ==
    /\ run[w].pc = "idle"
    /\ job.state = "waiting"
    /\ notice.superseded \/ delivery.state \in Settled
    /\ delivery' = IF notice.superseded \/ delivery.state = "cancelled_superseded"
                     THEN Cancelled(delivery) ELSE delivery
    /\ outbox' = Processed(outbox)
    /\ job' = [job EXCEPT !.state = "completed"]
    /\ UNCHANGED <<notice, message, run, sends, raced, faults>>

\* The application's clock says that the delivery is not due yet: the row is put
\* back, also from under a run that has claimed it.
NotDue(w) ==
    /\ run[w].pc = "idle"
    /\ job.state = "waiting"
    /\ ~notice.superseded /\ delivery.state \in Sendable
    /\ Fault("skew")
    /\ outbox' = PutBack(outbox)
    /\ job' = [job EXCEPT !.state = "completed"]
    /\ raced' = (raced \/ \E v \in Workers : run[v].pc # "idle")
    /\ UNCHANGED <<notice, delivery, message, run, sends>>

-----------------------------------------------------------------------------
\* The worker: the claim

\* Sent already: only what the crash or the failed write left out is repaired.
Replay(w) ==
    /\ run[w].pc = "claim" /\ Channel # "push"
    /\ message.status = "sent" \/ message.provider
    /\ message' = [message EXCEPT !.status = "sent"]
    /\ delivery' = IF message.provider THEN Accepted(delivery) ELSE delivery
    /\ outbox' = Processed(outbox)
    /\ Return(w)
    /\ UNCHANGED <<notice, sends, raced, faults>>

Unsent == ~(message.status = "sent" \/ message.provider)
Exhausted == message.attempts >= MaxAttempts

Sending(m) ==
    [m EXCEPT !.status = "sending", !.old = FALSE,
              !.attempts = IF m.status = "sending" THEN @ ELSE @ + 1]

Claimed(w) ==
    run' = [run EXCEPT ![w] = [pc |-> "send", late |-> notice.superseded]]

\* A stale 'sending' row is claimed again; a fresh one ends the job and the event.
EmailClaim(w) ==
    /\ run[w].pc = "claim" /\ Channel = "email"
    /\ Unsent
    /\ \/ /\ message.status = "suppressed"
          /\ Goto(w, "suppressed")
          /\ UNCHANGED <<message, outbox, job, raced>>
       \/ /\ message.status # "suppressed" /\ Exhausted
          /\ Goto(w, "error")
          /\ UNCHANGED <<message, outbox, job, raced>>
       \/ /\ ~Exhausted
          /\ \/ message.status \in {"pending", "failed"}
             \/ message.status = "sending" /\ message.old
          /\ message' = Sending(message)
          /\ Claimed(w)
          /\ raced' = (raced \/ message.status = "sending")
          /\ UNCHANGED <<outbox, job>>
       \/ /\ ~Exhausted
          /\ message.status = "sending" /\ ~message.old
          /\ outbox' = Processed(outbox)
          /\ Return(w)
          /\ UNCHANGED <<message, raced>>
    /\ UNCHANGED <<notice, delivery, sends, faults>>

\* No row that is 'sending' is claimed again, however old.
SmsClaim(w) ==
    /\ run[w].pc = "claim" /\ Channel = "sms"
    /\ Unsent
    /\ \/ /\ Exhausted
          /\ Goto(w, "error")
          /\ UNCHANGED <<message, job>>
       \/ /\ ~Exhausted
          /\ message.status \in {"pending", "failed"}
          /\ message' = Sending(message)
          /\ Claimed(w)
          /\ UNCHANGED job
       \/ /\ ~Exhausted
          /\ message.status \in {"sending", "suppressed"}
          /\ Return(w)
          /\ UNCHANGED message
    /\ UNCHANGED <<notice, delivery, outbox, sends, raced, faults>>

\* The outbox row itself is claimed; a lost claim ends the job, not the event.
PushClaim(w) ==
    /\ run[w].pc = "claim" /\ Channel = "push"
    /\ \/ /\ \/ outbox.status \notin {"processed", "processing"}
             \/ outbox.status = "processing" /\ outbox.old
          /\ outbox' = [outbox EXCEPT !.status = "processing", !.old = FALSE]
          /\ Claimed(w)
          /\ raced' = (raced \/ outbox.status = "processing")
          /\ UNCHANGED job
       \/ /\ outbox.status \in {"processed", "processing"}
          /\ outbox.status = "processing" => ~outbox.old
          /\ Return(w)
          /\ UNCHANGED <<outbox, raced>>
    /\ UNCHANGED <<notice, delivery, message, sends, faults>>

\* The authorization or the claim throws: the catch below runs as it does for a send.
ClaimFails(w) ==
    /\ run[w].pc = "claim"
    /\ Fault("dbError")
    /\ Goto(w, "unclaimed")
    /\ UNCHANGED <<notice, delivery, message, outbox, job, sends, raced>>

-----------------------------------------------------------------------------
\* The worker: the provider

\* users.do_not_email is read after the claim.
EmailOptedOut(w) ==
    /\ run[w].pc = "send" /\ notice.optedOut
    /\ message' = [message EXCEPT !.status = "suppressed"]
    /\ outbox' = Processed(outbox)
    /\ delivery' = Suppressed(delivery)
    /\ Return(w)
    /\ UNCHANGED <<notice, sends, raced, faults>>

\* An answer that is lost looks like a refusal.
Send(w) ==
    /\ run[w].pc = "send" /\ ~notice.optedOut
    /\ \/ /\ sends' = sends + 1
          /\ Goto(w, IF Channel = "push" THEN "finish" ELSE "store")
          /\ UNCHANGED <<raced, faults>>
       \/ /\ Fault("lostReply")
          /\ sends' = sends + 1 /\ raced' = TRUE
          /\ Goto(w, "error")
       \/ /\ Fault("refuse")
          /\ Goto(w, "error")
          /\ UNCHANGED <<sends, raced>>
       \/ /\ Channel = "email" /\ Fault("bounce")
          /\ Goto(w, "bounced")
          /\ UNCHANGED <<sends, raced>>
    /\ UNCHANGED <<notice, delivery, message, outbox, job>>

\* The user has no device: nothing is sent and the delivery is over.
PushNoDevice(w) ==
    /\ run[w].pc = "send" /\ Channel = "push"
    /\ Fault("bounce")
    /\ delivery' = Suppressed(delivery)
    /\ outbox' = Processed(outbox)
    /\ Return(w)
    /\ UNCHANGED <<notice, message, sends, raced>>

StoreProviderId(w) ==
    /\ run[w].pc = "store"
    /\ message' = [message EXCEPT !.provider = TRUE]
    /\ Goto(w, "finish")
    /\ UNCHANGED <<notice, delivery, outbox, job, sends, raced, faults>>

\* The provider's id is not stored: the catch puts back a message that was sent.
StoreFails(w) ==
    /\ run[w].pc = "store"
    /\ Fault("dbError")
    /\ raced' = TRUE
    /\ Goto(w, "error")
    /\ UNCHANGED <<notice, delivery, message, outbox, job, sends>>

MessageFinish(w) ==
    /\ run[w].pc = "finish" /\ Channel # "push"
    /\ IF message.status = "sending"
         THEN /\ message' = [message EXCEPT !.status = "sent"]
              /\ delivery' = Accepted(delivery)
              /\ outbox' = Processed(outbox)
         ELSE UNCHANGED <<message, delivery, outbox>>
    /\ Return(w)
    /\ UNCHANGED <<notice, sends, raced, faults>>

PushFinish(w) ==
    /\ run[w].pc = "finish" /\ Channel = "push"
    /\ delivery' = Accepted(delivery)
    /\ outbox' = Processed(outbox)
    /\ Return(w)
    /\ UNCHANGED <<notice, message, sends, raced, faults>>

\* One of the last UPDATEs fails, after those before it: the message's, the
\* delivery's, the outbox row's. The handler treats it like a failed send.
FinishFails(w) ==
    /\ run[w].pc = "finish"
    /\ Fault("dbError")
    /\ \/ UNCHANGED <<message, delivery>>
       \/ /\ Channel = "push" \/ message.status = "sending"
          /\ message' = IF Channel = "push" THEN message ELSE [message EXCEPT !.status = "sent"]
          /\ delivery' \in {delivery, Accepted(delivery)}
    /\ raced' = (raced \/ Channel = "push")
    /\ Goto(w, "error")
    /\ UNCHANGED <<notice, outbox, job, sends>>

-----------------------------------------------------------------------------
\* The worker: the catch blocks

\* The run that throws had claimed nothing, and another has or had the row.
PutsBackAnothers(w) ==
    /\ run[w].pc = "unclaimed"
    /\ outbox.status = "processed" \/ \E v \in Workers \ {w} : run[v].pc # "idle"

Ending(w) ==
    /\ run' = [run EXCEPT ![w] = NoRun]
    /\ job' = IF Channel # "push" /\ Exhausted THEN Completed(job) ELSE Thrown(job)

\* A mutant: the delivery is not told.
M_Fail(w) ==
    /\ run[w].pc \in {"error", "unclaimed"}
    /\ message' = IF Channel = "push" THEN message
                  ELSE [message EXCEPT !.status = IF Exhausted THEN "failed" ELSE "pending"]
    /\ outbox' = PutBack(outbox)
    /\ Ending(w)
    /\ raced' = (raced \/ PutsBackAnothers(w))
    /\ UNCHANGED <<notice, delivery, sends, faults>>

\* The message's status is written whatever it was.
Fail(w) ==
    /\ run[w].pc \in {"error", "unclaimed"}
    /\ message' = IF Channel = "push" THEN message
                  ELSE [message EXCEPT !.status = IF Exhausted THEN "failed" ELSE "pending"]
    /\ delivery' = DeliveryFailure(delivery)
    /\ outbox' = PutBack(outbox)
    /\ Ending(w)
    /\ raced' = (raced \/ PutsBackAnothers(w))
    /\ UNCHANGED <<notice, sends, faults>>

\* The row was suppressed before the claim: the run ends without an error.
EmailSuppressed(w) ==
    /\ run[w].pc = "suppressed"
    /\ delivery' = Suppressed(delivery)
    /\ outbox' = PutBack(outbox)
    /\ Return(w)
    /\ UNCHANGED <<notice, message, sends, raced, faults>>

\* A hard bounce ends the message and opts the user out.
EmailBounced(w) ==
    /\ run[w].pc = "bounced"
    /\ message' = [message EXCEPT !.status = "suppressed"]
    /\ notice' = [notice EXCEPT !.optedOut = TRUE]
    /\ delivery' = Suppressed(delivery)
    /\ outbox' = PutBack(outbox)
    /\ Ending(w)
    /\ UNCHANGED <<sends, raced, faults>>

\* The worker dies; BullMQ finds the job stalled and runs it again.
Crash(w) ==
    /\ run[w].pc # "idle"
    /\ Fault("crash")
    /\ run' = [run EXCEPT ![w] = NoRun]
    /\ job' = IF \A v \in Workers \ {w} : run[v].pc = "idle"
                THEN [job EXCEPT !.state = IF @ = "active" THEN "waiting" ELSE @] ELSE job
    /\ raced' = (raced \/ (run[w].pc \in {"store", "finish"} /\ ~message.provider))
    /\ UNCHANGED <<notice, delivery, message, outbox, sends>>

-----------------------------------------------------------------------------

Step(w) ==
    \/ Take(w) \/ Retire(w)
    \/ Replay(w) \/ EmailClaim(w) \/ SmsClaim(w) \/ PushClaim(w)
    \/ EmailOptedOut(w) \/ Send(w) \/ StoreProviderId(w) \/ MessageFinish(w) \/ PushFinish(w)
    \/ Fail(w) \/ EmailSuppressed(w) \/ EmailBounced(w)

Next ==
    \/ BecomeDue \/ Enqueue \/ Supersede \/ OptOut \/ ClaimAges
    \/ \E w \in Workers :
         Step(w) \/ NotDue(w) \/ ClaimFails(w) \/ PushNoDevice(w) \/ StoreFails(w) \/ FinishFails(w) \/ Crash(w)

\* Time passes, the loops run, and a worker goes on with what it has taken.
Fairness == WF_vars(BecomeDue) /\ WF_vars(Enqueue) /\ \A w \in Workers : WF_vars(Step(w))

Spec == Init /\ [][Next]_vars /\ Fairness

-----------------------------------------------------------------------------
\* Properties

\* The provider gets a message once, even if two runs of the job overlap, unless the
\* provider's answer was lost, a run died or failed after the provider had taken the
\* message and before that was recorded, a claim older than five minutes was taken over,
\* or a run that finds the delivery not due, or whose claim fails, puts back what another
\* has (W-20 of push-worker, the atomic claims of the email and the SMS worker).
SecondSendNeedsARace == sends > 1 => raced

\* A message whose notification was superseded before the claim is not sent, even
\* if the run was authorized before: supersedePriorNotifications takes the row
\* away from the claim.
SupersededIsSent ==
    \E w \in Workers : run[w].late /\ run[w].pc = "send" /\ run'[w].pc = "store"
SupersededIsNotClaimed == [][~SupersededIsSent]_vars

\* Every delivery comes to an end: accepted, suppressed, cancelled or visibly failed.
DeliverySettles == <>[](delivery.state \in Settled)

=============================================================================
