------------------------------ MODULE MCPrivacy -------------------------------
(***************************************************************************)
(* The export and the erasure of a user's data, and the pictures a user    *)
(* uploads, on small instances. The initial state picks one part, and only *)
(* that part moves, so the parts' states add up.                           *)
(***************************************************************************)
EXTENDS Naturals

CONSTANTS
    \* Exports: calls of createRequest, and runs of the export worker.
    Requests, Runners, Cancels,
    \* The erasure of one user: the tasks, how they stand, and the runs of executeDeletion.
    PosterTasks, WorkerTasks, Starts, Executors,
    \* Uploads: receipts, calls of finalizeMediaUpload, and who asks for links.
    Receipts, Finalizers, Viewers, BadAllowed,
    \* A bound on the faults of an export and of an erasure.
    MaxFaults

VARIABLES
    part,
    exportReq, call, exp, job, exporting, file, told, raced, exportFaults,
    req, due, cancel, run, task, user, late, missed, faults,
    status, age, raw, canonical, finalizing, sweep, consuming, overran, member, link, log

\* Exports under the schema of the repository, where no row of exports can be
\* inserted; and as the code expects it, with and without faults.
Deployed == INSTANCE DataExport WITH
    Workers <- Runners, ExpiryColumn <- TRUE, FaultKinds <- {},
    req <- exportReq, run <- exporting, faults <- exportFaults
Faulty == INSTANCE DataExport WITH
    Workers <- Runners, ExpiryColumn <- FALSE, FaultKinds <- {"storage", "crash", "stall", "day"},
    req <- exportReq, run <- exporting, faults <- exportFaults
Calm == INSTANCE DataExport WITH
    Workers <- Runners, ExpiryColumn <- FALSE, FaultKinds <- {},
    req <- exportReq, run <- exporting, faults <- exportFaults

\* The user has every kind of task; and the user never had one.
Busy == INSTANCE Erasure WITH FaultKinds <- {"stripe", "throw", "session", "crash"}
Idle == INSTANCE Erasure WITH FaultKinds <- {}

\* One call at a time, where everything can fail; and several of them, without failures.
Failing == INSTANCE MediaUploads WITH Faults <- TRUE, call <- finalizing
Twice == INSTANCE MediaUploads WITH Faults <- FALSE, call <- finalizing
OneCall == \A f, g \in Finalizers : finalizing[f] # Failing!Idle /\ finalizing[g] # Failing!Idle => f = g

\* The constants are as the modules assume.
Assumptions == Faulty!ExportAssumption /\ Busy!ErasureAssumption /\ Failing!MediaAssumption
ASSUME PrivacyAssumption == Assumptions

exportVars == <<exportReq, call, exp, job, exporting, file, told, raced, exportFaults>>
erasureVars == <<req, due, cancel, run, task, user, late, missed, faults>>
mediaVars == <<status, age, raw, canonical, finalizing, sweep, consuming, overran, member, link, log>>

Parts == {"deployed", "faulty", "calm", "busy", "idle", "failing", "twice"}
NoTask == \A t \in Busy!Tasks : task[t].state = "absent"

Init ==
    /\ part \in Parts
    /\ Faulty!Init /\ Busy!Init /\ Failing!Init
    /\ part # "busy" => NoTask

Next ==
    \/ part = "deployed" /\ Deployed!Next /\ UNCHANGED <<part, erasureVars, mediaVars>>
    \/ part = "faulty" /\ Faulty!Next /\ UNCHANGED <<part, erasureVars, mediaVars>>
    \/ part = "calm" /\ Calm!Next /\ UNCHANGED <<part, erasureVars, mediaVars>>
    \/ part = "busy" /\ Busy!Next /\ UNCHANGED <<part, exportVars, mediaVars>>
    \/ part = "idle" /\ Idle!Next /\ NoTask' /\ UNCHANGED <<part, exportVars, mediaVars>>
    \/ part = "failing" /\ Failing!Next /\ OneCall' /\ UNCHANGED <<part, exportVars, erasureVars>>
    \/ part = "twice" /\ Twice!Next /\ UNCHANGED <<part, exportVars, erasureVars>>

\* What the modules assume, for the parts whose liveness is checked.
Fairness ==
    /\ \A r \in Requests :
         WF_exportVars(part = "deployed" /\ Deployed!Call(r)) /\ WF_exportVars(part = "calm" /\ Calm!Call(r))
    /\ \A w \in Runners : WF_exportVars(part = "calm" /\ Calm!Work(w))
    /\ WF_erasureVars(part = "idle" /\ Idle!DeadlinePasses)
    /\ \A x \in Executors : WF_erasureVars(part = "idle" /\ Idle!Execute(x))
    /\ WF_mediaVars(part = "twice" /\ Twice!Sweeper)
    /\ \A r \in Receipts :
         WF_mediaVars(part = "twice" /\ Twice!GrowsOld(r)) /\ WF_mediaVars(part = "twice" /\ Twice!Commit(r))

Spec == Init /\ [][Next]_<<part, exportVars, erasureVars, mediaVars>> /\ Fairness

-----------------------------------------------------------------------------
\* The properties, each as its module states it, in the parts it is about.

\* Every variable stays in its type (exports, the erased user, uploads).
TypeOK == Faulty!TypeOK /\ Busy!TypeOK /\ Failing!TypeOK

\* Two export requests are in progress only after two calls overlapped.
OneInProgress == Faulty!OneInProgress

\* A request is completed, and its user told, only with the object in R2.
CompletedHasFile == Faulty!CompletedHasFile

\* Without faults a request that was made is answered; by a rejection, under the
\* schema of the repository.
ExportSettles == (part = "calm" => Calm!ExportSettles) /\ (part = "deployed" => Deployed!ExportSettles)

\* Only one executor is past the compare-and-set.
OneExecutor == Busy!OneExecutor

\* The money of an erased user's task is not held any more.
ErasedOwesNothing == Busy!ErasedOwesNothing

\* A completed request is an erased user, without sessions unless their revocation was missed.
CompletedIsErased == Busy!CompletedIsErased

\* A run of the executor that took the request of a user without tasks carries it out.
BegunDeletionEnds == part = "idle" => Idle!BegunDeletionEnds

\* A receipt that is ready or used has its canonical object.
ReceiptHasObject == Failing!ReceiptHasObject

\* A picture that was delivered is in the access log.
DeliveredIsLogged == Failing!DeliveredIsLogged

\* An upload ends used, rejected or expired.
ReceiptEnds == part = "twice" => Twice!ReceiptEnds

\* The above in one, by what they promise.
\* A request has one executor, and a user one request in progress.
OneAtATime == OneInProgress /\ OneExecutor

\* Completed is done: the file exists and who saw it is logged; the user is erased and nothing is owed.
CompletedIsDone ==
    CompletedHasFile /\ ErasedOwesNothing /\ CompletedIsErased /\ ReceiptHasObject /\ DeliveredIsLogged

\* A request is answered, an upload ends.
RequestsSettle == ExportSettles /\ BegunDeletionEnds /\ ReceiptEnds
===============================================================================
