------------------------------ MODULE DataExport ------------------------------
(***************************************************************************)
(* A user's GDPR export requests: createRequest and the generateExport it  *)
(* starts and forgets, cancelRequest, the export job with its three        *)
(* attempts, and the clean-up of old exports.  A request has one export    *)
(* and one job, so all three are keyed by the request.                     *)
(***************************************************************************)
EXTENDS Naturals, FiniteSets

CONSTANTS
    Requests,      \* calls of createRequest, each with the row it would insert
    Workers,       \* concurrent runs of the export worker
    ExpiryColumn,  \* is exports.expires_at NOT NULL without a default, as in the schema
    Cancels,       \* may the user cancel
    FaultKinds,    \* subset of {"storage", "crash", "stall", "day"}
    MaxFaults      \* bound on faults

ExportAssumption ==
    /\ ExpiryColumn \in BOOLEAN /\ Cancels \in BOOLEAN /\ MaxFaults \in Nat
    /\ FaultKinds \subseteq {"storage", "crash", "stall", "day"}

VARIABLES
    req,     \* gdpr_data_requests.status
    call,    \* where createRequest and its generateExport stand
    exp,     \* exports: status, and has it been 'generating' for ten minutes
    job,     \* the BullMQ job of the export
    run,     \* what each worker is doing
    file,    \* external: the object in R2
    told,    \* outbox_events: export.ready was written
    raced,   \* history: two calls overlapped between a check and its write
    faults

vars == <<req, call, exp, job, run, file, told, raced, faults>>

InProgress == {"pending", "processing"}
Absent == [status |-> "absent", old |-> FALSE]
Idle == [pc |-> "idle"]
JobAttempts == 3  \* QUEUE_CONFIGS.exports.attempts

TypeOK ==
    /\ req \in [Requests -> InProgress \cup {"absent", "completed", "rejected", "cancelled"}]
    /\ call \in [Requests -> {"new", "checked", "generate", "read", "done"}]
    /\ exp \in [Requests -> [status : {"absent", "queued", "generating", "ready", "failed"}, old : BOOLEAN]]
    /\ job \in [Requests -> [state : {"none", "waiting", "active", "completed", "failed"}, made : 0..JobAttempts]]
    /\ run \in [Workers -> {Idle} \cup [pc : {"key", "upload", "finish", "complete", "tell", "catch"}, req : Requests]]
    /\ file \in [Requests -> BOOLEAN] /\ told \subseteq Requests
    /\ raced \in BOOLEAN /\ faults \in 0..MaxFaults

Init ==
    /\ req = [r \in Requests |-> "absent"]
    /\ call = [r \in Requests |-> "new"]
    /\ exp = [r \in Requests |-> Absent]
    /\ job = [r \in Requests |-> [state |-> "none", made |-> 0]]
    /\ run = [w \in Workers |-> Idle]
    /\ file = [r \in Requests |-> FALSE]
    /\ told = {} /\ raced = FALSE /\ faults = 0

Pending == {r \in Requests : req[r] \in InProgress}
\* A check that passes while another call is between a check and its write.
Raced(r) == raced' = (raced \/ (Pending = {} /\ \E q \in Requests \ {r} : call[q] \in {"checked", "read"}))
Fault(k) == k \in FaultKinds /\ faults < MaxFaults /\ faults' = faults + 1

-----------------------------------------------------------------------------
\* A mutant: the request in progress is not looked for.
M_CreateChecks(r) == /\ call[r] = "new"
                     /\ call' = [call EXCEPT ![r] = "checked"]
                     /\ UNCHANGED <<req, exp, job, run, file, told, raced, faults>>

\* createRequest looks for a request in progress, and gives up if there is one.
CreateChecks(r) ==
    /\ call[r] = "new"
    /\ call' = [call EXCEPT ![r] = IF Pending = {} THEN "checked" ELSE "done"]
    /\ Raced(r)
    /\ UNCHANGED <<req, exp, job, run, file, told, faults>>

CreateInserts(r) ==
    /\ call[r] = "checked"
    /\ call' = [call EXCEPT ![r] = "generate"]
    /\ req' = [req EXCEPT ![r] = "pending"]
    /\ UNCHANGED <<exp, job, run, file, told, raced, faults>>

\* cancelRequest: its UPDATE repeats the check of the status.
CancelRequest(r) ==
    /\ Cancels /\ req[r] \in InProgress
    /\ req' = [req EXCEPT ![r] = "cancelled"]
    /\ UNCHANGED <<call, exp, job, run, file, told, raced, faults>>

\* generateExport reads the status in one statement ...
GenerateReads(r) ==
    /\ call[r] = "generate"
    /\ call' = [call EXCEPT ![r] = IF req[r] \in InProgress THEN "read" ELSE "done"]
    /\ UNCHANGED <<req, exp, job, run, file, told, raced, faults>>

\* ... and sets it in a transaction that does not look at it again.  When the
\* row of exports is refused, the transaction is undone and the catch rejects.
GenerateQueues(r) ==
    /\ call[r] = "read"
    /\ call' = [call EXCEPT ![r] = "done"]
    /\ IF ExpiryColumn
       THEN req' = [req EXCEPT ![r] = "rejected"] /\ UNCHANGED <<exp, job>>
       ELSE /\ req' = [req EXCEPT ![r] = "processing"]
            /\ exp' = [exp EXCEPT ![r].status = "queued"]
            /\ job' = [job EXCEPT ![r].state = "waiting"]
    /\ UNCHANGED <<run, file, told, raced, faults>>

-----------------------------------------------------------------------------
Goto(w, pc) == run' = [run EXCEPT ![w].pc = pc]
Leave(w, r) ==
    /\ run' = [run EXCEPT ![w] = Idle]
    /\ job' = [job EXCEPT ![r].state = IF job[r].state = "active" THEN "completed" ELSE @]

\* The claim, under FOR UPDATE: a 'ready' export and one that is being
\* generated end the job, any other status throws.
Claim(w, r) ==
    /\ run[w] = Idle /\ job[r].state = "waiting"
    /\ LET s == exp[r].status
           claimable == s = "queued" \/ (s = "generating" /\ exp[r].old)
       IN /\ exp' = [exp EXCEPT ![r] = IF claimable THEN [status |-> "generating", old |-> FALSE] ELSE @]
          /\ job' = [job EXCEPT ![r] =
                 [state |-> IF s \in {"ready", "generating"} /\ ~claimable THEN "completed" ELSE "active",
                  made |-> @.made + 1]]
          /\ run' = [run EXCEPT ![w] = CASE claimable -> [pc |-> "key", req |-> r]
                                         [] ~claimable /\ s \in {"ready", "generating"} -> Idle
                                         [] OTHER -> [pc |-> "catch", req |-> r]]
    /\ UNCHANGED <<req, call, file, told, raced, faults>>

\* The object key is stored, which refreshes updated_at.
StoreKey(w) ==
    /\ run[w].pc = "key"
    /\ Goto(w, "upload")
    /\ exp' = [exp EXCEPT ![run[w].req].old = FALSE]
    /\ UNCHANGED <<req, call, job, file, told, raced, faults>>

\* The data is collected and uploaded, unless the object exists.
Upload(w) ==
    /\ run[w].pc = "upload"
    /\ Goto(w, "finish")
    /\ file' = [file EXCEPT ![run[w].req] = TRUE]
    /\ UNCHANGED <<req, call, exp, job, told, raced, faults>>

\* A mutant: a failed upload goes unnoticed.
M_StorageFails(w) == /\ run[w].pc = "upload" /\ Fault("storage") /\ Goto(w, "finish")
                     /\ UNCHANGED <<req, call, exp, job, file, told, raced>>

StorageFails(w) ==
    /\ run[w].pc = "upload" /\ Fault("storage")
    /\ Goto(w, "catch")
    /\ UNCHANGED <<req, call, exp, job, file, told, raced>>

\* 'ready' only from 'generating'; otherwise another worker was here.
Finish(w) ==
    LET r == run[w].req IN
    /\ run[w].pc = "finish"
    /\ IF exp[r].status = "generating"
       THEN /\ exp' = [exp EXCEPT ![r] = [status |-> "ready", old |-> FALSE]]
            /\ Goto(w, "complete") /\ UNCHANGED job
       ELSE Leave(w, r) /\ UNCHANGED exp
    /\ UNCHANGED <<req, call, file, told, raced, faults>>

\* A mutant: the request is left to somebody else.
M_Complete(w) == /\ run[w].pc = "complete" /\ Goto(w, "tell")
                 /\ UNCHANGED <<req, call, exp, job, file, told, raced, faults>>

\* The request is completed whatever became of it.
Complete(w) ==
    /\ run[w].pc = "complete"
    /\ Goto(w, "tell")
    /\ req' = [req EXCEPT ![run[w].req] = "completed"]
    /\ UNCHANGED <<call, exp, job, file, told, raced, faults>>

Tell(w) ==
    /\ run[w].pc = "tell"
    /\ told' = told \cup {run[w].req}
    /\ Leave(w, run[w].req)
    /\ UNCHANGED <<req, call, exp, file, raced, faults>>

\* A mutant: retries without end.
M_Catch(w) == /\ run[w].pc = "catch"
              /\ run' = [run EXCEPT ![w] = Idle]
              /\ job' = [job EXCEPT ![run[w].req].state = "waiting"]
              /\ UNCHANGED <<req, call, exp, file, told, raced, faults>>

\* The catch sets 'failed' whatever the status, and rethrows.
Catch(w) ==
    LET r == run[w].req IN
    /\ run[w].pc = "catch"
    /\ run' = [run EXCEPT ![w] = Idle]
    /\ exp' = [exp EXCEPT ![r] = IF @ = Absent THEN @ ELSE [status |-> "failed", old |-> FALSE]]
    /\ job' = [job EXCEPT ![r].state =
                  IF @ # "active" THEN @ ELSE IF job[r].made < JobAttempts THEN "waiting" ELSE "failed"]
    /\ UNCHANGED <<req, call, file, told, raced, faults>>

-----------------------------------------------------------------------------
\* Ten minutes pass with the export in 'generating'.
Age(r) ==
    /\ exp[r].status = "generating" /\ ~exp[r].old
    /\ exp' = [exp EXCEPT ![r].old = TRUE]
    /\ UNCHANGED <<req, call, job, run, file, told, raced, faults>>

\* External: BullMQ hands a job to another worker when its lock has expired,
\* because the process died ("crash") or could not renew it ("stall").
Redeliver(w) ==
    /\ run[w] # Idle /\ job[run[w].req].state = "active"
    /\ job[run[w].req].made < JobAttempts
    /\ \/ Fault("crash") /\ run' = [run EXCEPT ![w] = Idle]
       \/ Fault("stall") /\ UNCHANGED run
    /\ job' = [job EXCEPT ![run[w].req].state = "waiting"]
    /\ UNCHANGED <<req, call, exp, file, told, raced>>

\* cleanupExpiredExports: an export that is not ready after a day is deleted.
CleanupExpiredExports(r) ==
    /\ exp[r].status \in {"queued", "generating"} /\ Fault("day")
    /\ exp' = [exp EXCEPT ![r] = Absent]
    /\ UNCHANGED <<req, call, job, run, file, told, raced>>

Work(w) ==
    \/ \E r \in Requests : Claim(w, r)
    \/ StoreKey(w) \/ Upload(w) \/ Finish(w) \/ Complete(w) \/ Tell(w) \/ Catch(w)
Call(r) == CreateChecks(r) \/ CreateInserts(r) \/ GenerateReads(r) \/ GenerateQueues(r)

Next ==
    \/ \E r \in Requests : Call(r) \/ CancelRequest(r) \/ Age(r) \/ CleanupExpiredExports(r)
    \/ \E w \in Workers : Work(w) \/ StorageFails(w) \/ Redeliver(w)

\* The process runs on, and BullMQ serves a waiting job while a worker is free.
Spec ==
    /\ Init /\ [][Next]_vars
    /\ \A r \in Requests : WF_vars(Call(r))
    /\ \A w \in Workers : WF_vars(Work(w))

-----------------------------------------------------------------------------
\* A user has two export requests in progress only after two calls overlapped:
\* two of createRequest, or a cancellation and the export it came too late for.
OneInProgress == Cardinality(Pending) <= 1 \/ raced

\* A request is completed, and its user told, only with the object in R2.
CompletedHasFile == \A r \in Requests : (req[r] = "completed" \/ r \in told) => file[r]

\* An export that another worker failed or that was cleaned away is never made
\* ready again: 'ready' comes from 'generating'.
ReadyFromGenerating ==
    [][\A r \in Requests :
         exp[r].status # "ready" /\ exp'[r].status = "ready" => exp[r].status = "generating"]_vars

\* A request that was made does not stay in progress: the export is ready, or the
\* user cancelled it; under the schema's NOT NULL it is rejected instead.
ExportSettles ==
    \A r \in Requests :
        req[r] = "pending" ~> req[r] \in {IF ExpiryColumn THEN "rejected" ELSE "completed", "cancelled"}

\* A cancelled request stays cancelled.
CancelledStays == [][\A r \in Requests : req[r] = "cancelled" => req'[r] = "cancelled"]_vars

\* When the job of a ready export is over, the request is completed and the
\* user is told.
ReadyIsAnnounced ==
    \A r \in Requests :
        exp[r].status = "ready" /\ job[r].state = "completed" => req[r] = "completed" /\ r \in told
=============================================================================
