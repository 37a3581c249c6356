------------------------------- MODULE Erasure --------------------------------
(***************************************************************************)
(* The deletion request of one user: cancelRequest, executeDeletion and    *)
(* deleteAndAnonymizeUserData, run by several executors beside the life of *)
(* the user's own tasks.  The triggers of the tasks table and the foreign  *)
(* key of proofs decide whether the final transaction commits.  Nothing    *)
(* under src/ calls executeDeletion, so Begin is the step of a caller      *)
(* outside and has no fairness.                                            *)
(***************************************************************************)
EXTENDS Naturals, FiniteSets

CONSTANTS
    PosterTasks,  \* tasks the user posted
    WorkerTasks,  \* tasks the user works on
    Starts,       \* how tasks may stand at the start: subset of DOMAIN Start
    Executors,    \* concurrent runs of executeDeletion
    FaultKinds,   \* subset of AllFaultKinds
    MaxFaults     \* bound on faults

Start == [none |-> <<"absent", "none">>, unfunded |-> <<"OPEN", "PENDING">>, open |-> <<"OPEN", "FUNDED">>,
          accepted |-> <<"ACCEPTED", "FUNDED">>, disputed |-> <<"DISPUTED", "LOCKED_DISPUTE">>,
          completed |-> <<"COMPLETED", "RELEASED">>]

\* Stripe fails, a statement throws, a revocation is lost, the process dies.
AllFaultKinds == {"stripe", "throw", "session", "crash"}

ErasureAssumption ==
    /\ PosterTasks \cap WorkerTasks = {} /\ Starts \subseteq DOMAIN Start
    /\ FaultKinds \subseteq AllFaultKinds /\ MaxFaults \in Nat

VARIABLES
    req,      \* gdpr_data_requests.status
    due,      \* the grace period is over
    cancel,   \* cancelRequest: "none", "read", "granted" or "refused"
    run,      \* what each executor is doing
    task,     \* state of the task and of its escrow
    user,     \* anonymized, and are the sessions revoked
    late,     \* history: tasks created after an executor listed the user's
    missed,   \* history: an executor went on without the sessions being revoked
    faults

vars == <<req, due, cancel, run, task, user, late, missed, faults>>

Tasks == PosterTasks \cup WorkerTasks
Terminal == {"COMPLETED", "CANCELLED", "EXPIRED"}
Assigned == {"ACCEPTED", "PROOF_SUBMITTED", "COMPLETED"}
Held == {"FUNDED", "LOCKED_DISPUTE"}
Idle == [pc |-> "idle", todo |-> {}]

TypeOK ==
    /\ req \in {"pending", "processing", "completed", "rejected", "cancelled"}
    /\ due \in BOOLEAN /\ cancel \in {"none", "read", "granted", "refused"}
    /\ run \in [Executors -> [pc : {"idle", "cas", "list", "posted", "worked", "erase", "revoke", "unknown", "finish", "fail"},
                              todo : SUBSET Tasks]]
    /\ task \in [Tasks -> [state : {"absent", "OPEN", "DISPUTED"} \cup Assigned \cup Terminal,
                           escrow : {"none", "PENDING", "RELEASED", "REFUNDED", "REFUND_PARTIAL"} \cup Held]]
    /\ user \in [erased : BOOLEAN, revoked : BOOLEAN]
    /\ late \subseteq Tasks /\ missed \in BOOLEAN /\ faults \in 0..MaxFaults

\* The request exists; the tasks stand in any of the given ways.
Init ==
    /\ req = "pending" /\ due = FALSE /\ cancel = "none"
    /\ run = [x \in Executors |-> Idle]
    /\ \E s \in [Tasks -> Starts] :
         /\ \A t \in WorkerTasks : Start[s[t]][1] # "OPEN"
         /\ task = [t \in Tasks |-> [state |-> Start[s[t]][1], escrow |-> Start[s[t]][2]]]
    /\ user = [erased |-> FALSE, revoked |-> FALSE]
    /\ late = {} /\ missed = FALSE /\ faults = 0

Fault(k) == k \in FaultKinds /\ faults < MaxFaults /\ faults' = faults + 1
Goto(x, pc, todo) == run' = [run EXCEPT ![x] = [pc |-> pc, todo |-> todo]]

-----------------------------------------------------------------------------
DeadlinePasses == ~due /\ due' = TRUE /\ UNCHANGED <<req, cancel, run, task, user, late, missed, faults>>

\* cancelRequest compares the deadline in the process ...
CancelReads ==
    /\ cancel = "none" /\ req \in {"pending", "processing"} /\ ~due
    /\ cancel' = "read"
    /\ UNCHANGED <<req, due, run, task, user, late, missed, faults>>

\* ... and updates by the status alone.
CancelWrites ==
    /\ cancel = "read"
    /\ IF req \in {"pending", "processing"}
       THEN req' = "cancelled" /\ cancel' = "granted"
       ELSE cancel' = "refused" /\ UNCHANGED req
    /\ UNCHANGED <<due, run, task, user, late, missed, faults>>

-----------------------------------------------------------------------------
\* External: an admin or a cron job, as a comment of createRequest expects.
Begin(x) ==
    /\ run[x] = Idle /\ due /\ req \in {"pending", "rejected"}
    /\ Goto(x, "cas", {})
    /\ UNCHANGED <<req, due, cancel, task, user, late, missed, faults>>

\* The compare-and-set that lets one executor in.
Cas(x) ==
    /\ run[x].pc = "cas"
    /\ IF req \in {"pending", "rejected"}
       THEN req' = "processing" /\ Goto(x, "list", {})
       ELSE Goto(x, "idle", {}) /\ UNCHANGED req
    /\ UNCHANGED <<due, cancel, task, user, late, missed, faults>>

\* The firebase uid is read, and the posted tasks that are not terminal are
\* listed.  A user anonymized by an earlier attempt is left alone, and the
\* uid of that row is a made-up one.
ListPosted(x) ==
    /\ run[x].pc = "list"
    /\ IF user.erased
       THEN Goto(x, "unknown", {})
       ELSE Goto(x, "posted", {t \in PosterTasks : task[t].state \notin Terminal \cup {"absent"}})
    /\ UNCHANGED <<req, due, cancel, task, user, late, missed, faults>>

\* TaskCloseService.cancel, for a listed task.
ClosePosted(x, t) ==
    /\ run[x].pc = "posted" /\ t \in run[x].todo
    /\ IF task[t].state \in {"OPEN", "ACCEPTED"}
       THEN task' = [task EXCEPT ![t].state = "CANCELLED"] /\ UNCHANGED run
       ELSE task[t].state # "CANCELLED" /\ Goto(x, "fail", {}) /\ UNCHANGED task
    /\ UNCHANGED <<req, due, cancel, user, late, missed, faults>>

\* Its escrow is then refunded: refundEscrow takes a FUNDED one only, so a
\* PENDING one ends the attempt after its payment intent was cancelled.
RefundPosted(x, t) ==
    /\ run[x].pc = "posted" /\ t \in run[x].todo /\ task[t].state = "CANCELLED"
    /\ \/ /\ task[t].escrow = "PENDING"
          /\ Goto(x, "fail", {}) /\ UNCHANGED <<task, faults>>
       \/ /\ task[t].escrow = "FUNDED" /\ Fault("stripe")
          /\ Goto(x, "fail", {}) /\ UNCHANGED task
       \/ /\ task[t].escrow # "PENDING"
          /\ task' = [task EXCEPT ![t].escrow = IF @ = "FUNDED" THEN "REFUNDED" ELSE @]
          /\ Goto(x, "posted", run[x].todo \ {t}) /\ UNCHANGED faults
    /\ UNCHANGED <<req, due, cancel, user, late, missed>>

ListWorked(x) ==
    /\ run[x].pc = "posted" /\ run[x].todo = {}
    /\ Goto(x, "worked", {t \in WorkerTasks : task[t].escrow \in Held})
    /\ UNCHANGED <<req, due, cancel, task, user, late, missed, faults>>

\* A worker's escrow: a FUNDED one is refused by refundEscrow while the task
\* is assigned, a locked one goes back to the poster.
SettleWorked(x, t) ==
    /\ run[x].pc = "worked" /\ t \in run[x].todo
    /\ \/ /\ task[t].escrow = "FUNDED" /\ task[t].state \in Assigned
          /\ Goto(x, "fail", {}) /\ UNCHANGED <<task, faults>>
       \/ /\ task[t].escrow = "LOCKED_DISPUTE"
          /\ task' = [task EXCEPT ![t].escrow = "REFUND_PARTIAL"]
          /\ Goto(x, "worked", run[x].todo \ {t}) /\ UNCHANGED faults
       \/ /\ task[t].escrow = "LOCKED_DISPUTE"   \* it was listed FUNDED, or has a platform fee
          /\ Goto(x, "fail", {}) /\ UNCHANGED <<task, faults>>
       \/ /\ task[t].escrow \notin Held   \* settled by somebody since it was listed
          /\ Goto(x, "fail", {}) /\ UNCHANGED <<task, faults>>
    /\ UNCHANGED <<req, due, cancel, user, late, missed>>

WorkedDone(x) ==
    /\ run[x].pc = "worked" /\ run[x].todo = {}
    /\ Goto(x, "erase", {})
    /\ UNCHANGED <<req, due, cancel, task, user, late, missed, faults>>

\* A row the anonymizing transaction may not write: prevent_task_terminal_mutation
\* refuses the title or the worker of a terminal task, and proofs.submitter_id
\* refuses an id that is no user's.
Refused(t) ==
    \/ task[t].state \in Terminal
    \/ t \in WorkerTasks /\ task[t].state \in {"PROOF_SUBMITTED", "DISPUTED"}

\* The serializable transaction: all of it, or none.
Anonymize(x) ==
    /\ run[x].pc = "erase"
    /\ IF \E t \in Tasks : Refused(t)
       THEN Goto(x, "fail", {}) /\ UNCHANGED user
       ELSE Goto(x, "revoke", {}) /\ user' = [user EXCEPT !.erased = TRUE]
    /\ UNCHANGED <<req, due, cancel, task, late, missed, faults>>

\* Auth cache, live streams and Firebase sessions.  A revocation that fails is
\* logged, one of a made-up uid reaches nobody; either way it goes on.
Revoke(x) ==
    /\ run[x].pc \in {"revoke", "unknown"}
    /\ Goto(x, "finish", {})
    /\ \/ run[x].pc = "revoke" /\ user' = [user EXCEPT !.revoked = TRUE] /\ UNCHANGED <<missed, faults>>
       \/ run[x].pc = "revoke" /\ Fault("session") /\ missed' = TRUE /\ UNCHANGED user
       \/ run[x].pc = "unknown" /\ missed' = TRUE /\ UNCHANGED <<user, faults>>
    /\ UNCHANGED <<req, due, cancel, task, late>>

Finish(x) ==
    /\ run[x].pc = "finish"
    /\ Goto(x, "idle", {})
    /\ req' = "completed"
    /\ UNCHANGED <<due, cancel, task, user, late, missed, faults>>

\* Any statement past the compare-and-set may throw, into the catch.
Throw(x) ==
    /\ run[x].pc \notin {"idle", "cas", "fail"} /\ Fault("throw")
    /\ Goto(x, "fail", {})
    /\ UNCHANGED <<req, due, cancel, task, user, late, missed>>

\* Both failure paths write error_message.  The schema's table lacks the column,
\* the write throws and the request keeps its status; a table that has it takes
\* 'rejected'.
Fail(x) ==
    /\ run[x].pc = "fail"
    /\ Goto(x, "idle", {})
    /\ req' \in {req, "rejected"}
    /\ UNCHANGED <<due, cancel, task, user, late, missed, faults>>

Crash(x) ==
    /\ run[x] # Idle /\ Fault("crash")
    /\ Goto(x, "idle", {})
    /\ UNCHANGED <<req, due, cancel, task, user, late, missed>>

-----------------------------------------------------------------------------
Listed == user.erased \/ \E x \in Executors : run[x].pc \notin {"idle", "cas", "list"}

\* The user goes on posting and taking tasks until the sessions are revoked.
NewTask(t) ==
    /\ task[t].state = "absent" /\ ~user.revoked
    /\ task' = [task EXCEPT ![t] = IF t \in PosterTasks THEN [state |-> "OPEN", escrow |-> "FUNDED"]
                                   ELSE [state |-> "ACCEPTED", escrow |-> "FUNDED"]]
    /\ late' = IF Listed THEN late \cup {t} ELSE late
    /\ UNCHANGED <<req, due, cancel, run, user, missed, faults>>

\* Tasks go their way: proof, dispute, completion with its release.
Progress(t) ==
    /\ \E step \in {<<"ACCEPTED", "FUNDED", "PROOF_SUBMITTED", "FUNDED">>,
                    <<"PROOF_SUBMITTED", "FUNDED", "DISPUTED", "LOCKED_DISPUTE">>,
                    <<"PROOF_SUBMITTED", "FUNDED", "COMPLETED", "RELEASED">>} :
         /\ task[t] = [state |-> step[1], escrow |-> step[2]]
         /\ task' = [task EXCEPT ![t] = [state |-> step[3], escrow |-> step[4]]]
    /\ UNCHANGED <<req, due, cancel, run, user, late, missed, faults>>

Execute(x) ==
    \/ Cas(x) \/ ListPosted(x) \/ ListWorked(x) \/ WorkedDone(x)
    \/ \E t \in Tasks : ClosePosted(x, t) \/ RefundPosted(x, t) \/ SettleWorked(x, t)
    \/ Anonymize(x) \/ Revoke(x) \/ Finish(x) \/ Fail(x)

Next ==
    \/ DeadlinePasses \/ CancelReads \/ CancelWrites
    \/ \E x \in Executors : Begin(x) \/ Execute(x) \/ Throw(x) \/ Crash(x)
    \/ \E t \in Tasks : NewTask(t) \/ Progress(t)

\* The deadline comes, and a run of executeDeletion that began goes on.
Spec == Init /\ [][Next]_vars /\ WF_vars(DeadlinePasses) /\ \A x \in Executors : WF_vars(Execute(x))

-----------------------------------------------------------------------------
\* Only one executor is past the compare-and-set, so no two of them cancel
\* tasks, refund escrows or anonymize at the same time.  A cancellation that
\* came late takes the status away, but 'cancelled' lets nobody in.
OneExecutor == Cardinality({x \in Executors : run[x].pc \notin {"idle", "cas"}}) <= 1

\* The money of an erased user's task is not held any more, unless the task
\* was created after the executor had listed them.
ErasedOwesNothing == user.erased => \A t \in Tasks : task[t].escrow \in Held => t \in late

\* A completed request is an erased user.  The sessions are revoked, too, unless
\* the revocation was lost, or the attempt that erased the user ended before
\* it and a later one found nobody to revoke.
CompletedIsErased == req = "completed" => user.erased /\ (user.revoked \/ missed)

\* A run of executeDeletion that took the request of a user without tasks carries
\* it out: no statement of it waits for anything.
BegunDeletionEnds == req = "processing" ~> req \in {"completed", "cancelled"}

\* Not so, as nothing calls executeDeletion: a due request is carried out.
DeletionHappens == due /\ req = "pending" ~> req \in {"completed", "cancelled"}

\* A user whose cancellation was granted is not erased.
CancelledKeepsData == cancel = "granted" => ~user.erased

\* A request in 'processing' has an executor: a failed one can be retried.
ProcessingHasAnExecutor == req = "processing" => \E x \in Executors : run[x].pc \notin {"idle", "cas"}

\* The escrow of a task that was cancelled for the erasure is refunded, by
\* this attempt or by the next.
CancelledIsRefunded ==
    \A t \in PosterTasks : task[t] = [state |-> "CANCELLED", escrow |-> "FUNDED"] ~> task[t].escrow = "REFUNDED"
=============================================================================
