---------------------------- MODULE TaskLifecycle -----------------------------
(***************************************************************************)
(* One task from posting to its close: applications, the four ways a       *)
(* worker gets it, progress, the execution scope and its changes, proofs   *)
(* and their review, completion, dispute, cancellation, abandonment and    *)
(* expiry.  A transaction that locks the task's row is one action; what    *)
(* the code leaves between two transactions, or reads without a lock, is a *)
(* state here.  What the requested payouts and refunds do with the money   *)
(* is the business of Settlement.                                          *)
(***************************************************************************)
EXTENDS Naturals, Sequences, FiniteSets, SequenceTheorems, TLAPS

CONSTANTS
    Workers,
    Modes,       \* how the task was posted: subset of AllModes
    Paths,       \* how a worker may get it: subset of AllPaths
    LateFee,     \* does the cancellation policy keep a share after its window
    Faults,      \* can a process die between a review and the task's update, or that fail
    MaxProofs,   \* bound on proofs
    MaxVersions  \* bound on versions of the scope

AllModes == {"standard", "consent", "instant"}
AllPaths == {"assign", "consent", "accept", "reserve"}

LifecycleAssumption ==
    /\ Modes \subseteq AllModes /\ Modes # {} /\ Paths \subseteq AllPaths
    /\ LateFee \in BOOLEAN /\ Faults \in BOOLEAN
    /\ MaxProofs \in Nat \ {0} /\ MaxVersions \in Nat \ {0}

None == "none"
NoneAssumption == None \notin Workers

VARIABLES
    task,       \* the tasks row
    res,        \* worker of the ACTIVE task_reservations row
    escrow,     \* the escrow's state, as far as the task moves it
    jobs,       \* payouts and refunds requested
    app,        \* task_applications by worker
    assigning,  \* worker an assignWorker transaction has checked
    scope,      \* active version, pending proposal, is the checklist complete
    proofs,     \* in order of creation
    rejecting,  \* a rejection's second transaction: none, "due" or "lost"
    message     \* first recorded delivery of the completion message

vars == <<task, res, escrow, jobs, app, assigning, scope, proofs, rejecting, message>>

States == {"OPEN", "MATCHING", "ACCEPTED", "PROOF_SUBMITTED", "DISPUTED",
           "COMPLETED", "CANCELLED", "EXPIRED"}
Progress == {"POSTED", "ACCEPTED", "TRAVELING", "WORKING", "COMPLETED"}

TaskRows == [mode : Modes, state : States, worker : Workers \cup {None}, progress : Progress,
             ready : {None, "poster", "unattended"}]
ScopeRows == [version : 1..MaxVersions, pending : BOOLEAN, done : BOOLEAN]
ProofRows == [state : {"SUBMITTED", "ACCEPTED", "REJECTED"}, version : 1..MaxVersions]

TypeOK ==
    /\ task \in TaskRows
    /\ res \in Workers \cup {None}
    /\ escrow \in {"PENDING", "FUNDED", "LOCKED_DISPUTE"}
    /\ jobs \subseteq {"release", "refund", "partial", "cancel_intent"}
    /\ app \in [Workers -> {None, "pending", "accepted", "rejected", "withdrawn"}]
    /\ assigning \in Workers \cup {None}
    /\ scope \in ScopeRows
    /\ proofs \in Seq(ProofRows) /\ Len(proofs) <= MaxProofs
    /\ rejecting \in {None, "due", "lost"}
    /\ message \in [proof : 0..MaxProofs, old : BOOLEAN]

Init ==
    /\ \E m \in Modes :
         task = [mode |-> m, state |-> IF m = "instant" THEN "MATCHING" ELSE "OPEN", worker |-> None,
                 progress |-> "POSTED", ready |-> None]
    /\ res = None /\ escrow = "PENDING" /\ jobs = {}
    /\ app = [w \in Workers |-> None]
    /\ assigning = None
    /\ scope = [version |-> 1, pending |-> FALSE, done |-> FALSE]
    /\ proofs = <<>> /\ rejecting = None
    /\ message = [proof |-> 0, old |-> FALSE]

\* The task's row is free; assignWorker holds it from its checks to its commit.
Unlocked == assigning = None
Latest == proofs[Len(proofs)].state
ActiveProof == \E i \in DOMAIN proofs : proofs[i].state = "SUBMITTED"

\* enforce_task_worker_eligibility_on_accept: HXWE12.
Eligible == escrow = "FUNDED"

Unfilled == task.state \in {"OPEN", "MATCHING"} /\ task.worker = None

-----------------------------------------------------------------------------
\* The poster's payment arrives.
Fund ==
    /\ escrow = "PENDING" /\ jobs = {}
    /\ escrow' = "FUNDED"
    /\ UNCHANGED <<task, res, jobs, app, assigning, scope, proofs, rejecting, message>>

\* applyForTask: one application per worker that is not rejected or withdrawn.
Apply(w) ==
    /\ Unlocked /\ task.state = "OPEN" /\ app[w] \notin {"pending", "accepted"}
    /\ app' = [app EXCEPT ![w] = "pending"]
    /\ UNCHANGED <<task, res, escrow, jobs, assigning, scope, proofs, rejecting, message>>

\* withdrawApplication and rejectApplicant take no lock on the task.
Withdraw(w) ==
    /\ app[w] = "pending"
    /\ app' = [app EXCEPT ![w] = "withdrawn"]
    /\ UNCHANGED <<task, res, escrow, jobs, assigning, scope, proofs, rejecting, message>>

RejectApplicant(w) ==
    /\ task.state \notin {"PROOF_SUBMITTED", "COMPLETED", "CANCELLED", "DISPUTED"}
    /\ app[w] = "pending"
    /\ app' = [app EXCEPT ![w] = "rejected"]
    /\ UNCHANGED <<task, res, escrow, jobs, assigning, scope, proofs, rejecting, message>>

\* assignWorker up to verifyFunded: the task is locked, the application only read.
AssignChecks(w) ==
    /\ "assign" \in Paths /\ Unlocked
    /\ task.state = "OPEN" /\ task.mode # "consent"
    /\ app[w] = "pending" /\ escrow = "FUNDED"
    /\ assigning' = w
    /\ UNCHANGED <<task, res, escrow, jobs, app, scope, proofs, rejecting, message>>

\* commitAssignment: no progress_state, no reservation; its update finds the row
\* as it was checked, and the trigger looks at the escrow again.
AssignCommits(w) ==
    /\ assigning = w /\ assigning' = None
    /\ IF task.state = "OPEN" /\ Eligible
       THEN /\ app' = [v \in Workers |-> IF v = w THEN "accepted"
                                         ELSE IF app[v] = "pending" THEN "rejected" ELSE app[v]]
            /\ task' = [task EXCEPT !.state = "ACCEPTED", !.worker = w]
       ELSE UNCHANGED <<app, task>>
    /\ UNCHANGED <<res, escrow, jobs, scope, proofs, rejecting, message>>

\* acceptWithConsent: the worker's own pending application; the funds are left to
\* the trigger.
Consent(w) ==
    /\ "consent" \in Paths /\ Unlocked /\ Eligible
    /\ task.state = "OPEN" /\ task.mode = "consent" /\ app[w] = "pending"
    /\ task' = [task EXCEPT !.state = "ACCEPTED", !.worker = w]
    /\ UNCHANGED <<res, escrow, jobs, app, assigning, scope, proofs, rejecting, message>>

\* TaskAcceptService: the nested advanceProgress waits, on a connection of its
\* own, for the row its caller has locked, and its time-out is not looked at.
Accept(w) ==
    /\ "accept" \in Paths /\ Unlocked
    /\ task.state = "MATCHING" /\ task.mode # "consent" /\ task.worker = None /\ Eligible
    /\ task' = [task EXCEPT !.state = "ACCEPTED", !.worker = w]
    /\ UNCHANGED <<res, escrow, jobs, app, assigning, scope, proofs, rejecting, message>>

\* A mutant: the task is given out without its progress.
M_Reserve(w) ==
    /\ "reserve" \in Paths /\ Unlocked /\ Unfilled /\ escrow = "FUNDED"
    /\ task' = [task EXCEPT !.state = "ACCEPTED", !.worker = w]
    /\ res' = w
    /\ UNCHANGED <<escrow, jobs, app, assigning, scope, proofs, rejecting, message>>

Reserve(w) ==
    /\ "reserve" \in Paths /\ Unlocked /\ Unfilled /\ escrow = "FUNDED"
    /\ task' = [task EXCEPT !.state = "ACCEPTED", !.worker = w, !.progress = "ACCEPTED"]
    /\ res' = w
    /\ UNCHANGED <<escrow, jobs, app, assigning, scope, proofs, rejecting, message>>

-----------------------------------------------------------------------------
\* advanceProgress to TRAVELING: the task's state is not asked for.
MarkTraveling ==
    /\ Unlocked /\ task.worker # None /\ task.progress = "ACCEPTED"
    /\ ~scope.pending /\ task.state # "DISPUTED"
    /\ task' = [task EXCEPT !.progress = "TRAVELING"]
    /\ UNCHANGED <<res, escrow, jobs, app, assigning, scope, proofs, rejecting, message>>

\* A mutant: a pending change of the scope does not stop the start.
M_StartWork ==
    /\ Unlocked /\ task.worker # None /\ task.state = "ACCEPTED" /\ res = task.worker
    /\ task.progress = "TRAVELING"
    /\ task' = [task EXCEPT !.progress = "WORKING"]
    /\ UNCHANGED <<res, escrow, jobs, app, assigning, scope, proofs, rejecting, message>>

StartWork ==
    /\ Unlocked /\ task.worker # None /\ task.state = "ACCEPTED" /\ res = task.worker
    /\ ~scope.pending /\ task.progress = "TRAVELING"
    /\ task' = [task EXCEPT !.progress = "WORKING"]
    /\ UNCHANGED <<res, escrow, jobs, app, assigning, scope, proofs, rejecting, message>>

\* setChecklistItem, for the item that completes the list or reopens it.
SetChecklist(done) ==
    /\ Unlocked /\ task.state = "ACCEPTED" /\ task.progress = "WORKING" /\ ~scope.pending
    /\ scope.done # done
    /\ scope' = [scope EXCEPT !.done = done]
    /\ UNCHANGED <<task, res, escrow, jobs, app, assigning, proofs, rejecting, message>>

\* One pending proposal per task (task_scope_one_pending_change_uniq).
ProposeChange ==
    /\ Unlocked /\ task.state = "ACCEPTED" /\ ~ActiveProof /\ ~scope.pending
    /\ scope.version < MaxVersions
    /\ scope' = [scope EXCEPT !.pending = TRUE]
    /\ UNCHANGED <<task, res, escrow, jobs, app, assigning, proofs, rejecting, message>>

\* An approved change is a new version with a checklist nobody has ticked.
ReviewChange(approved) ==
    /\ Unlocked /\ task.state = "ACCEPTED" /\ scope.pending /\ (approved => ~ActiveProof)
    /\ scope' = IF approved THEN [version |-> scope.version + 1, pending |-> FALSE, done |-> FALSE]
                ELSE [scope EXCEPT !.pending = FALSE]
    /\ UNCHANGED <<task, res, escrow, jobs, app, assigning, proofs, rejecting, message>>

-----------------------------------------------------------------------------
\* The proof and the task's state in one transaction.
SubmitProof ==
    /\ Unlocked /\ task.state = "ACCEPTED" /\ ~scope.pending /\ scope.done /\ ~ActiveProof
    /\ task.progress = "WORKING" /\ Len(proofs) < MaxProofs
    /\ proofs' = Append(proofs, [state |-> "SUBMITTED", version |-> scope.version])
    /\ task' = [task EXCEPT !.state = "PROOF_SUBMITTED"]
    /\ UNCHANGED <<res, escrow, jobs, app, assigning, scope, rejecting, message>>

\* commitReview: the proof's decision, in a transaction of its own.
ReviewProof(accepted) ==
    /\ Unlocked /\ task.state = "PROOF_SUBMITTED" /\ Latest = "SUBMITTED"
    /\ proofs' = [proofs EXCEPT ![Len(proofs)].state = IF accepted THEN "ACCEPTED" ELSE "REJECTED"]
    /\ rejecting' = IF accepted THEN None ELSE "due"
    /\ UNCHANGED <<task, res, escrow, jobs, app, assigning, scope, message>>

\* A mutant: rejectProof looks for the state it is about to set.
M_RejectProof ==
    /\ Unlocked /\ rejecting = "due" /\ rejecting' = None
    /\ task' = IF task.state = "ACCEPTED" THEN [task EXCEPT !.state = "ACCEPTED"] ELSE task
    /\ UNCHANGED <<res, escrow, jobs, app, assigning, scope, proofs, message>>

\* rejectProof: the second transaction of a rejection; it fails if the task moved on.
RejectProof ==
    /\ Unlocked /\ rejecting = "due" /\ rejecting' = None
    /\ task' = IF task.state = "PROOF_SUBMITTED" THEN [task EXCEPT !.state = "ACCEPTED"] ELSE task
    /\ UNCHANGED <<res, escrow, jobs, app, assigning, scope, proofs, message>>

\* The second transaction fails, or the process dies before it: the request ends with
\* an error, and its repetition finds a proof that is no longer SUBMITTED.
RejectionLost ==
    /\ Faults /\ rejecting = "due" /\ rejecting' = "lost"
    /\ UNCHANGED <<task, res, escrow, jobs, app, assigning, scope, proofs, message>>

\* The completion message is delivered; only the first delivery is kept.
RecordDelivery ==
    /\ Unlocked /\ task.state = "PROOF_SUBMITTED" /\ message.proof = 0
    /\ message' = [proof |-> Len(proofs), old |-> FALSE]
    /\ UNCHANGED <<task, res, escrow, jobs, app, assigning, scope, proofs, rejecting>>

Wait24Hours ==
    /\ message.proof # 0 /\ ~message.old
    /\ message' = [message EXCEPT !.old = TRUE]
    /\ UNCHANGED <<task, res, escrow, jobs, app, assigning, scope, proofs, rejecting>>

\* A mutant: completion does not look at the proof.
M_CompleteTask(mode) ==
    /\ Unlocked /\ task.state = "PROOF_SUBMITTED" /\ escrow = "FUNDED"
    /\ mode = "unattended" => message.old
    /\ task' = [task EXCEPT !.state = "COMPLETED", !.progress = "COMPLETED", !.ready = mode]
    /\ jobs' = jobs \cup {"release"}
    /\ UNCHANGED <<res, escrow, app, assigning, scope, proofs, rejecting, message>>

\* The poster's confirmation is a review and then this; both can be repeated.
CompleteTask(mode) ==
    /\ Unlocked /\ task.state = "PROOF_SUBMITTED" /\ Latest = "ACCEPTED" /\ escrow = "FUNDED"
    /\ mode = "unattended" => message.old
    /\ task' = [task EXCEPT !.state = "COMPLETED", !.progress = "COMPLETED", !.ready = mode]
    /\ jobs' = jobs \cup {"release"}
    /\ UNCHANGED <<res, escrow, app, assigning, scope, proofs, rejecting, message>>

-----------------------------------------------------------------------------
\* DisputeService.create; a released escrow is locked as well.
OpenDispute ==
    /\ Unlocked /\ task.state \in {"PROOF_SUBMITTED", "COMPLETED"} /\ escrow = "FUNDED"
    /\ task' = [task EXCEPT !.state = "DISPUTED"]
    /\ escrow' = "LOCKED_DISPUTE"
    /\ UNCHANGED <<res, jobs, app, assigning, scope, proofs, rejecting, message>>

\* The outcome of a dispute; a release accepts every proof that is not.
ResolveDispute(outcome) ==
    /\ Unlocked /\ task.state = "DISPUTED"
    /\ IF outcome = "release"
       THEN /\ proofs' = [i \in DOMAIN proofs |-> [proofs[i] EXCEPT !.state = "ACCEPTED"]]
            /\ task' = [task EXCEPT !.state = "COMPLETED"]
       ELSE task' = [task EXCEPT !.state = "CANCELLED"] /\ UNCHANGED proofs
    /\ jobs' = jobs \cup {outcome}
    /\ UNCHANGED <<res, escrow, app, assigning, scope, rejecting, message>>

\* The worker gives the task up: it is cancelled and the escrow locked for its refund.
Abandon ==
    /\ Unlocked /\ task.state = "ACCEPTED"
    /\ task' = [task EXCEPT !.state = "CANCELLED", !.worker = None]
    /\ IF escrow = "FUNDED" THEN escrow' = "LOCKED_DISPUTE" /\ jobs' = jobs \cup {"refund"}
       ELSE UNCHANGED <<escrow, jobs>>
    /\ UNCHANGED <<res, app, assigning, scope, proofs, rejecting, message>>

\* The poster cancels; the escrow stays FUNDED until the job has run.
Cancel ==
    /\ Unlocked /\ task.state \in {"OPEN", "MATCHING", "ACCEPTED"}
    /\ task' = [task EXCEPT !.state = "CANCELLED"]
    /\ IF escrow = "FUNDED"
       THEN \E late \in {FALSE} \cup (IF task.state = "ACCEPTED" THEN {LateFee} ELSE {}) :
              jobs' = jobs \cup {IF late THEN "partial" ELSE "refund"}
       ELSE UNCHANGED jobs
    /\ UNCHANGED <<res, escrow, app, assigning, scope, proofs, rejecting, message>>

\* A mutant: the API's name of the state is stored.
M_ExpireUnfilled ==
    /\ Unlocked /\ Unfilled /\ res = None
    /\ task' = [task EXCEPT !.state = "EXPIRED_UNFILLED"]
    /\ UNCHANGED <<res, escrow, jobs, app, assigning, scope, proofs, rejecting, message>>

\* The dispatch window is over and nobody has the task.
ExpireUnfilled ==
    /\ Unlocked /\ Unfilled /\ res = None
    /\ task' = [task EXCEPT !.state = "EXPIRED"]
    /\ IF escrow = "FUNDED" THEN escrow' = "LOCKED_DISPUTE" /\ jobs' = jobs \cup {"refund"}
       ELSE jobs' = jobs \cup {"cancel_intent"} /\ UNCHANGED escrow
    /\ UNCHANGED <<res, app, assigning, scope, proofs, rejecting, message>>

-----------------------------------------------------------------------------
Hire == \E w \in Workers :
    \/ Apply(w) \/ Withdraw(w) \/ RejectApplicant(w)
    \/ AssignChecks(w) \/ AssignCommits(w) \/ Consent(w) \/ Accept(w) \/ Reserve(w)

Work == \/ MarkTraveling \/ StartWork
        \/ \E b \in BOOLEAN : SetChecklist(b) \/ ReviewChange(b)
        \/ ProposeChange \/ SubmitProof

Review == \/ \E b \in BOOLEAN : ReviewProof(b)
          \/ RejectProof \/ RejectionLost
          \/ RecordDelivery \/ Wait24Hours
          \/ \E m \in {"poster", "unattended"} : CompleteTask(m)

Close == \/ OpenDispute
         \/ \E o \in {"release", "refund", "partial"} : ResolveDispute(o)
         \/ Abandon \/ Cancel \/ ExpireUnfilled

Next == Fund \/ Hire \/ Work \/ Review \/ Close

\* A started transaction ends, and the request that rejected a proof goes on to
\* its second transaction; with Faults that may be lost instead.
Fairness == /\ \A w \in Workers : WF_vars(AssignCommits(w))
            /\ WF_vars(RejectProof)

Spec == Init /\ [][Next]_vars
FairSpec == Spec /\ Fairness

-----------------------------------------------------------------------------
(***************************************************************************)
(* What the engine tells of a task: the list for its administrators, with  *)
(* the next automatic step or what blocks it, and the answer for the       *)
(* bridge, which refuses rows that contradict one another.                 *)
(***************************************************************************)
\* The first rule that applies names the state; else it is the task's own.
FirstOf(rules) ==
    LET applies == {i \in DOMAIN rules : rules[i][2]} IN
    IF applies = {} THEN task.state ELSE rules[CHOOSE i \in applies : \A j \in applies : i <= j][1]

\* started_at is never taken back.
Started == task.progress \in {"WORKING", "COMPLETED"}
Dispatched == escrow = "FUNDED" /\ task.state \in {"OPEN", "MATCHING"}

ListRules ==
    <<<<"EXPIRED_UNFILLED", task.state = "EXPIRED">>, <<"PAYOUT_READY", task.ready # None>>,
      <<"COMPLETED", task.state = "COMPLETED">>, <<"PROOF_SUBMITTED", task.state = "PROOF_SUBMITTED">>,
      <<"IN_PROGRESS", Started>>, <<"ENGINE_RESERVED", task.state = "ACCEPTED" /\ res # None>>,
      <<"DISPATCH_READY", Dispatched>>, <<"PAYMENT_PENDING", escrow = "PENDING">>>>
Listed == FirstOf(ListRules)

BridgeRules ==
    <<<<"PAYOUT_READY", task.ready # None>>, <<"COMPLETED", task.state = "COMPLETED">>,
      <<"PROOF_SUBMITTED", task.state = "PROOF_SUBMITTED">>,
      <<"IN_PROGRESS", task.progress \in {"WORKING", "TRAVELING"}>>,
      <<"ENGINE_RESERVED", task.state = "ACCEPTED" /\ res # None>>,
      <<"DISPATCH_READY", Dispatched>>, <<"PAYMENT_PENDING", escrow = "PENDING">>>>
Bridged == FirstOf(BridgeRules)

Blocked ==
    \/ Listed = "COMPLETED" /\ task.ready = None
    \/ Listed = "PROOF_SUBMITTED" /\ Latest # "ACCEPTED"
    \/ task.state = "ACCEPTED" /\ res = None
    \/ task.state \in {"OPEN", "MATCHING"} /\ escrow # "FUNDED"

\* An expired task's refund, or the cancellation of its payment, is PENDING.
NextStep ==
    [EXPIRED_UNFILLED |-> "PROCESS_REFUND", PAYOUT_READY |-> "AWAIT_PAYOUT_RELEASE",
     COMPLETED |-> "RECONCILE_PAYOUT_READY", PROOF_SUBMITTED |-> "AWAIT_COMPLETION_CONFIRMATION",
     IN_PROGRESS |-> "AWAIT_PROOF", ENGINE_RESERVED |-> "AWAIT_START", DISPATCH_READY |-> "START_HARD_DISPATCH",
     PAYMENT_PENDING |-> "AWAIT_PAYMENT"]
NextAction == IF Listed \in DOMAIN NextStep THEN NextStep[Listed] ELSE None

\* Only the poster's confirmation is stored as one.
Contradictory ==
    \/ res # None /\ task.worker # res
    \/ /\ Bridged \in {"COMPLETED", "PAYOUT_READY"}
       /\ \/ task.state # "COMPLETED" \/ task.progress # "COMPLETED" \/ task.ready # "poster"
          \/ Latest # "ACCEPTED"

-----------------------------------------------------------------------------
\* An accepted task can be worked on: its progress has begun and its worker
\* holds the active reservation that the start of the work demands.
AcceptedCanWork ==
    task.state = "ACCEPTED" => task.progress \in {"ACCEPTED", "TRAVELING", "WORKING"} /\ res = task.worker

\* An application its worker has withdrawn, or the poster has rejected, is
\* never the one that is accepted: only a pending one is.
WithdrawnIsNotAssigned ==
    [][\A w \in Workers : app[w] \in {"withdrawn", "rejected"} => app'[w] # "accepted"]_vars

\* A completed task's latest proof was accepted and proves the scope that is
\* in force, and so does every proof that waits for its review.
ProofMatchesScope ==
    /\ task.state = "COMPLETED" => Latest = "ACCEPTED"
    /\ task.state \in {"PROOF_SUBMITTED", "DISPUTED", "COMPLETED"} =>
         proofs[Len(proofs)].version = scope.version

\* A task that asked for a refund is closed and is never taken up again, and a
\* whole and a partial refund are never both asked for.
RefundIsFinal ==
    /\ {"refund", "partial"} \cap jobs # {} => task.state \in {"CANCELLED", "EXPIRED"}
    /\ ~({"refund", "partial"} \subseteq jobs)

\* While a change of the scope waits for its decision, execution is frozen: no
\* progress, no ticked item and no proof.
Frozen ==
    scope.pending /\ scope'.pending =>
      task'.progress = task.progress /\ scope'.done = scope.done /\ proofs' = proofs
FrozenByProposal == [][Frozen]_vars

\* Unattended completion has waited 24 hours after a message about the proof
\* that it completes the task on.
UnattendedWaits == task.ready = "unattended" => message.proof = Len(proofs)

\* A rejected proof gives the task back to its worker, or the task is closed, unless
\* the second transaction of the rejection was lost: then nothing repeats it.
RejectedIsRetaken ==
    (task.state = "PROOF_SUBMITTED" /\ Latest = "REJECTED") ~> (task.state # "PROOF_SUBMITTED" \/ rejecting = "lost")

\* A worker travels for a task that is accepted.
TravelsWhenAccepted ==
    [][task'.progress = "TRAVELING" /\ task.progress # "TRAVELING" => task.state = "ACCEPTED"]_vars

\* The funds of a task that a worker has accepted are held for it.
AcceptedIsFunded == task.state = "ACCEPTED" => escrow = "FUNDED"

\* The engine's reports are right about what goes on: hard dispatch is announced for a
\* funded task without worker or refund; a task that is not closed has a next step or a
\* blocker; list and bridge agree on it, but for a worker on the way; and the bridge
\* answers for every task that its poster confirmed and nobody disputed.
ReportsAgree ==
    /\ NextAction = "START_HARD_DISPATCH" => Unfilled /\ res = None /\ jobs = {}
    /\ task.state \notin {"CANCELLED", "EXPIRED"} =>
         /\ NextAction # None \/ Blocked
         /\ Listed = Bridged \/ task.progress = "TRAVELING"
    /\ task.state = "COMPLETED" /\ task.ready = "poster" /\ escrow # "LOCKED_DISPUTE" =>
         ~Contradictory

\* What a task's state says about its proof and its money is so, and what is told of it.
StateIsBacked == ProofMatchesScope /\ RefundIsFinal /\ AcceptedIsFunded /\ ReportsAgree
-----------------------------------------------------------------------------
(***************************************************************************)
(* The invariant behind the properties: what the state of the task's row   *)
(* says of the rest of the row, of the escrow and the jobs, and of the     *)
(* proofs and the scope.                                                   *)
(***************************************************************************)
Taken == {"ACCEPTED", "PROOF_SUBMITTED", "DISPUTED", "COMPLETED"}

RowSound ==
    /\ task.state \in {"OPEN", "MATCHING"} => task.worker = None /\ res = None /\ task.progress = "POSTED"
    /\ task.state \in {"OPEN", "MATCHING", "ACCEPTED", "PROOF_SUBMITTED"} =>
           task.ready = None /\ task.progress # "COMPLETED"
    /\ task.state \in Taken => task.worker # None /\ res \in {None, task.worker}
    /\ task.state \in {"PROOF_SUBMITTED", "DISPUTED", "COMPLETED"} => task.progress \in {"WORKING", "COMPLETED"}
    /\ task.ready # None <=> task.progress = "COMPLETED"

MoneySound ==
    /\ task.state \in {"OPEN", "MATCHING", "ACCEPTED", "PROOF_SUBMITTED"} => jobs = {}
    /\ task.state \in {"ACCEPTED", "PROOF_SUBMITTED"} => escrow = "FUNDED"
    /\ task.state = "DISPUTED" => escrow = "LOCKED_DISPUTE"
    /\ RefundIsFinal

ProofSound ==
    /\ task.state \in {"PROOF_SUBMITTED", "DISPUTED", "COMPLETED"} => proofs # <<>>
    /\ ProofMatchesScope

ScopeSound == scope.pending => scope.version < MaxVersions /\ task.state \in {"ACCEPTED", "CANCELLED"}

LifeInv == TypeOK /\ RowSound /\ MoneySound /\ ProofSound /\ ScopeSound

LEMMA LifeInit == ASSUME LifecycleAssumption, NoneAssumption, Init PROVE LifeInv
<1>1. task \in TaskRows /\ scope \in ScopeRows
  BY DEF LifecycleAssumption, Init, TaskRows, ScopeRows, States, Progress
<1>2. TypeOK
  <2>1. proofs \in Seq(ProofRows) /\ Len(proofs) = 0
    BY DEF Init
  <2>2. app \in [Workers -> {None, "pending", "accepted", "rejected", "withdrawn"}]
    BY DEF Init
  <2>3. message \in [proof : 0..MaxProofs, old : BOOLEAN]
    BY DEF Init, LifecycleAssumption
  <2>4. /\ res = None /\ escrow = "PENDING" /\ jobs = {} /\ assigning = None /\ rejecting = None
    BY DEF Init
  <2>5. Len(proofs) <= MaxProofs
    BY <2>1 DEF LifecycleAssumption
  <2> QED BY <1>1, <2>1, <2>2, <2>3, <2>4, <2>5 DEF TypeOK
<1>3. RowSound /\ MoneySound /\ ProofSound /\ ScopeSound
  BY DEF Init, RowSound, MoneySound, RefundIsFinal, ProofSound, ProofMatchesScope, ScopeSound, Taken, None
<1> QED BY <1>2, <1>3 DEF LifeInv

\* Every step keeps the types.
LEMMA LifeTyped == ASSUME LifecycleAssumption, LifeInv, [Next]_vars PROVE TypeOK'
<1>t. task \in TaskRows /\ scope \in ScopeRows /\ proofs \in Seq(ProofRows)
  BY DEF LifeInv, TypeOK
<1>i. TypeOK /\ ScopeSound /\ ProofSound
  BY DEF LifeInv
<1> USE <1>i
<1>1. CASE Fund
  BY <1>1 DEF Fund, TypeOK
<1>2. ASSUME NEW w \in Workers, Apply(w) \/ Withdraw(w) \/ RejectApplicant(w) \/ AssignChecks(w) PROVE TypeOK'
  BY <1>2 DEF Apply, Withdraw, RejectApplicant, AssignChecks, TypeOK
<1>3. ASSUME NEW w \in Workers, AssignCommits(w) PROVE TypeOK'
  <2>1. task' \in TaskRows
    BY <1>3, <1>t DEF AssignCommits, TaskRows, States, Progress
  <2> QED BY <1>3, <2>1 DEF AssignCommits, TypeOK
<1>4. ASSUME NEW w \in Workers, Consent(w) PROVE TypeOK'
  <2>1. task' \in TaskRows
    BY <1>4, <1>t DEF Consent, TaskRows, States, Progress
  <2> QED BY <1>4, <2>1 DEF Consent, TypeOK
<1>5. ASSUME NEW w \in Workers, Accept(w) PROVE TypeOK'
  <2>1. task' \in TaskRows
    BY <1>5, <1>t DEF Accept, TaskRows, States, Progress
  <2> QED BY <1>5, <2>1 DEF Accept, TypeOK
<1>6. ASSUME NEW w \in Workers, Reserve(w) PROVE TypeOK'
  <2>1. task' \in TaskRows
    BY <1>6, <1>t DEF Reserve, TaskRows, States, Progress
  <2> QED BY <1>6, <2>1 DEF Reserve, TypeOK
<1>7. CASE MarkTraveling \/ StartWork
  <2>1. task' \in TaskRows
    BY <1>7, <1>t DEF MarkTraveling, StartWork, TaskRows, States, Progress
  <2> QED BY <1>7, <2>1 DEF MarkTraveling, StartWork, TypeOK
<1>8. ASSUME NEW b \in BOOLEAN, SetChecklist(b) \/ ReviewChange(b) \/ ProposeChange PROVE TypeOK'
  <2>1. scope' \in ScopeRows
    <3>1. CASE SetChecklist(b) \/ ProposeChange
      BY <1>8, <1>t, <3>1 DEF SetChecklist, ProposeChange, ScopeRows
    <3>2. CASE ReviewChange(b)
      <4>1. scope.version \in 1..MaxVersions /\ scope.version < MaxVersions /\ MaxVersions \in Nat
        BY <1>t, <3>2 DEF ReviewChange, ScopeSound, ScopeRows, LifecycleAssumption
      <4>2. scope.version + 1 \in 1..MaxVersions
        BY <4>1
      <4> QED BY <1>t, <3>2, <4>2 DEF ReviewChange, ScopeRows
    <3> QED BY <1>8, <3>1, <3>2
  <2> QED BY <1>8, <2>1 DEF SetChecklist, ReviewChange, ProposeChange, TypeOK
<1>9. CASE SubmitProof
  <2>1. [state |-> "SUBMITTED", version |-> scope.version] \in ProofRows
    BY <1>t DEF ProofRows, ScopeRows
  <2>2. proofs' \in Seq(ProofRows) /\ Len(proofs') = Len(proofs) + 1 /\ Len(proofs) \in Nat
    BY <1>9, <1>t, <2>1 DEF SubmitProof
  <2>3. task' \in TaskRows
    BY <1>9, <1>t DEF SubmitProof, TaskRows, States
  <2>4. Len(proofs') <= MaxProofs
    BY <1>9, <2>2 DEF SubmitProof, LifecycleAssumption
  <2> QED BY <1>9, <2>2, <2>3, <2>4 DEF SubmitProof, TypeOK
<1>10. ASSUME NEW b \in BOOLEAN, ReviewProof(b) PROVE TypeOK'
  <2>1. proofs' \in Seq(ProofRows) /\ Len(proofs') = Len(proofs)
    <3>1. \A r \in ProofRows, s \in {"ACCEPTED", "REJECTED"} : [r EXCEPT !.state = s] \in ProofRows
      BY DEF ProofRows
    <3>2. Len(proofs) \in 1..Len(proofs) /\ proofs[Len(proofs)] \in ProofRows
      BY <1>10, <1>t DEF ReviewProof, ProofSound
    <3>3. PICK r \in ProofRows : proofs' = [proofs EXCEPT ![Len(proofs)] = r]
      BY <1>10, <3>1, <3>2 DEF ReviewProof
    <3> QED BY <1>t, <3>2, <3>3, ExceptSeq
  <2> QED BY <1>10, <2>1 DEF ReviewProof, TypeOK
<1>11. CASE RejectProof
  <2>1. task' \in TaskRows
    BY <1>11, <1>t DEF RejectProof, TaskRows, States, Progress
  <2> QED BY <1>11, <2>1 DEF RejectProof, TypeOK
<1>12. CASE RejectionLost
  BY <1>12 DEF RejectionLost, TypeOK
<1>13. CASE RecordDelivery
  <2>1. Len(proofs) \in 0..MaxProofs
    BY DEF TypeOK, LifecycleAssumption
  <2> QED BY <1>13, <2>1 DEF RecordDelivery, TypeOK
<1>14. CASE Wait24Hours
  BY <1>14 DEF Wait24Hours, TypeOK
<1>15. ASSUME NEW m \in {"poster", "unattended"}, CompleteTask(m) PROVE TypeOK'
  <2>1. task' \in TaskRows
    BY <1>15, <1>t DEF CompleteTask, TaskRows, States, Progress
  <2> QED BY <1>15, <2>1 DEF CompleteTask, TypeOK
<1>16. CASE OpenDispute
  <2>1. task' \in TaskRows
    BY <1>16, <1>t DEF OpenDispute, TaskRows, States, Progress
  <2> QED BY <1>16, <2>1 DEF OpenDispute, TypeOK
<1>17. ASSUME NEW o \in {"release", "refund", "partial"}, ResolveDispute(o) PROVE TypeOK'
  <2>1. task' \in TaskRows
    BY <1>17, <1>t DEF ResolveDispute, TaskRows, States
  <2>2. proofs' \in Seq(ProofRows) /\ Len(proofs') = Len(proofs)
    <3>1. \A r \in ProofRows : [r EXCEPT !.state = "ACCEPTED"] \in ProofRows
      BY DEF ProofRows
    <3>2. \A i \in DOMAIN proofs : proofs[i] \in ProofRows
      BY <1>t
    <3> QED BY <1>17, <1>t, <3>1, <3>2 DEF ResolveDispute
  <2>3. jobs' \subseteq {"release", "refund", "partial", "cancel_intent"}
    BY <1>17 DEF ResolveDispute, TypeOK
  <2> QED BY <1>17, <2>1, <2>2, <2>3 DEF ResolveDispute, TypeOK
<1>18. CASE Abandon
  <2>1. task' \in TaskRows
    BY <1>18, <1>t DEF Abandon, TaskRows, States, Progress
  <2> QED BY <1>18, <2>1 DEF Abandon, TypeOK
<1>19. CASE Cancel
  <2>1. task' \in TaskRows
    BY <1>19, <1>t DEF Cancel, TaskRows, States, Progress
  <2> QED BY <1>19, <2>1 DEF Cancel, TypeOK
<1>20. CASE ExpireUnfilled
  <2>1. task' \in TaskRows
    BY <1>20, <1>t DEF ExpireUnfilled, TaskRows, States, Progress
  <2> QED BY <1>20, <2>1 DEF ExpireUnfilled, TypeOK
<1>21. CASE UNCHANGED vars
  BY <1>21 DEF vars, TypeOK
<1> QED BY <1>1, <1>2, <1>3, <1>4, <1>5, <1>6, <1>7, <1>8, <1>9, <1>10, <1>11, <1>12, <1>13, <1>14, <1>15,
           <1>16, <1>17, <1>18, <1>19, <1>20, <1>21 DEF Next, Hire, Work, Review, Close

-----------------------------------------------------------------------------
\* The row of a task that has ended, or been taken, agrees with itself.
LEMMA LifeStep ==
    ASSUME LifecycleAssumption, NoneAssumption, LifeInv, [Next]_vars
    PROVE  RowSound' /\ MoneySound' /\ ProofSound'
<1> USE DEF RowSound, MoneySound, RefundIsFinal
<1>t. /\ task \in TaskRows /\ scope \in ScopeRows /\ proofs \in Seq(ProofRows)
      /\ RowSound /\ MoneySound /\ ProofSound /\ ScopeSound
  BY DEF LifeInv, TypeOK
<1>p. ASSUME proofs' = proofs, scope' = scope, task'.state = task.state \/ task'.state \in {"OPEN", "MATCHING", "ACCEPTED", "CANCELLED", "EXPIRED"}
      PROVE  ProofSound'
  BY <1>t, <1>p DEF ProofSound, ProofMatchesScope, Latest
<1>0. ASSUME task' = task, res' = res, jobs' = jobs,
             escrow' = escrow \/ (jobs = {} /\ escrow = "PENDING" /\ escrow' = "FUNDED")
      PROVE  RowSound' /\ MoneySound'
  BY <1>t, <1>0
<1>1. CASE Fund
  BY <1>1, <1>0, <1>p DEF Fund
<1>2. ASSUME NEW w \in Workers, Apply(w) \/ Withdraw(w) \/ RejectApplicant(w) \/ AssignChecks(w)
      PROVE  RowSound' /\ MoneySound' /\ ProofSound'
  BY <1>2, <1>0, <1>p DEF Apply, Withdraw, RejectApplicant, AssignChecks
<1>3. ASSUME NEW w \in Workers, AssignCommits(w) PROVE RowSound' /\ MoneySound' /\ ProofSound'
  <2>1. CASE task' = task
    BY <1>3, <2>1, <1>0, <1>p DEF AssignCommits
  <2>2. CASE task' # task
    BY <1>3, <2>2, <1>t, <1>p DEF AssignCommits, Eligible, TaskRows, NoneAssumption, Taken, None
  <2> QED BY <2>1, <2>2
<1>4. ASSUME NEW w \in Workers, Consent(w) \/ Accept(w) \/ Reserve(w)
      PROVE  RowSound' /\ MoneySound' /\ ProofSound'
  <2>1. RowSound'
    BY <1>4, <1>t DEF Consent, Accept, Reserve, Unfilled, TaskRows, NoneAssumption, Taken, None
  <2>2. MoneySound'
    BY <1>4, <1>t DEF Consent, Accept, Reserve, Unfilled, Eligible, TaskRows
  <2> QED BY <1>4, <2>1, <2>2, <1>p, <1>t DEF Consent, Accept, Reserve, TaskRows
<1>5. CASE MarkTraveling \/ StartWork
  <2>1. RowSound' /\ MoneySound'
    BY <1>5, <1>t DEF MarkTraveling, StartWork, TaskRows, Taken
  <2> QED BY <1>5, <2>1, <1>p, <1>t DEF MarkTraveling, StartWork, TaskRows
<1>6. ASSUME NEW b \in BOOLEAN, SetChecklist(b) \/ ReviewChange(b) \/ ProposeChange
      PROVE  RowSound' /\ MoneySound' /\ ProofSound'
  <2>1. task' = task /\ task.state = "ACCEPTED"
    BY <1>6 DEF SetChecklist, ReviewChange, ProposeChange
  <2>2. ProofSound'
    BY <1>6, <2>1 DEF SetChecklist, ReviewChange, ProposeChange, ProofSound, ProofMatchesScope
  <2> QED BY <1>6, <2>2, <1>0 DEF SetChecklist, ReviewChange, ProposeChange
<1>7. CASE SubmitProof
  <2>1. RowSound' /\ MoneySound'
    BY <1>7, <1>t DEF SubmitProof, TaskRows, Taken
  <2>2. /\ proofs' # <<>>
        /\ proofs'[Len(proofs')].version = scope.version
    <3>1. Len(proofs') = Len(proofs) + 1 /\ Len(proofs) \in Nat
      BY <1>7, <1>t DEF SubmitProof
    <3>2. proofs'[Len(proofs) + 1] = [state |-> "SUBMITTED", version |-> scope.version]
      BY <1>7, <1>t DEF SubmitProof
    <3> QED BY <3>1, <3>2
  <2>3. task'.state = "PROOF_SUBMITTED" /\ scope' = scope
    BY <1>7, <1>t DEF SubmitProof, TaskRows
  <2> QED BY <2>1, <2>2, <2>3, <1>t DEF ProofSound, ProofMatchesScope
<1>8. ASSUME NEW b \in BOOLEAN, ReviewProof(b) PROVE RowSound' /\ MoneySound' /\ ProofSound'
  <2>1. task' = task /\ scope' = scope /\ task.state = "PROOF_SUBMITTED"
    BY <1>8 DEF ReviewProof
  <2>2. Len(proofs') = Len(proofs) /\ Len(proofs) \in DOMAIN proofs
    BY <1>8, <1>t DEF ReviewProof, ProofSound
  <2>3. proofs'[Len(proofs)].version = proofs[Len(proofs)].version
    <3>1. proofs[Len(proofs)] \in ProofRows
      BY <1>t, <2>2
    <3> QED BY <1>8, <1>t, <2>2, <3>1 DEF ReviewProof, ProofRows
  <2>4. ProofSound'
    BY <1>t, <2>1, <2>2, <2>3 DEF ProofSound, ProofMatchesScope
  <2> QED BY <1>8, <2>1, <2>4, <1>0, <1>t DEF ReviewProof
<1>9. CASE RejectProof
  <2>1. RowSound' /\ MoneySound'
    BY <1>9, <1>t DEF RejectProof, TaskRows, Taken
  <2> QED BY <1>9, <2>1, <1>p, <1>t DEF RejectProof, TaskRows
<1>10. CASE RejectionLost \/ RecordDelivery \/ Wait24Hours
  BY <1>10, <1>0, <1>p DEF RejectionLost, RecordDelivery, Wait24Hours
<1>11. ASSUME NEW m \in {"poster", "unattended"}, CompleteTask(m)
       PROVE  RowSound' /\ MoneySound' /\ ProofSound'
  <2>1. task'.state = "COMPLETED" /\ task.state = "PROOF_SUBMITTED" /\ Latest = "ACCEPTED"
    BY <1>11, <1>t DEF CompleteTask, TaskRows
  <2>2. RowSound'
    BY <1>11, <1>t DEF CompleteTask, TaskRows, Taken, None
  <2>3. MoneySound'
    BY <1>11, <1>t DEF CompleteTask, TaskRows
  <2>4. ProofSound'
    BY <1>11, <2>1, <1>t DEF CompleteTask, ProofSound, ProofMatchesScope, Latest
  <2> QED BY <2>2, <2>3, <2>4
<1>12. CASE OpenDispute
  <2>1. RowSound' /\ MoneySound'
    BY <1>12, <1>t DEF OpenDispute, TaskRows, Taken
  <2>2. ProofSound'
    BY <1>12, <1>t DEF OpenDispute, TaskRows, ProofSound, ProofMatchesScope
  <2> QED BY <2>1, <2>2
<1>13. ASSUME NEW o \in {"release", "refund", "partial"}, ResolveDispute(o)
       PROVE  RowSound' /\ MoneySound' /\ ProofSound'
  <2>1. RowSound'
    BY <1>13, <1>t DEF ResolveDispute, TaskRows, Taken
  <2>2. MoneySound'
    <3>1. {"refund", "partial"} \cap jobs = {}
      BY <1>13, <1>t DEF ResolveDispute
    <3> QED BY <1>13, <1>t, <3>1 DEF ResolveDispute, TaskRows
  <2>3. ProofSound'
    <3>1. CASE o = "release"
      <4>1. Len(proofs) \in DOMAIN proofs /\ Len(proofs') = Len(proofs) /\ proofs[Len(proofs)] \in ProofRows
        BY <1>13, <1>t, <3>1 DEF ResolveDispute, ProofSound
      <4>2. proofs'[Len(proofs)] = [proofs[Len(proofs)] EXCEPT !.state = "ACCEPTED"]
        BY <1>13, <3>1, <4>1 DEF ResolveDispute
      <4>3. proofs' # <<>> /\ scope' = scope
        BY <1>13, <1>t, <4>1 DEF ResolveDispute
      <4>4. proofs[Len(proofs)].version = scope.version
        BY <1>13, <1>t DEF ResolveDispute, ProofSound, ProofMatchesScope
      <4> QED BY <4>1, <4>2, <4>3, <4>4 DEF ProofSound, ProofMatchesScope, Latest, ProofRows
    <3>2. CASE o # "release"
      BY <1>13, <1>t, <3>2 DEF ResolveDispute, TaskRows, ProofSound, ProofMatchesScope
    <3> QED BY <3>1, <3>2
  <2> QED BY <1>13, <2>1, <2>2, <2>3, <1>t DEF ResolveDispute
<1>14. CASE Abandon
  <2>1. RowSound' /\ MoneySound'
    BY <1>14, <1>t DEF Abandon, TaskRows, Taken, None
  <2> QED BY <1>14, <2>1, <1>p, <1>t DEF Abandon, TaskRows
<1>15. CASE Cancel
  <2>1. RowSound'
    BY <1>15, <1>t DEF Cancel, TaskRows, Taken
  <2>2. MoneySound'
    <3>1. jobs = {} /\ task'.state = "CANCELLED"
      BY <1>15, <1>t DEF Cancel, TaskRows
    <3>2. jobs' = {} \/ jobs' = {"partial"} \/ jobs' = {"refund"}
      BY <1>15, <3>1 DEF Cancel
    <3> QED BY <3>1, <3>2
  <2> QED BY <1>15, <2>1, <2>2, <1>p, <1>t DEF Cancel, TaskRows
<1>16. CASE ExpireUnfilled
  <2>1. RowSound' /\ MoneySound'
    BY <1>16, <1>t DEF ExpireUnfilled, Unfilled, TaskRows, Taken, None
  <2> QED BY <1>16, <2>1, <1>p, <1>t DEF ExpireUnfilled, TaskRows
<1>17. CASE UNCHANGED vars
  BY <1>17, <1>0, <1>p DEF vars
<1> QED BY <1>1, <1>2, <1>3, <1>4, <1>5, <1>6, <1>7, <1>8, <1>9, <1>10, <1>11, <1>12, <1>13, <1>14, <1>15,
           <1>16, <1>17 DEF Next, Hire, Work, Review, Close

\* A change waits while the task is taken, or for good when the task was closed.
LEMMA ScopeStep ==
    ASSUME LifecycleAssumption, LifeInv, [Next]_vars
    PROVE  ScopeSound'
<1>t. /\ task \in TaskRows /\ scope \in ScopeRows /\ ScopeSound
      /\ task.state \in States
  BY DEF LifeInv, TypeOK, TaskRows
<1>1. ASSUME NEW w \in Workers, \/ Apply(w) \/ Withdraw(w) \/ RejectApplicant(w) \/ AssignChecks(w)
                                \/ AssignCommits(w) \/ Consent(w) \/ Accept(w) \/ Reserve(w)
      PROVE  ScopeSound'
  <2>1. scope' = scope /\ (task' = task \/ task.state \in {"OPEN", "MATCHING"})
    BY <1>1 DEF Apply, Withdraw, RejectApplicant, AssignChecks, AssignCommits, Consent, Accept, Reserve, Unfilled
  <2> QED BY <1>t, <2>1 DEF ScopeSound
<1>2. CASE Fund \/ RejectionLost \/ RecordDelivery \/ Wait24Hours \/ \E b \in BOOLEAN : ReviewProof(b)
  BY <1>t, <1>2 DEF Fund, RejectionLost, RecordDelivery, Wait24Hours, ReviewProof, ScopeSound
<1>3. CASE MarkTraveling \/ StartWork \/ SubmitProof
  BY <1>t, <1>3 DEF MarkTraveling, StartWork, SubmitProof, ScopeSound
<1>4. ASSUME NEW b \in BOOLEAN, SetChecklist(b) \/ ReviewChange(b) \/ ProposeChange PROVE ScopeSound'
  BY <1>t, <1>4 DEF SetChecklist, ReviewChange, ProposeChange, ScopeSound, ScopeRows
<1>5. CASE \/ RejectProof \/ \E m \in {"poster", "unattended"} : CompleteTask(m)
           \/ OpenDispute \/ \E o \in {"release", "refund", "partial"} : ResolveDispute(o)
  <2>1. scope' = scope /\ (task' = task \/ task.state \in {"PROOF_SUBMITTED", "DISPUTED", "COMPLETED"})
    BY <1>5 DEF RejectProof, CompleteTask, OpenDispute, ResolveDispute
  <2> QED BY <1>t, <2>1 DEF ScopeSound
<1>6. CASE Abandon \/ Cancel \/ ExpireUnfilled
  <2>1. scope' = scope /\ (task'.state = "CANCELLED" \/ task.state \in {"OPEN", "MATCHING"})
    BY <1>t, <1>6 DEF Abandon, Cancel, ExpireUnfilled, Unfilled, TaskRows
  <2> QED BY <1>t, <2>1 DEF ScopeSound
<1>7. CASE UNCHANGED vars
  BY <1>t, <1>7 DEF vars, ScopeSound
<1> QED BY <1>1, <1>2, <1>3, <1>4, <1>5, <1>6, <1>7 DEF Next, Hire, Work, Review, Close

LEMMA LifeCorrect ==
    ASSUME LifecycleAssumption, NoneAssumption
    PROVE  Spec => []LifeInv
<1>1. Init => LifeInv
  BY LifeInit
<1>2. LifeInv /\ [Next]_vars => LifeInv'
  BY LifeTyped, LifeStep, ScopeStep DEF LifeInv
<1> QED BY <1>1, <1>2, PTL DEF Spec

-----------------------------------------------------------------------------
\* The engine's reports. A report is the first rule that applies: its name, when the
\* rules before it do not, and the task's state when none does.
LEMMA FirstApplies ==
    ASSUME NEW rules, NEW n \in Nat, DOMAIN rules = 1..n, NEW i \in 1..n, rules[i][2],
           \A j \in 1..n : rules[j][2] => i <= j
    PROVE  FirstOf(rules) = rules[i][1]
<1> DEFINE applies == {k \in DOMAIN rules : rules[k][2]}
           c == CHOOSE k \in applies : \A j \in applies : k <= j
<1>1. i \in applies /\ \A j \in applies : i <= j
  OBVIOUS
<1>2. c \in applies /\ \A j \in applies : c <= j
  BY <1>1
<1>3. c = i
  BY <1>1, <1>2
<1>4. FirstOf(rules) = rules[c][1]
  BY <1>1 DEF FirstOf
<1> QED BY <1>3, <1>4

\* Of the numbers to eight a set that is not empty has a least.
LEMMA LeastOfEight ==
    ASSUME NEW S, S \subseteq 1..8, S # {}
    PROVE  \E i \in S : \A j \in S : i <= j
<1> SUFFICES ASSUME \A i \in S : \E j \in S : j < i PROVE FALSE
  OBVIOUS
<1>1. 1 \notin S /\ 2 \notin S
  OBVIOUS
<1>2. 3 \notin S /\ 4 \notin S
  BY <1>1
<1>3. 5 \notin S /\ 6 \notin S
  BY <1>1, <1>2
<1>4. 7 \notin S /\ 8 \notin S
  BY <1>1, <1>2, <1>3
<1>5. PICK e \in S : e \in 1..8
  OBVIOUS
<1> QED BY <1>1, <1>2, <1>3, <1>4, <1>5

LEMMA FirstIsOne ==
    ASSUME NEW rules, NEW n \in 1..8, DOMAIN rules = 1..n
    PROVE  \/ FirstOf(rules) = task.state /\ \A i \in 1..n : ~rules[i][2]
           \/ \E i \in 1..n : rules[i][2] /\ FirstOf(rules) = rules[i][1]
<1> DEFINE applies == {k \in DOMAIN rules : rules[k][2]}
<1>1. CASE applies = {}
  BY <1>1 DEF FirstOf
<1>2. CASE applies # {}
  <2>1. applies \subseteq 1..8
    OBVIOUS
  <2>2. PICK i \in applies : \A j \in applies : i <= j
    BY <1>2, <2>1, LeastOfEight
  <2>3. n \in Nat /\ i \in 1..n /\ rules[i][2] /\ \A j \in 1..n : rules[j][2] => i <= j
    BY <2>2
  <2>4. FirstOf(rules) = rules[i][1]
    BY <2>3, FirstApplies, Zenon
  <2> QED BY <2>3, <2>4
<1> QED BY <1>1, <1>2

\* A rule before the others that does not apply changes nothing.
LEMMA FirstSkips ==
    ASSUME NEW a, NEW b, DOMAIN a = 1..8, DOMAIN b = 1..7, ~a[1][2], \A i \in 1..7 : b[i] = a[i + 1]
    PROVE  FirstOf(a) = FirstOf(b)
<1> DEFINE applies == {k \in 1..8 : a[k][2]}
<1>1. CASE applies = {}
  <2>1. \A i \in 1..7 : ~b[i][2]
    BY <1>1
  <2> QED BY <1>1, <2>1 DEF FirstOf
<1>2. CASE applies # {}
  <2>1. PICK i \in applies : \A j \in applies : i <= j
    BY <1>2, LeastOfEight
  <2>2. i - 1 \in 1..7 /\ b[i - 1] = a[i]
    BY <2>1
  <2>3. \A j \in 1..7 : b[j][2] => i - 1 <= j
    BY <2>1
  <2>4. FirstOf(a) = a[i][1]
    BY <2>1, FirstApplies
  <2>5. FirstOf(b) = b[i - 1][1]
    BY <2>2, <2>3, FirstApplies
  <2> QED BY <2>2, <2>4, <2>5
<1> QED BY <1>1, <1>2

\* The four promises about a task's state, of every state the task gets to.
LEMMA ReportsSound ==
    ASSUME LifecycleAssumption, NoneAssumption, LifeInv
    PROVE  ReportsAgree
<1>t. task \in TaskRows /\ res \in Workers \cup {None} /\ RowSound /\ MoneySound /\ ProofSound
  BY DEF LifeInv, TypeOK
<1>1. DOMAIN ListRules = 1..8 /\ DOMAIN BridgeRules = 1..7
  BY DEF ListRules, BridgeRules
<1>2. Listed = FirstOf(ListRules) /\ Bridged = FirstOf(BridgeRules)
  BY DEF Listed, ListRules, Bridged, BridgeRules
<1>3. \/ Listed = task.state /\ \A i \in 1..8 : ~ListRules[i][2]
      \/ \E i \in 1..8 : ListRules[i][2] /\ Listed = ListRules[i][1]
  BY <1>1, <1>2, FirstIsOne
<1>4. ASSUME \A i \in 1..8 : ~ListRules[i][2]
      PROVE  /\ task.state # "EXPIRED" /\ task.ready = None /\ ~Started
             /\ ~(task.state = "ACCEPTED" /\ res # None) /\ ~Dispatched
  <2>1. ~ListRules[1][2] /\ ~ListRules[2][2] /\ ~ListRules[5][2] /\ ~ListRules[6][2] /\ ~ListRules[7][2]
    BY <1>4
  <2> QED BY <2>1 DEF ListRules
<1>5. ASSUME NEW i \in 1..8, ListRules[i][2], Listed = ListRules[i][1]
      PROVE  \/ Listed \in {"EXPIRED_UNFILLED", "PAYOUT_READY", "COMPLETED", "PROOF_SUBMITTED", "IN_PROGRESS",
                            "ENGINE_RESERVED", "PAYMENT_PENDING"}
             \/ Listed = "DISPATCH_READY" /\ Dispatched
  <2>1. CASE i = 7
    BY <1>5, <2>1 DEF ListRules
  <2>2. CASE i # 7
    BY <1>5, <2>2 DEF ListRules
  <2> QED BY <2>1, <2>2
<1>6. NextAction = "START_HARD_DISPATCH" => Unfilled /\ res = None /\ jobs = {}
  <2>1. NextAction = "START_HARD_DISPATCH" => Listed = "DISPATCH_READY"
    BY DEF NextAction, NextStep, None
  <2>2. task.state # "DISPATCH_READY"
    BY <1>t DEF TaskRows, States
  <2>3. NextAction = "START_HARD_DISPATCH" => Dispatched
    BY <1>3, <1>5, <2>1, <2>2
  <2> QED BY <2>3, <1>t DEF Dispatched, Unfilled, RowSound, MoneySound
<1>7. task.state \notin {"CANCELLED", "EXPIRED"} => NextAction # None \/ Blocked
  <2>1. CASE \A i \in 1..8 : ~ListRules[i][2]
    <3>1. task.state \notin {"DISPUTED", "COMPLETED", "PROOF_SUBMITTED"}
      BY <1>4, <1>t, <2>1 DEF RowSound, Started
    <3>2. task.state = "ACCEPTED" => res = None
      BY <1>4, <2>1
    <3>3. task.state \in {"OPEN", "MATCHING"} => escrow # "FUNDED"
      BY <1>4, <2>1 DEF Dispatched
    <3> QED BY <3>1, <3>2, <3>3, <1>t DEF Blocked, TaskRows, States
  <2>2. CASE \E i \in 1..8 : ListRules[i][2] /\ Listed = ListRules[i][1]
    <3>1. Listed \in {"EXPIRED_UNFILLED", "PAYOUT_READY", "COMPLETED", "PROOF_SUBMITTED", "IN_PROGRESS",
                      "ENGINE_RESERVED", "DISPATCH_READY", "PAYMENT_PENDING"}
      BY <1>5, <2>2
    <3> QED BY <3>1 DEF NextAction, NextStep, None
  <2> QED BY <1>3, <2>1, <2>2
<1>8. task.state \notin {"CANCELLED", "EXPIRED"} => Listed = Bridged \/ task.progress = "TRAVELING"
  <2>1. CASE task.ready # None /\ task.state # "EXPIRED"
    <3>1. ListRules[2][1] = "PAYOUT_READY" /\ ListRules[2][2] /\ ~ListRules[1][2]
      BY <2>1 DEF ListRules
    <3>2. \A j \in 1..8 : ListRules[j][2] => 2 <= j
      BY <3>1
    <3>3. 8 \in Nat /\ 2 \in 1..8 /\ 7 \in Nat /\ 1 \in 1..7 /\ \A j \in 1..7 : 1 <= j
      OBVIOUS
    <3>4. FirstOf(ListRules) = ListRules[2][1]
      BY <1>1, <3>1, <3>2, <3>3, FirstApplies, Zenon
    <3>5. BridgeRules[1][1] = "PAYOUT_READY" /\ BridgeRules[1][2]
      BY <2>1 DEF BridgeRules
    <3>6. FirstOf(BridgeRules) = BridgeRules[1][1]
      BY <1>1, <3>3, <3>5, FirstApplies, Zenon
    <3> QED BY <1>2, <3>1, <3>4, <3>5, <3>6
  <2>2. CASE task.ready = None /\ task.state # "EXPIRED" /\ task.progress # "TRAVELING"
    <3>1. Started <=> task.progress \in {"WORKING", "TRAVELING"}
      BY <1>t, <2>2 DEF RowSound, Started
    <3>2. ~ListRules[1][2]
      BY <2>2 DEF ListRules
    <3>3. Started = (task.progress \in {"WORKING", "TRAVELING"})
      BY <3>1 DEF Started
    <3>4. \A i \in 1..7 : BridgeRules[i] = ListRules[i + 1]
      BY <3>3 DEF ListRules, BridgeRules
    <3> QED BY <1>1, <1>2, <3>2, <3>4, FirstSkips
  <2> QED BY <2>1, <2>2
<1>9. task.state = "COMPLETED" /\ task.ready = "poster" /\ escrow # "LOCKED_DISPUTE" => ~Contradictory
  BY <1>t DEF Contradictory, RowSound, ProofSound, ProofMatchesScope, Taken, None
<1> QED BY <1>6, <1>7, <1>8, <1>9 DEF ReportsAgree

-----------------------------------------------------------------------------
(***************************************************************************)
(* For any workers, modes, paths and bounds: what a task's state says of   *)
(* its proof and its money is so, and what the engine tells of it agrees.  *)
(***************************************************************************)
THEOREM LifecycleCorrect ==
    ASSUME LifecycleAssumption, NoneAssumption
    PROVE  Spec => [](TypeOK /\ StateIsBacked)
<1>1. LifeInv => TypeOK /\ StateIsBacked
  BY ReportsSound DEF LifeInv, StateIsBacked, ProofSound, MoneySound, AcceptedIsFunded
<1> QED BY <1>1, LifeCorrect, PTL

\* A step while a change of the scope waits and goes on waiting moves nothing of the
\* execution.
LEMMA FrozenStep == ASSUME LifeInv, [Next]_vars PROVE Frozen
<1>t. /\ task \in TaskRows /\ scope \in ScopeRows
      /\ scope.pending => task.state \in {"ACCEPTED", "CANCELLED"}
  BY DEF LifeInv, TypeOK, ScopeSound
<1> USE DEF Frozen
<1>1. ASSUME NEW w \in Workers, \/ Apply(w) \/ Withdraw(w) \/ RejectApplicant(w) \/ AssignChecks(w)
                                \/ AssignCommits(w) \/ Consent(w) \/ Accept(w) \/ Reserve(w)
      PROVE  Frozen
  <2>1. scope' = scope /\ proofs' = proofs /\ (task' = task \/ task.state \in {"OPEN", "MATCHING"})
    BY <1>1 DEF Apply, Withdraw, RejectApplicant, AssignChecks, AssignCommits, Consent, Accept, Reserve, Unfilled
  <2> QED BY <1>t, <2>1
<1>2. CASE Fund \/ RejectionLost \/ RecordDelivery \/ Wait24Hours
  BY <1>2 DEF Fund, RejectionLost, RecordDelivery, Wait24Hours
<1>3. CASE MarkTraveling \/ StartWork \/ SubmitProof
  BY <1>3 DEF MarkTraveling, StartWork, SubmitProof
<1>4. ASSUME NEW b \in BOOLEAN, SetChecklist(b) \/ ReviewChange(b) \/ ProposeChange PROVE Frozen
  BY <1>t, <1>4 DEF SetChecklist, ReviewChange, ProposeChange, ScopeRows
<1>5. CASE \/ \E b \in BOOLEAN : ReviewProof(b)
           \/ \E m \in {"poster", "unattended"} : CompleteTask(m)
           \/ OpenDispute \/ \E o \in {"release", "refund", "partial"} : ResolveDispute(o)
  <2>1. task.state \in {"PROOF_SUBMITTED", "DISPUTED", "COMPLETED"}
    BY <1>5 DEF ReviewProof, CompleteTask, OpenDispute, ResolveDispute
  <2> QED BY <1>t, <2>1
<1>6. CASE RejectProof \/ Abandon \/ Cancel \/ ExpireUnfilled
  <2>1. scope' = scope /\ proofs' = proofs /\ task'.progress = task.progress
    BY <1>t, <1>6 DEF RejectProof, Abandon, Cancel, ExpireUnfilled, TaskRows
  <2> QED BY <2>1
<1>7. CASE UNCHANGED vars
  BY <1>7 DEF vars
<1> QED BY <1>1, <1>2, <1>3, <1>4, <1>5, <1>6, <1>7 DEF Next, Hire, Work, Review, Close

\* Whatever else happens, a change of the scope that waits freezes the execution.
THEOREM ExecutionFreezes ==
    ASSUME LifecycleAssumption, NoneAssumption
    PROVE  Spec => FrozenByProposal
<1>1. LifeInv /\ [Next]_vars => [Frozen]_vars
  BY FrozenStep
<1> QED BY <1>1, LifeCorrect, PTL DEF Spec, FrozenByProposal

-----------------------------------------------------------------------------
\* Of the four paths the reservation alone gives a task whose work can begin. Its
\* task keeps the reservation, also when a rejected proof gives it back.
CanWork ==
    /\ assigning = None
    /\ task.state \in {"ACCEPTED", "PROOF_SUBMITTED"} =>
           task.progress \in {"ACCEPTED", "TRAVELING", "WORKING"} /\ res = task.worker

LEMMA CanWorkStep ==
    ASSUME Paths \subseteq {"reserve"}, NoneAssumption, LifeInv, CanWork, [Next]_vars
    PROVE  CanWork'
<1>t. task \in TaskRows
  BY DEF LifeInv, TypeOK
<1> USE DEF CanWork
<1>1. ASSUME NEW w \in Workers, \/ Apply(w) \/ Withdraw(w) \/ RejectApplicant(w) \/ AssignChecks(w)
                                \/ AssignCommits(w) \/ Consent(w) \/ Accept(w)
      PROVE  CanWork'
  BY <1>1 DEF Apply, Withdraw, RejectApplicant, AssignChecks, AssignCommits, Consent, Accept, NoneAssumption
<1>2. ASSUME NEW w \in Workers, Reserve(w) PROVE CanWork'
  BY <1>t, <1>2 DEF Reserve, TaskRows
<1>3. CASE Fund \/ RejectionLost \/ RecordDelivery \/ Wait24Hours \/ \E b \in BOOLEAN : ReviewProof(b)
  BY <1>3 DEF Fund, RejectionLost, RecordDelivery, Wait24Hours, ReviewProof
<1>4. CASE MarkTraveling \/ StartWork \/ SubmitProof \/ RejectProof
  BY <1>t, <1>4 DEF MarkTraveling, StartWork, SubmitProof, RejectProof, TaskRows
<1>5. ASSUME NEW b \in BOOLEAN, SetChecklist(b) \/ ReviewChange(b) \/ ProposeChange PROVE CanWork'
  BY <1>5 DEF SetChecklist, ReviewChange, ProposeChange
<1>6. CASE \/ \E m \in {"poster", "unattended"} : CompleteTask(m)
           \/ OpenDispute \/ \E o \in {"release", "refund", "partial"} : ResolveDispute(o)
           \/ Abandon \/ Cancel \/ ExpireUnfilled
  <2>1. task'.state \notin {"ACCEPTED", "PROOF_SUBMITTED"} /\ assigning' = assigning
    BY <1>t, <1>6 DEF CompleteTask, OpenDispute, ResolveDispute, Abandon, Cancel, ExpireUnfilled, TaskRows
  <2> QED BY <2>1
<1>7. CASE UNCHANGED vars
  BY <1>7 DEF vars
<1> QED BY <1>1, <1>2, <1>3, <1>4, <1>5, <1>6, <1>7 DEF Next, Hire, Work, Review, Close

\* A task that is only given out by reservation can be worked on whenever it is accepted.
THEOREM ReservedCanWork ==
    ASSUME LifecycleAssumption, NoneAssumption, Paths \subseteq {"reserve"}
    PROVE  Spec => []AcceptedCanWork
<1>1. Init => CanWork
  BY DEF Init, CanWork
<1>2. LifeInv /\ CanWork /\ [Next]_vars => CanWork'
  BY CanWorkStep
<1>3. CanWork => AcceptedCanWork
  BY DEF CanWork, AcceptedCanWork
<1> QED BY <1>1, <1>2, <1>3, LifeCorrect, PTL DEF Spec
===============================================================================
