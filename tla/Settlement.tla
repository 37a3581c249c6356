----------------------------- MODULE Settlement -----------------------------
(***************************************************************************)
(* The settlement of one escrow: the row, its task and its dispute in      *)
(* PostgreSQL, the transfers and refunds at Stripe, and the processes that *)
(* move money between the two.  Every money movement is the same           *)
(* three-step dance (read under a row lock and commit, call Stripe, write  *)
(* the result in a second transaction), so everything that happens between *)
(* the steps of a process is an interleaving of this model.                *)
(*                                                                         *)
(* A process is a BullMQ worker running a job, or a request calling a      *)
(* service.  Jobs are delivered at least once: a job stays in `queue'      *)
(* until a run of it succeeds or its attempts are exhausted, and a stalled *)
(* job may be picked up while its first run goes on.  Stripe is external:  *)
(* a transfer or refund is named by the idempotency suffix it is created   *)
(* with, so calling Stripe again with the same suffix returns the same     *)
(* object.                                                                 *)
(***************************************************************************)
EXTENDS EscrowRow, FiniteSets

CONSTANTS
    Workers,      \* processes that can be in flight at the same time
    Amount,       \* escrows.amount
    Net,          \* netPayoutCents of the whole amount
    SplitRefund,  \* outcome_refund_amount of a SPLIT resolution
    SplitNet,     \* netReleaseCents of the rest of it
    QuotedFee,    \* TRUE iff escrows.platform_fee_cents is recorded
    Operations,   \* the requests this instance makes, a subset of AllOperations
    PayeeStates,  \* what may become of the worker's payout account
    VerifiedJobs, \* the kinds of job whose signature their worker accepts
    FaultKinds,   \* the faults that happen, a subset of AllFaultKinds
    MaxFaults     \* bound on errors and crashes

AllOperations ==
    {"refund", "force_refund", "force_release", "release", "lock", "chargeback",
     "cancel", "abandon", "dispute", "reject_proof"}

AllPayeeStates == {"ready", "notCurrent", "restricted", "payoutsLocked"}

\* error: Stripe fails, or a row is held by another transaction (NOWAIT);
\* crash: the worker dies; stall: a job is run again while its run goes on.
AllFaultKinds == {"error", "crash", "stall"}

SignedJobs ==
    {"completion", "release_requested", "refund_requested", "partial_refund_requested"}

ASSUME AmountsAssumption ==
    /\ {Amount, Net, SplitRefund, SplitNet, MaxFaults} \subseteq Nat
    /\ 0 < SplitNet /\ SplitNet < Net /\ Net <= Amount
    /\ 0 < SplitRefund /\ SplitRefund + SplitNet <= Amount

ASSUME ScopeAssumption ==
    /\ QuotedFee \in BOOLEAN
    /\ Operations \subseteq AllOperations
    /\ PayeeStates \subseteq AllPayeeStates
    /\ VerifiedJobs \subseteq SignedJobs
    /\ FaultKinds \subseteq AllFaultKinds

VARIABLES
    escrow,    \* the row
    task,      \* tasks.state
    dispute,   \* disputes.state, or the outcome once RESOLVED
    evidence,  \* the checkpoints kept in escrow_events
    queue,     \* unfinished jobs of queue critical_payments
    claimed,   \* the queued events that are claimed in stripe_events
    proc,      \* program counter and locals of each process
    stripe,    \* external: what Stripe has done
    payee,     \* the worker's payout account
    faults,    \* faults so far
    raced      \* history: the money races that happened

vars == <<escrow, task, dispute, evidence, queue, claimed, proc, stripe, payee, faults,
          raced>>

-----------------------------------------------------------------------------
\* Data

TransferIds == {"completion_release", "dispute_release", "dispute_partial_release"}
RefundIds   == {"svc_refund", "admin_override", "wkr_refund", "wkr_partial_refund"}

TransferValue(t) == IF t = "dispute_partial_release" THEN SplitNet ELSE Net
RefundValue(r)   == IF r = "wkr_partial_refund" THEN SplitRefund ELSE Amount

Outcomes == {"RELEASE", "REFUND", "SPLIT"}
TaskStates ==
    {"OPEN", "MATCHING", "ACCEPTED", "PROOF_SUBMITTED", "COMPLETED", "DISPUTED", "CANCELLED"}
DisputeStates == {"NONE", "OPEN", "EVIDENCE_REQUESTED", "ESCALATED"} \cup Outcomes
Providers == {None, "STRIPE", "MANUAL_RECONCILIATION"}

Job(kind, id) == [kind |-> kind, id |-> id]
NoJob == Job(None, None)
ActionJobs ==
    {Job(k, None) : k \in {"release_requested", "refund_requested", "partial_refund_requested"}}
EventJobs ==
    {Job("transfer.created", t) : t \in TransferIds}
        \cup {Job("charge.refunded", r) : r \in RefundIds}
Jobs == {Job("completion", None)} \cup ActionJobs \cup EventJobs

ActionJobOf(outcome) ==
    Job(CASE outcome = "RELEASE" -> "release_requested"
          [] outcome = "REFUND"  -> "refund_requested"
          [] OTHER               -> "partial_refund_requested", None)

Requests == {Job("refund", None), Job("force_refund", None)}

\* pc names the next step; the other fields are the locals that survive a
\* commit: the row version read and the Stripe ids in hand.
Idle == [pc |-> "idle", job |-> NoJob, version |-> 0, transfer |-> None, refund |-> None]

Steps ==
    {"idle", "completionTransfer", "completionPersist", "completionRelease",
     "disputeTransfer", "disputeStore",
     "refundCheck", "reverse", "reverseCheckpoint", "issueRefund", "storeRefund",
     "splitRefund", "splitCheckpoint", "splitTransfer", "splitTerminal",
     "serviceRefund", "serviceTerminal", "unpaidTerminal",
     "eventRelease", "eventReverse", "eventRefund"}

Processes ==
    [pc : Steps, job : Jobs \cup Requests \cup {NoJob}, version : Nat,
     transfer : TransferIds \cup {None}, refund : RefundIds \cup {None}]

Rows ==
    [state : EscrowStates, version : Nat, provider : Providers,
     transfer : TransferIds \cup {None}, refund : RefundIds \cup {None}]

Checkpoints ==
    [original : TransferIds \cup {None}, reversed : BOOLEAN,
     partialRefund : RefundIds \cup {None}]

Movements ==
    [transfers : SUBSET TransferIds, reversed : SUBSET TransferIds,
     refunds : SUBSET RefundIds]

TypeOK ==
    /\ escrow \in Rows
    /\ task \in TaskStates
    /\ dispute \in DisputeStates
    /\ evidence \in Checkpoints
    /\ queue \in SUBSET Jobs
    /\ claimed \in SUBSET EventJobs
    /\ proc \in [Workers -> Processes]
    /\ stripe \in Movements
    /\ payee \in AllPayeeStates
    /\ faults \in Nat
    /\ raced \in SUBSET {"payout", "manual", "refund", "unpaid"}

-----------------------------------------------------------------------------
\* Row writes

\* The UPDATE passes every trigger on the row.
Writable(new, override) ==
    /\ PreventEscrowTerminalMutation(escrow.state, new, dispute = "RELEASE", override)
    /\ EnforceReleasedRequiresCompleted(escrow.state, new, task)
    /\ PreventReleaseWhenPayoutsLocked(escrow.state, new, payee = "payoutsLocked")

\* Mutant: the version is not bumped.
M_MoveEscrow(new, fields) == escrow' = [fields EXCEPT !.state = new]

\* UPDATE escrows SET state = ... , version = version + 1.
MoveEscrow(new, fields) ==
    escrow' = [fields EXCEPT !.state = new, !.version = escrow.version + 1]

-----------------------------------------------------------------------------
\* Processes

At(w, step) == proc[w].pc = step

Delivery == <<queue, claimed>>

\* A free worker takes a job nobody runs, or one whose run has stalled.
Takes(w, j) ==
    /\ At(w, "idle")
    /\ j \in queue
    /\ "stall" \in FaultKinds \/ \A v \in Workers : proc[v].job # j

\* A Stripe event is claimed first; a claimed one is not run again.
Claims(w, j) == Takes(w, j) /\ j \notin claimed

\* The worker's boundary throws before it reads anything (VerifyPayload).
Rejected(j) == j.kind \notin VerifiedJobs

\* The first transaction commits and leaves its locals to the next step.
Enter(w, step, j, locals) ==
    proc' = [proc EXCEPT ![w] = [locals EXCEPT !.pc = step, !.job = j]]
SeenVersion == [Idle EXCEPT !.version = escrow.version]
\* Mutant: the version is not compared.
M_SameVersion(w) == TRUE

\* The row has not been written since the first transaction.
SameVersion(w) == escrow.version = proc[w].version

Goto(w, step)             == proc' = [proc EXCEPT ![w].pc = step]
HoldTransfer(w, step, t)  == proc' = [proc EXCEPT ![w].pc = step, ![w].transfer = t]
HoldRefund(w, step, r)    == proc' = [proc EXCEPT ![w].pc = step, ![w].refund = r]

\* The handler of job j returns: the job is complete.
Return(w, j) ==
    /\ proc' = [proc EXCEPT ![w] = Idle]
    /\ queue' = queue \ {j}
    /\ claimed' = claimed \ {j}

\* The handler throws: a claim is given back, and the job is retried unless
\* its attempts are exhausted.
Throw(w, j) ==
    /\ proc' = [proc EXCEPT ![w] = Idle]
    /\ queue' \in {queue, queue \ {j}}
    /\ claimed' = claimed \ {j}

-----------------------------------------------------------------------------
\* Stripe (external)

PayeeReady == payee \in {"ready", "payoutsLocked"}

\* Create a transfer; a new one also emits its transfer.created event.
CreateTransfer(t) ==
    /\ stripe' = [stripe EXCEPT !.transfers = @ \cup {t}]
    /\ queue' = IF t \in stripe.transfers THEN queue
                ELSE queue \cup {Job("transfer.created", t)}
    /\ UNCHANGED claimed

RefundOf(r) == IF r \in stripe.refunds THEN RefundValue(r) ELSE 0
Refunded == RefundOf("svc_refund") + RefundOf("admin_override")
              + RefundOf("wkr_refund") + RefundOf("wkr_partial_refund")

\* Stripe repeats an idempotent answer and refuses to exceed the charge.
Refundable(r) == r \in stripe.refunds \/ Refunded + RefundValue(r) <= Amount

CreateRefund(r) ==
    /\ stripe' = [stripe EXCEPT !.refunds = @ \cup {r}]
    /\ queue' = IF r \in stripe.refunds THEN queue
                ELSE queue \cup {Job("charge.refunded", r)}
    /\ UNCHANGED claimed

\* The reversal key names the escrow only: one transfer can be reversed.
Reversible(t) == stripe.reversed \subseteq {t}
CreateTransferReversal(t) == stripe' = [stripe EXCEPT !.reversed = @ \cup {t}]

PaidBy(t) == IF t \in stripe.transfers \ stripe.reversed THEN TransferValue(t) ELSE 0
PaidOut == PaidBy("completion_release") + PaidBy("dispute_release")
             + PaidBy("dispute_partial_release")
             + (IF escrow.provider = "MANUAL_RECONCILIATION" THEN Net ELSE 0)
MoneyOut == PaidOut + Refunded

-----------------------------------------------------------------------------
\* The task, as far as it decides about the money

Database == <<escrow, task, dispute, evidence>>
Outside == <<payee, faults>>

Fund ==
    /\ escrow.state = "PENDING"
    /\ MoveEscrow("FUNDED", escrow)
    /\ UNCHANGED <<task, dispute, evidence, Delivery, proc, stripe, payee, faults>>

TaskMoves(from, to) ==
    /\ task \in from
    /\ task' = to
    /\ UNCHANGED <<dispute, evidence, proc, stripe, payee, faults>>

\* The escrow is read without a lock.
AssignWorker ==
    /\ escrow.state = "FUNDED"
    /\ TaskMoves({"OPEN", "MATCHING"}, "ACCEPTED")
    /\ UNCHANGED <<escrow, Delivery>>

SubmitProof == TaskMoves({"ACCEPTED"}, "PROOF_SUBMITTED") /\ UNCHANGED <<escrow, Delivery>>

RejectProof ==
    /\ "reject_proof" \in Operations
    /\ TaskMoves({"PROOF_SUBMITTED"}, "ACCEPTED")
    /\ UNCHANGED <<escrow, Delivery>>

\* Mutant: the job is not written to the outbox.
M_CompleteTask ==
    /\ escrow.state = "FUNDED"
    /\ TaskMoves({"PROOF_SUBMITTED"}, "COMPLETED")
    /\ UNCHANGED <<escrow, Delivery>>

\* The latest proof was accepted; the payout job goes out with the commit.
CompleteTask ==
    /\ escrow.state = "FUNDED"
    /\ TaskMoves({"PROOF_SUBMITTED"}, "COMPLETED")
    /\ queue' = queue \cup {Job("completion", None)}
    /\ UNCHANGED <<escrow, claimed>>

\* The refund job this emits has a payload the worker's schema rejects.
CancelTask ==
    /\ "cancel" \in Operations
    /\ TaskMoves({"OPEN", "MATCHING", "ACCEPTED"}, "CANCELLED")
    /\ UNCHANGED <<escrow, Delivery>>

AbandonTask ==
    /\ "abandon" \in Operations
    /\ TaskMoves({"ACCEPTED"}, "CANCELLED")
    /\ IF escrow.state = "FUNDED" THEN MoveEscrow("LOCKED_DISPUTE", escrow)
       ELSE UNCHANGED escrow
    /\ UNCHANGED Delivery

-----------------------------------------------------------------------------
\* Locks

\* lockForDispute: the row is locked, no dispute is opened.
LockForDispute ==
    /\ "lock" \in Operations
    /\ task \in {"ACCEPTED", "PROOF_SUBMITTED", "DISPUTED", "COMPLETED"}
    /\ escrow.state = "FUNDED"
    /\ MoveEscrow("LOCKED_DISPUTE", escrow)
    /\ UNCHANGED <<task, dispute, evidence, Delivery, proc, stripe, payee, faults>>

\* A chargeback, a trust or a fraud decision: the version stays.
ChargebackLock ==
    /\ "chargeback" \in Operations
    /\ escrow.state = "FUNDED"
    /\ escrow' = [escrow EXCEPT !.state = "LOCKED_DISPUTE"]
    /\ UNCHANGED <<task, dispute, evidence, Delivery, proc, stripe, payee, faults>>

\* Within the window of 48 hours after completion, or before completion.
CreateDispute ==
    /\ "dispute" \in Operations
    /\ task \in {"COMPLETED", "PROOF_SUBMITTED"}
    /\ dispute = "NONE"
    /\ escrow.state \in {"FUNDED", "RELEASED"}
    /\ Writable("LOCKED_DISPUTE", FALSE)
    /\ MoveEscrow("LOCKED_DISPUTE", [escrow EXCEPT !.transfer = None])
    /\ evidence' = IF escrow.transfer = None THEN evidence
                   ELSE [evidence EXCEPT !.original = escrow.transfer]
    /\ dispute' = "OPEN"
    /\ task' = "DISPUTED"
    /\ UNCHANGED <<Delivery, proc, stripe, payee, faults>>

RequestEvidence ==
    /\ dispute = "OPEN"
    /\ dispute' = "EVIDENCE_REQUESTED"
    /\ UNCHANGED <<escrow, task, evidence, Delivery, proc, stripe, payee, faults>>

Escalate ==
    /\ dispute \in {"OPEN", "EVIDENCE_REQUESTED"}
    /\ dispute' = "ESCALATED"
    /\ UNCHANGED <<escrow, task, evidence, Delivery, proc, stripe, payee, faults>>

\* Mutant: a resolved dispute can be resolved again.
M_Resolvable == dispute # "NONE"

\* A dispute is resolved once.
Resolvable == dispute \in {"OPEN", "EVIDENCE_REQUESTED", "ESCALATED"}

\* One outcome, one task state and one job for the escrow action worker.
ResolveDispute(outcome) ==
    /\ Resolvable
    /\ escrow.state = "LOCKED_DISPUTE"
    /\ dispute' = outcome
    /\ task' = CASE task # "DISPUTED"    -> task
                 [] outcome = "RELEASE"  -> "COMPLETED"
                 [] OTHER                -> "CANCELLED"
    /\ queue' = queue \cup {ActionJobOf(outcome)}
    /\ UNCHANGED <<claimed, escrow, evidence, proc, stripe, payee, faults>>

-----------------------------------------------------------------------------
\* EscrowService.release, one transaction

ReleaseVerdict(override) ==
    IF escrow.state = "LOCKED_DISPUTE" /\ ~override /\ dispute # "RELEASE"
       THEN "INVALID_STATE"
    ELSE IF task \in {"OPEN", "MATCHING"} \/ (~override /\ payee = "notCurrent")
       THEN "INVALID_STATE"
    ELSE IF escrow.state \in TerminalStates
       THEN "ESCROW_TERMINAL"
    ELSE IF escrow.state = "PENDING"
       THEN "INVALID_STATE"
    ELSE IF Writable("RELEASED", override)
       THEN "ok"
    ELSE "DB_ERROR"

\* Mutant: the columns are swapped.
M_Release(given) == MoveEscrow("RELEASED", [escrow EXCEPT !.provider = given])

\* The row names the given transfer, else the recorded one, else none: a
\* payout to be made by hand.
Release(given) ==
    LET id == IF given = None THEN escrow.transfer ELSE given
    IN  MoveEscrow("RELEASED",
            [escrow EXCEPT !.transfer = id,
                           !.provider = IF id = None THEN "MANUAL_RECONCILIATION"
                                        ELSE "STRIPE"])

\* Admin force_release.
ForceRelease ==
    /\ "force_release" \in Operations
    /\ ReleaseVerdict(TRUE) = "ok"
    /\ Release(None)
    /\ UNCHANGED <<task, dispute, evidence, Delivery, proc, stripe, payee, faults>>

\* The poster's release request, for a transfer that exists at Stripe.
PosterRelease(t) ==
    /\ "release" \in Operations
    /\ t \in stripe.transfers /\ TransferValue(t) = Net
    /\ ReleaseVerdict(FALSE) = "ok"
    /\ Release(t)
    /\ UNCHANGED <<task, dispute, evidence, Delivery, proc, stripe, payee, faults>>

-----------------------------------------------------------------------------
\* Completion payout: completion-release-orchestrator

Completion == Job("completion", None)

\* Mutant: a disputed row is not skipped.
M_EscrowCanProceed == escrow.state \in {"FUNDED", "LOCKED_DISPUTE"}

\* Any other state ends the job without an error.
EscrowCanProceed == escrow.state = "FUNDED"

CompletionLoad(w) ==
    /\ Takes(w, Completion)
    /\ CASE Rejected(Completion) -> Throw(w, Completion)
         [] ~Rejected(Completion) /\ ~EscrowCanProceed -> Return(w, Completion)
         [] EscrowCanProceed /\ task # "COMPLETED" -> Throw(w, Completion)
         [] OTHER ->
              /\ Enter(w, IF escrow.transfer = None THEN "completionTransfer"
                          ELSE "completionRelease", Completion,
                       [SeenVersion EXCEPT !.transfer = escrow.transfer])
              /\ UNCHANGED Delivery
    /\ UNCHANGED <<Database, stripe, Outside>>

\* Mutant: a Stripe call that timed out is taken for a success.
M_CompletionTransfer(w) ==
    /\ At(w, "completionTransfer")
    /\ HoldTransfer(w, "completionPersist", "completion_release")
    /\ UNCHANGED <<Database, Delivery, stripe, Outside>>

\* Without a current payout destination the job ends and admins are told; a
\* transfer that Stripe refuses throws.
CompletionTransfer(w) ==
    /\ At(w, "completionTransfer")
    /\ \/ payee = "notCurrent" /\ Return(w, Completion) /\ UNCHANGED stripe
       \/ payee = "restricted" /\ Throw(w, Completion) /\ UNCHANGED stripe
       \/ /\ PayeeReady
          /\ CreateTransfer("completion_release")
          /\ HoldTransfer(w, "completionPersist", "completion_release")
    /\ UNCHANGED <<Database, Outside>>

CompletionPersist(w) ==
    /\ At(w, "completionPersist")
    /\ CASE escrow.transfer # None ->
              /\ HoldTransfer(w, "completionRelease", escrow.transfer)
              /\ UNCHANGED <<escrow, Delivery>>
         [] escrow.transfer = None /\ ~SameVersion(w) ->
              Throw(w, Completion) /\ UNCHANGED escrow
         [] OTHER ->
              /\ MoveEscrow(escrow.state, [escrow EXCEPT !.transfer = proc[w].transfer])
              /\ Goto(w, "completionRelease")
              /\ UNCHANGED Delivery
    /\ UNCHANGED <<task, dispute, evidence, stripe, Outside>>

\* A terminal or invalid state ends the job as if it had succeeded.
CompletionRelease(w) ==
    /\ At(w, "completionRelease")
    /\ CASE ReleaseVerdict(FALSE) = "ok" ->
              Release(proc[w].transfer) /\ Return(w, Completion)
         [] ReleaseVerdict(FALSE) = "DB_ERROR" ->
              Throw(w, Completion) /\ UNCHANGED escrow
         [] OTHER ->
              Return(w, Completion) /\ UNCHANGED escrow
    /\ UNCHANGED <<task, dispute, evidence, stripe, Outside>>

-----------------------------------------------------------------------------
\* Dispute outcomes: escrow-action-worker

\* loadLockedEscrow throws on any other state of the row.
Locked == escrow.state = "LOCKED_DISPUTE"

\* The destination is not current, or Stripe refuses the account.  The lock
\* that is written for a restricted account is never reached: createTransfer
\* of StripeService drops the error's code.
TransferFails(w) ==
    /\ ~PayeeReady
    /\ Throw(w, proc[w].job)
    /\ UNCHANGED stripe

\* RELEASE: one transfer, stored; transfer.created releases the row.
ReleaseRequested == Job("release_requested", None)

DisputeLoad(w) ==
    /\ Takes(w, ReleaseRequested)
    /\ CASE Rejected(ReleaseRequested) \/ ~Locked -> Throw(w, ReleaseRequested)
         [] ~Rejected(ReleaseRequested) /\ Locked /\ escrow.transfer # None -> Return(w, ReleaseRequested)
         [] OTHER -> Enter(w, "disputeTransfer", ReleaseRequested, SeenVersion)
                       /\ UNCHANGED Delivery
    /\ UNCHANGED <<Database, stripe, Outside>>

DisputeTransfer(w) ==
    /\ At(w, "disputeTransfer")
    /\ \/ /\ PayeeReady
          /\ CreateTransfer("dispute_release")
          /\ HoldTransfer(w, "disputeStore", "dispute_release")
       \/ TransferFails(w)
    /\ UNCHANGED <<Database, Outside>>

DisputeStore(w) ==
    /\ At(w, "disputeStore")
    /\ CASE escrow.transfer # None ->
              Return(w, ReleaseRequested) /\ UNCHANGED escrow
         [] escrow.transfer = None /\ ~SameVersion(w) ->
              Throw(w, ReleaseRequested) /\ UNCHANGED escrow
         [] OTHER ->
              /\ MoveEscrow(escrow.state, [escrow EXCEPT !.transfer = proc[w].transfer])
              /\ Return(w, ReleaseRequested)
    /\ UNCHANGED <<task, dispute, evidence, stripe, Outside>>

\* REFUND: reverse the transfer the dispute forgot, refund, store;
\* charge.refunded terminalizes the row.
RefundRequested == Job("refund_requested", None)

RefundLoad(w) ==
    /\ Takes(w, RefundRequested)
    /\ CASE Rejected(RefundRequested) \/ ~Locked -> Throw(w, RefundRequested)
         [] ~Rejected(RefundRequested) /\ Locked /\ escrow.refund # None -> Return(w, RefundRequested)
         [] OTHER -> Enter(w, "refundCheck", RefundRequested, Idle) /\ UNCHANGED Delivery
    /\ UNCHANGED <<Database, stripe, Outside>>

RefundCheck(w) ==
    /\ At(w, "refundCheck")
    /\ IF escrow.refund # None THEN Return(w, RefundRequested)
       ELSE Goto(w, "reverse") /\ UNCHANGED Delivery
    /\ UNCHANGED <<Database, stripe, Outside>>

\* Skipped when no transfer was forgotten or its reversal has a checkpoint.
EnsurePriorTransferReversed(w) ==
    /\ At(w, "reverse")
    /\ IF evidence.original = None \/ evidence.reversed
       THEN Goto(w, "issueRefund") /\ UNCHANGED <<stripe, Delivery>>
       ELSE IF Reversible(evidence.original)
       THEN /\ CreateTransferReversal(evidence.original)
            /\ Goto(w, "reverseCheckpoint")
            /\ UNCHANGED Delivery
       ELSE Throw(w, RefundRequested) /\ UNCHANGED stripe
    /\ UNCHANGED <<Database, Outside>>

ReverseCheckpoint(w) ==
    /\ At(w, "reverseCheckpoint")
    /\ evidence' = [evidence EXCEPT !.reversed = TRUE]
    /\ Goto(w, "issueRefund")
    /\ UNCHANGED <<escrow, task, dispute, Delivery, stripe, Outside>>

IssueRefund(w) ==
    /\ At(w, "issueRefund")
    /\ IF Refundable("wkr_refund")
       THEN CreateRefund("wkr_refund") /\ HoldRefund(w, "storeRefund", "wkr_refund")
       ELSE Throw(w, RefundRequested) /\ UNCHANGED stripe
    /\ UNCHANGED <<Database, Outside>>

StoreRefund(w) ==
    /\ At(w, "storeRefund")
    /\ IF escrow.refund # None THEN UNCHANGED escrow
       ELSE MoveEscrow(escrow.state, [escrow EXCEPT !.refund = proc[w].refund])
    /\ Return(w, RefundRequested)
    /\ UNCHANGED <<task, dispute, evidence, stripe, Outside>>

\* SPLIT: refund, checkpoint, transfer, terminalize.
PartialRefundRequested == Job("partial_refund_requested", None)

\* Mutant: the transfer goes first.
M_SplitLoad(w) ==
    /\ Takes(w, PartialRefundRequested)
    /\ Locked
    /\ Enter(w, "splitTransfer", PartialRefundRequested, Idle)
    /\ UNCHANGED <<Database, Delivery, stripe, Outside>>

SplitLoad(w) ==
    /\ Takes(w, PartialRefundRequested)
    /\ IF Rejected(PartialRefundRequested) \/ ~Locked \/ QuotedFee THEN Throw(w, PartialRefundRequested)
       ELSE /\ Enter(w, "splitRefund", PartialRefundRequested,
                     [Idle EXCEPT !.transfer = escrow.transfer, !.refund = escrow.refund])
            /\ UNCHANGED Delivery
    /\ UNCHANGED <<Database, stripe, Outside>>

SplitResolveRefund(w) ==
    /\ At(w, "splitRefund")
    /\ LET known == IF proc[w].refund # None THEN proc[w].refund ELSE evidence.partialRefund
       IN  IF known # None
           THEN HoldRefund(w, "splitTransfer", known) /\ UNCHANGED <<stripe, Delivery>>
           ELSE IF Refundable("wkr_partial_refund")
           THEN /\ CreateRefund("wkr_partial_refund")
                /\ HoldRefund(w, "splitCheckpoint", "wkr_partial_refund")
           ELSE Throw(w, PartialRefundRequested) /\ UNCHANGED stripe
    /\ UNCHANGED <<Database, Outside>>

SplitCheckpoint(w) ==
    /\ At(w, "splitCheckpoint")
    /\ evidence' = [evidence EXCEPT !.partialRefund = proc[w].refund]
    /\ Goto(w, "splitTransfer")
    /\ UNCHANGED <<escrow, task, dispute, Delivery, stripe, Outside>>

\* The transfer id is read again before Stripe is called.
SplitResolveTransfer(w) ==
    /\ At(w, "splitTransfer")
    /\ LET known == IF proc[w].transfer # None THEN proc[w].transfer ELSE escrow.transfer
       IN  \/ /\ known # None
              /\ HoldTransfer(w, "splitTerminal", known)
              /\ UNCHANGED <<stripe, Delivery>>
           \/ /\ known = None /\ PayeeReady
              /\ CreateTransfer("dispute_partial_release")
              /\ HoldTransfer(w, "splitTerminal", "dispute_partial_release")
           \/ known = None /\ TransferFails(w)
    /\ UNCHANGED <<Database, Outside>>

SplitTerminalize(w) ==
    /\ At(w, "splitTerminal")
    /\ CASE Locked ->
              /\ MoveEscrow("REFUND_PARTIAL",
                     [escrow EXCEPT !.transfer = proc[w].transfer, !.refund = proc[w].refund])
              /\ Return(w, PartialRefundRequested)
         [] escrow.state = "REFUND_PARTIAL" ->
              Return(w, PartialRefundRequested) /\ UNCHANGED escrow
         [] OTHER ->
              Throw(w, PartialRefundRequested) /\ UNCHANGED escrow
    /\ UNCHANGED <<task, dispute, evidence, stripe, Outside>>

-----------------------------------------------------------------------------
\* EscrowService.refund, called by a request: prepare, refund, terminalize

AllowedStates(j) ==
    IF j.kind = "force_refund" THEN {"FUNDED", "LOCKED_DISPUTE", "RELEASED"} ELSE {"FUNDED"}
RefundSuffix(j) == IF j.kind = "force_refund" THEN "admin_override" ELSE "svc_refund"

\* Not for a task a worker has accepted, not out of a dispute lock unless by
\* an admin.  The task row is read without a lock.  A row that is PENDING is
\* not refused: it names no payment intent, so no refund is asked of Stripe.
\* The reversal branch for a RELEASED row is never reached, its task is
\* COMPLETED (ReleasedTaskIsCompleted).
PrepareRefund(w, j) ==
    /\ At(w, "idle")
    /\ j.kind \in Operations
    /\ escrow.state = "LOCKED_DISPUTE" => j.kind = "force_refund"
    /\ task \notin {"MATCHING", "ACCEPTED", "PROOF_SUBMITTED", "COMPLETED"}
    /\ Enter(w, IF escrow.state = "PENDING" THEN "unpaidTerminal" ELSE "serviceRefund", j,
             [Idle EXCEPT !.refund = escrow.refund])
    /\ UNCHANGED <<Database, Delivery, stripe, Outside>>

\* A recorded refund is not issued again.
ServiceRefund(w) ==
    /\ At(w, "serviceRefund")
    /\ LET r == RefundSuffix(proc[w].job)
       IN  IF proc[w].refund # None
           THEN Goto(w, "serviceTerminal") /\ UNCHANGED <<stripe, Delivery>>
           ELSE IF Refundable(r)
           THEN CreateRefund(r) /\ HoldRefund(w, "serviceTerminal", r)
           ELSE Return(w, NoJob) /\ UNCHANGED stripe
    /\ UNCHANGED <<Database, Outside>>

\* Mutant: the refund id is not written.
M_TerminalizeRefund(w) ==
    /\ At(w, "serviceTerminal") \/ At(w, "unpaidTerminal")
    /\ escrow.state \in AllowedStates(proc[w].job)
    /\ MoveEscrow("REFUNDED", escrow)
    /\ Return(w, NoJob)
    /\ UNCHANGED <<task, dispute, evidence, stripe, Outside>>

\* COALESCE(the refund in hand, the refund on the row).
RefundToStore(w) == IF proc[w].refund # None THEN proc[w].refund ELSE escrow.refund

\* The row's state is checked again; the task's is not, nor whether the row
\* was paid since it was read.
TerminalizeRefund(w) ==
    /\ At(w, "serviceTerminal") \/ At(w, "unpaidTerminal")
    /\ IF escrow.state \in AllowedStates(proc[w].job) /\ Writable("REFUNDED", FALSE)
       THEN MoveEscrow("REFUNDED", [escrow EXCEPT !.refund = RefundToStore(w)])
       ELSE UNCHANGED escrow
    /\ Return(w, NoJob)
    /\ UNCHANGED <<task, dispute, evidence, stripe, Outside>>

-----------------------------------------------------------------------------
\* Stripe events: payment-worker

\* transfer.created for t: preflight, then the release of EscrowService.
TransferEvent(t) == Job("transfer.created", t)

TransferEventLoad(w, t) ==
    /\ Claims(w, TransferEvent(t))
    /\ CASE \/ escrow.state \in {"PENDING", "REFUNDED", "REFUND_PARTIAL"}
            \/ escrow.transfer \notin {None, t}
            \/ escrow.state = "RELEASED" /\ escrow.transfer # t
            \/ TransferValue(t) # Net -> Throw(w, TransferEvent(t))
         [] escrow.state = "RELEASED" /\ escrow.transfer = t /\ TransferValue(t) = Net ->
              Return(w, TransferEvent(t))
         [] OTHER ->
              /\ Enter(w, "eventRelease", TransferEvent(t), [Idle EXCEPT !.transfer = t])
              /\ claimed' = claimed \cup {TransferEvent(t)}
              /\ UNCHANGED queue
    /\ UNCHANGED <<Database, stripe, Outside>>

\* A concurrent release is accepted if it converged on the same transfer.
TransferEventRelease(w) ==
    /\ At(w, "eventRelease")
    /\ IF ReleaseVerdict(FALSE) = "ok"
       THEN Release(proc[w].transfer) /\ Return(w, proc[w].job)
       ELSE /\ IF /\ ReleaseVerdict(FALSE) # "DB_ERROR"
                  /\ escrow.state = "RELEASED" /\ escrow.transfer = proc[w].transfer
               THEN Return(w, proc[w].job) ELSE Throw(w, proc[w].job)
            /\ UNCHANGED escrow
    /\ UNCHANGED <<task, dispute, evidence, stripe, Outside>>

\* An event that is claimed, by a run that goes on or by one that died, is
\* skipped, and its job is complete.
SkipClaimed(w, j) ==
    /\ Takes(w, j)
    /\ j \in claimed
    /\ Return(w, j)
    /\ UNCHANGED <<Database, stripe, Outside>>

\* The maintenance job gives an old claim back, and enqueues nothing.
RecoverStuckStripeEvents(j) ==
    /\ j \in claimed
    /\ claimed' = claimed \ {j}
    /\ UNCHANGED <<Database, queue, proc, stripe, Outside>>

\* charge.refunded for r: read, reverse the transfer of a released row,
\* terminalize.  Neither the amount nor the origin of r is looked at.
RefundEvent(r) == Job("charge.refunded", r)

RefundEventLoad(w, r) ==
    /\ Claims(w, RefundEvent(r))
    /\ IF escrow.state \in {"REFUNDED", "REFUND_PARTIAL"}
       THEN Return(w, RefundEvent(r))
       ELSE /\ IF escrow.state = "RELEASED" /\ escrow.transfer # None
               THEN Enter(w, "eventReverse", RefundEvent(r),
                          [Idle EXCEPT !.refund = r, !.transfer = escrow.transfer])
               ELSE Enter(w, "eventRefund", RefundEvent(r), [Idle EXCEPT !.refund = r])
            /\ claimed' = claimed \cup {RefundEvent(r)}
            /\ UNCHANGED queue
    /\ UNCHANGED <<Database, stripe, Outside>>

\* A reversal that fails is reported and the event goes on.
RefundEventReverse(w) ==
    /\ At(w, "eventReverse")
    /\ \/ Reversible(proc[w].transfer) /\ CreateTransferReversal(proc[w].transfer)
       \/ UNCHANGED stripe
    /\ proc' = [proc EXCEPT ![w].pc = "eventRefund", ![w].transfer = None]
    /\ UNCHANGED <<Database, Delivery, Outside>>

RefundEventTerminalize(w) ==
    /\ At(w, "eventRefund")
    /\ IF escrow.state \in {"REFUNDED", "REFUND_PARTIAL"}
       THEN Return(w, proc[w].job) /\ UNCHANGED escrow
       ELSE IF Writable("REFUNDED", FALSE)
       THEN /\ MoveEscrow("REFUNDED", [escrow EXCEPT !.refund = proc[w].refund])
            /\ Return(w, proc[w].job)
       ELSE Throw(w, proc[w].job) /\ UNCHANGED escrow
    /\ UNCHANGED <<task, dispute, evidence, stripe, Outside>>

-----------------------------------------------------------------------------
\* The environment

Faulty(w, kind) ==
    /\ kind \in FaultKinds
    /\ ~At(w, "idle")
    /\ faults < MaxFaults
    /\ faults' = faults + 1
    /\ proc' = [proc EXCEPT ![w] = Idle]
    /\ UNCHANGED <<Database, queue, stripe, payee>>

\* Mutant: the claim is not given back.
M_Fail(w) == Faulty(w, "error") /\ UNCHANGED claimed

\* The handler throws and its job is delivered again; a request is not.
Fail(w) == Faulty(w, "error") /\ claimed' = claimed \ {proc[w].job}

\* The run ends where it is, with its claim; its job is delivered again.
Crash(w) == Faulty(w, "crash") /\ UNCHANGED claimed

PayeeChanges ==
    /\ payee' \in PayeeStates \ {payee}
    /\ UNCHANGED <<Database, Delivery, proc, stripe, faults>>

-----------------------------------------------------------------------------
(***************************************************************************)
(* History.  The races after which money can have moved twice: the row     *)
(* leaves FUNDED without the completion payout that is in flight; a payout *)
(* by hand is recorded while a transfer is in flight; a worker is assigned *)
(* or favored while a full refund is in flight.  A fourth race settles     *)
(* without money: the row is paid while a refund that read it unpaid is    *)
(* under way.                                                              *)
(***************************************************************************)

PayoutsInFlight ==
    stripe.transfers
      \cup {t \in TransferIds : \E w \in Workers :
                At(w, CASE t = "completion_release" -> "completionTransfer"
                        [] t = "dispute_release"    -> "disputeTransfer"
                        [] OTHER                    -> "splitTransfer")}

RefundInFlight ==
    \/ stripe.refunds \cap {"svc_refund", "admin_override"} # {}
    \/ \E w \in Workers : At(w, "serviceRefund")

Races ==
    (IF /\ escrow.state = "FUNDED" /\ escrow'.state # "FUNDED"
        /\ PayoutsInFlight # {}
        /\ escrow'.state = "RELEASED" => escrow'.transfer \notin PayoutsInFlight
     THEN {"payout"} ELSE {})
    \cup
    (IF escrow.provider = None /\ escrow'.provider = "MANUAL_RECONCILIATION"
        /\ PayoutsInFlight # {}
     THEN {"manual"} ELSE {})
    \cup
    (IF task # task' /\ task' \in {"ACCEPTED", "COMPLETED"} /\ RefundInFlight
     THEN {"refund"} ELSE {})
    \cup
    (IF escrow.state = "PENDING" /\ escrow'.state # "PENDING"
        /\ \E w \in Workers : At(w, "unpaidTerminal")
     THEN {"unpaid"} ELSE {})

\* The races that move money twice.
MoneyRaces == raced \ {"unpaid"}

-----------------------------------------------------------------------------
Init ==
    /\ escrow = [state |-> "PENDING", version |-> 1, provider |-> None,
                 transfer |-> None, refund |-> None]
    /\ task \in {"OPEN", "MATCHING"}
    /\ dispute = "NONE"
    /\ evidence = [original |-> None, reversed |-> FALSE, partialRefund |-> None]
    /\ queue = {}
    /\ claimed = {}
    /\ proc = [w \in Workers |-> Idle]
    /\ stripe = [transfers |-> {}, reversed |-> {}, refunds |-> {}]
    /\ payee = "ready"
    /\ faults = 0
    /\ raced = {}

TaskStep ==
    Fund \/ AssignWorker \/ SubmitProof \/ RejectProof \/ CompleteTask \/ CancelTask \/ AbandonTask

DisputeStep ==
    \/ LockForDispute \/ ChargebackLock
    \/ CreateDispute \/ RequestEvidence \/ Escalate
    \/ \E outcome \in Outcomes : ResolveDispute(outcome)

RequestStep ==
    \/ ForceRelease
    \/ \E t \in TransferIds : PosterRelease(t)
    \/ \E w \in Workers, j \in Requests : PrepareRefund(w, j)

\* A worker takes a job.
TakeJob(w) ==
    \/ CompletionLoad(w) \/ DisputeLoad(w) \/ RefundLoad(w) \/ SplitLoad(w)
    \/ \E t \in TransferIds : TransferEventLoad(w, t)
    \/ \E r \in RefundIds : RefundEventLoad(w, r)
    \/ \E j \in EventJobs : SkipClaimed(w, j)

\* A process goes on with what it runs.
Continue(w) ==
    \/ CompletionTransfer(w) \/ CompletionPersist(w) \/ CompletionRelease(w)
    \/ DisputeTransfer(w) \/ DisputeStore(w)
    \/ RefundCheck(w) \/ EnsurePriorTransferReversed(w) \/ ReverseCheckpoint(w)
    \/ IssueRefund(w) \/ StoreRefund(w)
    \/ SplitResolveRefund(w) \/ SplitCheckpoint(w) \/ SplitResolveTransfer(w)
    \/ SplitTerminalize(w)
    \/ ServiceRefund(w) \/ TerminalizeRefund(w)
    \/ TransferEventRelease(w) \/ RefundEventReverse(w) \/ RefundEventTerminalize(w)

EnvironmentStep ==
    \/ \E w \in Workers : Fail(w) \/ Crash(w)
    \/ \E j \in EventJobs : RecoverStuckStripeEvents(j)
    \/ PayeeChanges

Next ==
    /\ \/ TaskStep
       \/ DisputeStep
       \/ RequestStep
       \/ \E w \in Workers : TakeJob(w) \/ Continue(w)
       \/ EnvironmentStep
    /\ raced' = raced \cup Races

Spec == Init /\ [][Next]_vars

-----------------------------------------------------------------------------
\* Safety

\* Every Stripe id the program keeps, on the row, in a checkpoint, in the
\* locals of a running handler or in an event that waits to be handled, names
\* an object that exists at Stripe: no handler persists an id before the call
\* that creates the object returned.
RecordedIdsAreIssued ==
    /\ {escrow.transfer, evidence.original} \subseteq stripe.transfers \cup {None}
    /\ {escrow.refund, evidence.partialRefund} \subseteq stripe.refunds \cup {None}
    /\ \A w \in Workers :
         /\ proc[w].transfer \in stripe.transfers \cup {None}
         /\ proc[w].refund \in stripe.refunds \cup {None}
    /\ \A t \in TransferIds : Job("transfer.created", t) \in queue => t \in stripe.transfers
    /\ \A r \in RefundIds : Job("charge.refunded", r) \in queue => r \in stripe.refunds

\* A settled row names the objects that settled it, whichever of the service,
\* a worker or a webhook won: the worker's transfer (or the note that it is
\* paid by hand) when RELEASED, the poster's refund when REFUNDED, both when
\* REFUND_PARTIAL, and these exist at Stripe.  One race leaves a REFUNDED row
\* without a refund: a refund that read the row before it was paid asks
\* nothing of Stripe and then finds it FUNDED.
SettlementIsBacked ==
    /\ escrow.state = "RELEASED" =>
         \/ escrow.provider = "STRIPE" /\ escrow.transfer \in stripe.transfers
         \/ escrow.provider = "MANUAL_RECONCILIATION" /\ escrow.transfer = None
    /\ escrow.state = "REFUNDED" =>
         \/ escrow.refund \in stripe.refunds
         \/ escrow.refund = None /\ "unpaid" \in raced
    /\ escrow.state = "REFUND_PARTIAL" =>
         escrow.transfer \in stripe.transfers /\ escrow.refund \in stripe.refunds

\* A RELEASED row's task is COMPLETED and stays so: neither a dispute filed
\* later nor a refund prepared earlier takes it back.  It is what makes the
\* reversal branch of EscrowService.refund unreachable.
ReleasedTaskIsCompleted ==
    escrow.state = "RELEASED" => task = "COMPLETED"

\* A dispute pays one side: the action worker never creates the transfer of
\* one outcome and the refund or transfer of another, however often its jobs
\* are delivered.
DisputeOutcomeIsExclusive ==
    LET release == "dispute_release" \in stripe.transfers
        refund  == "wkr_refund" \in stripe.refunds
        split   == \/ "wkr_partial_refund" \in stripe.refunds
                   \/ "dispute_partial_release" \in stripe.transfers
    IN  /\ ~(release /\ refund) /\ ~(release /\ split) /\ ~(refund /\ split)
        /\ release => dispute = "RELEASE"
        /\ refund  => dispute = "REFUND"
        /\ split   => dispute = "SPLIT"

\* The share of a SPLIT is sent to the worker only after the poster's part
\* was refunded, so a full refund that got there first stops the payout.
SplitRefundsFirst ==
    "dispute_partial_release" \in stripe.transfers =>
        "wkr_partial_refund" \in stripe.refunds

\* A row version seen while the row was open identifies that openness: a
\* handler that finds its version unchanged in the second transaction writes
\* to a row that is not settled (it may have been locked by a writer that
\* does not bump the version).
VersionMeansOpen ==
    \A w \in Workers :
        /\ proc[w].version <= escrow.version
        /\ /\ proc[w].pc \in {"completionTransfer", "completionPersist",
                              "disputeTransfer", "disputeStore"}
           /\ proc[w].version = escrow.version
           => escrow.state \in {"FUNDED", "LOCKED_DISPUTE"}

\* Poster and worker together never receive more than the escrow holds,
\* unless one of the named races about money happened: the list of races is
\* complete.
OverpaymentNeedsARace == MoneyOut > Amount => MoneyRaces # {}

\* Without a race about money a completion payout that left for Stripe is the one the
\* settled row names: no settlement forgets it.
UnracedPayoutIsRecorded ==
    /\ "completion_release" \in stripe.transfers
    /\ MoneyRaces = {}
    => \/ escrow.state = "FUNDED"
       \/ escrow.state = "RELEASED" /\ escrow.transfer = "completion_release"

-----------------------------------------------------------------------------
\* The row implements the ledger

Ledger ==
    INSTANCE EscrowLedger WITH
        state    <- escrow.state,
        transfer <- escrow.transfer,
        refund   <- escrow.refund,
        provider <- escrow.provider

\* Whatever the interleaving of services, workers and webhooks, the row makes
\* only declared transitions, a settled row keeps the transfer and the
\* provider it was settled with, and only a settlement replaces a refund id.
RowImplementsLedger == Ledger!Spec

-----------------------------------------------------------------------------
\* Liveness

(***************************************************************************)
(* A process that runs goes on, and BullMQ, which serves its queue in      *)
(* order, eventually hands every waiting job to a free worker.             *)
(***************************************************************************)
Fairly(A) == A /\ raced' = raced \cup Races

Fairness ==
    /\ \A w \in Workers : WF_vars(Fairly(Continue(w)))
    /\ SF_vars(\E w \in Workers : Fairly(CompletionLoad(w)))
    /\ SF_vars(\E w \in Workers : Fairly(DisputeLoad(w) \/ RefundLoad(w) \/ SplitLoad(w)))
    /\ \A t \in TransferIds : SF_vars(\E w \in Workers : Fairly(TransferEventLoad(w, t)))
    /\ SF_vars(\E w \in Workers, r \in RefundIds : Fairly(RefundEventLoad(w, r)))

FairSpec == Spec /\ Fairness

\* A completed task's escrow does not stay FUNDED: crashes, Stripe errors and
\* duplicate runs delay the payout, they do not lose it.
CompletionSettles == task = "COMPLETED" ~> escrow.state # "FUNDED"

\* Every resolved dispute settles the row, through the action worker and the
\* webhook that its Stripe call causes.
ResolutionSettles == dispute \in Outcomes ~> escrow.state \in TerminalStates

=============================================================================
