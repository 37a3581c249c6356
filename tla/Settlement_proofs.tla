------------------------- MODULE Settlement_proofs -------------------------
(***************************************************************************)
(* Type correctness of the settlement, for any number of workers and any   *)
(* amounts.  TypeOK is not inductive alone: a charge.refunded handler      *)
(* reverses the transfer it holds, so the invariant also says which steps  *)
(* of a handler hold a Stripe id (HandlersHoldIds).                        *)
(***************************************************************************)
EXTENDS Settlement, TLAPS

\* TypeOK without the history variable.
DataTyped ==
    /\ escrow \in Rows
    /\ task \in TaskStates
    /\ dispute \in DisputeStates
    /\ evidence \in Checkpoints
    /\ queue \in SUBSET Jobs
    /\ claimed \in SUBSET EventJobs
    /\ proc \in [Workers -> Processes]
    /\ stripe \in Movements
    /\ payee \in AllPayeeStates
    /\ faults \in Nat

\* The jobs the handlers name are jobs.
LEMMA JobsTyped ==
    /\ EventJobs \subseteq Jobs
    /\ ActionJobs \subseteq Jobs
    /\ Completion \in Jobs /\ ReleaseRequested \in Jobs
    /\ RefundRequested \in Jobs /\ PartialRefundRequested \in Jobs
    /\ \A o : ActionJobOf(o) \in Jobs
    /\ \A t \in TransferIds : TransferEvent(t) \in EventJobs
    /\ \A r \in RefundIds : RefundEvent(r) \in EventJobs
  BY DEF Jobs, ActionJobs, EventJobs, Completion, ReleaseRequested, RefundRequested,
         PartialRefundRequested, ActionJobOf, TransferEvent, RefundEvent

\* An idle process is a process.
LEMMA IdleTyped == Idle \in Processes
  BY DEF Idle, Processes, Steps

\* The first transaction leaves a well typed process.
LEMMA EnterTyped ==
    ASSUME proc \in [Workers -> Processes], NEW w \in Workers, NEW step \in Steps,
           NEW j \in Jobs \cup Requests, NEW locals \in Processes, Enter(w, step, j, locals)
    PROVE  proc' \in [Workers -> Processes]
<1>1. [locals EXCEPT !.pc = step, !.job = j] \in Processes
  BY DEF Processes
<1>2. QED
  BY <1>1 DEF Enter

\* A row that is moved to a declared state is a row.
LEMMA MoveEscrowTyped ==
    ASSUME escrow \in Rows, NEW new \in EscrowStates, NEW fields \in Rows,
           MoveEscrow(new, fields)
    PROVE  escrow' \in Rows
<1>1. escrow.version + 1 \in Nat
  BY DEF Rows
<1>2. [fields EXCEPT !.state = new] \in Rows
  BY DEF Rows
<1>3. \A f \in Rows, v \in Nat : [f EXCEPT !.version = v] \in Rows
  BY DEF Rows
<1>4. QED
  BY <1>1, <1>2, <1>3 DEF MoveEscrow

\* The operations of the task keep the types.
LEMMA TaskStepTyped == ASSUME DataTyped, TaskStep PROVE DataTyped'
<1>. USE DEF DataTyped, TaskMoves, Delivery
<1>f. "FUNDED" \in EscrowStates /\ "LOCKED_DISPUTE" \in EscrowStates
  BY DEF EscrowStates
<1>1. CASE Fund
  BY <1>1, <1>f, MoveEscrowTyped DEF Fund
<1>2. CASE AssignWorker
  BY <1>2 DEF AssignWorker, TaskStates
<1>3. CASE SubmitProof \/ RejectProof
  BY <1>3 DEF SubmitProof, RejectProof, TaskStates
<1>4. CASE CompleteTask
  BY <1>4, JobsTyped DEF CompleteTask, Completion, TaskStates
<1>5. CASE CancelTask
  BY <1>5 DEF CancelTask, TaskStates
<1>6. CASE AbandonTask
  BY <1>6, <1>f, MoveEscrowTyped DEF AbandonTask, TaskStates
<1>7. QED
  BY <1>1, <1>2, <1>3, <1>4, <1>5, <1>6 DEF TaskStep

\* Locks, disputes and resolutions keep the types.
LEMMA DisputeStepTyped == ASSUME DataTyped, DisputeStep PROVE DataTyped'
<1>. USE DEF DataTyped, Delivery
<1>l. "LOCKED_DISPUTE" \in EscrowStates
  BY DEF EscrowStates
<1>1. CASE LockForDispute
  BY <1>1, <1>l, MoveEscrowTyped DEF LockForDispute
<1>2. CASE ChargebackLock
  BY <1>2, <1>l DEF ChargebackLock, Rows
<1>3. CASE CreateDispute
  <2>1. escrow' \in Rows
    <3>1. [escrow EXCEPT !.transfer = None] \in Rows
      BY DEF Rows
    <3>2. QED
      BY <1>3, <1>l, <3>1, MoveEscrowTyped DEF CreateDispute
  <2>2. evidence' \in Checkpoints
    BY <1>3 DEF CreateDispute, Rows, Checkpoints
  <2>3. QED
    BY <1>3, <2>1, <2>2 DEF CreateDispute, DisputeStates, TaskStates
<1>4. CASE RequestEvidence \/ Escalate
  BY <1>4 DEF RequestEvidence, Escalate, DisputeStates
<1>5. ASSUME NEW outcome \in Outcomes, ResolveDispute(outcome)
      PROVE  DataTyped'
  BY <1>5, JobsTyped DEF ResolveDispute, DisputeStates, TaskStates
<1>6. QED
  BY <1>1, <1>2, <1>3, <1>4, <1>5 DEF DisputeStep

\* The end of a handler keeps the types, whether it returns or throws.
LEMMA ReturnTyped ==
    ASSUME DataTyped, NEW w \in Workers, NEW j, Return(w, j) \/ Throw(w, j)
    PROVE  /\ proc' \in [Workers -> Processes]
           /\ queue' \in SUBSET Jobs
           /\ claimed' \in SUBSET EventJobs
  BY IdleTyped DEF DataTyped, Return, Throw

\* A process that goes on, with or without a new Stripe id, is a process.
LEMMA HoldTyped ==
    ASSUME DataTyped, NEW w \in Workers, NEW step \in Steps
    PROVE  /\ Goto(w, step) => proc' \in [Workers -> Processes]
           /\ \A t \in TransferIds \cup {None} :
                 HoldTransfer(w, step, t) => proc' \in [Workers -> Processes]
           /\ \A r \in RefundIds \cup {None} :
                 HoldRefund(w, step, r) => proc' \in [Workers -> Processes]
<1>1. [proc[w] EXCEPT !.pc = step] \in Processes
  BY DEF DataTyped, Processes
<1>2. \A t \in TransferIds \cup {None} : [proc[w] EXCEPT !.pc = step, !.transfer = t] \in Processes
  BY DEF DataTyped, Processes
<1>3. \A r \in RefundIds \cup {None} : [proc[w] EXCEPT !.pc = step, !.refund = r] \in Processes
  BY DEF DataTyped, Processes
<1>4. QED
  BY <1>1, <1>2, <1>3 DEF DataTyped, Goto, HoldTransfer, HoldRefund

\* The Stripe calls create objects the model knows, and their events are jobs.
LEMMA StripeTyped ==
    ASSUME DataTyped
    PROVE  /\ \A t \in TransferIds : CreateTransfer(t) =>
                 stripe' \in Movements /\ queue' \in SUBSET Jobs /\ claimed' \in SUBSET EventJobs
           /\ \A r \in RefundIds : CreateRefund(r) =>
                 stripe' \in Movements /\ queue' \in SUBSET Jobs /\ claimed' \in SUBSET EventJobs
           /\ \A t \in TransferIds : CreateTransferReversal(t) => stripe' \in Movements
<1>1. ASSUME NEW t \in TransferIds, CreateTransfer(t)
      PROVE  stripe' \in Movements /\ queue' \in SUBSET Jobs /\ claimed' \in SUBSET EventJobs
  BY <1>1, JobsTyped DEF DataTyped, CreateTransfer, Movements, TransferEvent
<1>2. ASSUME NEW r \in RefundIds, CreateRefund(r)
      PROVE  stripe' \in Movements /\ queue' \in SUBSET Jobs /\ claimed' \in SUBSET EventJobs
  BY <1>2, JobsTyped DEF DataTyped, CreateRefund, Movements, RefundEvent
<1>3. ASSUME NEW t \in TransferIds, CreateTransferReversal(t)
      PROVE  stripe' \in Movements
  BY <1>3 DEF DataTyped, CreateTransferReversal, Movements
<1>4. QED
  BY <1>1, <1>2, <1>3

\* A released row is a row.
LEMMA ReleaseTyped ==
    ASSUME DataTyped, NEW given \in TransferIds \cup {None}, Release(given)
    PROVE  escrow' \in Rows
<1>. DEFINE id == IF given = None THEN escrow.transfer ELSE given
            provider == IF id = None THEN "MANUAL_RECONCILIATION" ELSE "STRIPE"
<1>1. id \in TransferIds \cup {None} /\ provider \in Providers
  BY DEF DataTyped, Rows, Providers
<1>2. \A t \in TransferIds \cup {None}, p \in Providers :
        [escrow EXCEPT !.transfer = t, !.provider = p] \in Rows
  BY DEF DataTyped, Rows
<1>3. "RELEASED" \in EscrowStates
  BY DEF EscrowStates
<1>4. QED
  BY <1>1, <1>2, <1>3, MoveEscrowTyped DEF DataTyped, Release

\* The requests keep the types.
LEMMA RequestStepTyped == ASSUME DataTyped, RequestStep PROVE DataTyped'
<1>. USE DEF DataTyped, Delivery, Database, Outside
<1>1. CASE ForceRelease
  BY <1>1, ReleaseTyped DEF ForceRelease
<1>2. ASSUME NEW t \in TransferIds, PosterRelease(t)
      PROVE  DataTyped'
  BY <1>2, ReleaseTyped DEF PosterRelease
<1>3. ASSUME NEW w \in Workers, NEW j \in Requests, PrepareRefund(w, j)
      PROVE  DataTyped'
  <2>1. [Idle EXCEPT !.refund = escrow.refund] \in Processes
    BY IdleTyped DEF Processes, Rows
  <2>2. {"serviceRefund", "unpaidTerminal"} \subseteq Steps
    BY DEF Steps
  <2>3. QED
    BY <1>3, <2>1, <2>2, EnterTyped DEF PrepareRefund
<1>4. QED
  BY <1>1, <1>2, <1>3 DEF RequestStep

\* The first transaction of every job keeps the types.
LEMMA TakeJobTyped ==
    ASSUME DataTyped, NEW w \in Workers, TakeJob(w)
    PROVE  DataTyped'
<1>. USE DEF DataTyped, Delivery, Database, Outside
<1>i. /\ SeenVersion \in Processes
      /\ [SeenVersion EXCEPT !.transfer = escrow.transfer] \in Processes
      /\ [Idle EXCEPT !.transfer = escrow.transfer, !.refund = escrow.refund] \in Processes
      /\ \A t \in TransferIds : [Idle EXCEPT !.transfer = t] \in Processes
      /\ \A r \in RefundIds :
           /\ [Idle EXCEPT !.refund = r] \in Processes
           /\ [Idle EXCEPT !.refund = r, !.transfer = escrow.transfer] \in Processes
  BY IdleTyped DEF SeenVersion, Processes, Rows
<1>s. {"completionTransfer", "completionRelease", "disputeTransfer", "refundCheck",
       "splitRefund", "eventRelease", "eventReverse", "eventRefund"} \subseteq Steps
  BY DEF Steps
<1>1. CASE CompletionLoad(w)
  BY <1>1, <1>i, <1>s, JobsTyped, ReturnTyped, EnterTyped DEF CompletionLoad
<1>2. CASE DisputeLoad(w)
  BY <1>2, <1>i, <1>s, JobsTyped, ReturnTyped, EnterTyped DEF DisputeLoad
<1>3. CASE RefundLoad(w)
  BY <1>3, <1>i, <1>s, JobsTyped, IdleTyped, ReturnTyped, EnterTyped DEF RefundLoad
<1>4. CASE SplitLoad(w)
  BY <1>4, <1>i, <1>s, JobsTyped, ReturnTyped, EnterTyped DEF SplitLoad
<1>5. ASSUME NEW t \in TransferIds, TransferEventLoad(w, t)
      PROVE  DataTyped'
  <2>1. CASE Return(w, TransferEvent(t)) \/ Throw(w, TransferEvent(t))
    BY <1>5, <2>1, ReturnTyped DEF TransferEventLoad
  <2>2. CASE /\ Enter(w, "eventRelease", TransferEvent(t), [Idle EXCEPT !.transfer = t])
             /\ claimed' = claimed \cup {TransferEvent(t)}
             /\ UNCHANGED queue
    <3>1. TransferEvent(t) \in Jobs \cup Requests /\ TransferEvent(t) \in EventJobs
      BY JobsTyped
    <3>2. proc' \in [Workers -> Processes]
      BY <1>i, <1>s, <2>2, <3>1, EnterTyped
    <3>3. QED
      BY <1>5, <2>2, <3>1, <3>2 DEF TransferEventLoad
  <2>3. QED
    BY <1>5, <2>1, <2>2 DEF TransferEventLoad
<1>6. ASSUME NEW r \in RefundIds, RefundEventLoad(w, r)
      PROVE  DataTyped'
  <2>1. CASE Return(w, RefundEvent(r))
    BY <1>6, <2>1, ReturnTyped DEF RefundEventLoad
  <2>2. CASE /\ \/ Enter(w, "eventReverse", RefundEvent(r),
                        [Idle EXCEPT !.refund = r, !.transfer = escrow.transfer])
                \/ Enter(w, "eventRefund", RefundEvent(r), [Idle EXCEPT !.refund = r])
             /\ claimed' = claimed \cup {RefundEvent(r)}
             /\ UNCHANGED queue
    <3>1. RefundEvent(r) \in Jobs \cup Requests /\ RefundEvent(r) \in EventJobs
      BY JobsTyped
    <3>2. proc' \in [Workers -> Processes]
      BY <1>i, <1>s, <2>2, <3>1, EnterTyped
    <3>3. QED
      BY <1>6, <2>2, <3>1, <3>2 DEF RefundEventLoad
  <2>3. QED
    BY <1>6, <2>1, <2>2 DEF RefundEventLoad
<1>7. ASSUME NEW j \in EventJobs, SkipClaimed(w, j)
      PROVE  DataTyped'
  BY <1>7, ReturnTyped DEF SkipClaimed
<1>8. QED
  BY <1>1, <1>2, <1>3, <1>4, <1>5, <1>6, <1>7 DEF TakeJob

\* The locals of a process, and the row, are of their types.
LEMMA LocalsTyped ==
    ASSUME DataTyped, NEW w \in Workers
    PROVE  /\ proc[w] \in Processes
           /\ proc[w].transfer \in TransferIds \cup {None}
           /\ proc[w].refund \in RefundIds \cup {None}
           /\ escrow.state \in EscrowStates
           /\ escrow.transfer \in TransferIds \cup {None}
           /\ evidence.partialRefund \in RefundIds \cup {None}
           /\ evidence.original \in TransferIds \cup {None}
           /\ [escrow EXCEPT !.transfer = proc[w].transfer] \in Rows
           /\ [escrow EXCEPT !.refund = proc[w].refund] \in Rows
           /\ RefundToStore(w) \in RefundIds \cup {None}
           /\ [escrow EXCEPT !.refund = RefundToStore(w)] \in Rows
           /\ [escrow EXCEPT !.transfer = proc[w].transfer, !.refund = proc[w].refund] \in Rows
<1>1. proc[w] \in Processes
  BY DEF DataTyped
<1>2. /\ proc[w].transfer \in TransferIds \cup {None}
      /\ proc[w].refund \in RefundIds \cup {None}
  BY <1>1 DEF Processes
<1>3. RefundToStore(w) \in RefundIds \cup {None}
  BY <1>2 DEF RefundToStore, DataTyped, Rows
<1>4. QED
  BY <1>1, <1>2, <1>3 DEF DataTyped, Rows, Checkpoints

(***************************************************************************)
(* A handler that is about to write or to reverse an object holds its id.  *)
(***************************************************************************)
HoldsTransfer ==
    {"completionPersist", "completionRelease", "disputeStore", "splitTerminal",
     "eventRelease", "eventReverse"}

HoldsRefund ==
    {"splitCheckpoint", "splitTransfer", "splitTerminal", "storeRefund",
     "serviceTerminal", "eventReverse", "eventRefund"}

Holds(p) ==
    /\ p.pc \in HoldsTransfer => p.transfer # None
    /\ p.pc \in HoldsRefund => p.refund # None

HandlersHoldIds == \A w \in Workers : Holds(proc[w])

\* A step of process w concerns the locals of w alone.
LEMMA UpdateHolds ==
    ASSUME DataTyped, HandlersHoldIds, NEW w \in Workers, NEW p,
           proc' = [proc EXCEPT ![w] = p], Holds(p)
    PROVE  HandlersHoldIds'
<1>1. \A v \in Workers : proc'[v] = IF v = w THEN p ELSE proc[v]
  BY DEF DataTyped
<1>2. \A v \in Workers : Holds(proc'[v])
  BY <1>1 DEF HandlersHoldIds
<1>3. QED
  BY <1>2 DEF HandlersHoldIds, Holds

\* A Stripe id is never the NULL of a column.
LEMMA IdsAreNotNone ==
    /\ \A t \in TransferIds : t # None
    /\ \A r \in RefundIds : r # None
  BY DEF None, TransferIds, RefundIds

\* A handler that ended holds no id and needs none.
LEMMA ReturnHolds ==
    ASSUME DataTyped, HandlersHoldIds, NEW w \in Workers, NEW j,
           Return(w, j) \/ Throw(w, j)
    PROVE  HandlersHoldIds'
<1>1. Holds(Idle)
  BY DEF Idle, Holds, HoldsTransfer, HoldsRefund
<1>2. QED
  BY <1>1, UpdateHolds DEF Return, Throw

\* What a first transaction has to leave in the locals.
LEMMA EnterHolds ==
    ASSUME DataTyped, HandlersHoldIds, NEW w \in Workers, NEW step, NEW j,
           NEW locals \in Processes, Enter(w, step, j, locals),
           step \in HoldsTransfer => locals.transfer # None,
           step \in HoldsRefund => locals.refund # None
    PROVE  HandlersHoldIds'
<1>. DEFINE p == [locals EXCEPT !.pc = step, !.job = j]
<1>1. Holds(p)
  BY DEF Holds, Processes
<1>2. proc' = [proc EXCEPT ![w] = p]
  BY DEF Enter
<1>3. QED
  BY <1>1, <1>2, UpdateHolds

\* What the next step of a handler has to find in the locals.
LEMMA StepHolds ==
    ASSUME DataTyped, HandlersHoldIds, NEW w \in Workers, NEW step
    PROVE  /\ /\ Goto(w, step)
              /\ step \in HoldsTransfer => proc[w].transfer # None
              /\ step \in HoldsRefund => proc[w].refund # None
              => HandlersHoldIds'
           /\ \A t : /\ HoldTransfer(w, step, t)
                     /\ t # None
                     /\ step \in HoldsRefund => proc[w].refund # None
                     => HandlersHoldIds'
           /\ \A r : /\ HoldRefund(w, step, r)
                     /\ step \in HoldsTransfer => proc[w].transfer # None
                     /\ r # None
                     => HandlersHoldIds'
<1>0. proc[w] \in Processes
  BY DEF DataTyped
<1>1. ASSUME Goto(w, step), step \in HoldsTransfer => proc[w].transfer # None,
             step \in HoldsRefund => proc[w].refund # None
      PROVE  HandlersHoldIds'
  <2>1. Holds([proc[w] EXCEPT !.pc = step])
    BY <1>0, <1>1 DEF Holds, Processes
  <2>2. proc' = [proc EXCEPT ![w] = [proc[w] EXCEPT !.pc = step]]
    BY <1>1 DEF Goto
  <2>3. QED
    BY <2>1, <2>2, UpdateHolds
<1>2. ASSUME NEW t, HoldTransfer(w, step, t), t # None,
             step \in HoldsRefund => proc[w].refund # None
      PROVE  HandlersHoldIds'
  <2>1. Holds([proc[w] EXCEPT !.pc = step, !.transfer = t])
    BY <1>0, <1>2 DEF Holds, Processes
  <2>2. proc' = [proc EXCEPT ![w] = [proc[w] EXCEPT !.pc = step, !.transfer = t]]
    BY <1>2 DEF HoldTransfer
  <2>3. QED
    BY <2>1, <2>2, UpdateHolds
<1>3. ASSUME NEW r, HoldRefund(w, step, r), r # None,
             step \in HoldsTransfer => proc[w].transfer # None
      PROVE  HandlersHoldIds'
  <2>1. Holds([proc[w] EXCEPT !.pc = step, !.refund = r])
    BY <1>0, <1>3 DEF Holds, Processes
  <2>2. proc' = [proc EXCEPT ![w] = [proc[w] EXCEPT !.pc = step, !.refund = r]]
    BY <1>3 DEF HoldRefund
  <2>3. QED
    BY <2>1, <2>2, UpdateHolds
<1>4. QED
  BY <1>1, <1>2, <1>3

\* Every first transaction leaves the ids its next step writes.
LEMMA TakeJobHolds ==
    ASSUME DataTyped, HandlersHoldIds, NEW w \in Workers, TakeJob(w)
    PROVE  HandlersHoldIds'
<1>i. /\ SeenVersion \in Processes
      /\ [SeenVersion EXCEPT !.transfer = escrow.transfer] \in Processes
      /\ [Idle EXCEPT !.transfer = escrow.transfer, !.refund = escrow.refund] \in Processes
  BY IdleTyped DEF DataTyped, SeenVersion, Processes, Rows
<1>s. /\ \A step \in {"completionTransfer", "disputeTransfer", "refundCheck", "splitRefund"} :
            step \notin HoldsTransfer /\ step \notin HoldsRefund
      /\ "completionRelease" \notin HoldsRefund /\ "eventRelease" \notin HoldsRefund
      /\ "eventRefund" \notin HoldsTransfer
  BY DEF HoldsTransfer, HoldsRefund
<1>1. CASE CompletionLoad(w)
  <2>1. [SeenVersion EXCEPT !.transfer = escrow.transfer].transfer = escrow.transfer
    BY DEF SeenVersion, Idle
  <2>2. QED
    BY <1>1, <1>i, <1>s, <2>1, ReturnHolds, EnterHolds DEF CompletionLoad
<1>2. CASE DisputeLoad(w)
  BY <1>2, <1>i, <1>s, ReturnHolds, EnterHolds DEF DisputeLoad
<1>3. CASE RefundLoad(w)
  BY <1>3, <1>s, IdleTyped, ReturnHolds, EnterHolds DEF RefundLoad
<1>4. CASE SplitLoad(w)
  BY <1>4, <1>i, <1>s, ReturnHolds, EnterHolds DEF SplitLoad
<1>5. ASSUME NEW t \in TransferIds, TransferEventLoad(w, t)
      PROVE  HandlersHoldIds'
  <2>1. [Idle EXCEPT !.transfer = t] \in Processes /\ [Idle EXCEPT !.transfer = t].transfer = t
    BY IdleTyped DEF Idle, Processes
  <2>2. CASE Enter(w, "eventRelease", TransferEvent(t), [Idle EXCEPT !.transfer = t])
    BY <1>s, <2>1, <2>2, EnterHolds, IdsAreNotNone
  <2>3. CASE Return(w, TransferEvent(t)) \/ Throw(w, TransferEvent(t))
    BY <2>3, ReturnHolds
  <2>4. QED
    BY <1>5, <2>2, <2>3 DEF TransferEventLoad
<1>6. ASSUME NEW r \in RefundIds, RefundEventLoad(w, r)
      PROVE  HandlersHoldIds'
  <2>1. [Idle EXCEPT !.refund = r] \in Processes /\ [Idle EXCEPT !.refund = r].refund = r
    BY IdleTyped DEF Idle, Processes
  <2>. DEFINE both == [Idle EXCEPT !.refund = r, !.transfer = escrow.transfer]
  <2>2. both \in Processes /\ both.refund = r /\ both.transfer = escrow.transfer
    BY IdleTyped DEF DataTyped, Rows, Idle, Processes
  <2>3. CASE Enter(w, "eventRefund", RefundEvent(r), [Idle EXCEPT !.refund = r])
    BY <1>s, <2>1, <2>3, EnterHolds, IdsAreNotNone
  <2>4. CASE escrow.transfer # None /\ Enter(w, "eventReverse", RefundEvent(r), both)
    <3>. HIDE DEF both
    <3>. QED
      BY <2>2, <2>4, EnterHolds, IdsAreNotNone
  <2>5. CASE Return(w, RefundEvent(r))
    BY <2>5, ReturnHolds
  <2>6. QED
    BY <1>6, <2>3, <2>4, <2>5 DEF RefundEventLoad
<1>7. ASSUME NEW j \in EventJobs, SkipClaimed(w, j)
      PROVE  HandlersHoldIds'
  BY <1>7, ReturnHolds DEF SkipClaimed
<1>8. QED
  BY <1>1, <1>2, <1>3, <1>4, <1>5, <1>6, <1>7 DEF TakeJob

\* Every further step finds or obtains the ids its next step writes.
LEMMA ContinueHolds ==
    ASSUME DataTyped, HandlersHoldIds, NEW w \in Workers, Continue(w)
    PROVE  HandlersHoldIds'
<1>h. Holds(proc[w])
  BY DEF HandlersHoldIds
<1>s. /\ \A step \in {"reverse", "reverseCheckpoint", "issueRefund"} :
            step \notin HoldsTransfer /\ step \notin HoldsRefund
      /\ \A step \in {"completionPersist", "completionRelease", "disputeStore"} :
            step \in HoldsTransfer /\ step \notin HoldsRefund
      /\ \A step \in {"splitCheckpoint", "splitTransfer", "storeRefund", "serviceTerminal",
                       "eventRefund"} :
            step \notin HoldsTransfer /\ step \in HoldsRefund
      /\ \A step \in {"splitTerminal", "eventReverse"} :
            step \in HoldsTransfer /\ step \in HoldsRefund
  BY DEF HoldsTransfer, HoldsRefund
<1>n. /\ "completion_release" # None /\ "dispute_release" # None
      /\ "dispute_partial_release" # None /\ "wkr_refund" # None
      /\ "wkr_partial_refund" # None /\ "svc_refund" # None /\ "admin_override" # None
  BY DEF None
<1>1. CASE CompletionTransfer(w)
  BY <1>1, <1>n, <1>s, ReturnHolds, StepHolds DEF CompletionTransfer
<1>2. CASE CompletionPersist(w)
  BY <1>2, <1>h, <1>s, ReturnHolds, StepHolds DEF CompletionPersist, Holds, At
<1>3. CASE CompletionRelease(w)
  BY <1>3, ReturnHolds DEF CompletionRelease
<1>4. CASE DisputeTransfer(w)
  BY <1>4, <1>n, <1>s, ReturnHolds, StepHolds DEF DisputeTransfer, TransferFails
<1>5. CASE DisputeStore(w)
  BY <1>5, ReturnHolds DEF DisputeStore
<1>6. CASE RefundCheck(w)
  BY <1>6, <1>s, ReturnHolds, StepHolds DEF RefundCheck
<1>7. CASE EnsurePriorTransferReversed(w)
  BY <1>7, <1>s, ReturnHolds, StepHolds DEF EnsurePriorTransferReversed
<1>8. CASE ReverseCheckpoint(w)
  BY <1>8, <1>s, StepHolds DEF ReverseCheckpoint
<1>9. CASE IssueRefund(w)
  BY <1>9, <1>n, <1>s, ReturnHolds, StepHolds DEF IssueRefund
<1>10. CASE StoreRefund(w)
  BY <1>10, ReturnHolds DEF StoreRefund
<1>11. CASE SplitResolveRefund(w)
  BY <1>11, <1>n, <1>s, ReturnHolds, StepHolds DEF SplitResolveRefund
<1>12. CASE SplitCheckpoint(w)
  BY <1>12, <1>h, <1>s, StepHolds DEF SplitCheckpoint, Holds, At
<1>13. CASE SplitResolveTransfer(w)
  BY <1>13, <1>h, <1>n, <1>s, ReturnHolds, StepHolds
     DEF SplitResolveTransfer, TransferFails, Holds, At
<1>14. CASE SplitTerminalize(w)
  BY <1>14, ReturnHolds DEF SplitTerminalize
<1>15. CASE ServiceRefund(w)
  BY <1>15, <1>n, <1>s, ReturnHolds, StepHolds DEF ServiceRefund, RefundSuffix
<1>16. CASE TerminalizeRefund(w)
  BY <1>16, ReturnHolds DEF TerminalizeRefund
<1>17. CASE TransferEventRelease(w)
  BY <1>17, ReturnHolds DEF TransferEventRelease
<1>18. CASE RefundEventReverse(w)
  <2>. DEFINE p == [proc[w] EXCEPT !.pc = "eventRefund", !.transfer = None]
  <2>1. Holds(p)
    BY <1>18, <1>h, <1>s DEF DataTyped, Processes, RefundEventReverse, Holds, At
  <2>2. proc' = [proc EXCEPT ![w] = p]
    BY <1>18 DEF RefundEventReverse
  <2>3. QED
    BY <2>1, <2>2, UpdateHolds
<1>19. CASE RefundEventTerminalize(w)
  BY <1>19, ReturnHolds DEF RefundEventTerminalize
<1>20. QED
  BY <1>1, <1>2, <1>3, <1>4, <1>5, <1>6, <1>7, <1>8, <1>9, <1>10, <1>11, <1>12, <1>13,
     <1>14, <1>15, <1>16, <1>17, <1>18, <1>19 DEF Continue

\* The requests leave the ids their next step writes.
LEMMA RequestsHold ==
    ASSUME DataTyped, HandlersHoldIds, TaskStep \/ DisputeStep \/ RequestStep
    PROVE  HandlersHoldIds'
<1>1. CASE UNCHANGED proc
  BY <1>1 DEF HandlersHoldIds, Holds
<1>2. ASSUME NEW w \in Workers, NEW j \in Requests, PrepareRefund(w, j)
      PROVE  HandlersHoldIds'
  <2>1. [Idle EXCEPT !.refund = escrow.refund] \in Processes
    BY IdleTyped DEF DataTyped, Processes, Rows
  <2>2. \A step \in {"serviceRefund", "unpaidTerminal"} :
          step \notin HoldsTransfer /\ step \notin HoldsRefund
    BY DEF HoldsTransfer, HoldsRefund
  <2>3. QED
    BY <1>2, <2>1, <2>2, EnterHolds DEF PrepareRefund
<1>3. TaskStep => UNCHANGED proc
  BY DEF TaskStep, Fund, AssignWorker, SubmitProof, RejectProof, CompleteTask, CancelTask,
         AbandonTask, TaskMoves
<1>4. DisputeStep => UNCHANGED proc
  BY DEF DisputeStep, LockForDispute, ChargebackLock, CreateDispute, RequestEvidence,
         Escalate, ResolveDispute
<1>5. ForceRelease \/ (\E t \in TransferIds : PosterRelease(t)) => UNCHANGED proc
  BY DEF ForceRelease, PosterRelease
<1>6. QED
  BY <1>1, <1>2, <1>3, <1>4, <1>5 DEF RequestStep

\* Faults reset a process, and nothing else of the environment touches one.
LEMMA EnvironmentHolds ==
    ASSUME DataTyped, HandlersHoldIds, EnvironmentStep
    PROVE  HandlersHoldIds'
<1>1. CASE UNCHANGED proc
  BY <1>1 DEF HandlersHoldIds, Holds
<1>2. ASSUME NEW w \in Workers, Fail(w) \/ Crash(w)
      PROVE  HandlersHoldIds'
  <2>1. Holds(Idle)
    BY DEF Idle, Holds, HoldsTransfer, HoldsRefund
  <2>2. QED
    BY <1>2, <2>1, UpdateHolds DEF Fail, Crash, Faulty
<1>3. (\E j \in EventJobs : RecoverStuckStripeEvents(j)) \/ PayeeChanges => UNCHANGED proc
  BY DEF RecoverStuckStripeEvents, PayeeChanges
<1>4. QED
  BY <1>1, <1>2, <1>3 DEF EnvironmentStep

-----------------------------------------------------------------------------
\* Types, continued

\* The further steps of every handler keep the types.
LEMMA ContinueTyped ==
    ASSUME DataTyped, HandlersHoldIds, NEW w \in Workers, Continue(w)
    PROVE  DataTyped'
<1>. USE DEF DataTyped, Delivery, Database, Outside
<1>s. /\ {"completionPersist", "completionRelease", "disputeStore", "reverse",
           "reverseCheckpoint", "issueRefund", "storeRefund", "splitCheckpoint",
           "splitTransfer", "splitTerminal", "serviceTerminal", "eventRefund"} \subseteq Steps
      /\ {"REFUNDED", "REFUND_PARTIAL"} \subseteq EscrowStates
      /\ {"completion_release", "dispute_release", "dispute_partial_release"} \subseteq TransferIds
      /\ {"svc_refund", "admin_override", "wkr_refund", "wkr_partial_refund"} \subseteq RefundIds
  BY DEF Steps, EscrowStates, TransferIds, RefundIds
<1>1. CASE CompletionTransfer(w)
  BY <1>1, <1>s, ReturnTyped, StripeTyped, HoldTyped DEF CompletionTransfer
<1>2. CASE CompletionPersist(w)
  BY <1>2, <1>s, LocalsTyped, ReturnTyped, HoldTyped, MoveEscrowTyped DEF CompletionPersist
<1>3. CASE CompletionRelease(w)
  BY <1>3, LocalsTyped, ReturnTyped, ReleaseTyped DEF CompletionRelease
<1>4. CASE DisputeTransfer(w)
  BY <1>4, <1>s, ReturnTyped, StripeTyped, HoldTyped DEF DisputeTransfer, TransferFails
<1>5. CASE DisputeStore(w)
  BY <1>5, LocalsTyped, ReturnTyped, MoveEscrowTyped DEF DisputeStore
<1>6. CASE RefundCheck(w)
  BY <1>6, <1>s, ReturnTyped, HoldTyped DEF RefundCheck
<1>7. CASE EnsurePriorTransferReversed(w)
  BY <1>7, <1>s, LocalsTyped, ReturnTyped, HoldTyped, StripeTyped DEF EnsurePriorTransferReversed
<1>8. CASE ReverseCheckpoint(w)
  BY <1>8, <1>s, HoldTyped DEF ReverseCheckpoint, Checkpoints
<1>9. CASE IssueRefund(w)
  BY <1>9, <1>s, ReturnTyped, StripeTyped, HoldTyped DEF IssueRefund
<1>10. CASE StoreRefund(w)
  BY <1>10, LocalsTyped, ReturnTyped, MoveEscrowTyped DEF StoreRefund
<1>11. CASE SplitResolveRefund(w)
  BY <1>11, <1>s, LocalsTyped, ReturnTyped, StripeTyped, HoldTyped DEF SplitResolveRefund
<1>12. CASE SplitCheckpoint(w)
  BY <1>12, <1>s, LocalsTyped, HoldTyped DEF SplitCheckpoint, Checkpoints
<1>13. CASE SplitResolveTransfer(w)
  BY <1>13, <1>s, LocalsTyped, ReturnTyped, StripeTyped, HoldTyped
     DEF SplitResolveTransfer, TransferFails
<1>14. CASE SplitTerminalize(w)
  BY <1>14, <1>s, LocalsTyped, ReturnTyped, MoveEscrowTyped DEF SplitTerminalize
<1>15. CASE ServiceRefund(w)
  BY <1>15, <1>s, ReturnTyped, StripeTyped, HoldTyped DEF ServiceRefund, RefundSuffix
<1>16. CASE TerminalizeRefund(w)
  BY <1>16, <1>s, LocalsTyped, ReturnTyped, MoveEscrowTyped DEF TerminalizeRefund
<1>17. CASE TransferEventRelease(w)
  BY <1>17, LocalsTyped, ReturnTyped, ReleaseTyped DEF TransferEventRelease
<1>18. CASE RefundEventReverse(w)
  <2>0. proc[w].transfer \in TransferIds
    BY <1>18, LocalsTyped DEF RefundEventReverse, At, HandlersHoldIds, Holds, HoldsTransfer
  <2>1. stripe' \in Movements
    BY <1>18, <2>0, StripeTyped DEF RefundEventReverse
  <2>2. [proc[w] EXCEPT !.pc = "eventRefund", !.transfer = None] \in Processes
    BY <1>s, LocalsTyped DEF Processes
  <2>3. QED
    BY <1>18, <2>1, <2>2 DEF RefundEventReverse
<1>19. CASE RefundEventTerminalize(w)
  BY <1>19, <1>s, LocalsTyped, ReturnTyped, MoveEscrowTyped DEF RefundEventTerminalize
<1>20. QED
  BY <1>1, <1>2, <1>3, <1>4, <1>5, <1>6, <1>7, <1>8, <1>9, <1>10, <1>11, <1>12, <1>13,
     <1>14, <1>15, <1>16, <1>17, <1>18, <1>19 DEF Continue

\* Faults, the maintenance job and the payee keep the types.
LEMMA EnvironmentTyped == ASSUME DataTyped, EnvironmentStep PROVE DataTyped'
<1>. USE DEF DataTyped, Database, Outside, Delivery
<1>1. ASSUME NEW w \in Workers, Fail(w) \/ Crash(w)
      PROVE  DataTyped'
  BY <1>1, IdleTyped DEF Fail, Crash, Faulty
<1>2. ASSUME NEW j \in EventJobs, RecoverStuckStripeEvents(j)
      PROVE  DataTyped'
  BY <1>2 DEF RecoverStuckStripeEvents
<1>3. CASE PayeeChanges
  BY <1>3, ScopeAssumption DEF PayeeChanges
<1>4. QED
  BY <1>1, <1>2, <1>3 DEF EnvironmentStep

\* The invariant behind type correctness.
TypeInv == TypeOK /\ HandlersHoldIds

\* In every reachable state the row, the task, the dispute, the checkpoints,
\* the queue, the processes and what Stripe has done have their types.
THEOREM TypeInvariant == Spec => []TypeInv
<1>1. Init => TypeInv
  <2> SUFFICES ASSUME Init PROVE TypeInv
    OBVIOUS
  <2>1. TypeOK
    BY IdleTyped DEF Init, TypeOK, Rows, Checkpoints, Movements, EscrowStates, TaskStates,
                     DisputeStates, Providers, AllPayeeStates
  <2>2. HandlersHoldIds
    BY DEF Init, HandlersHoldIds, Holds, HoldsTransfer, HoldsRefund, Idle
  <2>3. QED
    BY <2>1, <2>2 DEF TypeInv
<1>2. TypeInv /\ [Next]_vars => TypeInv'
  <2> SUFFICES ASSUME TypeInv, [Next]_vars
               PROVE  TypeInv'
    OBVIOUS
  <2>0. DataTyped /\ TypeOK /\ HandlersHoldIds
    BY DEF TypeInv, TypeOK, DataTyped
  <2>1. CASE UNCHANGED vars
    BY <2>0, <2>1 DEF TypeInv, TypeOK, HandlersHoldIds, Holds, vars
  <2>2. CASE Next
    <3>1. raced' \in SUBSET {"payout", "manual", "refund", "unpaid"}
      BY <2>0, <2>2 DEF TypeOK, Next, Races
    <3>2. DataTyped' /\ HandlersHoldIds' => TypeInv'
      BY <3>1 DEF DataTyped, TypeOK, TypeInv
    <3>3. CASE TaskStep \/ DisputeStep \/ RequestStep
      <4>1. DataTyped'
        BY <2>0, <3>3, TaskStepTyped, DisputeStepTyped, RequestStepTyped
      <4>2. HandlersHoldIds'
        BY <2>0, <3>3, RequestsHold
      <4>3. QED
        BY <3>2, <4>1, <4>2
    <3>4. ASSUME NEW w \in Workers, TakeJob(w) \/ Continue(w)
          PROVE  TypeInv'
      BY <2>0, <3>2, <3>4, TakeJobTyped, ContinueTyped, TakeJobHolds, ContinueHolds
    <3>5. CASE EnvironmentStep
      BY <2>0, <3>2, <3>5, EnvironmentTyped, EnvironmentHolds
    <3>6. QED
      BY <2>2, <3>3, <3>4, <3>5 DEF Next, EnvironmentStep
  <2>3. QED
    BY <2>1, <2>2
<1>3. QED
  BY <1>1, <1>2, PTL DEF Spec

\* Type correctness, as the runs check it.
THEOREM TypeCorrect == Spec => []TypeOK
<1>1. TypeInv => TypeOK
  BY DEF TypeInv
<1>2. QED
  BY <1>1, TypeInvariant, PTL

-----------------------------------------------------------------------------
(***************************************************************************)
(* The safety of the settlement, for any number of workers, amounts and    *)
(* faults, in the order of the proofs:                                     *)
(*                                                                         *)
(*   VersionCorrect      a version that did not change means an open row   *)
(*   StepRow             hence a step does to the row one of eight things  *)
(*   RecordedIdsCorrect  no id is kept before its object exists            *)
(*   ReleasedTaskCorrect a released row's task is COMPLETED                *)
(*   RowCorrect          the row implements EscrowLedger                   *)
(*                                                                         *)
(* The version matters: CompletionPersist and DisputeStore write a         *)
(* transfer without looking at the row's state, and only the version they  *)
(* compare keeps them from writing to a row that is settled.               *)
(***************************************************************************)

\* The states in which money can still be moved by the row's version.
OpenStates == {"FUNDED", "LOCKED_DISPUTE"}

\* The steps that will write, or let write, by the version they have seen.
OpenSteps == {"completionTransfer", "completionPersist", "disputeTransfer", "disputeStore"}

\* What process p has seen of the row is not newer than the row, and if it is
\* as new then the row is open.
VersionSound(p, row) ==
    /\ p.version <= row.version
    /\ p.pc \in OpenSteps /\ p.version = row.version => row.state \in OpenStates

\* VersionMeansOpen, process by process.
LEMMA VersionMeansOpenIs ==
    VersionMeansOpen <=> \A w \in Workers : VersionSound(proc[w], escrow)
  BY DEF VersionMeansOpen, VersionSound, OpenSteps, OpenStates

\* A step bumps the version, keeps the row, or locks it without a bump.
VersionStep ==
    \/ escrow' = escrow
    \/ escrow'.version = escrow.version + 1
    \/ escrow'.version = escrow.version /\ escrow'.state = "LOCKED_DISPUTE"

\* Moving the row bumps its version.
LEMMA MoveEscrowVersion ==
    ASSUME escrow \in Rows, NEW new, NEW fields \in Rows, MoveEscrow(new, fields)
    PROVE  escrow'.version = escrow.version + 1 /\ escrow'.state = new
  BY DEF MoveEscrow, Rows

\* A release bumps the version.
LEMMA ReleaseVersion ==
    ASSUME DataTyped, NEW given, Release(given)
    PROVE  escrow'.version = escrow.version + 1 /\ escrow'.state = "RELEASED"
  BY DEF Release, MoveEscrow, DataTyped, Rows

\* No step writes the row without bumping its version, except the lock of a
\* chargeback.
LEMMA StepVersion == ASSUME TypeInv, Next PROVE VersionStep
<1>t. DataTyped
  BY DEF TypeInv, TypeOK, DataTyped
<1>r. escrow \in Rows /\ [escrow EXCEPT !.transfer = None] \in Rows
  BY <1>t DEF DataTyped, Rows
<1>1. CASE TaskStep
  BY <1>1, <1>r, MoveEscrowVersion
     DEF TaskStep, Fund, AssignWorker, SubmitProof, RejectProof, CompleteTask, CancelTask,
         AbandonTask, VersionStep
<1>2. CASE DisputeStep
  <2>1. ASSUME ChargebackLock PROVE VersionStep
    BY <2>1, <1>r DEF ChargebackLock, VersionStep, Rows
  <2>2. ASSUME CreateDispute PROVE VersionStep
    BY <2>2, <1>r, MoveEscrowVersion DEF CreateDispute, VersionStep
  <2>3. QED
    BY <1>2, <2>1, <2>2, <1>r, MoveEscrowVersion
       DEF DisputeStep, LockForDispute, RequestEvidence, Escalate, ResolveDispute, VersionStep
<1>3. CASE RequestStep
  BY <1>3, <1>t, ReleaseVersion
     DEF RequestStep, ForceRelease, PosterRelease, PrepareRefund, Database, VersionStep
<1>4. ASSUME NEW w \in Workers, TakeJob(w) PROVE VersionStep
  BY <1>4 DEF TakeJob, CompletionLoad, DisputeLoad, RefundLoad, SplitLoad, TransferEventLoad,
              RefundEventLoad, SkipClaimed, Database, VersionStep
<1>5. ASSUME NEW w \in Workers, Continue(w) PROVE VersionStep
  <2>. USE DEF VersionStep
  <2>1. ASSUME CompletionPersist(w) \/ DisputeStore(w) \/ StoreRefund(w) PROVE VersionStep
    BY <1>t, <1>r, <2>1, LocalsTyped, MoveEscrowVersion
       DEF CompletionPersist, DisputeStore, StoreRefund
  <2>2. ASSUME CompletionRelease(w) \/ TransferEventRelease(w) PROVE VersionStep
    BY <1>t, <2>2, ReleaseVersion DEF CompletionRelease, TransferEventRelease
  <2>3. ASSUME DisputeTransfer(w) \/ SplitResolveTransfer(w) PROVE VersionStep
    BY <2>3 DEF DisputeTransfer, SplitResolveTransfer, Database
  <2>4. ASSUME SplitTerminalize(w) \/ TerminalizeRefund(w) \/ RefundEventTerminalize(w)
        PROVE  VersionStep
    BY <1>t, <1>r, <2>4, LocalsTyped, MoveEscrowVersion
       DEF SplitTerminalize, TerminalizeRefund, RefundEventTerminalize
  <2>5. ASSUME \/ CompletionTransfer(w) \/ RefundCheck(w) \/ EnsurePriorTransferReversed(w)
               \/ ReverseCheckpoint(w) \/ IssueRefund(w) \/ SplitResolveRefund(w)
               \/ SplitCheckpoint(w) \/ ServiceRefund(w) \/ RefundEventReverse(w)
        PROVE  VersionStep
    BY <2>5 DEF CompletionTransfer, RefundCheck, EnsurePriorTransferReversed, ReverseCheckpoint,
                IssueRefund, SplitResolveRefund, SplitCheckpoint, ServiceRefund,
                RefundEventReverse, Database
  <2>6. QED
    BY <1>5, <2>1, <2>2, <2>3, <2>4, <2>5 DEF Continue
<1>6. CASE EnvironmentStep
  BY <1>6 DEF EnvironmentStep, Fail, Crash, Faulty, RecoverStuckStripeEvents, PayeeChanges,
              Database, VersionStep
<1>7. QED
  BY <1>1, <1>2, <1>3, <1>4, <1>5, <1>6 DEF Next

\* A step of process w concerns the version w has seen alone.
LEMMA UpdateSound ==
    ASSUME DataTyped, VersionMeansOpen, NEW w \in Workers, NEW p,
           proc' = [proc EXCEPT ![w] = p], VersionSound(p, escrow)
    PROVE  \A v \in Workers : VersionSound(proc'[v], escrow)
<1>1. \A v \in Workers : proc'[v] = IF v = w THEN p ELSE proc[v]
  BY DEF DataTyped
<1>2. QED
  BY <1>1, VersionMeansOpenIs

\* A process that is reset has seen no version.
LEMMA IdleSound ==
    ASSUME DataTyped, VersionMeansOpen, NEW w \in Workers, proc' = [proc EXCEPT ![w] = Idle]
    PROVE  \A v \in Workers : VersionSound(proc'[v], escrow)
<1>1. VersionSound(Idle, escrow)
  BY DEF DataTyped, Rows, Idle, VersionSound, OpenSteps
<1>2. QED
  BY <1>1, UpdateSound

\* A first transaction that guards by the version has found the row open.
LEMMA EnterSound ==
    ASSUME DataTyped, VersionMeansOpen, NEW w \in Workers, NEW step, NEW j,
           NEW locals \in Processes, Enter(w, step, j, locals), locals.version <= escrow.version,
           step \in OpenSteps => escrow.state \in OpenStates
    PROVE  \A v \in Workers : VersionSound(proc'[v], escrow)
<1>. DEFINE p == [locals EXCEPT !.pc = step, !.job = j]
<1>1. VersionSound(p, escrow)
  BY DEF VersionSound, Processes
<1>2. proc' = [proc EXCEPT ![w] = p]
  BY DEF Enter
<1>3. QED
  BY <1>1, <1>2, UpdateSound

\* The next step of a handler guards by the version its last step had.
LEMMA GoOnSound ==
    ASSUME DataTyped, VersionMeansOpen, NEW w \in Workers, NEW step, NEW t, NEW r,
           Goto(w, step) \/ HoldTransfer(w, step, t) \/ HoldRefund(w, step, r),
           step \in OpenSteps => proc[w].pc \in OpenSteps
    PROVE  \A v \in Workers : VersionSound(proc'[v], escrow)
<1>0. proc[w] \in Processes /\ VersionSound(proc[w], escrow)
  BY VersionMeansOpenIs DEF DataTyped
<1>1. \E p : /\ proc' = [proc EXCEPT ![w] = p]
            /\ p.pc = step /\ p.version = proc[w].version
  <2>. DEFINE go == [proc[w] EXCEPT !.pc = step]
              transfer == [proc[w] EXCEPT !.pc = step, !.transfer = t]
              refund == [proc[w] EXCEPT !.pc = step, !.refund = r]
  <2>1. /\ go.pc = step /\ go.version = proc[w].version
        /\ transfer.pc = step /\ transfer.version = proc[w].version
        /\ refund.pc = step /\ refund.version = proc[w].version
    BY <1>0 DEF Processes
  <2>2. \/ proc' = [proc EXCEPT ![w] = go]
        \/ proc' = [proc EXCEPT ![w] = transfer]
        \/ proc' = [proc EXCEPT ![w] = refund]
    BY DEF Goto, HoldTransfer, HoldRefund
  <2>. HIDE DEF go, transfer, refund
  <2>3. QED
    BY <2>1, <2>2
<1>p. PICK p : /\ proc' = [proc EXCEPT ![w] = p]
               /\ p.pc = step /\ p.version = proc[w].version
  BY <1>1
<1>2. VersionSound(p, escrow)
  BY <1>0, <1>p DEF VersionSound
<1>3. QED
  BY <1>p, <1>2, UpdateSound

\* After any step every process is sound about the row before the step.
LEMMA StepSound ==
    ASSUME TypeInv, VersionMeansOpen, Next
    PROVE  \A v \in Workers : VersionSound(proc'[v], escrow)
<1>. DEFINE Sound == \A v \in Workers : VersionSound(proc'[v], escrow)
<1>t. DataTyped
  BY DEF TypeInv, TypeOK, DataTyped
<1>u. UNCHANGED proc => Sound
  BY VersionMeansOpenIs
<1>i. ASSUME NEW w \in Workers, NEW j, Return(w, j) \/ Throw(w, j) PROVE Sound
  BY <1>t, <1>i, IdleSound DEF Return, Throw
<1>v. /\ Idle \in Processes /\ Idle.version = 0
      /\ SeenVersion \in Processes /\ SeenVersion.version = escrow.version
      /\ escrow.version \in Nat /\ escrow.transfer \in TransferIds \cup {None}
      /\ escrow.refund \in RefundIds \cup {None}
  BY <1>t, IdleTyped DEF DataTyped, Rows, Processes, Idle, SeenVersion
<1>w. \A p \in Processes, t \in TransferIds \cup {None}, r \in RefundIds \cup {None} :
        /\ [p EXCEPT !.transfer = t] \in Processes
        /\ [p EXCEPT !.transfer = t].version = p.version
        /\ [p EXCEPT !.refund = r] \in Processes
        /\ [p EXCEPT !.refund = r].version = p.version
  BY DEF Processes
<1>x. \A p \in Processes, t \in TransferIds \cup {None}, r \in RefundIds \cup {None} :
        /\ [p EXCEPT !.transfer = t, !.refund = r] \in Processes
        /\ [p EXCEPT !.transfer = t, !.refund = r].version = p.version
        /\ [p EXCEPT !.refund = r, !.transfer = t] \in Processes
        /\ [p EXCEPT !.refund = r, !.transfer = t].version = p.version
  BY ZenonT(60) DEF Processes
<1>l. /\ Idle.version <= escrow.version
      /\ SeenVersion.version <= escrow.version
  BY <1>v
<1>s. /\ {"completionTransfer", "completionPersist", "disputeTransfer", "disputeStore"} \subseteq OpenSteps
      /\ \A step \in {"completionRelease", "refundCheck", "reverse", "reverseCheckpoint",
                       "issueRefund", "storeRefund", "splitRefund", "splitCheckpoint",
                       "splitTransfer", "splitTerminal", "serviceRefund", "serviceTerminal",
                       "unpaidTerminal", "eventRelease", "eventReverse",
                       "eventRefund"} : step \notin OpenSteps
      /\ {"FUNDED", "LOCKED_DISPUTE"} \subseteq OpenStates
  BY DEF OpenSteps, OpenStates
<1>1. CASE TaskStep
  BY <1>1, <1>u DEF TaskStep, Fund, AssignWorker, SubmitProof, RejectProof, CompleteTask,
                    CancelTask, AbandonTask, TaskMoves
<1>2. CASE DisputeStep
  BY <1>2, <1>u DEF DisputeStep, LockForDispute, ChargebackLock, CreateDispute,
                    RequestEvidence, Escalate, ResolveDispute
<1>3. CASE RequestStep
  <2>1. ASSUME NEW w \in Workers, NEW j \in Requests, PrepareRefund(w, j) PROVE Sound
    BY <1>t, <1>l, <1>s, <1>v, <1>w, <1>x, <2>1, EnterSound DEF PrepareRefund
  <2>2. QED
    BY <1>3, <1>u, <2>1 DEF RequestStep, ForceRelease, PosterRelease
<1>4. ASSUME NEW w \in Workers, TakeJob(w) PROVE Sound
  <2>1. ASSUME CompletionLoad(w) PROVE Sound
    BY <1>t, <1>i, <1>l, <1>s, <1>v, <1>w, <1>x, <2>1, EnterSound DEF CompletionLoad, EscrowCanProceed
  <2>2. ASSUME DisputeLoad(w) PROVE Sound
    BY <1>t, <1>i, <1>l, <1>s, <1>v, <1>w, <1>x, <2>2, EnterSound DEF DisputeLoad, Locked
  <2>3. ASSUME RefundLoad(w) PROVE Sound
    BY <1>t, <1>i, <1>l, <1>s, <1>v, <1>w, <1>x, <2>3, EnterSound DEF RefundLoad
  <2>4. ASSUME SplitLoad(w) PROVE Sound
    <3>. DEFINE p == [Idle EXCEPT !.transfer = escrow.transfer, !.refund = escrow.refund]
    <3>1. p \in Processes /\ p.version = 0
      BY <1>v, <1>x, ZenonT(60)
    <3>2. Enter(w, "splitRefund", PartialRefundRequested, p) => Sound
      <4>. HIDE DEF p
      <4>. QED
        BY <1>t, <1>s, <1>v, <3>1, EnterSound
    <3>3. QED
      BY <1>i, <2>4, <3>2 DEF SplitLoad
  <2>5. ASSUME NEW t \in TransferIds, TransferEventLoad(w, t) PROVE Sound
    <3>1. Enter(w, "eventRelease", TransferEvent(t), [Idle EXCEPT !.transfer = t]) => Sound
      BY <1>t, <1>l, <1>s, <1>v, <1>w, <1>x, EnterSound
    <3>2. QED
      BY <1>i, <2>5, <3>1 DEF TransferEventLoad
  <2>6. ASSUME NEW r \in RefundIds, RefundEventLoad(w, r) PROVE Sound
    <3>1. Enter(w, "eventRefund", RefundEvent(r), [Idle EXCEPT !.refund = r]) => Sound
      BY <1>t, <1>l, <1>s, <1>v, <1>w, <1>x, EnterSound
    <3>2. Enter(w, "eventReverse", RefundEvent(r),
                [Idle EXCEPT !.refund = r, !.transfer = escrow.transfer]) => Sound
      BY <1>t, <1>l, <1>s, <1>v, <1>w, <1>x, EnterSound, ZenonT(60)
    <3>3. QED
      BY <1>i, <2>6, <3>1, <3>2 DEF RefundEventLoad
  <2>7. ASSUME NEW j \in EventJobs, SkipClaimed(w, j) PROVE Sound
    BY <1>i, <2>7 DEF SkipClaimed
  <2>8. QED
    BY <1>4, <2>1, <2>2, <2>3, <2>4, <2>5, <2>6, <2>7 DEF TakeJob
<1>5. ASSUME NEW w \in Workers, Continue(w) PROVE Sound
  <2>g. ASSUME NEW step, NEW t, NEW r,
               Goto(w, step) \/ HoldTransfer(w, step, t) \/ HoldRefund(w, step, r),
               step \in OpenSteps => proc[w].pc \in OpenSteps
        PROVE  Sound
    BY <1>t, <2>g, GoOnSound
  <2>1. ASSUME CompletionTransfer(w) \/ DisputeTransfer(w) PROVE Sound
    BY <1>i, <1>s, <2>g, <2>1 DEF CompletionTransfer, DisputeTransfer, TransferFails, At
  <2>2. ASSUME CompletionPersist(w) PROVE Sound
    BY <1>i, <1>s, <2>g, <2>2 DEF CompletionPersist
  <2>3. ASSUME \/ CompletionRelease(w) \/ DisputeStore(w) \/ StoreRefund(w) \/ SplitTerminalize(w)
               \/ TerminalizeRefund(w) \/ TransferEventRelease(w) \/ RefundEventTerminalize(w)
        PROVE  Sound
    BY <1>i, <2>3 DEF CompletionRelease, DisputeStore, StoreRefund, SplitTerminalize,
                      TerminalizeRefund, TransferEventRelease, RefundEventTerminalize
  <2>4. ASSUME \/ RefundCheck(w) \/ EnsurePriorTransferReversed(w) \/ ReverseCheckpoint(w)
               \/ IssueRefund(w)
        PROVE  Sound
    BY <1>i, <1>s, <2>g, <2>4 DEF RefundCheck, EnsurePriorTransferReversed, ReverseCheckpoint,
                                  IssueRefund
  <2>5. ASSUME \/ SplitResolveRefund(w) \/ SplitCheckpoint(w) \/ SplitResolveTransfer(w)
               \/ ServiceRefund(w)
        PROVE  Sound
    BY <1>i, <1>s, <2>g, <2>5 DEF SplitResolveRefund, SplitCheckpoint, SplitResolveTransfer,
                                  TransferFails, ServiceRefund
  <2>6. ASSUME RefundEventReverse(w) PROVE Sound
    <3>. DEFINE p == [proc[w] EXCEPT !.pc = "eventRefund", !.transfer = None]
    <3>1. VersionSound(p, escrow)
      BY <1>s, <1>t, VersionMeansOpenIs DEF VersionSound, DataTyped, Processes
    <3>2. proc' = [proc EXCEPT ![w] = p]
      BY <2>6 DEF RefundEventReverse
    <3>3. QED
      BY <1>t, <3>1, <3>2, UpdateSound
  <2>7. QED
    BY <1>5, <2>1, <2>2, <2>3, <2>4, <2>5, <2>6 DEF Continue
<1>6. CASE EnvironmentStep
  BY <1>6, <1>t, <1>u, IdleSound DEF EnvironmentStep, Fail, Crash, Faulty,
                                     RecoverStuckStripeEvents, PayeeChanges
<1>7. QED
  BY <1>1, <1>2, <1>3, <1>4, <1>5, <1>6 DEF Next

\* Whatever the number of workers and faults, a handler that finds its row
\* version unchanged in its second transaction writes to an open row.
THEOREM VersionCorrect == Spec => []VersionMeansOpen
<1>1. Init => VersionMeansOpen
  BY DEF Init, VersionMeansOpen, Idle
<1>2. TypeInv /\ TypeInv' /\ VersionMeansOpen /\ [Next]_vars => VersionMeansOpen'
  <2> SUFFICES ASSUME TypeInv, TypeInv', VersionMeansOpen, [Next]_vars
               PROVE  VersionMeansOpen'
    OBVIOUS
  <2>1. CASE UNCHANGED vars
    BY <2>1 DEF VersionMeansOpen, vars
  <2>2. CASE Next
    <3>1. /\ VersionStep
          /\ \A w \in Workers : VersionSound(proc'[w], escrow)
      BY <2>2, StepVersion, StepSound
    <3>2. escrow.version \in Nat /\ \A w \in Workers : proc'[w].version \in Nat
      BY DEF TypeInv, TypeOK, Rows, Processes
    <3>3. \A w \in Workers : VersionSound(proc'[w], escrow')
      BY <3>1, <3>2 DEF VersionStep, VersionSound, OpenStates
    <3>4. QED
      BY <3>3 DEF VersionMeansOpen, VersionSound, OpenSteps, OpenStates
  <2>3. QED
    BY <2>1, <2>2
<1>3. QED
  BY <1>1, <1>2, TypeInvariant, PTL DEF Spec

-----------------------------------------------------------------------------
(***************************************************************************)
(* What a step does to the row, as far as state and money are concerned.   *)
(***************************************************************************)
KeepsTransfer == escrow'.transfer = escrow.transfer /\ escrow'.provider = escrow.provider
KeepsRefund == escrow'.refund = escrow.refund
KeepsState == escrow'.state = escrow.state

RowFund ==
    /\ escrow.state = "PENDING" /\ escrow'.state = "FUNDED"
    /\ KeepsTransfer /\ KeepsRefund

RowLock ==
    /\ escrow.state = "FUNDED" /\ escrow'.state = "LOCKED_DISPUTE"
    /\ escrow'.transfer \in {escrow.transfer, None} /\ escrow'.provider = escrow.provider
    /\ KeepsRefund

RowTransfer ==
    /\ escrow.state \in OpenStates /\ KeepsState
    /\ escrow.transfer = None /\ escrow'.transfer \in stripe.transfers
    /\ escrow'.provider = escrow.provider /\ KeepsRefund

RowRefundId ==
    /\ KeepsState /\ KeepsTransfer
    /\ escrow.refund = None /\ escrow'.refund \in stripe.refunds
    /\ \E w \in Workers : At(w, "storeRefund")

RowRelease ==
    /\ escrow.state \in OpenStates /\ escrow'.state = "RELEASED" /\ task = "COMPLETED"
    /\ \/ escrow'.provider = "STRIPE" /\ escrow'.transfer \in stripe.transfers
       \/ /\ escrow'.provider = "MANUAL_RECONCILIATION"
          /\ escrow.transfer = None /\ escrow'.transfer = None
    /\ KeepsRefund

RowRefund ==
    /\ escrow.state \notin TerminalStates /\ escrow'.state = "REFUNDED"
    /\ KeepsTransfer
    /\ \/ escrow'.refund \in stripe.refunds
       \/ KeepsRefund /\ \E w \in Workers : At(w, "unpaidTerminal")

RowSplit ==
    /\ escrow.state = "LOCKED_DISPUTE" /\ escrow'.state = "REFUND_PARTIAL"
    /\ escrow'.transfer \in stripe.transfers /\ escrow'.refund \in stripe.refunds
    /\ escrow'.provider = escrow.provider

RowStep ==
    \/ KeepsState /\ KeepsTransfer /\ KeepsRefund
    \/ RowFund \/ RowLock \/ RowTransfer \/ RowRefundId
    \/ RowRelease \/ RowRefund \/ RowSplit

\* The columns after the row is moved.
LEMMA MoveEscrowFields ==
    ASSUME escrow \in Rows, NEW new, NEW fields \in Rows, MoveEscrow(new, fields)
    PROVE  /\ escrow'.state = new
           /\ escrow'.transfer = fields.transfer
           /\ escrow'.refund = fields.refund
           /\ escrow'.provider = fields.provider
  BY DEF MoveEscrow, Rows

\* A release passes the trigger: the row is open and its task is COMPLETED.
LEMMA ReleaseStep ==
    ASSUME DataTyped, RecordedIdsAreIssued,
           NEW override \in BOOLEAN, ReleaseVerdict(override) = "ok",
           NEW given \in stripe.transfers \cup {None}, Release(given)
    PROVE  RowRelease
<1>1. /\ escrow.state \notin TerminalStates /\ escrow.state # "PENDING"
      /\ Writable("RELEASED", override)
  BY DEF ReleaseVerdict
<1>2. escrow.state \in OpenStates
  BY <1>1 DEF DataTyped, Rows, EscrowStates, TerminalStates, OpenStates
<1>3. task = "COMPLETED"
  BY <1>1 DEF Writable, EnforceReleasedRequiresCompleted, TerminalStates
<1>. DEFINE id == IF given = None THEN escrow.transfer ELSE given
            provider == IF id = None THEN "MANUAL_RECONCILIATION" ELSE "STRIPE"
            fields == [escrow EXCEPT !.transfer = id, !.provider = provider]
<1>4. /\ fields \in Rows /\ fields.transfer = id /\ fields.provider = provider
      /\ fields.refund = escrow.refund
  BY DEF DataTyped, Rows, Movements, Providers
<1>5. MoveEscrow("RELEASED", fields)
  BY DEF Release
<1>6. /\ escrow'.state = "RELEASED" /\ escrow'.transfer = id
      /\ escrow'.provider = provider /\ escrow'.refund = escrow.refund
  <2>. HIDE DEF fields
  <2>. QED
    BY <1>4, <1>5, MoveEscrowFields DEF DataTyped
<1>7. id \in stripe.transfers \cup {None}
  BY DEF RecordedIdsAreIssued
<1>8. QED
  BY <1>2, <1>3, <1>6, <1>7 DEF RowRelease, KeepsRefund

\* The columns after the row is moved and its transfer set.
LEMMA MoveTransfer ==
    ASSUME DataTyped, NEW new, NEW t \in TransferIds \cup {None},
           MoveEscrow(new, [escrow EXCEPT !.transfer = t])
    PROVE  /\ escrow'.state = new /\ escrow'.transfer = t
           /\ escrow'.refund = escrow.refund /\ escrow'.provider = escrow.provider
<1>. DEFINE fields == [escrow EXCEPT !.transfer = t]
<1>1. /\ fields \in Rows /\ fields.transfer = t
      /\ fields.refund = escrow.refund /\ fields.provider = escrow.provider
  BY DEF DataTyped, Rows
<1>2. MoveEscrow(new, fields)
  OBVIOUS
<1>. HIDE DEF fields
<1>3. QED
  BY <1>1, <1>2, MoveEscrowFields DEF DataTyped

\* The columns after the row is moved and its refund set.
LEMMA MoveRefund ==
    ASSUME DataTyped, NEW new, NEW r \in RefundIds \cup {None},
           MoveEscrow(new, [escrow EXCEPT !.refund = r])
    PROVE  /\ escrow'.state = new /\ escrow'.refund = r
           /\ escrow'.transfer = escrow.transfer /\ escrow'.provider = escrow.provider
<1>. DEFINE fields == [escrow EXCEPT !.refund = r]
<1>1. /\ fields \in Rows /\ fields.refund = r
      /\ fields.transfer = escrow.transfer /\ fields.provider = escrow.provider
  BY DEF DataTyped, Rows
<1>2. MoveEscrow(new, fields)
  OBVIOUS
<1>. HIDE DEF fields
<1>3. QED
  BY <1>1, <1>2, MoveEscrowFields DEF DataTyped

\* The columns after the row is moved and both ids set.
LEMMA MoveBoth ==
    ASSUME DataTyped, NEW new,
           NEW t \in TransferIds \cup {None}, NEW r \in RefundIds \cup {None},
           MoveEscrow(new, [escrow EXCEPT !.transfer = t, !.refund = r])
    PROVE  /\ escrow'.state = new /\ escrow'.transfer = t /\ escrow'.refund = r
           /\ escrow'.provider = escrow.provider
<1>. DEFINE fields == [escrow EXCEPT !.transfer = t, !.refund = r]
<1>1. /\ fields \in Rows /\ fields.transfer = t
      /\ fields.refund = r /\ fields.provider = escrow.provider
  BY DEF DataTyped, Rows
<1>2. MoveEscrow(new, fields)
  OBVIOUS
<1>. HIDE DEF fields
<1>3. QED
  BY <1>1, <1>2, MoveEscrowFields DEF DataTyped

\* Every step of the system does to the row one of the things above.
LEMMA StepRow ==
    ASSUME TypeInv, VersionMeansOpen, RecordedIdsAreIssued, Next
    PROVE  RowStep
<1>t. DataTyped /\ HandlersHoldIds
  BY DEF TypeInv, TypeOK, DataTyped
<1>r. escrow \in Rows
  BY <1>t DEF DataTyped
<1>u. UNCHANGED escrow => RowStep
  BY DEF RowStep, KeepsState, KeepsTransfer, KeepsRefund
<1>1. CASE TaskStep
  <2>1. ASSUME Fund PROVE RowStep
    BY <2>1, <1>r, MoveEscrowFields
       DEF Fund, RowStep, RowFund, KeepsTransfer, KeepsRefund
  <2>2. ASSUME AbandonTask PROVE RowStep
    BY <2>2, <1>r, <1>u, MoveEscrowFields
       DEF AbandonTask, RowStep, RowLock, KeepsRefund
  <2>3. QED
    BY <1>1, <1>u, <2>1, <2>2
       DEF TaskStep, AssignWorker, SubmitProof, RejectProof, CompleteTask, CancelTask
<1>2. CASE DisputeStep
  <2>1. ASSUME LockForDispute PROVE RowStep
    BY <2>1, <1>r, MoveEscrowFields DEF LockForDispute, RowStep, RowLock, KeepsRefund
  <2>2. ASSUME ChargebackLock PROVE RowStep
    BY <2>2, <1>r DEF ChargebackLock, Rows, RowStep, RowLock, KeepsRefund
  <2>3. ASSUME CreateDispute PROVE RowStep
    <3>1. escrow.state = "FUNDED"
      BY <2>3 DEF CreateDispute, Writable, PreventEscrowTerminalMutation, TerminalStates
    <3>2. QED
      BY <2>3, <1>t, <3>1, MoveTransfer DEF CreateDispute, RowStep, RowLock, KeepsRefund
  <2>4. QED
    BY <1>2, <1>u, <2>1, <2>2, <2>3 DEF DisputeStep, RequestEvidence, Escalate, ResolveDispute
<1>3. CASE RequestStep
  <2>1. ASSUME ForceRelease PROVE RowStep
    BY <2>1, <1>t, ReleaseStep DEF ForceRelease, RowStep
  <2>2. ASSUME NEW t \in TransferIds, PosterRelease(t) PROVE RowStep
    BY <2>2, <1>t, ReleaseStep DEF PosterRelease, RowStep
  <2>3. QED
    BY <1>3, <1>u, <2>1, <2>2 DEF RequestStep, PrepareRefund, Database
<1>4. ASSUME NEW w \in Workers, TakeJob(w) PROVE RowStep
  BY <1>4, <1>u DEF TakeJob, CompletionLoad, DisputeLoad, RefundLoad, SplitLoad,
                    TransferEventLoad, RefundEventLoad, SkipClaimed, Database
<1>5. ASSUME NEW w \in Workers, Continue(w) PROVE RowStep
  <2>h. Holds(proc[w])
    BY <1>t DEF HandlersHoldIds
  <2>l. /\ proc[w].transfer \in stripe.transfers \cup {None}
        /\ proc[w].refund \in stripe.refunds \cup {None}
        /\ stripe.transfers \subseteq TransferIds /\ stripe.refunds \subseteq RefundIds
    BY <1>t DEF RecordedIdsAreIssued, DataTyped, Movements
  <2>1. ASSUME CompletionPersist(w) \/ DisputeStore(w) PROVE RowStep
    <3>1. CASE /\ MoveEscrow(escrow.state, [escrow EXCEPT !.transfer = proc[w].transfer])
               /\ escrow.transfer = None /\ SameVersion(w)
      <4>1. escrow.state \in OpenStates
        BY <2>1, <3>1 DEF VersionMeansOpen, SameVersion, CompletionPersist, DisputeStore, At,
                          OpenStates
      <4>2. proc[w].transfer \in stripe.transfers
        BY <2>1, <2>h, <2>l DEF CompletionPersist, DisputeStore, At, Holds, HoldsTransfer
      <4>3. QED
        BY <1>t, <3>1, <2>l, <4>1, <4>2, MoveTransfer
           DEF RowStep, RowTransfer, KeepsState, KeepsRefund
    <3>2. QED
      BY <1>u, <2>1, <3>1 DEF CompletionPersist, DisputeStore
  <2>2. ASSUME StoreRefund(w) PROVE RowStep
    <3>1. proc[w].refund \in stripe.refunds
      BY <2>2, <2>h, <2>l DEF StoreRefund, At, Holds, HoldsRefund
    <3>2. QED
      BY <1>t, <1>u, <2>2, <2>l, <3>1, MoveRefund
         DEF StoreRefund, RowStep, RowRefundId, KeepsState, KeepsTransfer
  <2>3. ASSUME CompletionRelease(w) \/ TransferEventRelease(w) PROVE RowStep
    BY <1>t, <1>u, <2>3, <2>l, ReleaseStep DEF CompletionRelease, TransferEventRelease, RowStep
  <2>4. ASSUME DisputeTransfer(w) \/ SplitResolveTransfer(w) PROVE RowStep
    BY <1>u, <2>4 DEF DisputeTransfer, SplitResolveTransfer, Database
  <2>5. ASSUME SplitTerminalize(w) PROVE RowStep
    <3>1. proc[w].transfer \in stripe.transfers /\ proc[w].refund \in stripe.refunds
      BY <2>5, <2>h, <2>l DEF SplitTerminalize, At, Holds, HoldsRefund, HoldsTransfer
    <3>2. QED
      BY <1>t, <1>u, <2>5, <2>l, <3>1, MoveBoth, ZenonT(60) DEF SplitTerminalize, Locked, RowStep, RowSplit
  <2>6. ASSUME TerminalizeRefund(w) \/ RefundEventTerminalize(w) PROVE RowStep
    <3>1. ~At(w, "unpaidTerminal") =>
            proc[w].refund \in stripe.refunds /\ proc[w].refund # None
      BY <2>6, <2>h, <2>l DEF TerminalizeRefund, RefundEventTerminalize, At, Holds, HoldsRefund
    <3>2. CASE /\ MoveEscrow("REFUNDED", [escrow EXCEPT !.refund = proc[w].refund])
               /\ escrow.state \notin TerminalStates /\ ~At(w, "unpaidTerminal")
      BY <1>t, <2>l, <3>1, <3>2, MoveRefund
         DEF RowStep, RowRefund, KeepsTransfer
    <3>3. Writable("REFUNDED", FALSE) /\ escrow.state # "REFUNDED"
          => escrow.state \notin TerminalStates
      BY DEF Writable, PreventEscrowTerminalMutation
    <3>4. CASE /\ MoveEscrow("REFUNDED", [escrow EXCEPT !.refund = RefundToStore(w)])
               /\ escrow.state \notin TerminalStates
      <4>1. RefundToStore(w) \in RefundIds \cup {None}
        BY <1>t, LocalsTyped
      <4>2. \/ RefundToStore(w) \in stripe.refunds
            \/ RefundToStore(w) = escrow.refund /\ At(w, "unpaidTerminal")
        BY <2>l, <3>1 DEF RefundToStore
      <4>3. QED
        BY <1>t, <3>4, <4>1, <4>2, MoveRefund
           DEF RowStep, RowRefund, KeepsTransfer, KeepsRefund
    <3>5. TerminalizeRefund(w) => RowStep
      <4>1. \A j : "REFUNDED" \notin AllowedStates(j)
        BY DEF AllowedStates
      <4>2. QED
        BY <1>u, <3>3, <3>4, <4>1 DEF TerminalizeRefund
    <3>6. RefundEventTerminalize(w) => RowStep
      BY <1>u, <3>2, <3>3 DEF RefundEventTerminalize, At
    <3>7. QED
      BY <2>6, <3>5, <3>6
  <2>7. ASSUME \/ CompletionTransfer(w) \/ RefundCheck(w) \/ EnsurePriorTransferReversed(w)
               \/ ReverseCheckpoint(w) \/ IssueRefund(w) \/ SplitResolveRefund(w)
               \/ SplitCheckpoint(w) \/ ServiceRefund(w) \/ RefundEventReverse(w)
        PROVE  RowStep
    BY <1>u, <2>7
       DEF CompletionTransfer, RefundCheck, EnsurePriorTransferReversed, ReverseCheckpoint,
           IssueRefund, SplitResolveRefund, SplitCheckpoint, ServiceRefund, RefundEventReverse,
           Database
  <2>8. QED
    BY <1>5, <2>1, <2>2, <2>3, <2>4, <2>5, <2>6, <2>7 DEF Continue
<1>6. CASE EnvironmentStep
  BY <1>6, <1>u DEF EnvironmentStep, Fail, Crash, Faulty, RecoverStuckStripeEvents, PayeeChanges,
                    Database
<1>7. QED
  BY <1>1, <1>2, <1>3, <1>4, <1>5, <1>6 DEF Next

-----------------------------------------------------------------------------
\* The ids of a row, or of a process, exist at Stripe.
Issued(r, s) ==
    /\ r.transfer \in s.transfers \cup {None}
    /\ r.refund \in s.refunds \cup {None}

StripeGrows ==
    stripe.transfers \subseteq stripe'.transfers /\ stripe.refunds \subseteq stripe'.refunds

\* A Stripe call adds the object it names and removes none.
LEMMA CreationGrows ==
    ASSUME DataTyped
    PROVE  /\ UNCHANGED stripe => StripeGrows
           /\ \A t : CreateTransfer(t) => StripeGrows /\ t \in stripe'.transfers
           /\ \A r : CreateRefund(r) => StripeGrows /\ r \in stripe'.refunds
           /\ \A t : CreateTransferReversal(t) => StripeGrows
<1>1. \A t : CreateTransfer(t) => StripeGrows /\ t \in stripe'.transfers
  BY DEF DataTyped, Movements, CreateTransfer, StripeGrows
<1>2. \A r : CreateRefund(r) => StripeGrows /\ r \in stripe'.refunds
  BY DEF DataTyped, Movements, CreateRefund, StripeGrows
<1>3. \A t : CreateTransferReversal(t) => StripeGrows
  BY DEF DataTyped, Movements, CreateTransferReversal, StripeGrows
<1>4. QED
  BY <1>1, <1>2, <1>3 DEF StripeGrows

\* What exists at Stripe goes on existing.
LEMMA StepStripe == ASSUME TypeInv, Next PROVE StripeGrows
<1>t. DataTyped
  BY DEF TypeInv, TypeOK, DataTyped
<1>1. CASE TaskStep \/ DisputeStep \/ RequestStep
  BY <1>1, <1>t, CreationGrows
     DEF TaskStep, Fund, AssignWorker, SubmitProof, RejectProof, CompleteTask, CancelTask,
         AbandonTask, TaskMoves, DisputeStep, LockForDispute, ChargebackLock, CreateDispute,
         RequestEvidence, Escalate, ResolveDispute, RequestStep, ForceRelease, PosterRelease,
         PrepareRefund
<1>2. ASSUME NEW w \in Workers, TakeJob(w) PROVE StripeGrows
  BY <1>2, <1>t, CreationGrows
     DEF TakeJob, CompletionLoad, DisputeLoad, RefundLoad, SplitLoad, TransferEventLoad,
         RefundEventLoad, SkipClaimed
<1>3. ASSUME NEW w \in Workers, Continue(w) PROVE StripeGrows
  BY <1>3, <1>t, CreationGrows
     DEF Continue, CompletionTransfer, CompletionPersist, CompletionRelease, DisputeTransfer,
         DisputeStore, RefundCheck, EnsurePriorTransferReversed, ReverseCheckpoint,
         IssueRefund, StoreRefund, SplitResolveRefund, SplitCheckpoint, SplitResolveTransfer,
         SplitTerminalize, ServiceRefund, TerminalizeRefund, TransferEventRelease,
         RefundEventReverse, RefundEventTerminalize, TransferFails
<1>4. CASE EnvironmentStep
  BY <1>4, <1>t, CreationGrows
     DEF EnvironmentStep, Fail, Crash, Faulty, RecoverStuckStripeEvents, PayeeChanges
<1>5. QED
  BY <1>1, <1>2, <1>3, <1>4 DEF Next

\* A checkpoint is written from an id that exists.
LEMMA StepCheckpoints ==
    ASSUME TypeInv, RecordedIdsAreIssued, Next
    PROVE  /\ evidence'.original \in stripe.transfers \cup {None}
           /\ evidence'.partialRefund \in stripe.refunds \cup {None}
<1>. DEFINE Kept == /\ evidence'.original \in stripe.transfers \cup {None}
                    /\ evidence'.partialRefund \in stripe.refunds \cup {None}
<1>t. evidence \in Checkpoints
  BY DEF TypeInv, TypeOK
<1>u. UNCHANGED evidence => Kept
  BY DEF RecordedIdsAreIssued
<1>1. CASE TaskStep \/ RequestStep
  BY <1>1, <1>u
     DEF TaskStep, Fund, AssignWorker, SubmitProof, RejectProof, CompleteTask, CancelTask,
         AbandonTask, TaskMoves, RequestStep, ForceRelease, PosterRelease, PrepareRefund,
         Database
<1>2. CASE DisputeStep
  <2>1. ASSUME CreateDispute PROVE Kept
    BY <2>1, <1>t DEF CreateDispute, Checkpoints, RecordedIdsAreIssued
  <2>2. QED
    BY <1>2, <1>u, <2>1
       DEF DisputeStep, LockForDispute, ChargebackLock, RequestEvidence, Escalate,
           ResolveDispute
<1>3. ASSUME NEW w \in Workers, TakeJob(w) PROVE Kept
  BY <1>3, <1>u
     DEF TakeJob, CompletionLoad, DisputeLoad, RefundLoad, SplitLoad, TransferEventLoad,
         RefundEventLoad, SkipClaimed, Database
<1>4. ASSUME NEW w \in Workers, Continue(w) PROVE Kept
  <2>1. ASSUME ReverseCheckpoint(w) PROVE Kept
    BY <2>1, <1>t DEF ReverseCheckpoint, Checkpoints, RecordedIdsAreIssued
  <2>2. ASSUME SplitCheckpoint(w) PROVE Kept
    BY <2>2, <1>t DEF SplitCheckpoint, Checkpoints, RecordedIdsAreIssued
  <2>3. QED
    BY <1>4, <1>u, <2>1, <2>2
       DEF Continue, CompletionTransfer, CompletionPersist, CompletionRelease, DisputeTransfer,
           DisputeStore, RefundCheck, EnsurePriorTransferReversed, IssueRefund, StoreRefund,
           SplitResolveRefund, SplitResolveTransfer, SplitTerminalize, ServiceRefund,
           TerminalizeRefund, TransferEventRelease, RefundEventReverse, RefundEventTerminalize,
           Database
<1>5. CASE EnvironmentStep
  BY <1>5, <1>u
     DEF EnvironmentStep, Fail, Crash, Faulty, RecoverStuckStripeEvents, PayeeChanges, Database
<1>6. QED
  BY <1>1, <1>2, <1>3, <1>4, <1>5 DEF Next

\* An event is in the queue only after its object was created.
EventsIssued(q, s) ==
    /\ \A t \in TransferIds : TransferEvent(t) \in q => t \in s.transfers
    /\ \A r \in RefundIds : RefundEvent(r) \in q => r \in s.refunds

\* The jobs of the application are not Stripe events.
LEMMA OtherJobs ==
    \A j \in {Completion} \cup ActionJobs :
        /\ \A t : j # TransferEvent(t)
        /\ \A r : j # RefundEvent(r)
  BY DEF Completion, ActionJobs, TransferEvent, RefundEvent, Job

\* A Stripe call emits the event of the object it creates, and no other.
LEMMA CreationEvents ==
    ASSUME DataTyped, EventsIssued(queue, stripe)
    PROVE  /\ \A t \in TransferIds : CreateTransfer(t) => EventsIssued(queue', stripe')
           /\ \A r \in RefundIds : CreateRefund(r) => EventsIssued(queue', stripe')
<1>d. /\ \A t, r : TransferEvent(t) # RefundEvent(r)
      /\ \A t, u : TransferEvent(t) = TransferEvent(u) => t = u
      /\ \A r, q : RefundEvent(r) = RefundEvent(q) => r = q
  BY DEF TransferEvent, RefundEvent, Job
<1>1. ASSUME NEW t \in TransferIds, CreateTransfer(t) PROVE EventsIssued(queue', stripe')
  <2>1. /\ queue' \subseteq queue \cup {TransferEvent(t)}
        /\ stripe'.transfers = stripe.transfers \cup {t} /\ stripe'.refunds = stripe.refunds
    BY <1>1 DEF CreateTransfer, TransferEvent, DataTyped, Movements
  <2>2. QED
    BY <1>d, <2>1 DEF EventsIssued
<1>2. ASSUME NEW r \in RefundIds, CreateRefund(r) PROVE EventsIssued(queue', stripe')
  <2>1. /\ queue' \subseteq queue \cup {RefundEvent(r)}
        /\ stripe'.refunds = stripe.refunds \cup {r} /\ stripe'.transfers = stripe.transfers
    BY <1>2 DEF CreateRefund, RefundEvent, DataTyped, Movements
  <2>2. QED
    BY <1>d, <2>1 DEF EventsIssued
<1>3. QED
  BY <1>1, <1>2

-----------------------------------------------------------------------------
\* A step that takes a task out of COMPLETED does so while the row is locked,
\* or locks it.
LEMMA StepTask ==
    ASSUME TypeInv, Next, task = "COMPLETED", task' # "COMPLETED"
    PROVE  escrow'.state # "RELEASED"
<1>1. CreateDispute \/ \E outcome \in Outcomes : ResolveDispute(outcome)
  <2>1. ~TaskStep
    BY DEF TaskStep, Fund, AssignWorker, SubmitProof, RejectProof, CompleteTask, CancelTask,
           AbandonTask, TaskMoves
  <2>2. ~RequestStep
    BY DEF RequestStep, ForceRelease, PosterRelease, PrepareRefund, Database
  <2>3. \A w \in Workers : ~TakeJob(w)
    BY DEF TakeJob, CompletionLoad, DisputeLoad, RefundLoad, SplitLoad, TransferEventLoad,
           RefundEventLoad, SkipClaimed, Database
  <2>4. \A w \in Workers : ~Continue(w)
    BY DEF Continue, CompletionTransfer, CompletionPersist, CompletionRelease, DisputeTransfer,
           DisputeStore, RefundCheck, EnsurePriorTransferReversed, ReverseCheckpoint,
           IssueRefund, StoreRefund, SplitResolveRefund, SplitCheckpoint, SplitResolveTransfer,
           SplitTerminalize, ServiceRefund, TerminalizeRefund, TransferEventRelease,
           RefundEventReverse, RefundEventTerminalize, Database
  <2>5. ~EnvironmentStep
    BY DEF EnvironmentStep, Fail, Crash, Faulty, RecoverStuckStripeEvents, PayeeChanges, Database
  <2>6. QED
    BY <2>1, <2>2, <2>3, <2>4, <2>5
       DEF Next, DisputeStep, LockForDispute, ChargebackLock, RequestEvidence, Escalate
<1>2. CreateDispute => escrow'.state = "LOCKED_DISPUTE"
  BY MoveTransfer DEF CreateDispute, TypeInv, TypeOK, DataTyped
<1>3. QED
  BY <1>1, <1>2 DEF ResolveDispute

\* Every waiting event is about an object that exists.
LEMMA StepEvents ==
    ASSUME TypeInv, RecordedIdsAreIssued, Next
    PROVE  EventsIssued(queue', stripe')
<1>. DEFINE Kept == EventsIssued(queue', stripe')
<1>t. DataTyped
  BY DEF TypeInv, TypeOK, DataTyped
<1>e. EventsIssued(queue, stripe)
  BY DEF RecordedIdsAreIssued, EventsIssued, TransferEvent, RefundEvent
<1>g. StripeGrows
  BY StepStripe
<1>q. queue' \subseteq queue \cup {Completion} \cup ActionJobs => Kept
  BY <1>e, <1>g, OtherJobs DEF EventsIssued, StripeGrows
<1>u. UNCHANGED queue => Kept
  BY <1>q
<1>r. ASSUME NEW w, NEW j, Return(w, j) \/ Throw(w, j) PROVE Kept
  BY <1>q, <1>r DEF Return, Throw
<1>1. CASE TaskStep
  <2>1. CompleteTask => Kept
    BY <1>q DEF CompleteTask, Completion
  <2>2. QED
    BY <1>1, <1>u, <2>1
       DEF TaskStep, Fund, AssignWorker, SubmitProof, RejectProof, CancelTask, AbandonTask,
           Delivery
<1>2. CASE DisputeStep
  <2>1. ASSUME NEW outcome \in Outcomes, ResolveDispute(outcome) PROVE Kept
    <3>1. ActionJobOf(outcome) \in ActionJobs
      BY DEF ActionJobOf, ActionJobs, Outcomes
    <3>2. QED
      BY <1>q, <2>1, <3>1 DEF ResolveDispute
  <2>2. QED
    BY <1>2, <1>u, <2>1
       DEF DisputeStep, LockForDispute, ChargebackLock, CreateDispute, RequestEvidence,
           Escalate, Delivery
<1>3. CASE RequestStep
  BY <1>3, <1>u DEF RequestStep, ForceRelease, PosterRelease, PrepareRefund, Delivery
<1>4. ASSUME NEW w \in Workers, TakeJob(w) PROVE Kept
  BY <1>4, <1>u, <1>r
     DEF TakeJob, CompletionLoad, DisputeLoad, RefundLoad, SplitLoad, TransferEventLoad,
         RefundEventLoad, SkipClaimed, Delivery
<1>5. ASSUME NEW w \in Workers, Continue(w) PROVE Kept
  <2>1. ASSUME CompletionTransfer(w) PROVE Kept
    BY <1>t, <1>e, <1>r, <2>1, CreationEvents DEF CompletionTransfer, TransferIds
  <2>2. ASSUME DisputeTransfer(w) PROVE Kept
    BY <1>t, <1>e, <1>r, <2>2, CreationEvents DEF DisputeTransfer, TransferIds, TransferFails
  <2>3. ASSUME IssueRefund(w) PROVE Kept
    BY <1>t, <1>e, <1>r, <2>3, CreationEvents DEF IssueRefund, RefundIds
  <2>4. ASSUME SplitResolveRefund(w) PROVE Kept
    BY <1>t, <1>e, <1>r, <1>u, <2>4, CreationEvents DEF SplitResolveRefund, RefundIds, Delivery
  <2>5. ASSUME SplitResolveTransfer(w) PROVE Kept
    BY <1>t, <1>e, <1>r, <1>u, <2>5, CreationEvents
       DEF SplitResolveTransfer, TransferIds, TransferFails, Delivery
  <2>6. ASSUME ServiceRefund(w) PROVE Kept
    BY <1>t, <1>e, <1>r, <1>u, <2>6, CreationEvents
       DEF ServiceRefund, RefundSuffix, RefundIds, Delivery
  <2>7. ASSUME \/ CompletionPersist(w) \/ CompletionRelease(w) \/ DisputeStore(w)
               \/ RefundCheck(w) \/ EnsurePriorTransferReversed(w) \/ ReverseCheckpoint(w)
               \/ StoreRefund(w) \/ SplitCheckpoint(w) \/ SplitTerminalize(w)
               \/ TerminalizeRefund(w) \/ TransferEventRelease(w) \/ RefundEventReverse(w)
               \/ RefundEventTerminalize(w)
        PROVE  Kept
    BY <1>r, <1>u, <2>7
       DEF CompletionPersist, CompletionRelease, DisputeStore, RefundCheck,
           EnsurePriorTransferReversed, ReverseCheckpoint, StoreRefund, SplitCheckpoint,
           SplitTerminalize, TerminalizeRefund, TransferEventRelease, RefundEventReverse,
           RefundEventTerminalize, Delivery
  <2>8. QED
    BY <1>5, <2>1, <2>2, <2>3, <2>4, <2>5, <2>6, <2>7 DEF Continue
<1>6. CASE EnvironmentStep
  BY <1>6, <1>u
     DEF EnvironmentStep, Fail, Crash, Faulty, RecoverStuckStripeEvents, PayeeChanges, Delivery
<1>7. QED
  BY <1>1, <1>2, <1>3, <1>4, <1>5, <1>6 DEF Next

-----------------------------------------------------------------------------
\* The locals of a process.
LEMMA UpdateIssued ==
    ASSUME DataTyped, RecordedIdsAreIssued, StripeGrows, NEW w \in Workers, NEW p,
           proc' = [proc EXCEPT ![w] = p], Issued(p, stripe')
    PROVE  \A v \in Workers : Issued(proc'[v], stripe')
<1>1. \A v \in Workers : proc'[v] = IF v = w THEN p ELSE proc[v]
  BY DEF DataTyped
<1>2. \A v \in Workers : Issued(proc[v], stripe')
  BY DEF RecordedIdsAreIssued, StripeGrows, Issued
<1>3. QED
  BY <1>1, <1>2

\* A process that is reset holds no id.
LEMMA IdleIssued ==
    ASSUME DataTyped, RecordedIdsAreIssued, StripeGrows, NEW w \in Workers,
           proc' = [proc EXCEPT ![w] = Idle]
    PROVE  \A v \in Workers : Issued(proc'[v], stripe')
<1>1. Issued(Idle, stripe')
  BY DEF Issued, Idle
<1>2. QED
  BY <1>1, UpdateIssued

\* A first transaction leaves ids that exist.
LEMMA EnterIssued ==
    ASSUME DataTyped, RecordedIdsAreIssued, StripeGrows, NEW w \in Workers, NEW step, NEW j,
           NEW locals \in Processes, Enter(w, step, j, locals), Issued(locals, stripe)
    PROVE  \A v \in Workers : Issued(proc'[v], stripe')
<1>. DEFINE p == [locals EXCEPT !.pc = step, !.job = j]
<1>1. Issued(p, stripe')
  BY DEF Issued, Processes, StripeGrows
<1>2. proc' = [proc EXCEPT ![w] = p]
  BY DEF Enter
<1>3. QED
  BY <1>1, <1>2, UpdateIssued

\* A further step adds at most an id that exists.
LEMMA GoOnIssued ==
    ASSUME DataTyped, RecordedIdsAreIssued, StripeGrows, NEW w \in Workers, NEW step
    PROVE  /\ Goto(w, step) => \A v \in Workers : Issued(proc'[v], stripe')
           /\ \A t \in stripe'.transfers : HoldTransfer(w, step, t) =>
                 \A v \in Workers : Issued(proc'[v], stripe')
           /\ \A r \in stripe'.refunds : HoldRefund(w, step, r) =>
                 \A v \in Workers : Issued(proc'[v], stripe')
<1>0. /\ proc[w] \in Processes
      /\ Issued(proc[w], stripe')
  BY DEF DataTyped, RecordedIdsAreIssued, StripeGrows, Issued
<1>1. ASSUME Goto(w, step) PROVE \A v \in Workers : Issued(proc'[v], stripe')
  <2>1. Issued([proc[w] EXCEPT !.pc = step], stripe')
    BY <1>0 DEF Issued, Processes
  <2>2. proc' = [proc EXCEPT ![w] = [proc[w] EXCEPT !.pc = step]]
    BY <1>1 DEF Goto
  <2>3. QED
    BY <2>1, <2>2, UpdateIssued
<1>2. ASSUME NEW t \in stripe'.transfers, HoldTransfer(w, step, t)
      PROVE  \A v \in Workers : Issued(proc'[v], stripe')
  <2>1. Issued([proc[w] EXCEPT !.pc = step, !.transfer = t], stripe')
    BY <1>0 DEF Issued, Processes
  <2>2. proc' = [proc EXCEPT ![w] = [proc[w] EXCEPT !.pc = step, !.transfer = t]]
    BY <1>2 DEF HoldTransfer
  <2>3. QED
    BY <2>1, <2>2, UpdateIssued
<1>3. ASSUME NEW r \in stripe'.refunds, HoldRefund(w, step, r)
      PROVE  \A v \in Workers : Issued(proc'[v], stripe')
  <2>1. Issued([proc[w] EXCEPT !.pc = step, !.refund = r], stripe')
    BY <1>0 DEF Issued, Processes
  <2>2. proc' = [proc EXCEPT ![w] = [proc[w] EXCEPT !.pc = step, !.refund = r]]
    BY <1>3 DEF HoldRefund
  <2>3. QED
    BY <2>1, <2>2, UpdateIssued
<1>4. QED
  BY <1>1, <1>2, <1>3

\* The locals the first transactions load from the row or from an event.
LEMMA LoadedIssued ==
    ASSUME DataTyped, RecordedIdsAreIssued, NEW p \in {Idle, SeenVersion},
           NEW t \in stripe.transfers \cup {None}, NEW r \in stripe.refunds \cup {None}
    PROVE  /\ p \in Processes /\ Issued(p, stripe)
           /\ [p EXCEPT !.transfer = t] \in Processes
           /\ Issued([p EXCEPT !.transfer = t], stripe)
           /\ [p EXCEPT !.refund = r] \in Processes
           /\ Issued([p EXCEPT !.refund = r], stripe)
           /\ [p EXCEPT !.transfer = t, !.refund = r] \in Processes
           /\ Issued([p EXCEPT !.transfer = t, !.refund = r], stripe)
           /\ [p EXCEPT !.refund = r, !.transfer = t] \in Processes
           /\ Issued([p EXCEPT !.refund = r, !.transfer = t], stripe)
<1>1. p \in Processes /\ p.transfer = None /\ p.refund = None
  BY IdleTyped DEF DataTyped, Rows, Processes, Idle, SeenVersion
<1>2. t \in TransferIds \cup {None} /\ r \in RefundIds \cup {None}
  BY DEF DataTyped, Movements
<1>3. QED
  BY <1>1, <1>2 DEF Issued, Processes

\* The locals of every process name objects that exist.
LEMMA StepLocals ==
    ASSUME TypeInv, RecordedIdsAreIssued, Next
    PROVE  \A v \in Workers : Issued(proc'[v], stripe')
<1>. DEFINE Sound == \A v \in Workers : Issued(proc'[v], stripe')
<1>t. DataTyped
  BY DEF TypeInv, TypeOK, DataTyped
<1>g. StripeGrows
  BY StepStripe
<1>u. UNCHANGED proc => Sound
  BY <1>g DEF RecordedIdsAreIssued, StripeGrows, Issued
<1>i. ASSUME NEW w \in Workers, NEW j, Return(w, j) \/ Throw(w, j) PROVE Sound
  BY <1>t, <1>g, <1>i, IdleIssued DEF Return, Throw
<1>e. /\ escrow.transfer \in stripe.transfers \cup {None}
      /\ escrow.refund \in stripe.refunds \cup {None}
      /\ \A t \in TransferIds : TransferEvent(t) \in queue => t \in stripe.transfers
      /\ \A r \in RefundIds : RefundEvent(r) \in queue => r \in stripe.refunds
      /\ evidence.partialRefund \in stripe.refunds \cup {None}
      /\ \A w \in Workers : Issued(proc[w], stripe)
  BY DEF RecordedIdsAreIssued, TransferEvent, RefundEvent, Issued
<1>1. CASE TaskStep
  BY <1>1, <1>u DEF TaskStep, Fund, AssignWorker, SubmitProof, RejectProof, CompleteTask,
                    CancelTask, AbandonTask, TaskMoves
<1>2. CASE DisputeStep
  BY <1>2, <1>u DEF DisputeStep, LockForDispute, ChargebackLock, CreateDispute,
                    RequestEvidence, Escalate, ResolveDispute
<1>3. CASE RequestStep
  <2>1. ASSUME NEW w \in Workers, NEW j \in Requests, PrepareRefund(w, j) PROVE Sound
    <3>1. /\ [Idle EXCEPT !.refund = escrow.refund] \in Processes
          /\ Issued([Idle EXCEPT !.refund = escrow.refund], stripe)
      BY <1>t, <1>e, LoadedIssued
    <3>2. QED
      BY <1>t, <1>g, <2>1, <3>1, EnterIssued DEF PrepareRefund
  <2>2. QED
    BY <1>3, <1>u, <2>1 DEF RequestStep, ForceRelease, PosterRelease
<1>4. ASSUME NEW w \in Workers, TakeJob(w) PROVE Sound
  <2>1. ASSUME CompletionLoad(w) PROVE Sound
    <3>. DEFINE p == [SeenVersion EXCEPT !.transfer = escrow.transfer]
    <3>1. p \in Processes /\ Issued(p, stripe)
      BY <1>t, <1>e, LoadedIssued
    <3>2. ASSUME NEW step, Enter(w, step, Completion, p) PROVE Sound
      <4>. HIDE DEF p
      <4>. QED
        BY <1>t, <1>g, <3>1, <3>2, EnterIssued
    <3>3. QED
      BY <1>i, <2>1, <3>2 DEF CompletionLoad
  <2>2. ASSUME DisputeLoad(w) PROVE Sound
    <3>1. SeenVersion \in Processes /\ Issued(SeenVersion, stripe)
      BY <1>t, <1>e, LoadedIssued
    <3>2. QED
      BY <1>t, <1>g, <1>i, <2>2, <3>1, EnterIssued DEF DisputeLoad
  <2>3. ASSUME RefundLoad(w) PROVE Sound
    <3>1. Idle \in Processes /\ Issued(Idle, stripe)
      BY <1>t, <1>e, LoadedIssued
    <3>2. QED
      BY <1>t, <1>g, <1>i, <2>3, <3>1, EnterIssued DEF RefundLoad
  <2>4. ASSUME SplitLoad(w) PROVE Sound
    <3>. DEFINE p == [Idle EXCEPT !.transfer = escrow.transfer, !.refund = escrow.refund]
    <3>1. p \in Processes /\ Issued(p, stripe)
      BY <1>t, <1>e, LoadedIssued
    <3>2. Enter(w, "splitRefund", PartialRefundRequested, p) => Sound
      <4>. HIDE DEF p
      <4>. QED
        BY <1>t, <1>g, <3>1, EnterIssued
    <3>3. QED
      BY <1>i, <2>4, <3>2 DEF SplitLoad
  <2>5. ASSUME NEW t \in TransferIds, TransferEventLoad(w, t) PROVE Sound
    <3>. DEFINE p == [Idle EXCEPT !.transfer = t]
    <3>1. t \in stripe.transfers
      BY <1>e, <2>5 DEF TransferEventLoad, Claims, Takes
    <3>2. p \in Processes /\ Issued(p, stripe)
      BY <1>t, <1>e, <3>1, LoadedIssued
    <3>3. Enter(w, "eventRelease", TransferEvent(t), p) => Sound
      <4>. HIDE DEF p
      <4>. QED
        BY <1>t, <1>g, <3>2, EnterIssued
    <3>4. QED
      BY <1>i, <2>5, <3>3 DEF TransferEventLoad
  <2>6. ASSUME NEW r \in RefundIds, RefundEventLoad(w, r) PROVE Sound
    <3>. DEFINE p == [Idle EXCEPT !.refund = r]
                q == [Idle EXCEPT !.refund = r, !.transfer = escrow.transfer]
    <3>1. r \in stripe.refunds
      BY <1>e, <2>6 DEF RefundEventLoad, Claims, Takes
    <3>2. /\ p \in Processes /\ Issued(p, stripe)
          /\ q \in Processes /\ Issued(q, stripe)
      BY <1>t, <1>e, <3>1, LoadedIssued
    <3>3. /\ Enter(w, "eventRefund", RefundEvent(r), p) => Sound
          /\ Enter(w, "eventReverse", RefundEvent(r), q) => Sound
      <4>. HIDE DEF p, q
      <4>. QED
        BY <1>t, <1>g, <3>2, EnterIssued
    <3>4. QED
      BY <1>i, <2>6, <3>3 DEF RefundEventLoad
  <2>7. ASSUME NEW j \in EventJobs, SkipClaimed(w, j) PROVE Sound
    BY <1>i, <2>7 DEF SkipClaimed
  <2>8. QED
    BY <1>4, <2>1, <2>2, <2>3, <2>4, <2>5, <2>6, <2>7 DEF TakeJob
<1>5. ASSUME NEW w \in Workers, Continue(w) PROVE Sound
  <2>g. /\ \A step : Goto(w, step) => Sound
        /\ \A step : \A t \in stripe'.transfers : HoldTransfer(w, step, t) => Sound
        /\ \A step : \A r \in stripe'.refunds : HoldRefund(w, step, r) => Sound
    BY <1>t, <1>g, GoOnIssued
  <2>c. /\ \A t : CreateTransfer(t) => t \in stripe'.transfers
        /\ \A r : CreateRefund(r) => r \in stripe'.refunds
    BY <1>t, CreationGrows
  <2>p. /\ proc[w].transfer \in stripe'.transfers \cup {None}
        /\ proc[w].refund \in stripe'.refunds \cup {None}
        /\ escrow.transfer \in stripe'.transfers \cup {None}
        /\ evidence.partialRefund \in stripe'.refunds \cup {None}
    BY <1>e, <1>g DEF Issued, StripeGrows
  <2>1. ASSUME CompletionTransfer(w) PROVE Sound
    BY <1>i, <2>1, <2>c, <2>g DEF CompletionTransfer
  <2>2. ASSUME DisputeTransfer(w) PROVE Sound
    BY <1>i, <2>2, <2>c, <2>g DEF DisputeTransfer, TransferFails
  <2>3. ASSUME CompletionPersist(w) PROVE Sound
    BY <1>i, <2>3, <2>g, <2>p DEF CompletionPersist
  <2>4. ASSUME \/ CompletionRelease(w) \/ DisputeStore(w) \/ StoreRefund(w) \/ SplitTerminalize(w)
               \/ TerminalizeRefund(w) \/ TransferEventRelease(w) \/ RefundEventTerminalize(w)
        PROVE  Sound
    BY <1>i, <2>4 DEF CompletionRelease, DisputeStore, StoreRefund, SplitTerminalize,
                      TerminalizeRefund, TransferEventRelease, RefundEventTerminalize
  <2>5. ASSUME \/ RefundCheck(w) \/ EnsurePriorTransferReversed(w) \/ ReverseCheckpoint(w)
               \/ SplitCheckpoint(w)
        PROVE  Sound
    BY <1>i, <2>5, <2>g DEF RefundCheck, EnsurePriorTransferReversed, ReverseCheckpoint,
                            SplitCheckpoint
  <2>6. ASSUME IssueRefund(w) PROVE Sound
    BY <1>i, <2>6, <2>c, <2>g DEF IssueRefund
  <2>7. ASSUME SplitResolveRefund(w) PROVE Sound
    BY <1>i, <2>7, <2>c, <2>g, <2>p DEF SplitResolveRefund
  <2>8. ASSUME SplitResolveTransfer(w) PROVE Sound
    BY <1>i, <2>8, <2>c, <2>g, <2>p DEF SplitResolveTransfer, TransferFails
  <2>9. ASSUME ServiceRefund(w) PROVE Sound
    BY <1>i, <2>9, <2>c, <2>g DEF ServiceRefund
  <2>10. ASSUME RefundEventReverse(w) PROVE Sound
    <3>. DEFINE p == [proc[w] EXCEPT !.pc = "eventRefund", !.transfer = None]
    <3>1. Issued(p, stripe')
      BY <1>t, <2>p DEF Issued, DataTyped, Processes
    <3>2. proc' = [proc EXCEPT ![w] = p]
      BY <2>10 DEF RefundEventReverse
    <3>3. QED
      BY <1>t, <1>g, <3>1, <3>2, UpdateIssued
  <2>11. QED
    BY <1>5, <2>1, <2>2, <2>3, <2>4, <2>5, <2>6, <2>7, <2>8, <2>9, <2>10 DEF Continue
<1>6. CASE EnvironmentStep
  BY <1>6, <1>t, <1>g, <1>u, IdleIssued DEF EnvironmentStep, Fail, Crash, Faulty,
                                            RecoverStuckStripeEvents, PayeeChanges
<1>7. QED
  BY <1>1, <1>2, <1>3, <1>4, <1>5, <1>6 DEF Next

-----------------------------------------------------------------------------
\* Whatever the number of workers, errors, crashes and stalled runs, no id is
\* written to the row, to a checkpoint or to the locals of a handler before
\* the call that creates its object returned.
THEOREM RecordedIdsCorrect == Spec => []RecordedIdsAreIssued
<1>1. Init => RecordedIdsAreIssued
  BY DEF Init, RecordedIdsAreIssued, Idle
<1>2. TypeInv /\ VersionMeansOpen /\ RecordedIdsAreIssued /\ [Next]_vars
      => RecordedIdsAreIssued'
  <2> SUFFICES ASSUME TypeInv, VersionMeansOpen, RecordedIdsAreIssued, [Next]_vars
               PROVE  RecordedIdsAreIssued'
    OBVIOUS
  <2>1. CASE UNCHANGED vars
    BY <2>1 DEF RecordedIdsAreIssued, vars
  <2>2. CASE Next
    <3>1. StripeGrows
      BY <2>2, StepStripe
    <3>2. Issued(escrow', stripe')
      <4>1. RowStep
        BY <2>2, StepRow
      <4>2. QED
        BY <3>1, <4>1
           DEF RowStep, RowFund, RowLock, RowTransfer, RowRefundId, RowRelease, RowRefund,
               RowSplit, KeepsTransfer, KeepsRefund, RecordedIdsAreIssued, Issued, StripeGrows
    <3>3. /\ evidence'.original \in stripe'.transfers \cup {None}
          /\ evidence'.partialRefund \in stripe'.refunds \cup {None}
      BY <2>2, <3>1, StepCheckpoints DEF StripeGrows
    <3>4. \A w \in Workers : Issued(proc'[w], stripe')
      BY <2>2, StepLocals
    <3>5. EventsIssued(queue', stripe')
      BY <2>2, StepEvents
    <3>6. QED
      BY <3>2, <3>3, <3>4, <3>5
         DEF RecordedIdsAreIssued, Issued, EventsIssued, TransferEvent, RefundEvent
  <2>3. QED
    BY <2>1, <2>2
<1>3. QED
  BY <1>1, <1>2, TypeInvariant, VersionCorrect, PTL DEF Spec

\* A dispute that is filed or resolved, a refund that was prepared, a webhook
\* that is late: none takes a released row's task out of COMPLETED.
THEOREM ReleasedTaskCorrect == Spec => []ReleasedTaskIsCompleted
<1>1. Init => ReleasedTaskIsCompleted
  BY DEF Init, ReleasedTaskIsCompleted
<1>2. /\ TypeInv /\ VersionMeansOpen /\ RecordedIdsAreIssued
      /\ ReleasedTaskIsCompleted /\ [Next]_vars
      => ReleasedTaskIsCompleted'
  <2> SUFFICES ASSUME TypeInv, VersionMeansOpen, RecordedIdsAreIssued,
                      ReleasedTaskIsCompleted, [Next]_vars, escrow'.state = "RELEASED"
               PROVE  task' = "COMPLETED"
    BY DEF ReleasedTaskIsCompleted
  <2>1. CASE UNCHANGED vars
    BY <2>1 DEF ReleasedTaskIsCompleted, vars
  <2>2. CASE Next
    <3>1. RowStep
      BY <2>2, StepRow
    <3>2. task = "COMPLETED"
      BY <3>1 DEF RowStep, RowFund, RowLock, RowTransfer, RowRefundId, RowRelease, RowRefund,
                  RowSplit, KeepsState, ReleasedTaskIsCompleted
    <3>3. QED
      BY <2>2, <3>2, StepTask
  <2>3. QED
    BY <2>1, <2>2
<1>3. QED
  BY <1>1, <1>2, TypeInvariant, VersionCorrect, RecordedIdsCorrect, PTL DEF Spec

\* The row implements the ledger: only declared transitions, a settled row
\* keeps its transfer and its provider, and only a settlement replaces a
\* refund id.
THEOREM RowCorrect == Spec => RowImplementsLedger
<1>1. Init => Ledger!Init
  BY DEF Init, Ledger!Init, None, Ledger!None
<1>2. TypeInv /\ VersionMeansOpen /\ RecordedIdsAreIssued /\ [Next]_vars
      => [Ledger!Next]_(Ledger!vars)
  <2> SUFFICES ASSUME TypeInv, VersionMeansOpen, RecordedIdsAreIssued, [Next]_vars
               PROVE  [Ledger!Next]_(Ledger!vars)
    OBVIOUS
  <2>1. CASE UNCHANGED vars
    BY <2>1 DEF vars, Ledger!vars
  <2>2. CASE Next
    <3>1. RowStep
      BY <2>2, StepRow
    <3>2. KeepsState /\ KeepsTransfer /\ KeepsRefund => UNCHANGED Ledger!vars
      BY DEF KeepsState, KeepsTransfer, KeepsRefund, Ledger!vars
    <3>. USE DEF KeepsState, KeepsTransfer, KeepsRefund, Ledger!Moves, Ledger!ValidTransitions,
                 Ledger!EscrowStates, OpenStates, None, Ledger!None, TypeInv, TypeOK, Movements
    <3>3. RowFund => Ledger!Fund
      BY DEF RowFund, Ledger!Fund
    <3>4. RowLock => Ledger!Lock
      BY DEF RowLock, Ledger!Lock
    <3>5. RowTransfer => \E t \in TransferIds : Ledger!RecordTransfer(t)
      BY DEF RowTransfer, Ledger!RecordTransfer
    <3>6. RowRefundId => \E r \in RefundIds : Ledger!RecordRefund(r)
      BY DEF RowRefundId, Ledger!RecordRefund
    <3>7. RowRelease => Ledger!Release
      BY DEF RowRelease, Ledger!Release
    <3>8. RowRefund => Ledger!Refund
      BY DEF RowRefund, Ledger!Refund, TypeInv, TypeOK, Rows, EscrowStates, TerminalStates
    <3>9. RowSplit => Ledger!Split
      BY DEF RowSplit, Ledger!Split
    <3>10. QED
      BY <3>1, <3>2, <3>3, <3>4, <3>5, <3>6, <3>7, <3>8, <3>9 DEF RowStep, Ledger!Next
  <2>3. QED
    BY <2>1, <2>2
<1>3. QED
  BY <1>1, <1>2, TypeInvariant, VersionCorrect, RecordedIdsCorrect, PTL DEF Spec, RowImplementsLedger, Ledger!Spec

-----------------------------------------------------------------------------
(***************************************************************************)
(* Where the money of an escrow can go, for any number of workers, amounts *)
(* and faults.  The theorems, in the order of the proofs:                  *)
(*                                                                         *)
(*   SettlementCorrect    a settled row names what settled it              *)
(*   OutcomeExclusive     a dispute moves the money of one outcome         *)
(*   SplitOrdered         a split refunds before it pays                   *)
(*   PayoutRecorded       an unraced completion payout is recorded         *)
(*   OverpaymentRaced     more goes out than came in only after a race     *)
(*                                                                         *)
(* None of the four is inductive.  The invariant they share follows the    *)
(* money backwards: an object at Stripe was created by a process at one    *)
(* step, the process came there from a job, the job from the resolution    *)
(* of the dispute, and the dispute decides the state of the task, which    *)
(* decides what can be released or refunded.                               *)
(***************************************************************************)

\* What belongs to an outcome: the steps of its handler and the objects it
\* creates.
StepsOf(outcome) ==
    CASE outcome = "RELEASE" -> {"disputeTransfer", "disputeStore"}
      [] outcome = "REFUND"  -> {"refundCheck", "reverse", "reverseCheckpoint", "issueRefund",
                                 "storeRefund"}
      [] OTHER -> {"splitRefund", "splitCheckpoint", "splitTransfer", "splitTerminal"}

TransfersOf(outcome) ==
    CASE outcome = "RELEASE" -> {"dispute_release"}
      [] outcome = "REFUND"  -> {}
      [] OTHER               -> {"dispute_partial_release"}

RefundsOf(outcome) ==
    CASE outcome = "RELEASE" -> {}
      [] outcome = "REFUND"  -> {"wkr_refund"}
      [] OTHER               -> {"wkr_partial_refund"}

OpenDisputes == {"OPEN", "EVIDENCE_REQUESTED", "ESCALATED"}

\* The task is where its dispute put it, and the row has left FUNDED.
TaskFollowsDispute ==
    /\ dispute \in OpenDisputes => task = "DISPUTED"
    /\ dispute = "RELEASE" => task = "COMPLETED"
    /\ dispute \in {"REFUND", "SPLIT"} => task = "CANCELLED"
    /\ dispute # "NONE" => escrow.state \notin {"PENDING", "FUNDED"}

\* A job, a running handler and an object of an outcome exist only after the
\* dispute was resolved that way.
OutcomeSound ==
    \A o \in Outcomes :
        /\ ActionJobOf(o) \in queue => dispute = o
        /\ \A w \in Workers : proc[w].pc \in StepsOf(o) => dispute = o
        /\ \A t \in TransfersOf(o) : t \in stripe.transfers => dispute = o
        /\ \A r \in RefundsOf(o) : r \in stripe.refunds => dispute = o

\* Only the split's own refund reaches the step that pays the worker's share.
SplitSound ==
    /\ evidence.partialRefund \in {None, "wkr_partial_refund"}
    /\ escrow.refund # None => escrow.state \in TerminalStates \/ dispute = "REFUND"
    /\ \A w \in Workers :
         /\ At(w, "splitRefund") => proc[w].refund = None
         /\ proc[w].pc \in {"splitCheckpoint", "splitTransfer"} =>
              proc[w].refund = "wkr_partial_refund"
    /\ SplitRefundsFirst

\* Stripe refunds at most the charge, and a provider is named by a release.
MoneySound ==
    /\ Refunded <= Amount
    /\ escrow.provider # None => escrow.state = "RELEASED"

\* What the absence of a race means.
RaceFree ==
    MoneyRaces = {} =>
      /\ RefundInFlight => task \notin {"ACCEPTED", "PROOF_SUBMITTED", "COMPLETED"}
      /\ "completion_release" \in PayoutsInFlight =>
           /\ dispute = "NONE" /\ task = "COMPLETED"
           /\ \/ escrow.state = "FUNDED"
              \/ /\ escrow.state = "RELEASED" /\ escrow.provider = "STRIPE"
                 /\ escrow.transfer = "completion_release"
      /\ escrow.provider = "MANUAL_RECONCILIATION" => PayoutsInFlight = {}

-----------------------------------------------------------------------------
(***************************************************************************)
(* What a step does to a process.                                          *)
(***************************************************************************)
Frozen == UNCHANGED <<escrow, task, dispute>>

\* A process that comes to a step that can move money came from a state of
\* the row, from a job, or from the step before.
Moved(v) ==
    /\ proc'[v].pc \in {"completionTransfer", "disputeTransfer", "splitTransfer", "serviceRefund"}
         => Frozen
    /\ proc'[v].pc = "completionTransfer" => escrow.state = "FUNDED" /\ task = "COMPLETED"
    /\ proc'[v].pc = "unpaidTerminal" => escrow'.state = "PENDING"
    /\ proc'[v].pc = "disputeTransfer" => Locked
    /\ proc'[v].pc = "serviceRefund" =>
         task \notin {"ACCEPTED", "PROOF_SUBMITTED", "COMPLETED"}
    /\ \A o \in Outcomes : proc'[v].pc \in StepsOf(o) =>
         ActionJobOf(o) \in queue \/ proc[v].pc \in StepsOf(o)
    /\ proc'[v].pc = "splitRefund" =>
         Locked /\ ActionJobOf("SPLIT") \in queue /\ proc'[v].refund = escrow.refund
    /\ proc'[v].pc = "splitCheckpoint" => proc'[v].refund = "wkr_partial_refund"
    /\ proc'[v].pc = "splitTransfer" =>
         \/ /\ At(v, "splitRefund") /\ proc'[v].refund # None
            /\ proc'[v].refund \in {proc[v].refund, evidence.partialRefund}
         \/ At(v, "splitCheckpoint") /\ proc'[v].refund = proc[v].refund

ProcessStep == \A v \in Workers : proc'[v] = proc[v] \/ Moved(v)

\* The steps at which a process ends or does nothing this module is about.
OtherSteps ==
    {"idle", "completionPersist", "completionRelease", "serviceTerminal", "eventRelease",
     "eventReverse", "eventRefund"}

\* The steps of the outcomes are disjoint, and no other step belongs to one.
LEMMA StepsApart ==
    /\ \A o \in Outcomes : \A s \in OtherSteps \cup {"completionTransfer", "serviceRefund", "unpaidTerminal"} :
         s \notin StepsOf(o)
    /\ \A o, q \in Outcomes : \A s \in StepsOf(o) : s \in StepsOf(q) => o = q
  BY DEF Outcomes, StepsOf, OtherSteps

\* Where a process is, and which refund it holds, after each way to go on.
LEMMA ProcessAfter ==
    ASSUME DataTyped, NEW w \in Workers
    PROVE  /\ \A j : Return(w, j) \/ Throw(w, j) =>
                proc'[w].pc = "idle" /\ \A v \in Workers \ {w} : proc'[v] = proc[v]
           /\ \A step : Goto(w, step) =>
                /\ proc'[w].pc = step /\ proc'[w].refund = proc[w].refund
                /\ \A v \in Workers \ {w} : proc'[v] = proc[v]
           /\ \A step, t : HoldTransfer(w, step, t) =>
                /\ proc'[w].pc = step /\ proc'[w].refund = proc[w].refund
                /\ \A v \in Workers \ {w} : proc'[v] = proc[v]
           /\ \A step, r : HoldRefund(w, step, r) =>
                /\ proc'[w].pc = step /\ proc'[w].refund = r
                /\ \A v \in Workers \ {w} : proc'[v] = proc[v]
           /\ \A step, j : \A locals \in Processes : Enter(w, step, j, locals) =>
                /\ proc'[w].pc = step /\ proc'[w].refund = locals.refund
                /\ \A v \in Workers \ {w} : proc'[v] = proc[v]
<1>0. \A p : proc' = [proc EXCEPT ![w] = p] =>
        proc'[w] = p /\ \A v \in Workers \ {w} : proc'[v] = proc[v]
  BY DEF DataTyped
<1>p. proc[w] \in Processes
  BY DEF DataTyped
<1>1. ASSUME NEW j, Return(w, j) \/ Throw(w, j)
      PROVE  proc'[w].pc = "idle" /\ \A v \in Workers \ {w} : proc'[v] = proc[v]
  BY <1>0, <1>1 DEF Return, Throw, Idle
<1>2. ASSUME NEW step, Goto(w, step)
      PROVE  /\ proc'[w].pc = step /\ proc'[w].refund = proc[w].refund
             /\ \A v \in Workers \ {w} : proc'[v] = proc[v]
  <2>. DEFINE p == [proc[w] EXCEPT !.pc = step]
  <2>1. p.pc = step /\ p.refund = proc[w].refund
    BY <1>p DEF Processes
  <2>2. proc' = [proc EXCEPT ![w] = p]
    BY <1>2 DEF Goto
  <2>. HIDE DEF p
  <2>3. QED
    BY <1>0, <2>1, <2>2
<1>3. ASSUME NEW step, NEW t, HoldTransfer(w, step, t)
      PROVE  /\ proc'[w].pc = step /\ proc'[w].refund = proc[w].refund
             /\ \A v \in Workers \ {w} : proc'[v] = proc[v]
  <2>. DEFINE p == [proc[w] EXCEPT !.pc = step, !.transfer = t]
  <2>1. p.pc = step /\ p.refund = proc[w].refund
    BY <1>p DEF Processes
  <2>2. proc' = [proc EXCEPT ![w] = p]
    BY <1>3 DEF HoldTransfer
  <2>. HIDE DEF p
  <2>3. QED
    BY <1>0, <2>1, <2>2
<1>4. ASSUME NEW step, NEW r, HoldRefund(w, step, r)
      PROVE  /\ proc'[w].pc = step /\ proc'[w].refund = r
             /\ \A v \in Workers \ {w} : proc'[v] = proc[v]
  <2>. DEFINE p == [proc[w] EXCEPT !.pc = step, !.refund = r]
  <2>1. p.pc = step /\ p.refund = r
    BY <1>p DEF Processes
  <2>2. proc' = [proc EXCEPT ![w] = p]
    BY <1>4 DEF HoldRefund
  <2>. HIDE DEF p
  <2>3. QED
    BY <1>0, <2>1, <2>2
<1>5. ASSUME NEW step, NEW j, NEW locals \in Processes, Enter(w, step, j, locals)
      PROVE  /\ proc'[w].pc = step /\ proc'[w].refund = locals.refund
             /\ \A v \in Workers \ {w} : proc'[v] = proc[v]
  <2>. DEFINE p == [locals EXCEPT !.pc = step, !.job = j]
  <2>1. p.pc = step /\ p.refund = locals.refund
    BY DEF Processes
  <2>2. proc' = [proc EXCEPT ![w] = p]
    BY <1>5 DEF Enter
  <2>. HIDE DEF p
  <2>3. QED
    BY <1>0, <2>1, <2>2
<1>6. QED
  BY <1>1, <1>2, <1>3, <1>4, <1>5

\* A process that comes to a step of no interest has moved soundly.
LEMMA MovedAside ==
    ASSUME NEW v, proc'[v].pc \in OtherSteps
    PROVE  Moved(v)
  BY StepsApart DEF Moved, OtherSteps

\* The jobs of the outcomes.
LEMMA OutcomeJobs ==
    /\ ActionJobOf("RELEASE") = ReleaseRequested
    /\ ActionJobOf("REFUND") = RefundRequested
    /\ ActionJobOf("SPLIT") = PartialRefundRequested
  BY DEF ActionJobOf, ReleaseRequested, RefundRequested, PartialRefundRequested

\* Every process stays or moves soundly in every step.
LEMMA StepProcess == ASSUME TypeInv, Next PROVE ProcessStep
<1>t. DataTyped
  BY DEF TypeInv, TypeOK, DataTyped
<1>u. UNCHANGED proc => ProcessStep
  BY DEF ProcessStep
<1>a. ASSUME NEW w \in Workers,
             Moved(w), \A v \in Workers \ {w} : proc'[v] = proc[v]
      PROVE  ProcessStep
  BY <1>a DEF ProcessStep
<1>i. ASSUME NEW w \in Workers, NEW j, Return(w, j) \/ Throw(w, j) PROVE ProcessStep
  BY <1>t, <1>a, <1>i, ProcessAfter, MovedAside DEF OtherSteps
<1>j. ASSUME NEW w \in Workers, proc' = [proc EXCEPT ![w] = Idle] PROVE ProcessStep
  <2>2. proc'[w].pc = "idle" /\ \A v \in Workers \ {w} : proc'[v] = proc[v]
    BY <1>t, <1>j DEF DataTyped, Idle
  <2>3. QED
    BY <1>a, <2>2, MovedAside DEF OtherSteps
<1>s. /\ \A s \in OtherSteps \cup {"completionTransfer", "serviceRefund", "unpaidTerminal"} :
           \A o \in Outcomes : s \notin StepsOf(o)
      /\ \A s \in {"disputeTransfer", "disputeStore"} : \A o \in Outcomes :
           s \in StepsOf(o) <=> o = "RELEASE"
      /\ \A s \in {"refundCheck", "reverse", "reverseCheckpoint", "issueRefund", "storeRefund"} :
           \A o \in Outcomes : s \in StepsOf(o) <=> o = "REFUND"
      /\ \A s \in {"splitRefund", "splitCheckpoint", "splitTransfer", "splitTerminal"} :
           \A o \in Outcomes : s \in StepsOf(o) <=> o = "SPLIT"
  BY StepsApart DEF StepsOf, Outcomes
<1>f. UNCHANGED <<Database>> => Frozen
  BY DEF Database, Frozen
<1>1. CASE TaskStep
  BY <1>1, <1>u DEF TaskStep, Fund, AssignWorker, SubmitProof, RejectProof, CompleteTask,
                    CancelTask, AbandonTask, TaskMoves
<1>2. CASE DisputeStep
  BY <1>2, <1>u DEF DisputeStep, LockForDispute, ChargebackLock, CreateDispute,
                    RequestEvidence, Escalate, ResolveDispute
<1>3. CASE RequestStep
  <2>1. ASSUME NEW w \in Workers, NEW j \in Requests, PrepareRefund(w, j) PROVE ProcessStep
    <3>1. [Idle EXCEPT !.refund = escrow.refund] \in Processes
      BY <1>t, IdleTyped DEF DataTyped, Rows, Processes
    <3>2. /\ \/ proc'[w].pc = "serviceRefund"
             \/ proc'[w].pc = "unpaidTerminal" /\ escrow.state = "PENDING"
          /\ \A v \in Workers \ {w} : proc'[v] = proc[v]
      BY <1>t, <2>1, <3>1, ProcessAfter DEF PrepareRefund
    <3>3. Moved(w)
      <4>1. UNCHANGED <<escrow, task, dispute>>
        BY <2>1 DEF PrepareRefund, Database
      <4>2. task \notin {"ACCEPTED", "PROOF_SUBMITTED", "COMPLETED"}
        BY <2>1 DEF PrepareRefund
      <4>3. CASE proc'[w].pc = "serviceRefund"
        BY <1>s, <4>1, <4>2, <4>3 DEF Moved, Frozen
      <4>4. CASE proc'[w].pc = "unpaidTerminal" /\ escrow.state = "PENDING"
        BY <1>s, <4>1, <4>4 DEF Moved
      <4>5. QED
        BY <3>2, <4>3, <4>4
    <3>4. QED
      BY <1>a, <3>2, <3>3
  <2>2. QED
    BY <1>3, <1>u, <2>1 DEF RequestStep, ForceRelease, PosterRelease
<1>4. ASSUME NEW w \in Workers, TakeJob(w) PROVE ProcessStep
  <2>l. /\ SeenVersion \in Processes
        /\ [SeenVersion EXCEPT !.transfer = escrow.transfer] \in Processes
        /\ \A t \in TransferIds : [Idle EXCEPT !.transfer = t] \in Processes
        /\ \A r \in RefundIds :
             /\ [Idle EXCEPT !.refund = r] \in Processes
             /\ [Idle EXCEPT !.refund = r, !.transfer = escrow.transfer] \in Processes
    BY <1>t, IdleTyped DEF DataTyped, Rows, Processes, SeenVersion
  <2>e. ASSUME NEW p \in Processes, NEW s \in OtherSteps, NEW j, Enter(w, s, j, p)
        PROVE  ProcessStep
    <3>1. proc'[w].pc = s /\ \A v \in Workers \ {w} : proc'[v] = proc[v]
      BY <1>t, <2>e, ProcessAfter
    <3>2. QED
      BY <1>a, <3>1, MovedAside
  <2>1. ASSUME CompletionLoad(w) PROVE ProcessStep
    <3>1. Enter(w, "completionRelease", Completion,
                [SeenVersion EXCEPT !.transfer = escrow.transfer]) => ProcessStep
      BY <2>e, <2>l DEF OtherSteps
    <3>2. ASSUME Enter(w, "completionTransfer", Completion,
                       [SeenVersion EXCEPT !.transfer = escrow.transfer]),
                 escrow.state = "FUNDED", task = "COMPLETED"
          PROVE  ProcessStep
      <4>1. proc'[w].pc = "completionTransfer" /\ \A v \in Workers \ {w} : proc'[v] = proc[v]
        BY <1>t, <2>l, <3>2, ProcessAfter
      <4>2. Moved(w)
        BY <1>f, <1>s, <2>1, <3>2, <4>1 DEF Moved, CompletionLoad, OtherSteps
      <4>3. QED
        BY <1>a, <4>1, <4>2
    <3>3. QED
      BY <1>i, <2>1, <3>1, <3>2 DEF CompletionLoad, EscrowCanProceed
  <2>2. ASSUME DisputeLoad(w) PROVE ProcessStep
    <3>1. ASSUME Enter(w, "disputeTransfer", ReleaseRequested, SeenVersion), Locked
          PROVE  ProcessStep
      <4>1. proc'[w].pc = "disputeTransfer" /\ \A v \in Workers \ {w} : proc'[v] = proc[v]
        BY <1>t, <2>l, <3>1, ProcessAfter
      <4>2. Moved(w)
        BY <1>f, <1>s, <2>2, <3>1, <4>1, OutcomeJobs DEF Moved, DisputeLoad, Takes
      <4>3. QED
        BY <1>a, <4>1, <4>2
    <3>2. QED
      BY <1>i, <2>2, <3>1 DEF DisputeLoad
  <2>3. ASSUME RefundLoad(w) PROVE ProcessStep
    <3>1. ASSUME Enter(w, "refundCheck", RefundRequested, Idle) PROVE ProcessStep
      <4>1. proc'[w].pc = "refundCheck" /\ \A v \in Workers \ {w} : proc'[v] = proc[v]
        BY <1>t, IdleTyped, <3>1, ProcessAfter
      <4>2. Moved(w)
        BY <1>s, <2>3, <4>1, OutcomeJobs DEF Moved, RefundLoad, Takes
      <4>3. QED
        BY <1>a, <4>1, <4>2
    <3>2. QED
      BY <1>i, <2>3, <3>1 DEF RefundLoad
  <2>4. ASSUME SplitLoad(w) PROVE ProcessStep
    <3>. DEFINE p == [Idle EXCEPT !.transfer = escrow.transfer, !.refund = escrow.refund]
    <3>1. p \in Processes /\ p.refund = escrow.refund
      BY <1>t, IdleTyped DEF DataTyped, Rows, Processes
    <3>2. ASSUME Enter(w, "splitRefund", PartialRefundRequested, p), Locked PROVE ProcessStep
      <4>. HIDE DEF p
      <4>1. /\ proc'[w].pc = "splitRefund" /\ proc'[w].refund = escrow.refund
            /\ \A v \in Workers \ {w} : proc'[v] = proc[v]
        BY <1>t, <3>1, <3>2, ProcessAfter
      <4>2. Moved(w)
        BY <1>s, <2>4, <3>2, <4>1, OutcomeJobs DEF Moved, SplitLoad, Takes
      <4>3. QED
        BY <1>a, <4>1, <4>2
    <3>3. QED
      BY <1>i, <2>4, <3>2 DEF SplitLoad
  <2>5. ASSUME NEW t \in TransferIds, TransferEventLoad(w, t) PROVE ProcessStep
    <3>1. Enter(w, "eventRelease", TransferEvent(t), [Idle EXCEPT !.transfer = t]) => ProcessStep
      BY <2>e, <2>l DEF OtherSteps
    <3>2. QED
      BY <1>i, <2>5, <3>1 DEF TransferEventLoad
  <2>6. ASSUME NEW r \in RefundIds, RefundEventLoad(w, r) PROVE ProcessStep
    <3>1. \A p \in Processes : \A s \in {"eventReverse", "eventRefund"} :
            Enter(w, s, RefundEvent(r), p) => ProcessStep
      BY <2>e DEF OtherSteps
    <3>2. QED
      BY <1>i, <2>l, <2>6, <3>1 DEF RefundEventLoad
  <2>7. ASSUME NEW j \in EventJobs, SkipClaimed(w, j) PROVE ProcessStep
    BY <1>i, <2>7 DEF SkipClaimed
  <2>8. QED
    BY <1>4, <2>1, <2>2, <2>3, <2>4, <2>5, <2>6, <2>7 DEF TakeJob
<1>5. ASSUME NEW w \in Workers, Continue(w) PROVE ProcessStep
  <2>. DEFINE Only == \A v \in Workers \ {w} : proc'[v] = proc[v]
  <2>g. \A s : /\ Goto(w, s) => proc'[w].pc = s /\ proc'[w].refund = proc[w].refund /\ Only
               /\ \A t : HoldTransfer(w, s, t) =>
                    proc'[w].pc = s /\ proc'[w].refund = proc[w].refund /\ Only
               /\ \A r : HoldRefund(w, s, r) => proc'[w].pc = s /\ proc'[w].refund = r /\ Only
    BY <1>t, ProcessAfter
  <2>o. \A s \in OtherSteps :
          /\ Goto(w, s) => ProcessStep
          /\ \A t : HoldTransfer(w, s, t) => ProcessStep
          /\ \A r : HoldRefund(w, s, r) => ProcessStep
    BY <2>g, <1>a, MovedAside
  <2>. HIDE DEF Only
  <2>a. Moved(w) /\ Only => ProcessStep
    BY <1>a DEF Only
  <2>1. ASSUME CompletionTransfer(w) \/ CompletionPersist(w) PROVE ProcessStep
    BY <1>i, <2>1, <2>o DEF CompletionTransfer, CompletionPersist, OtherSteps
  <2>2. ASSUME DisputeTransfer(w) PROVE ProcessStep
    <3>0. proc[w].pc = "disputeTransfer"
      BY <2>2 DEF DisputeTransfer, At
    <3>1. HoldTransfer(w, "disputeStore", "dispute_release") => Moved(w) /\ Only
      <4> SUFFICES ASSUME proc'[w].pc = "disputeStore" PROVE Moved(w)
        BY <2>g
      <4>. QED
        BY <1>s, <3>0 DEF Moved
    <3>2. QED
      BY <1>i, <2>2, <2>a, <3>1 DEF DisputeTransfer, TransferFails
  <2>3. ASSUME \/ CompletionRelease(w) \/ DisputeStore(w) \/ StoreRefund(w) \/ SplitTerminalize(w)
               \/ TerminalizeRefund(w) \/ TransferEventRelease(w) \/ RefundEventTerminalize(w)
        PROVE  ProcessStep
    BY <1>i, <2>3 DEF CompletionRelease, DisputeStore, StoreRefund, SplitTerminalize,
                      TerminalizeRefund, TransferEventRelease, RefundEventTerminalize
  <2>4. ASSUME \/ RefundCheck(w) \/ EnsurePriorTransferReversed(w) \/ ReverseCheckpoint(w)
               \/ IssueRefund(w)
        PROVE  ProcessStep
    <3>0. proc[w].pc \in {"refundCheck", "reverse", "reverseCheckpoint", "issueRefund"}
      BY <2>4 DEF RefundCheck, EnsurePriorTransferReversed, ReverseCheckpoint, IssueRefund, At
    <3>1. \A s \in {"reverse", "reverseCheckpoint", "issueRefund", "storeRefund"} :
            Goto(w, s) \/ HoldRefund(w, s, "wkr_refund") => Moved(w) /\ Only
      <4> SUFFICES ASSUME proc'[w].pc \in {"reverse", "reverseCheckpoint", "issueRefund",
                                           "storeRefund"}
                   PROVE  Moved(w)
        BY <2>g
      <4>. QED
        BY <1>s, <3>0 DEF Moved
    <3>2. QED
      BY <1>i, <2>4, <2>a, <3>1
         DEF RefundCheck, EnsurePriorTransferReversed, ReverseCheckpoint, IssueRefund
  <2>5. ASSUME SplitResolveRefund(w) PROVE ProcessStep
    <3>1. HoldRefund(w, "splitCheckpoint", "wkr_partial_refund") => Moved(w) /\ Only
      BY <1>s, <2>5, <2>g DEF Moved, SplitResolveRefund, At
    <3>2. \A r \in {proc[w].refund, evidence.partialRefund} \ {None} :
            HoldRefund(w, "splitTransfer", r) => Moved(w) /\ Only
      <4> SUFFICES ASSUME NEW r \in {proc[w].refund, evidence.partialRefund} \ {None},
                          proc'[w].pc = "splitTransfer", proc'[w].refund = r
                   PROVE  Moved(w)
        BY <2>g
      <4>1. Frozen /\ At(w, "splitRefund")
        BY <1>f, <2>5 DEF SplitResolveRefund
      <4>. QED
        BY <1>s, <4>1 DEF Moved, At
    <3>3. QED
      BY <1>i, <2>5, <2>a, <3>1, <3>2 DEF SplitResolveRefund
  <2>6. ASSUME SplitCheckpoint(w) PROVE ProcessStep
    <3>1. Goto(w, "splitTransfer") => Moved(w) /\ Only
      BY <1>s, <2>6, <2>g DEF Moved, SplitCheckpoint, At, Frozen
    <3>2. QED
      BY <2>6, <2>a, <3>1 DEF SplitCheckpoint
  <2>7. ASSUME SplitResolveTransfer(w) PROVE ProcessStep
    <3>1. \A t : HoldTransfer(w, "splitTerminal", t) => Moved(w) /\ Only
      BY <1>s, <2>7, <2>g DEF Moved, SplitResolveTransfer, At
    <3>2. QED
      BY <1>i, <2>7, <2>a, <3>1 DEF SplitResolveTransfer, TransferFails
  <2>8. ASSUME ServiceRefund(w) PROVE ProcessStep
    BY <1>i, <2>8, <2>o DEF ServiceRefund, OtherSteps
  <2>9. ASSUME RefundEventReverse(w) PROVE ProcessStep
    <3>. DEFINE p == [proc[w] EXCEPT !.pc = "eventRefund", !.transfer = None]
    <3>1. p.pc = "eventRefund"
      BY <1>t DEF DataTyped, Processes
    <3>2. proc' = [proc EXCEPT ![w] = p]
      BY <2>9 DEF RefundEventReverse
    <3>. HIDE DEF p
    <3>3. proc'[w].pc = "eventRefund" /\ \A v \in Workers \ {w} : proc'[v] = proc[v]
      BY <1>t, <3>1, <3>2 DEF DataTyped
    <3>4. QED
      BY <1>a, <3>3, MovedAside DEF OtherSteps
  <2>10. QED
    BY <1>5, <2>1, <2>2, <2>3, <2>4, <2>5, <2>6, <2>7, <2>8, <2>9 DEF Continue
<1>6. CASE EnvironmentStep
  BY <1>6, <1>j, <1>u DEF EnvironmentStep, Fail, Crash, Faulty, RecoverStuckStripeEvents,
                          PayeeChanges
<1>7. QED
  BY <1>1, <1>2, <1>3, <1>4, <1>5, <1>6 DEF Next

-----------------------------------------------------------------------------
(***************************************************************************)
(* A refund that was prepared without a payment, and what settles a row.   *)
(***************************************************************************)
\* A refund prepared without a payment is under way only while the row is not
\* paid, or the race is on record.
UnpaidIsRaced ==
    \A w \in Workers : At(w, "unpaidTerminal") => escrow.state = "PENDING" \/ "unpaid" \in raced

\* The payment that overtakes such a refund is noted as a race, whichever
\* write of the row brings it.
THEOREM UnpaidRaced == Spec => []UnpaidIsRaced
<1>1. Init => UnpaidIsRaced
  BY DEF Init, UnpaidIsRaced, At, Idle
<1>2. TypeInv /\ UnpaidIsRaced /\ [Next]_vars => UnpaidIsRaced'
  <2> SUFFICES ASSUME TypeInv, UnpaidIsRaced, [Next]_vars,
                      NEW w \in Workers, proc'[w].pc = "unpaidTerminal"
               PROVE  escrow'.state = "PENDING" \/ "unpaid" \in raced'
    BY DEF UnpaidIsRaced, At
  <2>1. CASE UNCHANGED vars
    BY <2>1 DEF UnpaidIsRaced, At, vars
  <2>2. CASE Next
    <3>1. proc'[w] = proc[w] \/ Moved(w)
      BY <2>2, StepProcess DEF ProcessStep
    <3>2. CASE proc'[w] = proc[w]
      BY <2>2, <3>2 DEF UnpaidIsRaced, At, Next, Races
    <3>3. QED
      BY <3>1, <3>2 DEF Moved
  <2>3. QED
    BY <2>1, <2>2
<1>3. QED
  BY <1>1, <1>2, TypeInvariant, PTL DEF Spec

\* A settled row names the objects that settled it, and they exist.
THEOREM SettlementCorrect == Spec => []SettlementIsBacked
<1>1. Init => SettlementIsBacked
  BY DEF Init, SettlementIsBacked
<1>2. /\ TypeInv /\ VersionMeansOpen /\ RecordedIdsAreIssued /\ UnpaidIsRaced
      /\ SettlementIsBacked /\ [Next]_vars
      => SettlementIsBacked'
  <2> SUFFICES ASSUME TypeInv, VersionMeansOpen, RecordedIdsAreIssued, UnpaidIsRaced,
                      SettlementIsBacked, [Next]_vars
               PROVE  SettlementIsBacked'
    OBVIOUS
  <2>1. CASE UNCHANGED vars
    BY <2>1 DEF SettlementIsBacked, vars
  <2>2. CASE Next
    <3>1. RowStep /\ StripeGrows
      BY <2>2, StepRow, StepStripe
    <3>2. None \notin stripe.transfers /\ None \notin stripe.refunds
      BY IdsAreNotNone DEF TypeInv, TypeOK, Movements
    <3>3. escrow'.state = "RELEASED" =>
            \/ escrow'.provider = "STRIPE" /\ escrow'.transfer \in stripe'.transfers
            \/ escrow'.provider = "MANUAL_RECONCILIATION" /\ escrow'.transfer = None
      BY <3>1 DEF RowStep, RowFund, RowLock, RowTransfer, RowRefundId, RowRelease, RowRefund,
                  RowSplit, KeepsState, KeepsTransfer, StripeGrows, OpenStates,
                  SettlementIsBacked
    <3>4. escrow'.state = "REFUNDED" =>
            \/ escrow'.refund \in stripe'.refunds
            \/ escrow'.refund = None /\ "unpaid" \in raced'
      <4>1. raced \subseteq raced' /\ escrow.refund \in stripe.refunds \cup {None}
        BY <2>2 DEF Next, RecordedIdsAreIssued
      <4>2. ASSUME RowRefund
            PROVE  \/ escrow'.refund \in stripe'.refunds
                   \/ escrow'.refund = None /\ "unpaid" \in raced'
        <5>1. CASE escrow'.refund \in stripe.refunds
          BY <3>1, <5>1 DEF StripeGrows
        <5>2. CASE KeepsRefund /\ \E w \in Workers : At(w, "unpaidTerminal")
          <6>1. "unpaid" \in raced'
            BY <2>2, <4>1, <4>2, <5>2 DEF UnpaidIsRaced, Next, Races, RowRefund
          <6>2. QED
            BY <3>1, <4>1, <5>2, <6>1 DEF StripeGrows, KeepsRefund
        <5>3. QED
          BY <4>2, <5>1, <5>2 DEF RowRefund
      <4>3. QED
        BY <3>1, <3>2, <4>1, <4>2
           DEF RowStep, RowFund, RowLock, RowTransfer, RowRefundId, RowRelease, RowSplit,
               KeepsState, KeepsRefund, StripeGrows, OpenStates, SettlementIsBacked
    <3>5. escrow'.state = "REFUND_PARTIAL" =>
            escrow'.transfer \in stripe'.transfers /\ escrow'.refund \in stripe'.refunds
      BY <3>1, <3>2 DEF RowStep, RowFund, RowLock, RowTransfer, RowRefundId, RowRelease,
                        RowRefund, RowSplit, KeepsState, KeepsTransfer, KeepsRefund, StripeGrows,
                        OpenStates, SettlementIsBacked
    <3>6. QED
      BY <3>3, <3>4, <3>5 DEF SettlementIsBacked
  <2>3. QED
    BY <2>1, <2>2
<1>3. QED
  BY <1>1, <1>2, TypeInvariant, VersionCorrect, RecordedIdsCorrect, UnpaidRaced, PTL DEF Spec

-----------------------------------------------------------------------------
(***************************************************************************)
(* What a step does at Stripe.                                             *)
(***************************************************************************)

\* The step at which a process creates each object.
TransferStep(t) ==
    CASE t = "completion_release" -> "completionTransfer"
      [] t = "dispute_release"    -> "disputeTransfer"
      [] OTHER                    -> "splitTransfer"

RefundStep(r) ==
    CASE r = "wkr_refund"         -> "issueRefund"
      [] r = "wkr_partial_refund" -> "splitRefund"
      [] OTHER                    -> "serviceRefund"

\* A new object was created by a process at its step, by a step that leaves
\* the row, the task and the dispute alone.
Created ==
    /\ \A t \in stripe'.transfers \ stripe.transfers :
         Frozen /\ \E w \in Workers : At(w, TransferStep(t))
    /\ \A r \in stripe'.refunds \ stripe.refunds :
         Frozen /\ \E w \in Workers : At(w, RefundStep(r))
    /\ Refunded <= Amount => Refunded' <= Amount

\* A step that leaves the refunds alone leaves their sum.
LEMMA RefundedKept == ASSUME stripe'.refunds = stripe.refunds PROVE Refunded' = Refunded
  BY DEF Refunded, RefundOf

\* Stripe never refunds more than the charge.
LEMMA RefundBounded ==
    ASSUME DataTyped, NEW r \in RefundIds, Refundable(r), CreateRefund(r), Refunded <= Amount
    PROVE  Refunded' <= Amount
<1>1. stripe'.refunds = stripe.refunds \cup {r}
  BY DEF CreateRefund, DataTyped, Movements
<1>2. CASE r \in stripe.refunds
  BY <1>1, <1>2, RefundedKept
<1>3. CASE r \notin stripe.refunds
  <2>1. Refunded' = Refunded + RefundValue(r)
    BY <1>1, <1>3, AmountsAssumption DEF Refunded, RefundOf, RefundIds, RefundValue
  <2>2. QED
    BY <1>3, <2>1 DEF Refundable
<1>4. QED
  BY <1>2, <1>3

\* What exists after a Stripe call.
LEMMA StripeAfter ==
    ASSUME DataTyped
    PROVE  /\ \A t : CreateTransfer(t) =>
                stripe'.transfers = stripe.transfers \cup {t} /\ stripe'.refunds = stripe.refunds
           /\ \A r : CreateRefund(r) =>
                stripe'.transfers = stripe.transfers /\ stripe'.refunds = stripe.refunds \cup {r}
           /\ \A t : CreateTransferReversal(t) =>
                stripe'.transfers = stripe.transfers /\ stripe'.refunds = stripe.refunds
  BY DEF DataTyped, Movements, CreateTransfer, CreateRefund, CreateTransferReversal

\* Every new object has its creator.
LEMMA StepCreated == ASSUME TypeInv, Next PROVE Created
<1>t. DataTyped
  BY DEF TypeInv, TypeOK, DataTyped
<1>u. ASSUME stripe'.transfers = stripe.transfers, stripe'.refunds = stripe.refunds
      PROVE  Created
  BY <1>u, RefundedKept DEF Created
<1>f. UNCHANGED stripe => Created
  BY <1>u
<1>1. CASE TaskStep \/ DisputeStep \/ RequestStep
  BY <1>1, <1>f
     DEF TaskStep, Fund, AssignWorker, SubmitProof, RejectProof, CompleteTask, CancelTask,
         AbandonTask, TaskMoves, DisputeStep, LockForDispute, ChargebackLock, CreateDispute,
         RequestEvidence, Escalate, ResolveDispute, RequestStep, ForceRelease, PosterRelease,
         PrepareRefund
<1>2. ASSUME NEW w \in Workers, TakeJob(w) PROVE Created
  BY <1>2, <1>f
     DEF TakeJob, CompletionLoad, DisputeLoad, RefundLoad, SplitLoad, TransferEventLoad,
         RefundEventLoad, SkipClaimed
<1>3. ASSUME NEW w \in Workers, Continue(w) PROVE Created
  <2>t. ASSUME NEW t, CreateTransfer(t), At(w, TransferStep(t)), Frozen PROVE Created
    <3>1. stripe'.transfers = stripe.transfers \cup {t} /\ stripe'.refunds = stripe.refunds
      BY <1>t, <2>t, StripeAfter
    <3>2. QED
      BY <2>t, <3>1, RefundedKept DEF Created
  <2>r. ASSUME NEW r \in RefundIds, Refundable(r), CreateRefund(r), At(w, RefundStep(r)), Frozen
        PROVE  Created
    <3>1. stripe'.transfers = stripe.transfers /\ stripe'.refunds = stripe.refunds \cup {r}
      BY <1>t, <2>r, StripeAfter
    <3>2. Refunded <= Amount => Refunded' <= Amount
      BY <1>t, <2>r, RefundBounded
    <3>3. QED
      BY <2>r, <3>1, <3>2 DEF Created
  <2>c. \A t : CreateTransferReversal(t) => Created
    BY <1>t, <1>u, StripeAfter
  <2>1. ASSUME CompletionTransfer(w) PROVE Created
    BY <1>f, <2>1, <2>t DEF CompletionTransfer, TransferStep, Frozen, Database
  <2>2. ASSUME DisputeTransfer(w) PROVE Created
    BY <1>f, <2>2, <2>t DEF DisputeTransfer, TransferFails, TransferStep, Frozen, Database
  <2>3. ASSUME EnsurePriorTransferReversed(w) \/ RefundEventReverse(w) PROVE Created
    BY <1>f, <2>3, <2>c DEF EnsurePriorTransferReversed, RefundEventReverse
  <2>4. ASSUME IssueRefund(w) PROVE Created
    BY <1>f, <2>4, <2>r DEF IssueRefund, RefundStep, RefundIds, Frozen, Database
  <2>5. ASSUME SplitResolveRefund(w) PROVE Created
    BY <1>f, <2>5, <2>r DEF SplitResolveRefund, RefundStep, RefundIds, Frozen, Database
  <2>6. ASSUME SplitResolveTransfer(w) PROVE Created
    BY <1>f, <2>6, <2>t DEF SplitResolveTransfer, TransferFails, TransferStep, Frozen, Database
  <2>7. ASSUME ServiceRefund(w) PROVE Created
    <3>. DEFINE r == RefundSuffix(proc[w].job)
    <3>1. r \in RefundIds /\ RefundStep(r) = "serviceRefund"
      BY DEF RefundSuffix, RefundIds, RefundStep
    <3>2. Refundable(r) /\ CreateRefund(r) => Created
      BY <2>7, <2>r, <3>1 DEF ServiceRefund, Frozen, Database
    <3>3. QED
      BY <1>f, <2>7, <3>2 DEF ServiceRefund
  <2>8. ASSUME \/ CompletionPersist(w) \/ CompletionRelease(w) \/ DisputeStore(w)
               \/ RefundCheck(w) \/ ReverseCheckpoint(w) \/ StoreRefund(w) \/ SplitCheckpoint(w)
               \/ SplitTerminalize(w) \/ TerminalizeRefund(w) \/ TransferEventRelease(w)
               \/ RefundEventTerminalize(w)
        PROVE  Created
    BY <1>f, <2>8
       DEF CompletionPersist, CompletionRelease, DisputeStore, RefundCheck, ReverseCheckpoint,
           StoreRefund, SplitCheckpoint, SplitTerminalize, TerminalizeRefund,
           TransferEventRelease, RefundEventTerminalize
  <2>9. QED
    BY <1>3, <2>1, <2>2, <2>3, <2>4, <2>5, <2>6, <2>7, <2>8 DEF Continue
<1>4. CASE EnvironmentStep
  BY <1>4, <1>f
     DEF EnvironmentStep, Fail, Crash, Faulty, RecoverStuckStripeEvents, PayeeChanges
<1>5. QED
  BY <1>1, <1>2, <1>3, <1>4 DEF Next

-----------------------------------------------------------------------------
(***************************************************************************)
(* What a step does to the task, the dispute, the jobs and the checkpoint. *)
(***************************************************************************)

\* The task moves alone only while it is on its way.
TaskMoved ==
    \/ UNCHANGED task
    \/ /\ task \notin {"COMPLETED", "DISPUTED", "CANCELLED"} /\ task' # "DISPUTED"
       /\ task' = "PROOF_SUBMITTED" => task = "ACCEPTED"
       /\ task' = "COMPLETED" => escrow.state = "FUNDED"

DisputeFiled ==
    /\ dispute = "NONE" /\ dispute' = "OPEN" /\ task' = "DISPUTED"
    /\ escrow.state = "FUNDED" /\ escrow'.state = "LOCKED_DISPUTE"

DisputeGoesOn ==
    dispute \in OpenDisputes /\ dispute' \in OpenDisputes /\ UNCHANGED <<escrow, task>>

DisputeResolved ==
    /\ dispute \in OpenDisputes /\ dispute' \in Outcomes /\ UNCHANGED escrow
    /\ task' = CASE task # "DISPUTED"     -> task
                 [] dispute' = "RELEASE"  -> "COMPLETED"
                 [] OTHER                 -> "CANCELLED"

CourtStep ==
    \/ UNCHANGED dispute /\ TaskMoved
    \/ DisputeFiled \/ DisputeGoesOn \/ DisputeResolved

\* A job of an outcome that is new was emitted by the resolution.
JobsFollow == \A o \in Outcomes : ActionJobOf(o) \in queue' \ queue => dispute' = o

\* The checkpoint of the split's refund is written from the locals.
PartialFollows ==
    \/ evidence'.partialRefund = evidence.partialRefund
    \/ \E w \in Workers : At(w, "splitCheckpoint") /\ evidence'.partialRefund = proc[w].refund

\* Disputes open once and resolve once, and the task follows.
LEMMA StepCourt == ASSUME TypeInv, Next PROVE CourtStep
<1>t. DataTyped
  BY DEF TypeInv, TypeOK, DataTyped
<1>u. UNCHANGED <<task, dispute>> => CourtStep
  BY DEF CourtStep, TaskMoved
<1>1. CASE TaskStep
  BY <1>1 DEF TaskStep, Fund, AssignWorker, SubmitProof, RejectProof, CompleteTask,
              CancelTask, AbandonTask, TaskMoves, CourtStep, TaskMoved
<1>2. CASE DisputeStep
  <2>1. ASSUME CreateDispute PROVE CourtStep
    <3>1. escrow.state = "FUNDED"
      BY <2>1 DEF CreateDispute, Writable, PreventEscrowTerminalMutation, TerminalStates
    <3>2. escrow'.state = "LOCKED_DISPUTE"
      BY <1>t, <2>1, MoveTransfer DEF CreateDispute
    <3>3. QED
      BY <2>1, <3>1, <3>2 DEF CreateDispute, CourtStep, DisputeFiled
  <2>2. ASSUME RequestEvidence \/ Escalate PROVE CourtStep
    BY <2>2 DEF RequestEvidence, Escalate, CourtStep, DisputeGoesOn, OpenDisputes
  <2>3. ASSUME NEW outcome \in Outcomes, ResolveDispute(outcome) PROVE CourtStep
    BY <2>3 DEF ResolveDispute, Resolvable, CourtStep, DisputeResolved, OpenDisputes
  <2>4. QED
    BY <1>2, <1>u, <2>1, <2>2, <2>3 DEF DisputeStep, LockForDispute, ChargebackLock
<1>3. CASE RequestStep
  BY <1>3, <1>u DEF RequestStep, ForceRelease, PosterRelease, PrepareRefund, Database
<1>4. ASSUME NEW w \in Workers, TakeJob(w) PROVE CourtStep
  BY <1>4, <1>u DEF TakeJob, CompletionLoad, DisputeLoad, RefundLoad, SplitLoad,
                    TransferEventLoad, RefundEventLoad, SkipClaimed, Database
<1>5. ASSUME NEW w \in Workers, Continue(w) PROVE CourtStep
  BY <1>5, <1>u
     DEF Continue, CompletionTransfer, CompletionPersist, CompletionRelease, DisputeTransfer,
         DisputeStore, RefundCheck, EnsurePriorTransferReversed, ReverseCheckpoint,
         IssueRefund, StoreRefund, SplitResolveRefund, SplitCheckpoint, SplitResolveTransfer,
         SplitTerminalize, ServiceRefund, TerminalizeRefund, TransferEventRelease,
         RefundEventReverse, RefundEventTerminalize, Database
<1>6. CASE EnvironmentStep
  BY <1>6, <1>u DEF EnvironmentStep, Fail, Crash, Faulty, RecoverStuckStripeEvents, PayeeChanges,
                    Database
<1>7. QED
  BY <1>1, <1>2, <1>3, <1>4, <1>5, <1>6 DEF Next

\* Only a resolution emits the job of an outcome.
LEMMA StepJobs == ASSUME TypeInv, Next PROVE JobsFollow
<1>o. \A o \in Outcomes :
        /\ ActionJobOf(o) # Completion
        /\ \A t : ActionJobOf(o) # Job("transfer.created", t)
        /\ \A r : ActionJobOf(o) # Job("charge.refunded", r)
        /\ \A q \in Outcomes : ActionJobOf(o) = ActionJobOf(q) => o = q
  BY DEF ActionJobOf, Outcomes, Completion, Job
<1>u. queue' \subseteq queue => JobsFollow
  BY DEF JobsFollow
<1>i. \A w, j : Return(w, j) \/ Throw(w, j) => JobsFollow
  BY <1>u DEF Return, Throw
<1>c. /\ \A t : CreateTransfer(t) => JobsFollow
      /\ \A r : CreateRefund(r) => JobsFollow
  BY <1>o DEF CreateTransfer, CreateRefund, JobsFollow
<1>1. CASE TaskStep
  BY <1>1, <1>o, <1>u DEF TaskStep, Fund, AssignWorker, SubmitProof, RejectProof, CompleteTask,
                          CancelTask, AbandonTask, Delivery, JobsFollow, Completion
<1>2. CASE DisputeStep
  BY <1>2, <1>o, <1>u DEF DisputeStep, LockForDispute, ChargebackLock, CreateDispute,
                          RequestEvidence, Escalate, ResolveDispute, Delivery, JobsFollow
<1>3. CASE RequestStep
  BY <1>3, <1>u DEF RequestStep, ForceRelease, PosterRelease, PrepareRefund, Delivery
<1>4. ASSUME NEW w \in Workers, TakeJob(w) PROVE JobsFollow
  BY <1>4, <1>i, <1>u DEF TakeJob, CompletionLoad, DisputeLoad, RefundLoad, SplitLoad,
                          TransferEventLoad, RefundEventLoad, SkipClaimed, Delivery
<1>5. ASSUME NEW w \in Workers, Continue(w) PROVE JobsFollow
  BY <1>5, <1>c, <1>i, <1>u
     DEF Continue, CompletionTransfer, CompletionPersist, CompletionRelease, DisputeTransfer,
         DisputeStore, RefundCheck, EnsurePriorTransferReversed, ReverseCheckpoint,
         IssueRefund, StoreRefund, SplitResolveRefund, SplitCheckpoint, SplitResolveTransfer,
         SplitTerminalize, ServiceRefund, TerminalizeRefund, TransferEventRelease,
         RefundEventReverse, RefundEventTerminalize, TransferFails, Delivery
<1>6. CASE EnvironmentStep
  BY <1>6, <1>u DEF EnvironmentStep, Fail, Crash, Faulty, RecoverStuckStripeEvents, PayeeChanges,
                    Delivery
<1>7. QED
  BY <1>1, <1>2, <1>3, <1>4, <1>5, <1>6 DEF Next

\* Only a split's handler writes the checkpoint of its refund.
LEMMA StepPartial == ASSUME TypeInv, Next PROVE PartialFollows
<1>t. evidence \in Checkpoints
  BY DEF TypeInv, TypeOK
<1>u. UNCHANGED evidence => PartialFollows
  BY DEF PartialFollows
<1>1. CASE TaskStep \/ RequestStep
  BY <1>1, <1>u
     DEF TaskStep, Fund, AssignWorker, SubmitProof, RejectProof, CompleteTask, CancelTask,
         AbandonTask, TaskMoves, RequestStep, ForceRelease, PosterRelease, PrepareRefund,
         Database
<1>2. CASE DisputeStep
  <2>1. CreateDispute => PartialFollows
    BY <1>t DEF CreateDispute, Checkpoints, PartialFollows
  <2>2. QED
    BY <1>2, <1>u, <2>1
       DEF DisputeStep, LockForDispute, ChargebackLock, RequestEvidence, Escalate,
           ResolveDispute
<1>3. ASSUME NEW w \in Workers, TakeJob(w) PROVE PartialFollows
  BY <1>3, <1>u
     DEF TakeJob, CompletionLoad, DisputeLoad, RefundLoad, SplitLoad, TransferEventLoad,
         RefundEventLoad, SkipClaimed, Database
<1>4. ASSUME NEW w \in Workers, Continue(w) PROVE PartialFollows
  <2>1. ReverseCheckpoint(w) => PartialFollows
    BY <1>t DEF ReverseCheckpoint, Checkpoints, PartialFollows
  <2>2. SplitCheckpoint(w) => PartialFollows
    BY <1>t DEF SplitCheckpoint, Checkpoints, PartialFollows
  <2>3. QED
    BY <1>4, <1>u, <2>1, <2>2
       DEF Continue, CompletionTransfer, CompletionPersist, CompletionRelease, DisputeTransfer,
           DisputeStore, RefundCheck, EnsurePriorTransferReversed, IssueRefund, StoreRefund,
           SplitResolveRefund, SplitResolveTransfer, SplitTerminalize, ServiceRefund,
           TerminalizeRefund, TransferEventRelease, RefundEventReverse, RefundEventTerminalize,
           Database
<1>5. CASE EnvironmentStep
  BY <1>5, <1>u
     DEF EnvironmentStep, Fail, Crash, Faulty, RecoverStuckStripeEvents, PayeeChanges, Database
<1>6. QED
  BY <1>1, <1>2, <1>3, <1>4, <1>5 DEF Next

-----------------------------------------------------------------------------
(***************************************************************************)
(* The invariants.                                                         *)
(***************************************************************************)
Known == TypeInv /\ VersionMeansOpen /\ RecordedIdsAreIssued

\* What holds of every reachable state before this module adds to it.
THEOREM KnownCorrect == Spec => []Known
  BY TypeInvariant, VersionCorrect, RecordedIdsCorrect, PTL DEF Known

\* The row's state, from StepRow: a settled row stays settled, only PENDING
\* leads to FUNDED, and a refund id is written by StoreRefund or settles.
RowFollows ==
    /\ escrow.state \in TerminalStates => escrow'.state = escrow.state
    /\ escrow.state \notin {"PENDING", "FUNDED"} => escrow'.state \notin {"PENDING", "FUNDED"}
    /\ \/ escrow'.refund = escrow.refund \/ escrow'.state \in TerminalStates
       \/ \E w \in Workers : At(w, "storeRefund")
    /\ escrow'.provider = escrow.provider \/ escrow'.state = "RELEASED"

LEMMA StepRowFollows == ASSUME Known, Next PROVE RowFollows
  BY StepRow DEF Known, RowFollows, RowStep, RowFund, RowLock, RowTransfer, RowRefundId, RowRelease,
                 RowRefund, RowSplit, KeepsState, KeepsTransfer, KeepsRefund, OpenStates,
                 TerminalStates

\* A dispute decides the state of its task, and its row has left FUNDED: the
\* premises of every release and refund that follows from a resolution.
THEOREM TaskFollows == Spec => []TaskFollowsDispute
<1>1. Init => TaskFollowsDispute
  BY DEF Init, TaskFollowsDispute, OpenDisputes
<1>2. Known /\ TaskFollowsDispute /\ [Next]_vars => TaskFollowsDispute'
  <2> SUFFICES ASSUME Known, TaskFollowsDispute, [Next]_vars PROVE TaskFollowsDispute'
    OBVIOUS
  <2>1. CASE UNCHANGED vars
    BY <2>1 DEF TaskFollowsDispute, vars
  <2>2. CASE Next
    <3>1. CourtStep /\ RowFollows
      BY <2>2, StepCourt, StepRowFollows DEF Known
    <3>2. dispute \in {"NONE"} \cup OpenDisputes \cup Outcomes
      BY DEF Known, TypeInv, TypeOK, DisputeStates, OpenDisputes
    <3>3. CASE UNCHANGED dispute /\ TaskMoved
      BY <3>1, <3>2, <3>3 DEF RowFollows, TaskMoved, TaskFollowsDispute, Outcomes
    <3>4. CASE DisputeFiled
      BY <3>4 DEF DisputeFiled, TaskFollowsDispute, OpenDisputes
    <3>5. CASE DisputeGoesOn
      BY <3>5 DEF DisputeGoesOn, TaskFollowsDispute, OpenDisputes
    <3>6. CASE DisputeResolved
      BY <3>6 DEF DisputeResolved, TaskFollowsDispute, OpenDisputes, Outcomes
    <3>7. QED
      BY <3>1, <3>3, <3>4, <3>5, <3>6 DEF CourtStep
  <2>3. QED
    BY <2>1, <2>2
<1>3. QED
  BY <1>1, <1>2, KnownCorrect, PTL DEF Spec

\* Whatever moved because of an outcome, the dispute was resolved that way.
THEOREM OutcomeFollows == Spec => []OutcomeSound
<1>1. Init => OutcomeSound
  BY StepsApart DEF Init, OutcomeSound, Idle, OtherSteps
<1>2. Known /\ OutcomeSound /\ [Next]_vars => OutcomeSound'
  <2> SUFFICES ASSUME Known, OutcomeSound, [Next]_vars PROVE OutcomeSound'
    OBVIOUS
  <2>1. CASE UNCHANGED vars
    BY <2>1 DEF OutcomeSound, vars
  <2>2. CASE Next
    <3>1. CourtStep /\ JobsFollow /\ ProcessStep /\ Created
      BY <2>2, StepCourt, StepJobs, StepProcess, StepCreated DEF Known
    <3>2. ASSUME NEW o \in Outcomes, dispute = o PROVE dispute' = o
      BY <3>1, <3>2 DEF CourtStep, DisputeFiled, DisputeGoesOn, DisputeResolved, OpenDisputes,
                        Outcomes
    <3> SUFFICES ASSUME NEW o \in Outcomes
                 PROVE  /\ ActionJobOf(o) \in queue' => dispute' = o
                        /\ \A w \in Workers : proc'[w].pc \in StepsOf(o) => dispute' = o
                        /\ \A t \in TransfersOf(o) : t \in stripe'.transfers => dispute' = o
                        /\ \A r \in RefundsOf(o) : r \in stripe'.refunds => dispute' = o
      BY DEF OutcomeSound
    <3>3. ActionJobOf(o) \in queue' => dispute' = o
      BY <3>1, <3>2 DEF JobsFollow, OutcomeSound
    <3>4. ASSUME NEW w \in Workers, proc'[w].pc \in StepsOf(o) PROVE dispute' = o
      BY <3>1, <3>2, <3>4 DEF ProcessStep, Moved, OutcomeSound
    <3>5. ASSUME NEW t \in TransfersOf(o), t \in stripe'.transfers PROVE dispute' = o
      <4>1. TransferStep(t) \in StepsOf(o)
        BY DEF TransfersOf, TransferStep, StepsOf, Outcomes
      <4>2. QED
        BY <3>1, <3>2, <3>5, <4>1 DEF Created, At, OutcomeSound
    <3>6. ASSUME NEW r \in RefundsOf(o), r \in stripe'.refunds PROVE dispute' = o
      <4>1. RefundStep(r) \in StepsOf(o)
        BY DEF RefundsOf, RefundStep, StepsOf, Outcomes
      <4>2. QED
        BY <3>1, <3>2, <3>6, <4>1 DEF Created, At, OutcomeSound
    <3>7. QED
      BY <3>3, <3>4, <3>5, <3>6
  <2>3. QED
    BY <2>1, <2>2
<1>3. QED
  BY <1>1, <1>2, KnownCorrect, PTL DEF Spec

\* A dispute pays one side: however often the jobs of the action worker are
\* delivered, no object of one outcome exists beside an object of another.
THEOREM OutcomeExclusive == Spec => []DisputeOutcomeIsExclusive
<1>1. OutcomeSound => DisputeOutcomeIsExclusive
  BY DEF OutcomeSound, DisputeOutcomeIsExclusive, Outcomes, TransfersOf, RefundsOf
<1>2. QED
  BY <1>1, OutcomeFollows, PTL

\* What the handler of a split holds when it pays is the refund it made.
THEOREM SplitFollows == Spec => []SplitSound
<1>1. Init => SplitSound
  BY DEF Init, SplitSound, SplitRefundsFirst, At, Idle
<1>2. Known /\ OutcomeSound /\ SplitSound /\ [Next]_vars => SplitSound'
  <2> SUFFICES ASSUME Known, OutcomeSound, SplitSound, [Next]_vars PROVE SplitSound'
    OBVIOUS
  <2>1. CASE UNCHANGED vars
    BY <2>1 DEF SplitSound, SplitRefundsFirst, At, vars
  <2>2. CASE Next
    <3>1. CourtStep /\ ProcessStep /\ Created /\ PartialFollows /\ RowFollows /\ StripeGrows
      BY <2>2, StepCourt, StepProcess, StepCreated, StepPartial, StepRowFollows, StepStripe
         DEF Known
    <3>2. evidence'.partialRefund \in {None, "wkr_partial_refund"}
      BY <3>1 DEF PartialFollows, SplitSound, At
    <3>3. escrow'.refund # None => escrow'.state \in TerminalStates \/ dispute' = "REFUND"
      <4>1. dispute = "REFUND" => dispute' = "REFUND"
        BY <3>1 DEF CourtStep, DisputeFiled, DisputeGoesOn, DisputeResolved, OpenDisputes
      <4>2. \A w \in Workers : At(w, "storeRefund") => dispute = "REFUND"
        BY DEF OutcomeSound, StepsOf, Outcomes, At
      <4>3. QED
        BY <3>1, <4>1, <4>2 DEF RowFollows, SplitSound
    <3>4. ASSUME NEW w \in Workers
          PROVE  /\ At(w, "splitRefund")' => proc'[w].refund = None
                 /\ proc'[w].pc \in {"splitCheckpoint", "splitTransfer"} =>
                      proc'[w].refund = "wkr_partial_refund"
      <4>1. CASE proc'[w] = proc[w]
        BY <4>1 DEF SplitSound, At
      <4>2. CASE Moved(w)
        <5>1. Locked /\ ActionJobOf("SPLIT") \in queue => escrow.refund = None
          BY DEF Locked, TerminalStates, SplitSound, OutcomeSound, Outcomes
        <5>2. QED
          BY <4>2, <5>1 DEF Moved, SplitSound, At
      <4>3. QED
        BY <3>1, <4>1, <4>2 DEF ProcessStep
    <3>5. SplitRefundsFirst'
      <4> SUFFICES ASSUME "dispute_partial_release" \in stripe'.transfers
                   PROVE  "wkr_partial_refund" \in stripe'.refunds
        BY DEF SplitRefundsFirst
      <4>1. CASE "dispute_partial_release" \in stripe.transfers
        BY <3>1, <4>1 DEF SplitSound, SplitRefundsFirst, StripeGrows
      <4>2. CASE "dispute_partial_release" \notin stripe.transfers
        <5>1. PICK w \in Workers : At(w, "splitTransfer")
          BY <3>1, <4>2 DEF Created, TransferStep
        <5>2. proc[w].refund = "wkr_partial_refund"
          BY <5>1 DEF SplitSound, At
        <5>3. proc[w].refund \in stripe.refunds
          BY <5>2 DEF Known, RecordedIdsAreIssued, None
        <5>4. QED
          BY <3>1, <5>2, <5>3 DEF StripeGrows
      <4>3. QED
        BY <4>1, <4>2
    <3>6. QED
      BY <3>2, <3>3, <3>4, <3>5 DEF SplitSound
  <2>3. QED
    BY <2>1, <2>2
<1>3. QED
  BY <1>1, <1>2, KnownCorrect, OutcomeFollows, PTL DEF Spec

\* The worker's share of a split leaves only after the poster's part was
\* refunded, in every order of crashes, retries and stalled runs.
THEOREM SplitOrdered == Spec => []SplitRefundsFirst
<1>1. SplitSound => SplitRefundsFirst
  BY DEF SplitSound
<1>2. QED
  BY <1>1, SplitFollows, PTL

\* Refunds stay within the charge, and only a release names a provider.
THEOREM MoneyFollows == Spec => []MoneySound
<1>1. Init => MoneySound
  BY AmountsAssumption DEF Init, MoneySound, Refunded, RefundOf
<1>2. Known /\ MoneySound /\ [Next]_vars => MoneySound'
  <2> SUFFICES ASSUME Known, MoneySound, [Next]_vars PROVE MoneySound'
    OBVIOUS
  <2>1. CASE UNCHANGED vars
    BY <2>1 DEF MoneySound, Refunded, RefundOf, vars
  <2>2. CASE Next
    BY <2>2, StepCreated, StepRowFollows
       DEF Known, Created, RowFollows, MoneySound, TerminalStates
  <2>3. QED
    BY <2>1, <2>2
<1>3. QED
  BY <1>1, <1>2, KnownCorrect, PTL DEF Spec

-----------------------------------------------------------------------------
(***************************************************************************)
(* Races.                                                                  *)
(***************************************************************************)

\* How a payout, or a refund of the service, comes to be in flight.
InFlightStep ==
    /\ \A t \in PayoutsInFlight' \ PayoutsInFlight :
         /\ Frozen
         /\ t = "completion_release" => escrow.state = "FUNDED" /\ task = "COMPLETED"
         /\ t = "dispute_release" => Locked
         /\ t = "dispute_partial_release" => \E w \in Workers : proc[w].pc \in StepsOf("SPLIT")
    /\ RefundInFlight' /\ ~RefundInFlight =>
         Frozen /\ task \notin {"ACCEPTED", "PROOF_SUBMITTED", "COMPLETED"}

\* In flight: at Stripe, or about to be.
LEMMA PayoutsInFlightAre ==
    ASSUME DataTyped
    PROVE  /\ PayoutsInFlight \subseteq TransferIds
           /\ \A t \in TransferIds : t \in PayoutsInFlight <=>
                t \in stripe.transfers \/ \E w \in Workers : At(w, TransferStep(t))
  BY DEF PayoutsInFlight, TransferStep, DataTyped, Movements

LEMMA StepInFlight == ASSUME TypeInv, TypeInv', OutcomeSound, Next PROVE InFlightStep
<1>t. DataTyped /\ DataTyped'
  BY DEF TypeInv, TypeOK, DataTyped
<1>s. ProcessStep /\ Created
  BY StepProcess, StepCreated
<1>1. ASSUME NEW t \in PayoutsInFlight' \ PayoutsInFlight
      PROVE  /\ Frozen
             /\ t = "completion_release" => escrow.state = "FUNDED" /\ task = "COMPLETED"
             /\ t = "dispute_release" => Locked
             /\ t = "dispute_partial_release" =>
                  \E w \in Workers : proc[w].pc \in StepsOf("SPLIT")
  <2>1. /\ t \in TransferIds
        /\ t \notin stripe.transfers /\ ~\E w \in Workers : At(w, TransferStep(t))
    BY <1>t, PayoutsInFlightAre DEF PayoutsInFlight, DataTyped, Movements
  <2>2. t \notin stripe'.transfers
    BY <1>s, <2>1 DEF Created
  <2>3. PICK w \in Workers : proc'[w].pc = TransferStep(t)
    BY <2>2 DEF PayoutsInFlight, At, TransferStep
  <2>4. Moved(w)
    BY <1>s, <2>1, <2>3 DEF ProcessStep, At
  <2>5. QED
    BY <2>1, <2>3, <2>4 DEF Moved, TransferStep, TransferIds, StepsOf, At
<1>2. ASSUME RefundInFlight', ~RefundInFlight
      PROVE  Frozen /\ task \notin {"ACCEPTED", "PROOF_SUBMITTED", "COMPLETED"}
  <2>1. stripe'.refunds \cap {"svc_refund", "admin_override"} = {}
    BY <1>2, <1>s DEF RefundInFlight, Created, RefundStep
  <2>2. PICK w \in Workers : proc'[w].pc = "serviceRefund"
    BY <1>2, <2>1 DEF RefundInFlight, At
  <2>3. Moved(w)
    BY <1>2, <1>s, <2>2 DEF RefundInFlight, ProcessStep, At
  <2>4. QED
    BY <2>2, <2>3 DEF Moved
<1>3. QED
  BY <1>1, <1>2 DEF InFlightStep

\* A step that is no race.
LEMMA NoRace ==
    ASSUME Next, MoneyRaces' = {}
    PROVE  /\ MoneyRaces = {}
           /\ escrow.state = "FUNDED" /\ escrow'.state # "FUNDED" /\ PayoutsInFlight # {}
              => escrow'.state = "RELEASED" /\ escrow'.transfer \in PayoutsInFlight
           /\ escrow.provider = None /\ escrow'.provider = "MANUAL_RECONCILIATION"
              => PayoutsInFlight = {}
           /\ task # task' /\ task' \in {"ACCEPTED", "COMPLETED"} => ~RefundInFlight
<1>1. MoneyRaces = {} /\ Races \subseteq {"unpaid"}
  BY DEF Next, MoneyRaces
<1>2. QED
  BY <1>1 DEF Races

\* While the dispute is not resolved only the completion payout is in flight.
LEMMA OnlyCompletion ==
    ASSUME DataTyped, OutcomeSound, dispute = "NONE"
    PROVE  PayoutsInFlight \subseteq {"completion_release"}
<1> SUFFICES ASSUME NEW t \in PayoutsInFlight, t # "completion_release" PROVE FALSE
  OBVIOUS
<1>1. PICK o \in Outcomes : t \in TransfersOf(o) /\ TransferStep(t) \in StepsOf(o)
  BY PayoutsInFlightAre DEF TransferIds, Outcomes, TransfersOf, TransferStep, StepsOf
<1>2. dispute = o
  BY <1>1, PayoutsInFlightAre DEF OutcomeSound, At
<1>3. QED
  BY <1>2 DEF Outcomes

\* Without a race a refund of the service in flight has no worker to pay, and
\* a completion payout in flight is the one the row waits for or names.
THEOREM RaceFreeCorrect == Spec => []RaceFree
<1>1. Init => RaceFree
  BY DEF Init, RaceFree, RefundInFlight, PayoutsInFlight, At, Idle
<1>2. /\ Known /\ Known' /\ ReleasedTaskIsCompleted /\ TaskFollowsDispute /\ OutcomeSound
      /\ MoneySound /\ RaceFree /\ [Next]_vars
      => RaceFree'
  <2> SUFFICES ASSUME Known, Known', ReleasedTaskIsCompleted, TaskFollowsDispute, OutcomeSound,
                      MoneySound, RaceFree, [Next]_vars, MoneyRaces' = {}
               PROVE  /\ RefundInFlight' => task' \notin {"ACCEPTED", "PROOF_SUBMITTED", "COMPLETED"}
                      /\ "completion_release" \in PayoutsInFlight' =>
                           /\ dispute' = "NONE" /\ task' = "COMPLETED"
                           /\ \/ escrow'.state = "FUNDED"
                              \/ /\ escrow'.state = "RELEASED" /\ escrow'.provider = "STRIPE"
                                 /\ escrow'.transfer = "completion_release"
                      /\ escrow'.provider = "MANUAL_RECONCILIATION" => PayoutsInFlight' = {}
    BY DEF RaceFree
  <2>1. CASE UNCHANGED vars
    BY <2>1 DEF RaceFree, MoneyRaces, RefundInFlight, PayoutsInFlight, At, vars
  <2>2. CASE Next
    <3>1. CourtStep /\ InFlightStep /\ RowStep /\ RowFollows
      BY <2>2, StepCourt, StepInFlight, StepRow, StepRowFollows DEF Known
    <3>2. /\ RefundInFlight => task \notin {"ACCEPTED", "PROOF_SUBMITTED", "COMPLETED"}
          /\ "completion_release" \in PayoutsInFlight =>
               /\ dispute = "NONE" /\ task = "COMPLETED"
               /\ \/ escrow.state = "FUNDED"
                  \/ /\ escrow.state = "RELEASED" /\ escrow.provider = "STRIPE"
                     /\ escrow.transfer = "completion_release"
          /\ escrow.provider = "MANUAL_RECONCILIATION" => PayoutsInFlight = {}
      BY <2>2, NoRace DEF RaceFree
    <3>t. DataTyped
      BY DEF Known, TypeInv, TypeOK, DataTyped
    <3>3. ASSUME RefundInFlight'
          PROVE  task' \notin {"ACCEPTED", "PROOF_SUBMITTED", "COMPLETED"}
      <4>1. CASE ~RefundInFlight
        BY <3>1, <3>3, <4>1 DEF InFlightStep, Frozen
      <4>2. CASE RefundInFlight
        BY <2>2, <3>1, <3>2, <4>2, NoRace
           DEF CourtStep, TaskMoved, DisputeFiled, DisputeGoesOn, DisputeResolved
      <4>3. QED
        BY <4>1, <4>2
    <3>4. ASSUME "completion_release" \in PayoutsInFlight'
          PROVE  /\ dispute' = "NONE" /\ task' = "COMPLETED"
                 /\ \/ escrow'.state = "FUNDED"
                    \/ /\ escrow'.state = "RELEASED" /\ escrow'.provider = "STRIPE"
                       /\ escrow'.transfer = "completion_release"
      <4>1. CASE "completion_release" \notin PayoutsInFlight
        BY <3>1, <3>4, <4>1 DEF InFlightStep, Frozen, TaskFollowsDispute
      <4>2. CASE "completion_release" \in PayoutsInFlight
        <5>1. PayoutsInFlight = {"completion_release"}
          BY <3>t, <3>2, <4>2, OnlyCompletion
        <5>2. dispute' = "NONE" /\ task' = "COMPLETED"
          BY <2>2, <3>1, <3>2, <4>2, NoRace
             DEF CourtStep, TaskMoved, DisputeFiled, DisputeGoesOn, DisputeResolved,
                 OpenDisputes
        <5>3. CASE escrow.state = "FUNDED"
          <6>1. CASE escrow'.state = "FUNDED"
            BY <5>2, <6>1
          <6>2. CASE escrow'.state # "FUNDED"
            <7>1. escrow'.state = "RELEASED" /\ escrow'.transfer = "completion_release"
              BY <2>2, <5>1, <5>3, <6>2, NoRace
            <7>2. escrow'.provider = "STRIPE"
              BY <3>1, <5>3, <7>1
                 DEF RowStep, RowFund, RowLock, RowTransfer, RowRefundId, RowRelease, RowRefund,
                     RowSplit, KeepsState, None
            <7>3. QED
              BY <5>2, <7>1, <7>2
          <6>3. QED
            BY <6>1, <6>2
        <5>4. CASE escrow.state # "FUNDED"
          <6>1. /\ escrow.state = "RELEASED" /\ escrow.provider = "STRIPE"
                /\ escrow.transfer = "completion_release"
            BY <3>2, <4>2, <5>4
          <6>2. KeepsState /\ KeepsTransfer
            BY <3>1, <6>1
               DEF RowStep, RowFund, RowLock, RowTransfer, RowRefundId, RowRelease, RowRefund,
                   RowSplit, KeepsState, OpenStates, TerminalStates
          <6>3. QED
            BY <5>2, <6>1, <6>2 DEF KeepsState, KeepsTransfer
        <5>5. QED
          BY <5>3, <5>4
      <4>3. QED
        BY <4>1, <4>2
    <3>5. ASSUME escrow'.provider = "MANUAL_RECONCILIATION"
          PROVE  PayoutsInFlight' = {}
      <4>1. CASE escrow.provider = "MANUAL_RECONCILIATION"
        <5>1. escrow.state = "RELEASED" /\ task = "COMPLETED"
          BY <4>1 DEF MoneySound, ReleasedTaskIsCompleted, None
        <5>2. \A w \in Workers : proc[w].pc \notin StepsOf("SPLIT")
          BY <5>1 DEF OutcomeSound, TaskFollowsDispute, Outcomes
        <5>3. PayoutsInFlight' \subseteq TransferIds
          BY DEF PayoutsInFlight, Known, TypeInv, TypeOK, Movements
        <5>4. PayoutsInFlight = {}
          BY <3>2, <4>1
        <5>5. QED
          BY <3>1, <5>1, <5>2, <5>3, <5>4 DEF InFlightStep, TransferIds, Locked
      <4>2. CASE escrow.provider # "MANUAL_RECONCILIATION"
        <5>1. escrow.provider = None
          <6>1. escrow.provider \in Providers
            BY <3>t DEF DataTyped, Rows
          <6>2. ASSUME escrow.provider = "STRIPE" PROVE FALSE
            <7>1. escrow.state = "RELEASED"
              BY <6>2 DEF MoneySound, None
            <7>2. KeepsTransfer
              BY <3>1, <7>1
                 DEF RowStep, RowFund, RowLock, RowTransfer, RowRefundId, RowRelease, RowRefund,
                     RowSplit, KeepsState, OpenStates, TerminalStates
            <7>3. QED
              BY <3>5, <6>2, <7>2 DEF KeepsTransfer
          <6>3. QED
            BY <4>2, <6>1, <6>2 DEF Providers
        <5>2. PayoutsInFlight = {}
          BY <2>2, <3>5, <5>1, NoRace
        <5>3. ~Frozen
          BY <3>5, <4>2 DEF Frozen
        <5>4. QED
          BY <3>1, <5>2, <5>3 DEF InFlightStep
      <4>3. QED
        BY <4>1, <4>2
    <3>6. QED
      BY <3>3, <3>4, <3>5
  <2>3. QED
    BY <2>1, <2>2
<1>3. QED
  BY <1>1, <1>2, KnownCorrect, ReleasedTaskCorrect, TaskFollows, OutcomeFollows, MoneyFollows,
     PTL DEF Spec

\* Without a race no settlement forgets a completion payout that has left.
THEOREM PayoutRecorded == Spec => []UnracedPayoutIsRecorded
<1>1. RaceFree => UnracedPayoutIsRecorded
  BY DEF RaceFree, UnracedPayoutIsRecorded, PayoutsInFlight
<1>2. QED
  BY <1>1, RaceFreeCorrect, PTL

\* What an outcome or a race-free task excludes at Stripe.
LEMMA Excluded ==
    ASSUME DataTyped, TaskFollowsDispute, OutcomeSound, RaceFree, MoneyRaces = {}
    PROVE  /\ task = "COMPLETED" => Refunded = 0
           /\ "completion_release" \in stripe.transfers =>
                stripe.transfers = {"completion_release"} /\ task = "COMPLETED"
           /\ "dispute_release" \in stripe.transfers =>
                stripe.transfers = {"dispute_release"} /\ task = "COMPLETED"
           /\ "dispute_partial_release" \in stripe.transfers =>
                stripe.transfers = {"dispute_partial_release"}
<1>c. "completion_release" \in stripe.transfers =>
        dispute = "NONE" /\ task = "COMPLETED"
  BY DEF RaceFree, PayoutsInFlight
<1>o. /\ "dispute_release" \in stripe.transfers => dispute = "RELEASE"
      /\ "dispute_partial_release" \in stripe.transfers => dispute = "SPLIT"
      /\ "wkr_refund" \in stripe.refunds => dispute = "REFUND"
      /\ "wkr_partial_refund" \in stripe.refunds => dispute = "SPLIT"
  BY DEF OutcomeSound, Outcomes, TransfersOf, RefundsOf
<1>1. ASSUME task = "COMPLETED" PROVE Refunded = 0
  <2>1. stripe.refunds \cap {"svc_refund", "admin_override"} = {}
    BY <1>1 DEF RaceFree, RefundInFlight
  <2>2. "wkr_refund" \notin stripe.refunds /\ "wkr_partial_refund" \notin stripe.refunds
    BY <1>o, <1>1 DEF TaskFollowsDispute
  <2>3. QED
    BY <2>1, <2>2 DEF Refunded, RefundOf
<1>2. stripe.transfers \subseteq TransferIds
  BY DEF DataTyped, Movements
<1>3. QED
  BY <1>1, <1>2, <1>c, <1>o DEF TransferIds, TaskFollowsDispute

\* Poster and worker never receive more than the escrow holds unless one of
\* the three named races happened: there is no fourth way.
THEOREM OverpaymentRaced == Spec => []OverpaymentNeedsARace
<1>1. /\ Known /\ ReleasedTaskIsCompleted /\ TaskFollowsDispute /\ OutcomeSound /\ SplitSound
      /\ MoneySound /\ RaceFree
      => OverpaymentNeedsARace
  <2> SUFFICES ASSUME Known, ReleasedTaskIsCompleted, TaskFollowsDispute, OutcomeSound,
                      SplitSound, MoneySound, RaceFree, MoneyRaces = {}
               PROVE  MoneyOut <= Amount
    <3>1. MoneyOut \in Nat /\ Amount \in Nat
      BY AmountsAssumption DEF MoneyOut, PaidOut, PaidBy, Refunded, RefundOf, TransferValue,
                               RefundValue
    <3>2. QED
      BY <3>1 DEF OverpaymentNeedsARace
  <2>. DEFINE manual == IF escrow.provider = "MANUAL_RECONCILIATION" THEN Net ELSE 0
  <2>t. DataTyped
    BY DEF Known, TypeInv, TypeOK, DataTyped
  <2>a. /\ Amount \in Nat /\ Net \in Nat /\ SplitNet \in Nat /\ SplitRefund \in Nat
        /\ Net <= Amount /\ SplitRefund + SplitNet <= Amount /\ 0 < SplitRefund
    BY AmountsAssumption
  <2>e. /\ task = "COMPLETED" => Refunded = 0
        /\ "completion_release" \in stripe.transfers =>
             stripe.transfers = {"completion_release"} /\ task = "COMPLETED"
        /\ "dispute_release" \in stripe.transfers =>
             stripe.transfers = {"dispute_release"} /\ task = "COMPLETED"
        /\ "dispute_partial_release" \in stripe.transfers =>
             stripe.transfers = {"dispute_partial_release"}
    BY <2>t, Excluded
  <2>m. /\ escrow.provider = "MANUAL_RECONCILIATION" =>
             stripe.transfers = {} /\ task = "COMPLETED"
        /\ stripe.transfers # {} => manual = 0
    <3>1. stripe.transfers \subseteq PayoutsInFlight
      BY DEF PayoutsInFlight
    <3>2. escrow.provider = "MANUAL_RECONCILIATION" => PayoutsInFlight = {}
      BY DEF RaceFree
    <3>3. escrow.provider = "MANUAL_RECONCILIATION" => task = "COMPLETED"
      BY DEF MoneySound, ReleasedTaskIsCompleted, None
    <3>4. QED
      BY <3>1, <3>2, <3>3
  <2>r. Refunded \in Nat /\ Refunded <= Amount
    <3>1. \A r : RefundOf(r) \in Nat
      BY <2>a DEF RefundOf, RefundValue
    <3>2. QED
      BY <3>1 DEF MoneySound, Refunded
  <2>p. \A t \in TransferIds : PaidBy(t) \in Nat /\ PaidBy(t) <= TransferValue(t)
                               /\ (t \notin stripe.transfers => PaidBy(t) = 0)
    <3>1. \A t : TransferValue(t) \in Nat
      BY <2>a DEF TransferValue
    <3>2. QED
      BY <3>1 DEF PaidBy
  <2>i. /\ MoneyOut = PaidBy("completion_release") + PaidBy("dispute_release")
                        + PaidBy("dispute_partial_release") + manual + Refunded
        /\ {"completion_release", "dispute_release", "dispute_partial_release"} \subseteq TransferIds
        /\ TransferValue("completion_release") = Net /\ TransferValue("dispute_release") = Net
        /\ TransferValue("dispute_partial_release") = SplitNet
    BY DEF MoneyOut, PaidOut, TransferIds, TransferValue
  <2>. HIDE DEF manual
  <2>1. CASE "completion_release" \in stripe.transfers \/ "dispute_release" \in stripe.transfers
    BY <2>1, <2>a, <2>e, <2>m, <2>p, <2>i
  <2>2. CASE "dispute_partial_release" \in stripe.transfers
    <3>1. "wkr_partial_refund" \in stripe.refunds
      BY <2>2 DEF SplitSound, SplitRefundsFirst
    <3>2. Refunded = SplitRefund
      BY <2>a, <2>r, <3>1 DEF Refunded, RefundOf, RefundValue
    <3>3. QED
      BY <2>2, <3>2, <2>a, <2>e, <2>m, <2>p, <2>i
  <2>3. CASE stripe.transfers = {}
    <3>1. \/ manual = Net /\ Refunded = 0
          \/ manual = 0
      BY <2>e, <2>m DEF manual
    <3>2. PaidBy("completion_release") = 0 /\ PaidBy("dispute_release") = 0
          /\ PaidBy("dispute_partial_release") = 0
      BY <2>3, <2>p, <2>i
    <3>3. QED
      BY <3>1, <3>2, <2>a, <2>r, <2>i
  <2>4. QED
    BY <2>1, <2>2, <2>3, <2>t DEF DataTyped, Movements, TransferIds
<1>2. QED
  BY <1>1, KnownCorrect, ReleasedTaskCorrect, TaskFollows, OutcomeFollows, SplitFollows,
     MoneyFollows, RaceFreeCorrect, PTL

=============================================================================
