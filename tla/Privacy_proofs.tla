--------------------------- MODULE Privacy_proofs ---------------------------
(***************************************************************************)
(* Proofs about the export and the erasure of a user's data and the        *)
(* pictures a user uploads, for any requests, tasks, receipts, numbers of  *)
(* workers and faults:                                                     *)
(*                                                                         *)
(*   PrivacyTyped       everything stays in its type                       *)
(*   RequestsAreAlone   one export in progress but in a race, and one      *)
(*                      executor of an erasure                             *)
(*   ErasureIsDone      a completed erasure is an erased user whose        *)
(*                      sessions are revoked or whose revocation was       *)
(*                      missed, and an erased user's tasks hold no money   *)
(*   CompletedIsReal    and a completed export has its file, a receipt its *)
(*                      object, a link that was handed out its record      *)
(*                                                                         *)
(* The erasure needs what an attempt has done so far: a posted task that   *)
(* is not on its list has ended, a worked one holds nothing.  A task that  *)
(* was cancelled and not refunded by an earlier attempt is on no list; it  *)
(* is the trigger on terminal tasks that keeps such a user from being      *)
(* erased.  The uploads need what calls and the sweep know of the row they *)
(* read before: only an old receipt's object is swept, and nothing is      *)
(* taken back while another call works on the receipt.                     *)
(***************************************************************************)
EXTENDS MCPrivacy, FiniteSetTheorems, TLAPS

-----------------------------------------------------------------------------
\* A set whose members are one has at most one.
LEMMA AtMostOne ==
    ASSUME NEW S, \A x, y \in S : x = y
    PROVE  Cardinality(S) <= 1
<1>1. S = {} \/ \E x \in S : S = {x}
  OBVIOUS
<1>2. CASE S = {}
  BY <1>2, FS_EmptySet
<1>3. CASE \E x \in S : S = {x}
  BY <1>3, FS_Singleton
<1> QED BY <1>1, <1>2, <1>3

-----------------------------------------------------------------------------
\* The erasure.
Steps == {"idle", "cas", "list", "posted", "worked", "erase", "revoke", "unknown", "finish", "fail"}
TaskStates == {"absent", "OPEN", "DISPUTED"} \cup Busy!Assigned \cup Busy!Terminal
EscrowStates == {"none", "PENDING", "RELEASED", "REFUNDED", "REFUND_PARTIAL"} \cup Busy!Held
TaskRows == [state : TaskStates, escrow : EscrowStates]

\* The executors past the compare-and-set.
In(x) == run[x].pc \notin {"idle", "cas"}

\* Whoever is in has the request to itself, or lost it to a cancellation.
Admitted ==
    /\ \A x, y \in Executors : In(x) /\ In(y) => x = y
    /\ \A x \in Executors : In(x) => req \in {"processing", "cancelled"}

\* What an executor knows at each of its steps.
Ended(t) == task[t].state \in Busy!Terminal \cup {"absent"}
PostedEnded(done) == \A t \in PosterTasks \ (late \cup done) : Ended(t)
WorkedSettled(done) == \A t \in WorkerTasks \ (late \cup done) : task[t].escrow \notin Busy!Held
Progressed(x) ==
    /\ run[x].pc = "posted" => PostedEnded(run[x].todo)
    /\ run[x].pc = "worked" => PostedEnded({}) /\ WorkedSettled(run[x].todo)
    /\ run[x].pc = "erase" => PostedEnded({}) /\ WorkedSettled({})
    /\ run[x].pc \in {"revoke", "unknown"} => user.erased
    /\ run[x].pc = "finish" => user.erased /\ (user.revoked \/ missed)

\* A task that was never created has no escrow.
AbsentHoldsNothing == \A t \in Busy!Tasks : task[t].state = "absent" => task[t].escrow = "none"

ErasureInv ==
    /\ Busy!TypeOK /\ Admitted /\ AbsentHoldsNothing
    /\ \A x \in Executors : Progressed(x)
    /\ Busy!CompletedIsErased /\ Busy!ErasedOwesNothing

-----------------------------------------------------------------------------
\* The cancelled task and the settled escrow, as records.
LEMMA RowWrites ==
    ASSUME NEW r \in TaskRows
    PROVE  /\ [r EXCEPT !.state = "CANCELLED"] \in TaskRows
           /\ [r EXCEPT !.state = "CANCELLED"].state = "CANCELLED"
           /\ [r EXCEPT !.state = "CANCELLED"].escrow = r.escrow
           /\ \A e \in EscrowStates :
                  /\ [r EXCEPT !.escrow = e] \in TaskRows
                  /\ [r EXCEPT !.escrow = e].state = r.state /\ [r EXCEPT !.escrow = e].escrow = e
BY DEF TaskRows, TaskStates, Busy!Terminal

\* A step of an executor.
Advances(x) == Busy!Begin(x) \/ Busy!Execute(x) \/ Busy!Throw(x) \/ Busy!Crash(x)

\* What a step can do to a task.
Stays(t) == task'[t] = task[t]
IsCancelled(t) ==
    task[t].state \in {"OPEN", "ACCEPTED"} /\ task'[t].state = "CANCELLED" /\ task'[t].escrow = task[t].escrow
IsRepaid(t) ==
    /\ task[t].escrow \in Busy!Held /\ task'[t].escrow \in {"REFUNDED", "REFUND_PARTIAL"}
    /\ task'[t].state = task[t].state
IsCreated(t) ==
    /\ task[t].state = "absent" /\ ~user.revoked
    /\ task'[t].state \in {"OPEN", "ACCEPTED"} /\ task'[t].escrow = "FUNDED"
    /\ Busy!Listed => t \in late'
GoesOn(t) ==
    /\ task[t].escrow = "FUNDED" /\ task[t].state \in {"ACCEPTED", "PROOF_SUBMITTED"}
    /\ task'[t].state \in {"PROOF_SUBMITTED", "DISPUTED", "COMPLETED"}
    /\ task'[t].escrow \in {"FUNDED", "LOCKED_DISPUTE", "RELEASED"}

TaskStep(t) == Stays(t) \/ IsCancelled(t) \/ IsRepaid(t) \/ IsCreated(t) \/ GoesOn(t)

LEMMA TasksMove ==
    ASSUME Busy!TypeOK, [Busy!Next]_(Busy!vars)
    PROVE  /\ task' \in [Busy!Tasks -> TaskRows] /\ late \subseteq late' /\ late' \subseteq Busy!Tasks
           /\ \A t \in Busy!Tasks : TaskStep(t)
<1>t. task \in [Busy!Tasks -> TaskRows] /\ late \subseteq Busy!Tasks
  BY DEF Busy!TypeOK, TaskRows, TaskStates, EscrowStates
<1>1. ASSUME NEW x \in Executors, NEW t \in Busy!Tasks, Busy!ClosePosted(x, t), task' # task
      PROVE  /\ task' \in [Busy!Tasks -> TaskRows] /\ late' = late
             /\ \A u \in Busy!Tasks : TaskStep(u)
  <2>1. /\ task' = [task EXCEPT ![t] = [task[t] EXCEPT !.state = "CANCELLED"]] /\ late' = late
        /\ task[t].state \in {"OPEN", "ACCEPTED"}
    BY <1>1 DEF Busy!ClosePosted
  <2>2. task' \in [Busy!Tasks -> TaskRows] /\ IsCancelled(t) /\ \A u \in Busy!Tasks \ {t} : Stays(u)
    BY <1>t, <2>1, RowWrites DEF IsCancelled, Stays
  <2>3. QED
    BY <2>1, <2>2 DEF TaskStep
<1>2. ASSUME NEW x \in Executors, NEW t \in Busy!Tasks, Busy!RefundPosted(x, t) \/ Busy!SettleWorked(x, t),
   task' # task
      PROVE  /\ task' \in [Busy!Tasks -> TaskRows] /\ late' = late
             /\ \A u \in Busy!Tasks : TaskStep(u)
  <2>1. PICK e \in {"REFUNDED", "REFUND_PARTIAL"} :
            task' = [task EXCEPT ![t] = [task[t] EXCEPT !.escrow = e]] /\ task[t].escrow \in Busy!Held
    <3>1. CASE Busy!RefundPosted(x, t)
      <4>1. task' = [task EXCEPT ![t].escrow = IF @ = "FUNDED" THEN "REFUNDED" ELSE @]
        BY <1>2, <3>1 DEF Busy!RefundPosted
      <4>2. CASE task[t].escrow = "FUNDED"
        BY <4>1, <4>2 DEF Busy!Held
      <4>3. CASE task[t].escrow # "FUNDED"
        <5>1. task' = [task EXCEPT ![t].escrow = task[t].escrow]
          BY <4>1, <4>3
        <5>2. [task[t] EXCEPT !.escrow = task[t].escrow] = task[t]
          BY <1>t DEF TaskRows
        <5>3. task' = task
          BY <1>t, <5>1, <5>2
        <5>4. QED
          BY <1>2, <5>3
      <4>4. QED
        BY <4>2, <4>3
    <3>2. CASE Busy!SettleWorked(x, t)
      BY <1>2, <3>2 DEF Busy!SettleWorked, Busy!Held
    <3>3. QED
      BY <1>2, <3>1, <3>2
  <2>2. late' = late
    BY <1>2 DEF Busy!RefundPosted, Busy!SettleWorked
  <2> DEFINE r == [task[t] EXCEPT !.escrow = e]
  <2>3. r \in TaskRows /\ r.state = task[t].state /\ r.escrow = e
    <3>1. task[t] \in TaskRows /\ e \in EscrowStates
      BY <1>t DEF EscrowStates
    <3>2. QED
      BY <3>1, RowWrites
  <2>4. task' \in [Busy!Tasks -> TaskRows] /\ task'[t] = r /\ \A u \in Busy!Tasks \ {t} : Stays(u)
    BY <1>t, <2>1, <2>3 DEF Stays
  <2>5. IsRepaid(t)
    BY <2>1, <2>3, <2>4 DEF IsRepaid
  <2>6. QED
    BY <2>2, <2>4, <2>5 DEF TaskStep
<1>3. ASSUME NEW t \in Busy!Tasks, Busy!NewTask(t)
      PROVE  /\ task' \in [Busy!Tasks -> TaskRows] /\ late \subseteq late' /\ late' \subseteq Busy!Tasks
             /\ \A u \in Busy!Tasks : TaskStep(u)
  <2> DEFINE opened == [state |-> "OPEN", escrow |-> "FUNDED"]
             taken == [state |-> "ACCEPTED", escrow |-> "FUNDED"]
  <2>0. opened \in TaskRows /\ taken \in TaskRows
    BY DEF TaskRows, TaskStates, EscrowStates, Busy!Assigned, Busy!Held
  <2>1. PICK r \in TaskRows : task' = [task EXCEPT ![t] = r] /\ r.state \in {"OPEN",
     "ACCEPTED"} /\ r.escrow = "FUNDED"
    <3>1. CASE t \in PosterTasks
      BY <1>3, <2>0, <3>1 DEF Busy!NewTask
    <3>2. CASE t \notin PosterTasks
      BY <1>3, <2>0, <3>2 DEF Busy!NewTask
    <3>3. QED
      BY <3>1, <3>2
  <2>2. task' \in [Busy!Tasks -> TaskRows] /\ \A u \in Busy!Tasks \ {t} : Stays(u)
    BY <1>t, <2>1 DEF Stays
  <2>3. IsCreated(t)
    BY <1>3, <1>t, <2>1 DEF Busy!NewTask, IsCreated
  <2>4. late \subseteq late' /\ late' \subseteq Busy!Tasks
    BY <1>3, <1>t DEF Busy!NewTask
  <2>5. QED
    BY <2>2, <2>3, <2>4 DEF TaskStep
<1>4. ASSUME NEW t \in Busy!Tasks, Busy!Progress(t)
      PROVE  /\ task' \in [Busy!Tasks -> TaskRows] /\ late' = late
             /\ \A u \in Busy!Tasks : TaskStep(u)
  <2>0. PICK step \in {<<"ACCEPTED", "FUNDED", "PROOF_SUBMITTED", "FUNDED">>,
                        <<"PROOF_SUBMITTED", "FUNDED", "DISPUTED", "LOCKED_DISPUTE">>,
                        <<"PROOF_SUBMITTED", "FUNDED", "COMPLETED", "RELEASED">>} :
            /\ task[t] = [state |-> step[1], escrow |-> step[2]]
            /\ task' = [task EXCEPT ![t] = [state |-> step[3], escrow |-> step[4]]]
    BY <1>4 DEF Busy!Progress
  <2> DEFINE r == [state |-> step[3], escrow |-> step[4]]
  <2>1. /\ task' = [task EXCEPT ![t] = r] /\ r \in TaskRows
        /\ r.state \in {"PROOF_SUBMITTED", "DISPUTED", "COMPLETED"}
        /\ r.escrow \in {"FUNDED", "LOCKED_DISPUTE", "RELEASED"}
    BY <2>0 DEF TaskRows, TaskStates, EscrowStates, Busy!Assigned, Busy!Held
  <2>2. late' = late /\ task[t].escrow = "FUNDED" /\ task[t].state \in {"ACCEPTED", "PROOF_SUBMITTED"}
    BY <1>4, <2>0 DEF Busy!Progress
  <2>3. task' \in [Busy!Tasks -> TaskRows] /\ GoesOn(t) /\ \A u \in Busy!Tasks \ {t} : Stays(u)
    BY <1>t, <2>1, <2>2 DEF GoesOn, Stays
  <2>4. QED
    BY <2>2, <2>3 DEF TaskStep
<1>5. CASE UNCHANGED <<task, late>>
  BY <1>t, <1>5 DEF TaskStep, Stays
<1>6. ASSUME NEW x \in Executors, Advances(x)
      PROVE  /\ task' \in [Busy!Tasks -> TaskRows] /\ late \subseteq late' /\ late' \subseteq Busy!Tasks
             /\ \A t \in Busy!Tasks : TaskStep(t)
  <2>1. CASE \E t \in Busy!Tasks : Busy!ClosePosted(x, t) \/ Busy!RefundPosted(x, t) \/ Busy!SettleWorked(x, t)
    <3>1. late' = late
      BY <2>1 DEF Busy!ClosePosted, Busy!RefundPosted, Busy!SettleWorked
    <3>2. QED
      BY <1>t, <1>1, <1>2, <1>5, <2>1, <3>1
  <2>2. CASE UNCHANGED <<task, late>>
    BY <1>t, <1>5, <2>2
  <2>3. QED
    BY <1>6, <2>1, <2>2
       DEF Advances, Busy!Execute, Busy!Begin, Busy!Cas, Busy!ListPosted, Busy!ListWorked, Busy!WorkedDone,
          Busy!Anonymize, Busy!Revoke, Busy!Finish, Busy!Fail, Busy!Throw, Busy!Crash
<1>7. QED
  <2>1. CASE Busy!DeadlinePasses \/ Busy!CancelReads \/ Busy!CancelWrites \/ UNCHANGED Busy!vars
    BY <1>t, <1>5, <2>1 DEF Busy!vars, Busy!DeadlinePasses, Busy!CancelReads, Busy!CancelWrites
  <2>2. QED
    BY <1>t, <1>3, <1>4, <1>6, <2>1 DEF Busy!Next, Advances

EndsOnce(t) ==
    /\ task[t].state \in Busy!Terminal \cup {"absent"} =>
          task'[t].state \in Busy!Terminal \cup {"absent"} \/ t \in late'
    /\ task[t].escrow \notin Busy!Held => task'[t].escrow \notin Busy!Held \/ t \in late'

\* Beside an attempt, a task that has ended stays ended, and one that holds nothing
\* holds nothing, but for the tasks created after the listing.
LEMMA EndedStays ==
    ASSUME Busy!TypeOK, [Busy!Next]_(Busy!vars), Busy!Listed
    PROVE  late \subseteq late' /\ \A t \in Busy!Tasks : EndsOnce(t)
  BY TasksMove DEF TaskStep, Stays, IsCancelled, IsRepaid, IsCreated, GoesOn, EndsOnce, Busy!Terminal, Busy!Held

-----------------------------------------------------------------------------
\* An executor's move leaves the others where they are.
LEMMA ExecutorMoves ==
    ASSUME Busy!TypeOK, NEW x \in Executors, NEW pc \in Steps, NEW todo \in SUBSET Busy!Tasks, Busy!Goto(x, pc, todo)
    PROVE  /\ run' \in [Executors -> [pc : Steps, todo : SUBSET Busy!Tasks]]
           /\ run'[x].pc = pc /\ run'[x].todo = todo
           /\ \A y \in Executors \ {x} : run'[y] = run[y]
BY DEF Busy!TypeOK, Steps, Busy!Goto

\* Only executors that are in, and cancellations, change the request.
LEMMA ErasureInit == Busy!ErasureAssumption /\ Busy!Init => ErasureInv
<1>1. ASSUME Busy!ErasureAssumption, Busy!Init
      PROVE  ErasureInv
  <2>1. PICK s \in [Busy!Tasks -> Starts] :
            task = [t \in Busy!Tasks |-> [state |-> Busy!Start[s[t]][1], escrow |-> Busy!Start[s[t]][2]]]
    BY <1>1 DEF Busy!Init
  <2>2. \A k \in DOMAIN Busy!Start :
            /\ [state |-> Busy!Start[k][1], escrow |-> Busy!Start[k][2]] \in TaskRows
            /\ Busy!Start[k][1] = "absent" => Busy!Start[k][2] = "none"
    BY DEF Busy!Start, TaskRows, TaskStates, EscrowStates, Busy!Assigned, Busy!Terminal, Busy!Held
  <2>3. task \in [Busy!Tasks -> TaskRows] /\ AbsentHoldsNothing
    <3>1. \A t \in Busy!Tasks : s[t] \in DOMAIN Busy!Start
      BY <1>1 DEF Busy!ErasureAssumption
    <3>2. ASSUME NEW t \in Busy!Tasks
          PROVE  task[t] \in TaskRows /\ (task[t].state = "absent" => task[t].escrow = "none")
      <4>1. PICK k \in DOMAIN Busy!Start : k = s[t]
        BY <3>1
      <4>2. task[t] = [state |-> Busy!Start[k][1], escrow |-> Busy!Start[k][2]]
        BY <2>1, <4>1
      <4>3. QED
        BY <2>2, <4>2
    <3>3. QED
      BY <2>1, <3>2 DEF AbsentHoldsNothing
  <2>4. \A x \in Executors : run[x] = Busy!Idle
    BY <1>1 DEF Busy!Init
  <2>5. run \in [Executors -> [pc : Steps, todo : SUBSET Busy!Tasks]]
    BY <1>1 DEF Busy!Init, Steps, Busy!Idle
  <2>6. Busy!TypeOK
    <3>0. late \subseteq Busy!Tasks /\ missed \in BOOLEAN /\ user \in [erased : BOOLEAN, revoked : BOOLEAN]
      BY <1>1 DEF Busy!Init
    <3>1. faults \in 0..MaxFaults
      BY <1>1 DEF Busy!Init, Busy!ErasureAssumption
    <3>2. due \in BOOLEAN /\ cancel \in {"none", "read", "granted", "refused"}
          /\ req \in {"pending", "processing", "completed", "rejected", "cancelled"}
      BY <1>1 DEF Busy!Init
    <3>3. QED
      BY <2>3, <2>5, <3>0, <3>1, <3>2 DEF Busy!TypeOK, TaskRows, TaskStates, EscrowStates, Steps
  <2>7. QED
    BY <1>1, <2>3, <2>4, <2>6
       DEF Busy!Init, ErasureInv, Busy!Idle, Admitted, In, Progressed, Busy!CompletedIsErased, Busy!ErasedOwesNothing
<1>2. QED
  BY <1>1

\* What a step can do to the executors, to the request and to the user.
LEMMA OthersMove ==
    ASSUME Busy!ErasureAssumption, Busy!TypeOK, [Busy!Next]_(Busy!vars)
    PROVE  /\ req' \in {"pending", "processing", "completed", "rejected", "cancelled"}
           /\ due' \in BOOLEAN /\ cancel' \in {"none", "read", "granted", "refused"}
           /\ user' \in [erased : BOOLEAN, revoked : BOOLEAN]
           /\ user.erased => user'.erased
           /\ user.revoked => user'.revoked
           /\ missed' \in BOOLEAN /\ (missed => missed')
           /\ faults' \in 0..MaxFaults
<1>t. /\ user \in [erased : BOOLEAN, revoked : BOOLEAN] /\ missed \in BOOLEAN
      /\ faults \in 0..MaxFaults /\ MaxFaults \in Nat
  BY DEF Busy!TypeOK, Busy!ErasureAssumption
<1> DEFINE Reqs == {"pending", "processing", "completed", "rejected", "cancelled"}
           Kept == user' = user /\ missed' = missed /\ faults' = faults
           Same == Kept /\ req' = req /\ due' = due /\ cancel' = cancel
<1>1. CASE Same \/ Busy!DeadlinePasses \/ Busy!CancelReads \/ Busy!CancelWrites
  BY <1>1, <1>t DEF Busy!TypeOK, Busy!DeadlinePasses, Busy!CancelReads, Busy!CancelWrites
<1>2. ASSUME NEW x \in Executors, Busy!Cas(x) \/ Busy!Finish(x) \/ Busy!Fail(x)
      PROVE  Kept /\ req' \in Reqs /\ due' = due /\ cancel' = cancel
  BY <1>2 DEF Busy!TypeOK, Busy!Cas, Busy!Finish, Busy!Fail
<1>3. ASSUME NEW x \in Executors, Busy!Anonymize(x) \/ Busy!Revoke(x)
      PROVE  /\ req' = req /\ due' = due /\ cancel' = cancel /\ faults' \in 0..MaxFaults
             /\ user' \in [erased : BOOLEAN, revoked : BOOLEAN]
             /\ user.erased => user'.erased
             /\ user.revoked => user'.revoked
             /\ missed' \in BOOLEAN /\ (missed => missed')
  <2>1. CASE Busy!Anonymize(x)
    BY <1>t, <2>1 DEF Busy!Anonymize
  <2>2. CASE Busy!Revoke(x)
    <3>1. /\ req' = req /\ due' = due /\ cancel' = cancel
          /\ user' = [user EXCEPT !.revoked = TRUE] \/ user' = user
          /\ missed' = TRUE \/ missed' = missed
          /\ faults' = faults \/ (faults < MaxFaults /\ faults' = faults + 1)
      BY <2>2 DEF Busy!Revoke, Busy!Fault
    <3>2. faults' \in 0..MaxFaults
      BY <1>t, <3>1
    <3>3. /\ user' \in [erased : BOOLEAN, revoked : BOOLEAN]
          /\ user.erased => user'.erased
          /\ user.revoked => user'.revoked
      BY <1>t, <3>1
    <3>4. missed' \in BOOLEAN
      BY <1>t, <3>1, Zenon
    <3>5. missed => missed'
      BY <3>1, Zenon
    <3>6. QED
      BY <3>1, <3>2, <3>3, <3>4, <3>5, Zenon
  <2>3. QED
    BY <1>3, <2>1, <2>2
<1>4. ASSUME NEW x \in Executors, NEW t \in Busy!Tasks,
             Busy!ClosePosted(x, t) \/ Busy!RefundPosted(x, t) \/ Busy!SettleWorked(x, t)
      PROVE  /\ req' = req /\ due' = due /\ cancel' = cancel /\ user' = user /\ missed' = missed
             /\ faults' \in 0..MaxFaults
  BY <1>4, <1>t DEF Busy!ClosePosted, Busy!RefundPosted, Busy!SettleWorked, Busy!Fault
<1>5. ASSUME NEW x \in Executors, Busy!Throw(x) \/ Busy!Crash(x)
      PROVE  /\ req' = req /\ due' = due /\ cancel' = cancel /\ user' = user /\ missed' = missed
             /\ faults' \in 0..MaxFaults
  BY <1>5, <1>t DEF Busy!Throw, Busy!Crash, Busy!Fault
<1>6. ASSUME NEW x \in Executors, Busy!Begin(x) \/ Busy!ListPosted(x) \/ Busy!ListWorked(x) \/ Busy!WorkedDone(x)
      PROVE  Same
  BY <1>6 DEF Busy!Begin, Busy!ListPosted, Busy!ListWorked, Busy!WorkedDone
<1>7. ASSUME NEW t \in Busy!Tasks, Busy!NewTask(t) \/ Busy!Progress(t)
      PROVE  Same
  BY <1>7 DEF Busy!NewTask, Busy!Progress
<1>8. UNCHANGED Busy!vars => Same
  BY DEF Busy!vars
<1>9. req \in Reqs /\ due \in BOOLEAN /\ cancel \in {"none", "read", "granted", "refused"}
  BY DEF Busy!TypeOK
<1> HIDE DEF Same, Reqs
<1>10. CASE \E x \in Executors : Advances(x)
  <2>1. PICK x \in Executors : Advances(x)
    BY <1>10
  <2>2. CASE Busy!Cas(x) \/ Busy!Finish(x) \/ Busy!Fail(x)
    BY <1>2, <1>9, <1>t, <2>2 DEF Reqs
  <2>3. CASE Busy!Anonymize(x) \/ Busy!Revoke(x)
    BY <1>3, <1>9, <1>t, <2>3 DEF Reqs
  <2>4. CASE \/ Busy!Throw(x) \/ Busy!Crash(x)
             \/ \E t \in Busy!Tasks : Busy!ClosePosted(x, t) \/ Busy!RefundPosted(x, t) \/ Busy!SettleWorked(x, t)
    BY <1>4, <1>5, <1>9, <1>t, <2>4 DEF Reqs
  <2>5. CASE Busy!Begin(x) \/ Busy!ListPosted(x) \/ Busy!ListWorked(x) \/ Busy!WorkedDone(x)
    BY <1>1, <1>6, <2>5
  <2>6. QED
    BY <2>1, <2>2, <2>3, <2>4, <2>5 DEF Advances, Busy!Execute
<1>11. QED
  BY <1>1, <1>7, <1>8, <1>10 DEF Busy!Next, Advances

LEMMA RunsMove ==
    ASSUME Busy!TypeOK, NEW x \in Executors, Advances(x)
    PROVE  \/ run' = run
           \/ \E pc \in Steps, todo \in SUBSET Busy!Tasks : Busy!Goto(x, pc, todo)
<1>1. CASE Busy!Begin(x) \/ Busy!Cas(x) \/ Busy!ListPosted(x)
  BY <1>1 DEF Busy!Begin, Busy!Cas, Busy!ListPosted, Steps, Busy!Tasks
<1>2. CASE Busy!ListWorked(x) \/ Busy!WorkedDone(x) \/ Busy!Anonymize(x)
  BY <1>2 DEF Busy!ListWorked, Busy!WorkedDone, Busy!Anonymize, Steps, Busy!Tasks
<1>3. CASE Busy!Revoke(x) \/ Busy!Finish(x) \/ Busy!Fail(x) \/ Busy!Throw(x) \/ Busy!Crash(x)
  BY <1>3 DEF Busy!Revoke, Busy!Finish, Busy!Fail, Busy!Throw, Busy!Crash, Steps
<1>4. ASSUME NEW t \in Busy!Tasks, Busy!ClosePosted(x, t) \/ Busy!RefundPosted(x, t) \/ Busy!SettleWorked(x, t)
      PROVE  run' = run \/ \E pc \in Steps, todo \in SUBSET Busy!Tasks : Busy!Goto(x, pc, todo)
  <2>1. run[x].todo \ {t} \in SUBSET Busy!Tasks
    BY DEF Busy!TypeOK
  <2>2. QED
    BY <1>4, <2>1 DEF Busy!ClosePosted, Busy!RefundPosted, Busy!SettleWorked, Steps
<1>5. QED
  BY <1>1, <1>2, <1>3, <1>4 DEF Advances, Busy!Execute

LEMMA TypeStep ==
    ASSUME Busy!ErasureAssumption, Busy!TypeOK, [Busy!Next]_(Busy!vars)
    PROVE  Busy!TypeOK'
<1>1. run' \in [Executors -> [pc : Steps, todo : SUBSET Busy!Tasks]]
  <2>1. CASE run' = run
    BY <2>1 DEF Busy!TypeOK, Steps
  <2>2. CASE \E x \in Executors : Advances(x)
    BY <2>1, <2>2, RunsMove, ExecutorMoves
  <2>3. QED
    BY <2>1, <2>2 DEF Advances, Busy!Next, Busy!vars, Busy!DeadlinePasses, Busy!CancelReads, Busy!CancelWrites, Busy!NewTask,
       Busy!Progress
<1>2. task' \in [Busy!Tasks -> TaskRows] /\ late' \subseteq Busy!Tasks
  BY TasksMove
<1>3. QED
  BY <1>1, <1>2, OthersMove DEF Busy!TypeOK, Steps, TaskRows, TaskStates, EscrowStates

\* An executor that does not move keeps what it knows.
LEMMA OthersProgress ==
    ASSUME Busy!ErasureAssumption, Busy!TypeOK, [Busy!Next]_(Busy!vars), NEW y \in Executors, run'[y] = run[y],
       Progressed(y)
    PROVE  Progressed(y)'
<1>1. run[y].todo \in SUBSET Busy!Tasks /\ {} \in SUBSET Busy!Tasks
  BY DEF Busy!TypeOK
<1>2. CASE run[y].pc \in {"posted", "worked", "erase"}
  <2>1. Busy!Listed
    BY <1>2 DEF Busy!Listed
  <2>3. PICK d \in SUBSET Busy!Tasks : d = run[y].todo
    BY <1>1
  <2>4. /\ PostedEnded(d) => PostedEnded(d)'
        /\ WorkedSettled(d) => WorkedSettled(d)'
        /\ PostedEnded({}) => PostedEnded({})'
        /\ WorkedSettled({}) => WorkedSettled({})'
    BY <2>1, EndedStays DEF PostedEnded, WorkedSettled, Ended, EndsOnce, Busy!Tasks
  <2>5. QED
    BY <1>2, <2>3, <2>4 DEF Progressed, PostedEnded, WorkedSettled
<1>3. CASE run[y].pc \notin {"posted", "worked", "erase"}
  BY <1>3, OthersMove DEF Progressed
<1>4. QED
  BY <1>2, <1>3

\* What the executor that moves has found out.
LEMMA MoverProgresses ==
    ASSUME Busy!ErasureAssumption, Busy!TypeOK, [Busy!Next]_(Busy!vars), NEW x \in Executors, Progressed(x),
       Advances(x)
    PROVE  Progressed(x)'
<1>t. run[x].todo \in SUBSET Busy!Tasks /\ {} \in SUBSET Busy!Tasks /\ task \in [Busy!Tasks -> TaskRows]
  BY DEF Busy!TypeOK, TaskRows, TaskStates, EscrowStates
<1>k. PICK d \in SUBSET Busy!Tasks : d = run[x].todo
  BY <1>t
<1>s. ASSUME run[x].pc \in {"posted", "worked", "erase"}
      PROVE  /\ PostedEnded(d) => PostedEnded(d)'
             /\ WorkedSettled(d) => WorkedSettled(d)'
             /\ PostedEnded({}) => PostedEnded({})'
             /\ WorkedSettled({}) => WorkedSettled({})'
  BY <1>s, EndedStays DEF Busy!Listed, PostedEnded, WorkedSettled, Ended, EndsOnce, Busy!Tasks
<1>p. /\ run[x].pc = "posted" => PostedEnded(d)
      /\ run[x].pc = "worked" => PostedEnded({}) /\ WorkedSettled(d)
      /\ run[x].pc = "erase" => PostedEnded({}) /\ WorkedSettled({})
  BY <1>k DEF Progressed
<1>1. CASE Busy!Begin(x) \/ Busy!Cas(x) \/ Busy!Finish(x) \/ Busy!Fail(x) \/ Busy!Throw(x) \/ Busy!Crash(x)
  <2>1. PICK pc \in {"cas", "list", "idle", "fail"} : Busy!Goto(x, pc, {})
    BY <1>1 DEF Busy!Begin, Busy!Cas, Busy!Finish, Busy!Fail, Busy!Throw, Busy!Crash
  <2>2. run'[x].pc = pc
    BY <2>1 DEF Busy!Goto, Busy!TypeOK
  <2>3. QED
    BY <2>2 DEF Progressed
<1>2. CASE Busy!ListPosted(x)
  <2> DEFINE open == {t \in PosterTasks : task[t].state \notin Busy!Terminal \cup {"absent"}}
  <2>1. CASE user.erased
    BY <1>2, <2>1, ExecutorMoves DEF Busy!ListPosted, Progressed, Steps
  <2>2. CASE ~user.erased
    <3>1. Busy!Goto(x, "posted", open) /\ UNCHANGED <<task, late>> /\ open \in SUBSET Busy!Tasks
      BY <1>2, <2>2 DEF Busy!ListPosted, Busy!Tasks
    <3>2. run'[x].pc = "posted" /\ run'[x].todo = open
      BY <3>1, ExecutorMoves DEF Steps
    <3>3. QED
      BY <3>1, <3>2 DEF Progressed, PostedEnded, Ended
  <2>3. QED
    BY <2>1, <2>2
<1>3. ASSUME NEW t \in Busy!Tasks, Busy!ClosePosted(x, t)
      PROVE  Progressed(x)'
  <2>1. CASE run' = run
    BY <2>1, OthersProgress
  <2>2. CASE Busy!Goto(x, "fail", {})
    BY <1>t, <2>2, ExecutorMoves DEF Progressed, Steps
  <2>3. QED
    BY <1>3, <2>1, <2>2 DEF Busy!ClosePosted
<1>4. ASSUME NEW t \in Busy!Tasks, Busy!RefundPosted(x, t)
      PROVE  Progressed(x)'
  <2>1. CASE Busy!Goto(x, "fail", {})
    BY <1>t, <2>1, ExecutorMoves DEF Progressed, Steps
  <2>2. CASE Busy!Goto(x, "posted", run[x].todo \ {t})
    <3>1. run'[x].pc = "posted" /\ run'[x].todo = run[x].todo \ {t}
      BY <1>t, <2>2, ExecutorMoves DEF Steps
    <3>2. run[x].pc = "posted" /\ PostedEnded(d)'
      BY <1>4, <1>s, <1>p DEF Busy!RefundPosted
    <3>3. task[t].state = "CANCELLED" /\ late' = late
      BY <1>4 DEF Busy!RefundPosted
    <3>4. Ended(t)'
      BY <3>3, TasksMove DEF TaskStep, Stays, IsCancelled, IsRepaid, IsCreated, GoesOn, Ended, Busy!Terminal
    <3>5. QED
      BY <1>k, <3>1, <3>2, <3>4 DEF Progressed, PostedEnded
  <2>3. QED
    BY <1>4, <2>1, <2>2 DEF Busy!RefundPosted
<1>5. CASE Busy!ListWorked(x)
  <2> DEFINE open == {t \in WorkerTasks : task[t].escrow \in Busy!Held}
  <2>1. Busy!Goto(x, "worked", open) /\ UNCHANGED <<task, late>> /\ open \in SUBSET Busy!Tasks
        /\ run[x].pc = "posted" /\ run[x].todo = {}
    BY <1>5 DEF Busy!ListWorked, Busy!Tasks
  <2>2. run'[x].pc = "worked" /\ run'[x].todo = open
    BY <2>1, ExecutorMoves DEF Steps
  <2>3. PostedEnded({})'
    BY <1>k, <1>s, <1>p, <2>1
  <2>4. QED
    BY <2>1, <2>2, <2>3 DEF Progressed, WorkedSettled
<1>6. ASSUME NEW t \in Busy!Tasks, Busy!SettleWorked(x, t)
      PROVE  Progressed(x)'
  <2>1. CASE Busy!Goto(x, "fail", {})
    BY <1>t, <2>1, ExecutorMoves DEF Progressed, Steps
  <2>2. CASE /\ Busy!Goto(x, "worked", run[x].todo \ {t}) /\ task' = [task EXCEPT ![t].escrow = "REFUND_PARTIAL"]
    <3>1. run'[x].pc = "worked" /\ run'[x].todo = run[x].todo \ {t}
      BY <1>t, <2>2, ExecutorMoves DEF Steps
    <3>2. run[x].pc = "worked" /\ PostedEnded({})'
          /\ WorkedSettled(d)'
      BY <1>6, <1>s, <1>p DEF Busy!SettleWorked
    <3>3. task'[t].escrow = "REFUND_PARTIAL"
      <4>1. task'[t] = [task[t] EXCEPT !.escrow = "REFUND_PARTIAL"] /\ task[t] \in TaskRows
        BY <1>t, <2>2
      <4>2. QED
        BY <4>1 DEF TaskRows
    <3>4. QED
      BY <1>k, <3>1, <3>2, <3>3 DEF Progressed, WorkedSettled, Busy!Held
  <2>3. QED
    BY <1>6, <2>1, <2>2 DEF Busy!SettleWorked
<1>7. CASE Busy!WorkedDone(x)
  <2>1. /\ Busy!Goto(x, "erase", {}) /\ UNCHANGED <<task, late>>
        /\ run[x].pc = "worked" /\ run[x].todo = {}
    BY <1>7 DEF Busy!WorkedDone
  <2>2. run'[x].pc = "erase"
    BY <1>t, <2>1, ExecutorMoves DEF Steps
  <2>3. PostedEnded({})' /\ WorkedSettled({})'
    BY <1>k, <1>s, <1>p, <2>1
  <2>4. QED
    BY <2>2, <2>3 DEF Progressed
<1>8. CASE Busy!Anonymize(x)
  <2>1. CASE Busy!Goto(x, "fail", {})
    BY <1>t, <2>1, ExecutorMoves DEF Progressed, Steps
  <2>2. CASE Busy!Goto(x, "revoke", {}) /\ user' = [user EXCEPT !.erased = TRUE]
    BY <1>t, <2>2, ExecutorMoves DEF Progressed, Steps, Busy!TypeOK
  <2>3. QED
    BY <1>8, <2>1, <2>2 DEF Busy!Anonymize
<1>9. CASE Busy!Revoke(x)
  <2>1. run'[x].pc = "finish"
    BY <1>t, <1>9, ExecutorMoves DEF Busy!Revoke, Steps
  <2>2. user.erased /\ user'.erased
    BY <1>9, OthersMove DEF Busy!Revoke, Progressed
  <2>3. user'.revoked \/ missed'
    BY <1>9 DEF Busy!Revoke, Busy!TypeOK
  <2>4. QED
    BY <2>1, <2>2, <2>3 DEF Progressed
<1>10. QED
  BY <1>1, <1>2, <1>3, <1>4, <1>5, <1>6, <1>7, <1>8, <1>9 DEF Advances, Busy!Execute

\* The compare-and-set, and the ways the request is lost.
LEMMA AdmittedStep ==
    ASSUME Busy!ErasureAssumption, ErasureInv, [Busy!Next]_(Busy!vars)
    PROVE  Admitted' /\ Busy!CompletedIsErased'
<1>t. /\ Busy!TypeOK /\ Admitted /\ Busy!CompletedIsErased
      /\ user.erased => user'.erased
      /\ user.revoked => user'.revoked
      /\ missed => missed'
  BY OthersMove DEF ErasureInv
<1> DEFINE Stay == \A y \in Executors : In(y)' => In(y)
           Request == req' = req
<1>1. CASE Stay /\ Request
  BY <1>1, <1>t DEF Admitted, Busy!CompletedIsErased
<1>2. CASE Busy!CancelWrites
  BY <1>2, <1>t DEF Busy!CancelWrites, Admitted, Busy!CompletedIsErased, In
<1>3. ASSUME NEW x \in Executors, Busy!Cas(x)
      PROVE  Admitted' /\ Busy!CompletedIsErased'
  <2>1. CASE req \in {"pending", "rejected"}
    <3>1. req' = "processing" /\ \A y \in Executors : ~In(y)
      BY <1>3, <1>t, <2>1 DEF Busy!Cas, Admitted
    <3>2. \A y \in Executors \ {x} : run'[y] = run[y]
      BY <1>3, <1>t, <2>1, ExecutorMoves DEF Busy!Cas, Steps
    <3>3. QED
      BY <3>1, <3>2 DEF Admitted, Busy!CompletedIsErased, In
  <2>2. CASE req \notin {"pending", "rejected"}
    <3>1. Busy!Goto(x, "idle", {}) /\ Request
      BY <1>3, <2>2 DEF Busy!Cas
    <3>2. Stay
      BY <1>t, <3>1, ExecutorMoves DEF In, Steps
    <3>3. QED
      BY <1>1, <3>1, <3>2
  <2>3. QED
    BY <2>1, <2>2
<1>4. ASSUME NEW x \in Executors, Busy!Finish(x) \/ Busy!Fail(x)
      PROVE  Admitted' /\ Busy!CompletedIsErased'
  <2>1. Busy!Goto(x, "idle", {}) /\ In(x)
    BY <1>4 DEF Busy!Finish, Busy!Fail, In
  <2>2. \A y \in Executors : ~In(y)'
    BY <1>t, <2>1, ExecutorMoves DEF In, Steps, Admitted
  <2>3. Busy!CompletedIsErased'
    <3>1. CASE Busy!Finish(x)
      BY <1>t, <3>1 DEF Busy!Finish, ErasureInv, Progressed, Busy!CompletedIsErased
    <3>2. CASE Busy!Fail(x)
      BY <1>t, <2>1, <3>2 DEF Busy!Fail, Admitted, Busy!CompletedIsErased
    <3>3. QED
      BY <1>4, <3>1, <3>2
  <2>4. QED
    BY <2>2, <2>3 DEF Admitted
<1>5. CASE run' = run /\ Request
  BY <1>1, <1>5 DEF In
<1>6. ASSUME NEW x \in Executors, Busy!Begin(x) \/ Busy!Throw(x) \/ Busy!Crash(x)
      PROVE  Stay /\ Request
  <2>1. PICK pc \in {"cas", "idle", "fail"} : Busy!Goto(x, pc, {}) /\ (pc = "fail" => In(x))
    BY <1>6 DEF Busy!Begin, Busy!Throw, Busy!Crash, In
  <2>2. QED
    BY <1>6, <1>t, <2>1, ExecutorMoves DEF In, Steps, Busy!Begin, Busy!Throw, Busy!Crash
<1>7. ASSUME NEW x \in Executors, In(x), Busy!Execute(x), Request
      PROVE  Stay
  <2>1. CASE run' = run
    BY <2>1 DEF In
  <2>2. CASE \E pc \in Steps, todo \in SUBSET Busy!Tasks : Busy!Goto(x, pc, todo)
    BY <1>7, <1>t, <2>2, ExecutorMoves DEF In
  <2>3. QED
    BY <1>7, <1>t, <2>1, <2>2, RunsMove DEF Advances
<1>8. ASSUME NEW x \in Executors, Busy!Execute(x)
      PROVE  Busy!Cas(x) \/ Busy!Finish(x) \/ Busy!Fail(x) \/ (In(x) /\ Request)
  BY <1>8 DEF Busy!Execute, In, Busy!ListPosted, Busy!ListWorked, Busy!WorkedDone, Busy!ClosePosted,
     Busy!RefundPosted, Busy!SettleWorked,
     Busy!Anonymize, Busy!Revoke
<1>9. CASE Busy!DeadlinePasses \/ Busy!CancelReads \/ UNCHANGED Busy!vars
  BY <1>5, <1>9 DEF Busy!DeadlinePasses, Busy!CancelReads, Busy!vars
<1>10. CASE \E t \in Busy!Tasks : Busy!NewTask(t) \/ Busy!Progress(t)
  BY <1>5, <1>10 DEF Busy!NewTask, Busy!Progress
<1> HIDE DEF Stay, Request
<1>11. QED
  BY <1>1, <1>2, <1>3, <1>4, <1>6, <1>7, <1>8, <1>9, <1>10 DEF Busy!Next

\* Nothing is held that an erased user's attempt has settled.
LEMMA HoldingsStep ==
    ASSUME Busy!ErasureAssumption, ErasureInv, [Busy!Next]_(Busy!vars)
    PROVE  AbsentHoldsNothing' /\ Busy!ErasedOwesNothing'
<1>t. /\ Busy!TypeOK /\ AbsentHoldsNothing /\ Busy!ErasedOwesNothing /\ \A x \in Executors : Progressed(x)
      /\ late \subseteq late' /\ \A t \in Busy!Tasks : TaskStep(t)
  BY TasksMove DEF ErasureInv
<1>1. AbsentHoldsNothing'
  BY <1>t DEF AbsentHoldsNothing, TaskStep, Stays, IsCancelled, IsRepaid, IsCreated, GoesOn, Busy!Held
<1>2. CASE user.erased
  <2>1. Busy!Listed
    BY <1>2 DEF Busy!Listed
  <2>2. ASSUME NEW t \in Busy!Tasks, task'[t].escrow \in Busy!Held
        PROVE  t \in late'
    BY <1>2, <1>t, <2>1, <2>2
       DEF Busy!ErasedOwesNothing, TaskStep, Stays, IsCancelled, IsRepaid, IsCreated, GoesOn, Busy!Held
  <2>3. QED
    BY <1>1, <2>2 DEF Busy!ErasedOwesNothing
<1>3. CASE ~user.erased /\ user'.erased
  <2>1. PICK x \in Executors : Busy!Anonymize(x) /\ ~\E t \in Busy!Tasks : Busy!Refused(t)
    BY <1>3, <1>t, ZenonT(60) DEF Busy!TypeOK, Busy!Next, Busy!vars, Busy!Execute, Busy!Begin, Busy!Cas,
       Busy!ListPosted, Busy!ClosePosted, Busy!RefundPosted, Busy!ListWorked,
       Busy!SettleWorked, Busy!WorkedDone, Busy!Anonymize, Busy!Revoke, Busy!Finish, Busy!Fail, Busy!Throw,
          Busy!Crash, Busy!NewTask, Busy!Progress, Busy!DeadlinePasses,
       Busy!CancelReads, Busy!CancelWrites
  <2>2. UNCHANGED <<task, late>> /\ PostedEnded({}) /\ WorkedSettled({})
    BY <1>t, <2>1 DEF Busy!Anonymize, Progressed
  <2>3. ASSUME NEW t \in Busy!Tasks
        PROVE  task[t].escrow \in Busy!Held => t \in late
    <3>1. CASE t \in PosterTasks
      BY <1>t, <2>1, <2>2, <3>1 DEF PostedEnded, Ended, Busy!Refused, AbsentHoldsNothing, Busy!Held
    <3>2. CASE t \in WorkerTasks
      BY <2>2, <3>2 DEF WorkedSettled
    <3>3. QED
      BY <3>1, <3>2 DEF Busy!Tasks
  <2>4. QED
    BY <1>1, <2>2, <2>3 DEF Busy!ErasedOwesNothing
<1>4. CASE ~user'.erased
  BY <1>1, <1>4 DEF Busy!ErasedOwesNothing
<1>5. QED
  BY <1>2, <1>3, <1>4

LEMMA ErasureStep ==
    ASSUME Busy!ErasureAssumption, ErasureInv, [Busy!Next]_(Busy!vars)
    PROVE  ErasureInv'
<1>1. Busy!TypeOK' /\ Admitted' /\ Busy!CompletedIsErased' /\ AbsentHoldsNothing' /\ Busy!ErasedOwesNothing'
  BY TypeStep, AdmittedStep, HoldingsStep DEF ErasureInv
<1>2. ASSUME NEW y \in Executors
      PROVE  Progressed(y)'
  <2>t. Busy!TypeOK /\ Progressed(y)
    BY DEF ErasureInv
  <2>1. CASE run'[y] = run[y]
    BY <2>t, <2>1, OthersProgress
  <2>2. CASE Advances(y)
    BY <2>t, <2>2, MoverProgresses
  <2>3. ASSUME NEW x \in Executors, x # y, Advances(x)
        PROVE  run'[y] = run[y]
    BY <2>t, <2>3, RunsMove, ExecutorMoves
  <2>4. QED
    BY <2>1, <2>2, <2>3 DEF Advances, Busy!Next, Busy!vars, Busy!DeadlinePasses, Busy!CancelReads, Busy!CancelWrites,
       Busy!NewTask, Busy!Progress
<1>3. QED
  BY <1>1, <1>2 DEF ErasureInv
LEMMA ExecutorAlone == ErasureInv => Busy!OneExecutor
<1> SUFFICES ASSUME ErasureInv
             PROVE  Busy!Cardinality({x \in Executors : run[x].pc \notin {"idle", "cas"}}) <= 1
  BY DEF Busy!OneExecutor
<1> DEFINE inside == {x \in Executors : run[x].pc \notin {"idle", "cas"}}
<1>1. \A x, y \in inside : x = y
  BY DEF ErasureInv, Admitted, In
<1> HIDE DEF inside
<1>2. Cardinality(inside) <= 1
  BY <1>1, AtMostOne
<1> QED BY <1>2 DEF Busy!Cardinality, Cardinality, inside

-----------------------------------------------------------------------------
\* Exports. Whoever has a request in progress, or is about to, has it alone, unless a
\* check overtook another call's write.
Holds(r) == exportReq[r] \in Faulty!InProgress \/ call[r] \in {"checked", "read"}
Exclusive == raced \/ \A q, r \in Requests : Holds(q) /\ Holds(r) => q = r

\* A job is created when its call is over, and what waits has an attempt left.
JobLeft(r) ==
    /\ call[r] # "done" => job[r] = [state |-> "none", made |-> 0]
    /\ job[r].state = "waiting" => job[r].made < Faulty!JobAttempts

\* Past the upload the object is there.
Uploaded(w) == exporting[w].pc \in {"finish", "complete", "tell"} => file[exporting[w].req]

ExportInv ==
    /\ Faulty!TypeOK /\ Exclusive /\ Faulty!CompletedHasFile
    /\ \A r \in Requests : JobLeft(r)
    /\ \A w \in Runners : Uploaded(w)

Exports == [status : {"absent", "queued", "generating", "ready", "failed"}, old : BOOLEAN]
Jobs == [state : {"none", "waiting", "active", "completed", "failed"}, made : 0..Faulty!JobAttempts]
ExportSteps == [pc : {"key", "upload", "finish", "complete", "tell", "catch"}, req : Requests]
Calls == {"new", "checked", "generate", "read", "done"}
Asked == Faulty!InProgress \cup {"absent", "completed", "rejected", "cancelled"}

\* What the writes of one field leave of a row.
LEMMA ExportWrites ==
    /\ \A e \in Exports : /\ [e EXCEPT !.status = "queued"] \in Exports
                          /\ \A b \in BOOLEAN : [e EXCEPT !.old = b] \in Exports
    /\ \A j \in Jobs, s \in {"waiting", "active", "completed", "failed"} :
          LET k == [j EXCEPT !.state = s] IN k \in Jobs /\ k.state = s /\ k.made = j.made
    /\ \A e \in ExportSteps, pc \in {"upload", "finish", "complete", "tell", "catch"} :
          LET d == [e EXCEPT !.pc = pc] IN d \in ExportSteps /\ d.pc = pc /\ d.req = e.req
  BY DEF Exports, Jobs, ExportSteps

LEMMA ExportInit == Faulty!ExportAssumption /\ Faulty!Init => ExportInv
<1> SUFFICES ASSUME Faulty!ExportAssumption, Faulty!Init PROVE ExportInv
  OBVIOUS
<1>1. Faulty!TypeOK
  <2>1. job \in [Requests -> Jobs] /\ exp \in [Requests -> Exports]
    BY DEF Faulty!Init, Faulty!Absent, Faulty!JobAttempts, Jobs, Exports
  <2>2. exportReq \in [Requests -> Asked] /\ call \in [Requests -> Calls]
    BY DEF Faulty!Init, Asked, Calls
  <2>3. exporting \in [Runners -> {Faulty!Idle} \cup ExportSteps]
    BY DEF Faulty!Init
  <2>4. file \in [Requests -> BOOLEAN] /\ told \subseteq Requests /\ raced \in BOOLEAN
    BY DEF Faulty!Init
  <2>5. exportFaults = 0 /\ MaxFaults \in Nat
    BY DEF Faulty!ExportAssumption, Faulty!Init
  <2>6. exportFaults \in 0..MaxFaults
    BY <2>5
  <2> QED
    BY <2>1, <2>2, <2>3, <2>4, <2>6 DEF Faulty!TypeOK, Jobs, Exports, Asked, Calls, ExportSteps
<1>2. Exclusive /\ Faulty!CompletedHasFile /\ \A r \in Requests : JobLeft(r)
  BY DEF Faulty!Init, Exclusive, Holds, Faulty!InProgress, Faulty!CompletedHasFile, JobLeft
<1>3. \A w \in Runners : Uploaded(w)
  BY DEF Faulty!Init, Faulty!Idle, Uploaded
<1> QED BY <1>1, <1>2, <1>3 DEF ExportInv

\* A step of an export's worker is about its own request, and about no other.
WorkerSteps(w) == Faulty!Work(w) \/ Faulty!StorageFails(w) \/ Faulty!Redeliver(w)
CallerSteps(r) == Faulty!Call(r) \/ Faulty!CancelRequest(r) \/ Faulty!Age(r) \/ Faulty!CleanupExpiredExports(r)

LEMMA CallerTypes ==
    ASSUME Faulty!ExportAssumption, ExportInv, NEW r \in Requests, CallerSteps(r)
    PROVE  /\ Faulty!TypeOK' /\ exporting' = exporting /\ file' = file /\ told' = told
           /\ \A q \in Requests : JobLeft(q)'
<1>t. /\ exportReq \in [Requests -> Asked] /\ call \in [Requests -> Calls] /\ exp \in [Requests -> Exports]
      /\ job \in [Requests -> Jobs] /\ raced \in BOOLEAN /\ exportFaults \in 0..MaxFaults /\ MaxFaults \in Nat
      /\ Faulty!TypeOK /\ \A q \in Requests : JobLeft(q)
  BY DEF ExportInv, Faulty!TypeOK, Asked, Calls, Exports, Jobs, Faulty!ExportAssumption
<1>1. CASE Faulty!CreateChecks(r)
  BY <1>t, <1>1 DEF Faulty!CreateChecks, Faulty!Raced, Faulty!TypeOK, Calls, JobLeft
<1>2. CASE Faulty!CreateInserts(r)
  BY <1>t, <1>2 DEF Faulty!CreateInserts, Faulty!TypeOK, Faulty!InProgress, Asked, Calls, JobLeft
<1>3. CASE Faulty!GenerateReads(r)
  BY <1>t, <1>3 DEF Faulty!GenerateReads, Faulty!TypeOK, Calls, JobLeft
<1>4. CASE Faulty!GenerateQueues(r)
  <2>1. exportReq' \in [Requests -> Asked] /\ call' \in [Requests -> Calls]
    BY <1>t, <1>4 DEF Faulty!GenerateQueues, Faulty!InProgress, Asked, Calls
  <2>2. exp' \in [Requests -> Exports]
    <3>1. exp' = exp \/ exp' = [exp EXCEPT ![r].status = "queued"]
      BY <1>4 DEF Faulty!GenerateQueues
    <3>2. [exp[r] EXCEPT !.status = "queued"] \in Exports
      BY <1>t, ExportWrites
    <3> QED BY <1>t, <3>1, <3>2
  <2>3. job' \in [Requests -> Jobs] /\ \A q \in Requests : JobLeft(q)'
    <3>1. job[r] = [state |-> "none", made |-> 0] /\ call' = [call EXCEPT ![r] = "done"]
      BY <1>t, <1>4 DEF Faulty!GenerateQueues, JobLeft
    <3>2. CASE job' = job
      BY <1>t, <3>1, <3>2 DEF JobLeft, Calls, Faulty!JobAttempts
    <3>3. CASE job' = [job EXCEPT ![r].state = "waiting"]
      <4> DEFINE k == [job[r] EXCEPT !.state = "waiting"]
      <4>0. k \in Jobs /\ k.state = "waiting" /\ k.made = job[r].made
        BY <1>t, ExportWrites
      <4>1. k \in Jobs /\ k.state = "waiting" /\ k.made = 0
        BY <3>1, <4>0
      <4>2. job' = [job EXCEPT ![r] = k]
        BY <3>3
      <4> HIDE DEF k
      <4> QED BY <1>t, <3>1, <4>1, <4>2 DEF JobLeft, Calls, Faulty!JobAttempts
    <3> QED BY <1>4, <3>2, <3>3 DEF Faulty!GenerateQueues
  <2> QED
    BY <1>t, <1>4, <2>1, <2>2, <2>3 DEF Faulty!GenerateQueues, Faulty!TypeOK, Asked, Calls, Exports, Jobs
<1>5. CASE Faulty!CancelRequest(r)
  BY <1>t, <1>5 DEF Faulty!CancelRequest, Faulty!TypeOK, Asked, JobLeft
<1>6. CASE Faulty!Age(r)
  <2>1. exp' \in [Requests -> Exports]
    BY <1>t, <1>6, ExportWrites DEF Faulty!Age
  <2> QED BY <1>t, <1>6, <2>1 DEF Faulty!Age, Faulty!TypeOK, Exports, JobLeft
<1>7. CASE Faulty!CleanupExpiredExports(r)
  BY <1>t, <1>7 DEF Faulty!CleanupExpiredExports, Faulty!Fault, Faulty!TypeOK, Faulty!Absent, JobLeft
<1> QED BY <1>1, <1>2, <1>3, <1>4, <1>5, <1>6, <1>7 DEF CallerSteps, Faulty!Call

LEMMA WorkerTypes ==
    ASSUME Faulty!ExportAssumption, ExportInv, NEW w \in Runners, WorkerSteps(w)
    PROVE  /\ Faulty!TypeOK' /\ call' = call /\ raced' = raced
           /\ \A r \in Requests : JobLeft(r)'
<1>t. /\ exportReq \in [Requests -> Asked] /\ call \in [Requests -> Calls] /\ exp \in [Requests -> Exports]
      /\ job \in [Requests -> Jobs] /\ exportFaults \in 0..MaxFaults /\ MaxFaults \in Nat
      /\ exporting \in [Runners -> {Faulty!Idle} \cup ExportSteps] /\ file \in [Requests -> BOOLEAN]
      /\ told \subseteq Requests /\ Faulty!TypeOK /\ \A r \in Requests : JobLeft(r)
  BY DEF ExportInv, Faulty!TypeOK, Asked, Calls, Exports, Jobs, ExportSteps, Faulty!ExportAssumption
<1>i. exporting[w].pc # "idle" => exporting[w] \in ExportSteps /\ exporting[w].req \in Requests
  BY <1>t DEF Faulty!Idle, ExportSteps
<1>g. ASSUME NEW pc \in {"upload", "finish", "complete", "tell", "catch"}, Faulty!Goto(w, pc), exporting[w].pc # "idle"
      PROVE  exporting' \in [Runners -> {Faulty!Idle} \cup ExportSteps]
  BY <1>t, <1>i, <1>g, ExportWrites DEF Faulty!Goto
<1>1. ASSUME NEW r \in Requests, Faulty!Claim(w, r)
      PROVE  Faulty!TypeOK' /\ call' = call /\ raced' = raced /\ \A q \in Requests : JobLeft(q)'
  <2>1. job[r].made + 1 \in 0..Faulty!JobAttempts
    BY <1>t, <1>1 DEF Faulty!Claim, JobLeft, Jobs, Faulty!JobAttempts
  <2>2. PICK s \in {"completed", "active"} : job' = [job EXCEPT ![r] = [state |-> s, made |-> job[r].made + 1]]
    BY <1>t, <1>1 DEF Faulty!Claim
  <2>3. job' \in [Requests -> Jobs] /\ \A q \in Requests : JobLeft(q)'
    BY <1>t, <1>1, <2>1, <2>2 DEF Faulty!Claim, JobLeft, Jobs
  <2>4. exp' \in [Requests -> Exports]
    BY <1>t, <1>1 DEF Faulty!Claim, Exports
  <2>5. exporting' \in [Runners -> {Faulty!Idle} \cup ExportSteps]
    <3>1. PICK e \in {Faulty!Idle} \cup ExportSteps : exporting' = [exporting EXCEPT ![w] = e]
      BY <1>t, <1>1 DEF Faulty!Claim, ExportSteps
    <3> QED BY <1>t, <3>1
  <2> QED BY <1>t, <1>1, <2>3, <2>4, <2>5 DEF Faulty!Claim, Faulty!TypeOK, Jobs, Exports, ExportSteps
<1>2. CASE Faulty!StoreKey(w)
  <2>1. exp' \in [Requests -> Exports]
    BY <1>t, <1>i, <1>2, ExportWrites DEF Faulty!StoreKey
  <2> QED BY <1>t, <1>g, <1>2, <2>1 DEF Faulty!StoreKey, Faulty!TypeOK, Exports, ExportSteps, JobLeft
<1>3. CASE Faulty!Upload(w)
  BY <1>t, <1>i, <1>g, <1>3 DEF Faulty!Upload, Faulty!TypeOK, ExportSteps, JobLeft
<1>l. ASSUME Faulty!Leave(w, exporting[w].req), exporting[w].pc # "idle", call' = call
      PROVE  /\ exporting' \in [Runners -> {Faulty!Idle} \cup ExportSteps] /\ job' \in [Requests -> Jobs]
             /\ \A q \in Requests : JobLeft(q)'
  BY <1>t, <1>i, <1>l DEF Faulty!Leave, Jobs, JobLeft
<1>4. CASE Faulty!Finish(w)
  <2>1. CASE exp[exporting[w].req].status = "generating"
    <3>1. exp' \in [Requests -> Exports]
      <4>1. [status |-> "ready", old |-> FALSE] \in Exports
        BY DEF Exports
      <4> QED BY <1>t, <1>4, <2>1, <4>1 DEF Faulty!Finish
    <3> QED BY <1>t, <1>g, <1>4, <2>1, <3>1 DEF Faulty!Finish, Faulty!TypeOK, Exports, ExportSteps, JobLeft
  <2>2. CASE exp[exporting[w].req].status # "generating"
    BY <1>t, <1>l, <1>4, <2>2 DEF Faulty!Finish, Faulty!TypeOK, Jobs, ExportSteps
  <2> QED BY <2>1, <2>2
<1>5. CASE Faulty!Complete(w)
  BY <1>t, <1>i, <1>g, <1>5 DEF Faulty!Complete, Faulty!TypeOK, Asked, ExportSteps, JobLeft
<1>6. CASE Faulty!Tell(w)
  BY <1>t, <1>i, <1>l, <1>6 DEF Faulty!Tell, Faulty!TypeOK, Jobs, ExportSteps
<1>7. CASE Faulty!Catch(w)
  BY <1>t, <1>i, <1>7 DEF Faulty!Catch, Faulty!TypeOK, Jobs, Exports, Faulty!Absent, JobLeft
<1>8. CASE Faulty!StorageFails(w)
  BY <1>t, <1>i, <1>g, <1>8 DEF Faulty!StorageFails, Faulty!Fault, Faulty!TypeOK, ExportSteps, JobLeft
<1>9. CASE Faulty!Redeliver(w)
  <2>1. exporting[w] \in ExportSteps
    BY <1>t, <1>9 DEF Faulty!Redeliver
  <2>2. exporting' \in [Runners -> {Faulty!Idle} \cup ExportSteps]
    BY <1>t, <1>9 DEF Faulty!Redeliver
  <2>3. job' \in [Requests -> Jobs] /\ \A r \in Requests : JobLeft(r)'
    <3>1. exporting[w].req \in Requests
      BY <2>1 DEF ExportSteps
    <3> DEFINE k == [job[exporting[w].req] EXCEPT !.state = "waiting"]
    <3>2. k \in Jobs /\ k.state = "waiting" /\ k.made = job[exporting[w].req].made
      BY <1>t, <3>1, ExportWrites
    <3>3. job' = [job EXCEPT ![exporting[w].req] = k]
      BY <1>9 DEF Faulty!Redeliver
    <3> HIDE DEF k
    <3> QED BY <1>t, <1>9, <3>1, <3>2, <3>3 DEF Faulty!Redeliver, JobLeft
  <2> QED
    BY <1>t, <1>9, <2>2, <2>3 DEF Faulty!Redeliver, Faulty!Fault, Faulty!TypeOK, Jobs, ExportSteps
<1> QED
  BY <1>1, <1>2, <1>3, <1>4, <1>5, <1>6, <1>7, <1>8, <1>9 DEF WorkerSteps, Faulty!Work

\* The object outlives what the worker does next.
LEMMA FilesStay ==
    ASSUME Faulty!ExportAssumption, ExportInv, NEW w \in Runners, WorkerSteps(w)
    PROVE  /\ Faulty!CompletedHasFile' /\ \A v \in Runners : Uploaded(v)'
           /\ \A r \in Requests : exportReq'[r] \in {exportReq[r], "completed"}
<1>t. /\ exportReq \in [Requests -> Asked] /\ file \in [Requests -> BOOLEAN] /\ told \subseteq Requests
      /\ exporting \in [Runners -> {Faulty!Idle} \cup ExportSteps]
      /\ Faulty!CompletedHasFile /\ \A v \in Runners : Uploaded(v)
  BY DEF ExportInv, Faulty!TypeOK, Asked, ExportSteps
<1>i. exporting[w].pc # "idle" => exporting[w] \in ExportSteps /\ exporting[w].req \in Requests
  BY <1>t DEF Faulty!Idle, ExportSteps
<1>1. CASE UNCHANGED <<exportReq, file, told>>
  <2>1. Faulty!CompletedHasFile' /\ \A r \in Requests : exportReq'[r] \in {exportReq[r], "completed"}
    BY <1>t, <1>1 DEF Faulty!CompletedHasFile
  <2>2. \A v \in Runners \ {w} : exporting'[v] = exporting[v]
    BY <1>t DEF WorkerSteps, Faulty!Work, Faulty!Claim, Faulty!StoreKey, Faulty!Upload, Faulty!Finish,
       Faulty!Complete, Faulty!Tell, Faulty!Catch, Faulty!StorageFails, Faulty!Redeliver, Faulty!Goto, Faulty!Leave
  <2>3. Uploaded(w)'
    <3>1. ASSUME NEW r \in Requests, Faulty!Claim(w, r)
          PROVE  Uploaded(w)'
      BY <1>t, <3>1 DEF Faulty!Claim, Faulty!Idle, Uploaded
    <3>2. CASE exporting' = exporting \/ exporting' = [exporting EXCEPT ![w] = Faulty!Idle]
      BY <1>t, <1>1, <3>2 DEF Faulty!Idle, Uploaded
    <3>3. ASSUME NEW pc \in {"upload", "catch", "complete"}, Faulty!Goto(w, pc), exporting[w].pc # "idle",
                 pc = "complete" => exporting[w].pc = "finish"
          PROVE  Uploaded(w)'
      <4>1. exporting'[w].pc = pc /\ exporting'[w].req = exporting[w].req
        BY <1>t, <1>i, <3>3, ExportWrites DEF Faulty!Goto
      <4> QED BY <1>t, <1>1, <3>3, <4>1 DEF Uploaded
    <3>5. CASE Faulty!Complete(w)
      <4>1. exporting[w].pc = "complete" /\ exporting'[w].req = exporting[w].req
        BY <1>t, <1>i, <3>5, ExportWrites DEF Faulty!Complete, Faulty!Goto
      <4> QED BY <1>t, <1>1, <4>1 DEF Uploaded
    <3>6. CASE Faulty!Upload(w)
      <4>1. exporting'[w].req = exporting[w].req /\ exporting[w].req \in Requests /\ file'[exporting[w].req]
        BY <1>t, <1>i, <3>6, ExportWrites DEF Faulty!Upload, Faulty!Goto
      <4> QED BY <4>1 DEF Uploaded
    <3> QED
      BY <3>1, <3>2, <3>3, <3>5, <3>6 DEF WorkerSteps, Faulty!Work, Faulty!StoreKey, Faulty!Finish, Faulty!Tell,
         Faulty!Catch, Faulty!StorageFails, Faulty!Redeliver, Faulty!Leave
  <2> QED BY <1>t, <1>1, <2>1, <2>2, <2>3 DEF Uploaded
<1>2. CASE Faulty!Upload(w)
  BY <1>t, <1>i, <1>2 DEF Faulty!Upload, Faulty!Goto, Faulty!CompletedHasFile, Uploaded, ExportSteps
<1>3. CASE Faulty!Complete(w)
  BY <1>t, <1>i, <1>3 DEF Faulty!Complete, Faulty!Goto, Faulty!CompletedHasFile, Uploaded, ExportSteps
<1>4. CASE Faulty!Tell(w)
  BY <1>t, <1>i, <1>4 DEF Faulty!Tell, Faulty!Leave, Faulty!Idle, Faulty!CompletedHasFile, Uploaded, ExportSteps
<1> QED
  BY <1>1, <1>2, <1>3, <1>4 DEF WorkerSteps, Faulty!Work, Faulty!Claim, Faulty!StoreKey, Faulty!Finish, Faulty!Catch,
     Faulty!StorageFails, Faulty!Redeliver

\* A call that finds no request in progress is alone, or it raced.
LEMMA ExclusiveStep ==
    ASSUME ExportInv, NEW r \in Requests, CallerSteps(r)
    PROVE  Exclusive' /\ Faulty!CompletedHasFile'
<1>t. /\ exportReq \in [Requests -> Asked] /\ call \in [Requests -> Calls] /\ raced \in BOOLEAN
      /\ Exclusive /\ Faulty!CompletedHasFile
  BY DEF ExportInv, Faulty!TypeOK, Asked, Calls
<1>1. CASE Faulty!CreateChecks(r)
  <2>1. Faulty!CompletedHasFile'
    BY <1>t, <1>1 DEF Faulty!CreateChecks, Faulty!CompletedHasFile
  <2>2. CASE raced'
    BY <2>1, <2>2 DEF Exclusive
  <2>3. CASE ~raced' /\ Faulty!Pending # {}
    BY <1>t, <1>1, <2>1, <2>3 DEF Faulty!CreateChecks, Faulty!Raced, Exclusive, Holds
  <2>4. CASE ~raced' /\ Faulty!Pending = {}
    <3>1. \A q \in Requests \ {r} : ~Holds(q)
      BY <1>t, <1>1, <2>4 DEF Faulty!CreateChecks, Faulty!Raced, Faulty!Pending, Holds
    <3>2. \A q \in Requests \ {r} : ~Holds(q)'
      BY <1>t, <1>1, <3>1 DEF Faulty!CreateChecks, Holds
    <3> QED BY <2>1, <3>2 DEF Exclusive
  <2> QED BY <2>2, <2>3, <2>4
<1>2. ASSUME raced' = raced, \A q \in Requests : Holds(q)' => Holds(q)
      PROVE  Exclusive'
  BY <1>t, <1>2 DEF Exclusive
<1>3. CASE Faulty!CreateInserts(r) \/ Faulty!GenerateReads(r) \/ Faulty!GenerateQueues(r)
  <2>1. raced' = raced /\ \A q \in Requests : Holds(q)' => Holds(q)
    BY <1>t, <1>3 DEF Faulty!CreateInserts, Faulty!GenerateReads, Faulty!GenerateQueues, Holds, Faulty!InProgress
  <2>2. Faulty!CompletedHasFile'
    BY <1>t, <1>3 DEF Faulty!CreateInserts, Faulty!GenerateReads, Faulty!GenerateQueues, Faulty!CompletedHasFile
  <2> QED BY <1>2, <2>1, <2>2
<1>4. CASE Faulty!CancelRequest(r) \/ Faulty!Age(r) \/ Faulty!CleanupExpiredExports(r)
  <2>1. raced' = raced /\ \A q \in Requests : Holds(q)' => Holds(q)
    BY <1>t, <1>4 DEF Faulty!CancelRequest, Faulty!Age, Faulty!CleanupExpiredExports, Holds, Faulty!InProgress
  <2>2. Faulty!CompletedHasFile'
    BY <1>t, <1>4 DEF Faulty!CancelRequest, Faulty!Age, Faulty!CleanupExpiredExports, Faulty!CompletedHasFile
  <2> QED BY <1>2, <2>1, <2>2
<1> QED BY <1>1, <1>3, <1>4 DEF CallerSteps, Faulty!Call

LEMMA ExportStep == ASSUME Faulty!ExportAssumption, ExportInv, [Faulty!Next]_(Faulty!vars) PROVE ExportInv'
<1>1. CASE UNCHANGED Faulty!vars
  BY <1>1 DEF Faulty!vars, ExportInv, Faulty!TypeOK, Exclusive, Holds, Faulty!CompletedHasFile, JobLeft, Uploaded
<1>2. ASSUME NEW r \in Requests, CallerSteps(r)
      PROVE  ExportInv'
  <2>1. \A w \in Runners : Uploaded(w)'
    BY <1>2, CallerTypes DEF ExportInv, Uploaded
  <2> QED BY <1>2, <2>1, CallerTypes, ExclusiveStep DEF ExportInv
<1>3. ASSUME NEW w \in Runners, WorkerSteps(w)
      PROVE  ExportInv'
  <2>1. call' = call /\ raced' = raced /\ \A r \in Requests : exportReq'[r] \in {exportReq[r], "completed"}
    BY <1>3, WorkerTypes, FilesStay
  <2>2. Exclusive'
    BY <2>1 DEF ExportInv, Exclusive, Holds, Faulty!InProgress
  <2> QED BY <1>3, <2>2, WorkerTypes, FilesStay DEF ExportInv
<1> QED BY <1>1, <1>2, <1>3 DEF Faulty!Next, CallerSteps, WorkerSteps

\* Under the schema of the repository the row of exports is refused, and the request
\* rejected.
LEMMA RefusedStep ==
    ASSUME ExportInv, NEW r \in Requests, Deployed!GenerateQueues(r)
    PROVE  ExportInv'
<1>t. /\ exportReq \in [Requests -> Asked] /\ call \in [Requests -> Calls] /\ job \in [Requests -> Jobs]
      /\ Faulty!TypeOK /\ \A q \in Requests : JobLeft(q)
  BY DEF ExportInv, Faulty!TypeOK, Asked, Calls, Jobs
<1>1. /\ call[r] = "read" /\ call' = [call EXCEPT ![r] = "done"]
      /\ exportReq' = [exportReq EXCEPT ![r] = "rejected"]
      /\ UNCHANGED <<exp, job, exporting, file, told, raced, exportFaults>>
  BY DEF Deployed!GenerateQueues
<1>2. Faulty!TypeOK'
  BY <1>t, <1>1 DEF Faulty!TypeOK, Asked, Calls
<1>3. \A q \in Requests : JobLeft(q)'
  BY <1>t, <1>1 DEF JobLeft, Calls, Faulty!JobAttempts
<1>4. Exclusive' /\ Faulty!CompletedHasFile'
  BY <1>t, <1>1 DEF ExportInv, Exclusive, Holds, Faulty!InProgress, Faulty!CompletedHasFile
<1>5. \A w \in Runners : Uploaded(w)'
  BY <1>1 DEF ExportInv, Uploaded
<1> QED BY <1>2, <1>3, <1>4, <1>5 DEF ExportInv

LEMMA ExportAlone == ExportInv => Faulty!OneInProgress
<1> SUFFICES ASSUME ExportInv, ~raced PROVE Faulty!Cardinality(Faulty!Pending) <= 1
  BY DEF ExportInv, Faulty!TypeOK, Faulty!OneInProgress
<1>1. \A q, r \in Faulty!Pending : q = r
  BY DEF ExportInv, Exclusive, Holds, Faulty!Pending
<1>2. Cardinality(Faulty!Pending) <= 1
  BY <1>1, AtMostOne
<1> QED BY <1>2 DEF Faulty!Cardinality, Cardinality

-----------------------------------------------------------------------------
\* Uploads. A call that stored the canonical object finds it there as long as the
\* receipt is not taken from it, and works on a receipt that exists.
Used == {"FINALIZED", "CONSUMED"}
CallKnows(f) ==
    /\ finalizing[f].pc # "idle" => status[finalizing[f].of] # "none"
    /\ finalizing[f].pc \in {"clear", "finish"} =>
          canonical[finalizing[f].of] \/ status[finalizing[f].of] # "QUARANTINED"

\* Only the object of an old receipt is swept; one consumed meanwhile was overtaken.
SweepKnows ==
    /\ sweep.pc = "canonical" => sweep.key
    /\ sweep.pc # "idle" /\ sweep.key =>
          /\ age[sweep.of] = "old" /\ status[sweep.of] \in Used \cup {"EXPIRED"}
          /\ status[sweep.of] = "CONSUMED" => sweep.of \in overran

\* A consumer's transaction holds a finalized row, and grew old inside it if at all.
UseKnows(r) == r \in consuming => status[r] = "FINALIZED" /\ (age[r] = "old" => r \in overran)

\* Nothing is taken back from several calls at once: storage works, or there is one call.
Serial ==
    IF part = "twice" THEN \A f \in Finalizers : finalizing[f].pc # "undo"
    ELSE OneCall /\ \A f \in Finalizers : finalizing[f].pc # "idle" => status[finalizing[f].of] \notin Used

Stages == {"none", "QUARANTINED", "FINALIZED", "CONSUMED", "REJECTED", "EXPIRED"}
Ages == {"fresh", "stale", "old"}
Finalizings == [pc : Failing!AtStep, of : Receipts]
Sweeps == [pc : {"raw", "canonical", "row"}, of : Receipts, key : BOOLEAN]
Links == [pc : {"authorized", "signed", "delivered"}, of : Receipts]
MediaTypes ==
    /\ status \in [Receipts -> Stages] /\ age \in [Receipts -> Ages]
    /\ raw \in [Receipts -> {"none", "valid", "bad"}] /\ canonical \in [Receipts -> BOOLEAN]
    /\ finalizing \in [Finalizers -> {Failing!Idle} \cup Finalizings]
    /\ sweep \in {Failing!Idle} \cup Sweeps
    /\ consuming \subseteq Receipts /\ overran \subseteq Receipts /\ member \subseteq Viewers
    /\ link \in [Viewers -> {Failing!Idle} \cup Links] /\ log \subseteq Viewers \X Receipts

MediaInv ==
    /\ MediaTypes /\ SweepKnows /\ Serial
    /\ \A f \in Finalizers : CallKnows(f)
    /\ \A r \in Receipts : UseKnows(r)
    /\ Failing!ReceiptHasObject /\ Failing!DeliveredIsLogged

LEMMA MediaTyped == Failing!TypeOK <=> MediaTypes
  BY DEF Failing!TypeOK, MediaTypes, Stages, Ages, Finalizings, Sweeps, Links

LEMMA MediaInit == Failing!MediaAssumption /\ Failing!Init => MediaInv
<1> SUFFICES ASSUME Failing!Init PROVE MediaInv
  OBVIOUS
<1>1. MediaTypes
  BY DEF Failing!Init, MediaTypes, Stages, Ages
<1>2. /\ \A f \in Finalizers : finalizing[f] = Failing!Idle
      /\ \A v \in Viewers : link[v] = Failing!Idle
      /\ \A r \in Receipts : status[r] = "none"
      /\ sweep.pc = "idle" /\ consuming = {} /\ Failing!Idle.pc = "idle"
  BY DEF Failing!Init, Failing!Idle
<1>3. SweepKnows /\ Serial /\ \A f \in Finalizers : CallKnows(f)
  BY <1>2 DEF SweepKnows, Serial, OneCall, CallKnows
<1>4. (\A r \in Receipts : UseKnows(r)) /\ Failing!ReceiptHasObject /\ Failing!DeliveredIsLogged
  BY <1>2 DEF UseKnows, Failing!ReceiptHasObject, Failing!DeliveredIsLogged
<1> QED BY <1>1, <1>3, <1>4 DEF MediaInv

\* A call's move: to its next step, or to its end.
LEMMA CallMoves ==
    ASSUME MediaTypes, NEW f \in Finalizers
    PROVE  /\ finalizing[f].pc # "idle" <=> finalizing[f] # Failing!Idle
           /\ finalizing[f].pc # "idle" => finalizing[f].of \in Receipts
           /\ \A pc \in Failing!AtStep : Failing!Goto(f, pc) /\ finalizing[f].pc # "idle" =>
                  /\ finalizing' \in [Finalizers -> {Failing!Idle} \cup Finalizings]
                  /\ finalizing'[f].pc = pc /\ finalizing'[f].of = finalizing[f].of
                  /\ \A g \in Finalizers \ {f} : finalizing'[g] = finalizing[g]
           /\ Failing!Return(f) =>
                  /\ finalizing' \in [Finalizers -> {Failing!Idle} \cup Finalizings]
                  /\ finalizing'[f].pc = "idle"
                  /\ \A g \in Finalizers \ {f} : finalizing'[g] = finalizing[g]
<1>1. finalizing[f] = Failing!Idle \/ finalizing[f] \in Finalizings
  BY DEF MediaTypes
<1>2. Failing!Idle.pc = "idle" /\ \A c \in Finalizings : c.pc # "idle" /\ c.of \in Receipts
  BY DEF Failing!Idle, Finalizings, Failing!AtStep
<1>3. ASSUME NEW pc \in Failing!AtStep, Failing!Goto(f, pc), finalizing[f].pc # "idle"
      PROVE  /\ finalizing' \in [Finalizers -> {Failing!Idle} \cup Finalizings]
             /\ finalizing'[f].pc = pc /\ finalizing'[f].of = finalizing[f].of
             /\ \A g \in Finalizers \ {f} : finalizing'[g] = finalizing[g]
  <2> DEFINE c == [finalizing[f] EXCEPT !.pc = pc]
  <2>1. c \in Finalizings /\ c.pc = pc /\ c.of = finalizing[f].of
    BY <1>1, <1>2, <1>3 DEF Finalizings
  <2>2. finalizing' = [finalizing EXCEPT ![f] = c]
    BY <1>3 DEF Failing!Goto
  <2> HIDE DEF c
  <2> QED BY <2>1, <2>2 DEF MediaTypes
<1>4. ASSUME Failing!Return(f)
      PROVE  /\ finalizing' \in [Finalizers -> {Failing!Idle} \cup Finalizings]
             /\ finalizing'[f].pc = "idle"
             /\ \A g \in Finalizers \ {f} : finalizing'[g] = finalizing[g]
  BY <1>2, <1>4 DEF Failing!Return, MediaTypes
<1> QED BY <1>1, <1>2, <1>3, <1>4

\* The client, time and the consumers.
RowSteps(r) ==
    \/ Failing!GetPresignedUrl(r) \/ Failing!PutObject(r) \/ Failing!GrowsOld(r)
    \/ Failing!Consume(r) \/ Failing!Commit(r)

LEMMA RowStep ==
    ASSUME MediaInv, NEW r \in Receipts, RowSteps(r), part' = part
    PROVE  MediaInv'
<1>t. /\ MediaTypes /\ SweepKnows /\ Serial /\ Failing!ReceiptHasObject /\ Failing!DeliveredIsLogged
      /\ \A f \in Finalizers : CallKnows(f)
      /\ \A q \in Receipts : UseKnows(q)
  BY DEF MediaInv
<1>c. /\ canonical' = canonical /\ finalizing' = finalizing /\ sweep' = sweep /\ link' = link /\ log' = log
      /\ member' = member
  BY DEF RowSteps, Failing!GetPresignedUrl, Failing!PutObject, Failing!GrowsOld, Failing!Consume, Failing!Commit,
     Failing!linkVars, Failing!useVars, Failing!rowVars
<1>i. \A f \in Finalizers : /\ finalizing[f].pc # "idle" => finalizing[f].of \in Receipts
                            /\ finalizing[f].pc # "idle" <=> finalizing[f] # Failing!Idle
  BY <1>t, CallMoves
<1>s. sweep.pc # "idle" => sweep.of \in Receipts
  BY <1>t DEF MediaTypes, Sweeps, Failing!Idle
<1>1. MediaTypes'
  <2>1. status' \in [Receipts -> Stages] /\ age' \in [Receipts -> Ages]
    BY <1>t DEF MediaTypes, RowSteps, Failing!GetPresignedUrl, Failing!PutObject, Failing!GrowsOld, Failing!Consume,
       Failing!Commit, Failing!rowVars, Stages, Ages
  <2>2. raw' \in [Receipts -> {"none", "valid", "bad"}]
    BY <1>t DEF MediaTypes, RowSteps, Failing!GetPresignedUrl, Failing!PutObject, Failing!GrowsOld, Failing!Consume,
       Failing!Commit
  <2>3. consuming' \subseteq Receipts /\ overran' \subseteq Receipts
    BY <1>t DEF MediaTypes, RowSteps, Failing!GetPresignedUrl, Failing!PutObject, Failing!GrowsOld, Failing!Consume,
       Failing!Commit, Failing!useVars
  <2> QED BY <1>t, <1>c, <2>1, <2>2, <2>3 DEF MediaTypes
\* What a row becomes, and what its consumers know.
<1>2. /\ \A q \in Receipts : \/ status'[q] = status[q]
                             \/ status[q] = "none" /\ status'[q] = "QUARANTINED"
                             \/ /\ status[q] = "FINALIZED" /\ status'[q] = "CONSUMED"
                                /\ q \in consuming
      /\ \A q \in Receipts : age[q] = "old" => age'[q] = "old"
      /\ overran \subseteq overran'
  BY <1>t DEF MediaTypes, UseKnows, RowSteps, Failing!GetPresignedUrl, Failing!PutObject, Failing!GrowsOld,
     Failing!Consume, Failing!Commit, Failing!rowVars, Failing!useVars
<1>3. \A q \in Receipts : UseKnows(q)'
  <2>1. CASE Failing!GrowsOld(r)
    BY <1>t, <2>1 DEF MediaTypes, Failing!GrowsOld, UseKnows, Ages
  <2>2. CASE Failing!GetPresignedUrl(r) \/ Failing!PutObject(r)
    BY <1>t, <2>2 DEF MediaTypes, Failing!GetPresignedUrl, Failing!PutObject, UseKnows, Failing!useVars, Failing!rowVars
  <2>3. CASE Failing!Consume(r) \/ Failing!Commit(r)
    BY <1>t, <2>3 DEF MediaTypes, Failing!Consume, Failing!Commit, UseKnows, Failing!rowVars
  <2> QED BY <2>1, <2>2, <2>3 DEF RowSteps
<1>4. \A f \in Finalizers : CallKnows(f)'
  BY <1>t, <1>c, <1>i, <1>2 DEF CallKnows
<1>5. SweepKnows'
  BY <1>t, <1>c, <1>s, <1>2 DEF SweepKnows, Used, UseKnows
<1>6. Serial'
  BY <1>t, <1>c, <1>i, <1>2 DEF Serial, OneCall, Used
<1>7. Failing!ReceiptHasObject' /\ Failing!DeliveredIsLogged'
  <2>1. ASSUME NEW q \in Receipts, status'[q] \in Used, ~canonical[q]
        PROVE  (status'[q] = "FINALIZED" /\ age'[q] = "old") \/ q \in overran'
    <3>1. status[q] \in Used
      BY <1>2, <2>1 DEF Used
    <3>2. (status[q] = "FINALIZED" /\ age[q] = "old") \/ q \in overran
      BY <1>t, <2>1, <3>1 DEF Failing!ReceiptHasObject, Failing!Due, Used
    <3> QED BY <1>t, <1>2, <2>1, <3>2 DEF UseKnows
  <2> QED BY <1>t, <1>c, <2>1 DEF Failing!ReceiptHasObject, Failing!DeliveredIsLogged, Failing!Due, Used
<1> QED BY <1>1, <1>3, <1>4, <1>5, <1>6, <1>7 DEF MediaInv

\* The calls of finalizeMediaUpload.
CallSteps(f) == (\E r \in Receipts : Failing!Finalize(f, r)) \/ Failing!Continue(f) \/ Failing!Die(f)

\* What a call's step can do to its own receipt, as it stood.
Moves(f) ==
    LET r == finalizing[f].of IN
    /\ \A g \in Finalizers \ {f} : finalizing'[g] = finalizing[g]
    /\ finalizing' \in [Finalizers -> {Failing!Idle} \cup Finalizings]
    /\ raw' \in [Receipts -> {"none", "valid", "bad"}]
    /\ UNCHANGED <<age, sweep, consuming, overran, member, link, log>>
    /\ \/ /\ finalizing[f].pc = "idle" /\ finalizing'[f].of \in Receipts
          /\ finalizing'[f].pc \in {"download", "drop"} /\ status[finalizing'[f].of] = "QUARANTINED"
          /\ UNCHANGED <<status, canonical>>
       \/ /\ finalizing[f].pc # "idle" /\ finalizing'[f].pc # "idle" /\ finalizing'[f].of = r
          /\ UNCHANGED status
          /\ \/ finalizing[f].pc = "store" /\ finalizing'[f].pc = "clear" /\ canonical' = [canonical EXCEPT ![r] = TRUE]
             \/ /\ UNCHANGED canonical
                /\ finalizing'[f].pc = "clear" => FALSE
                /\ finalizing'[f].pc = "finish" => finalizing[f].pc = "clear" \/ canonical[r]
       \/ /\ finalizing[f].pc # "idle" /\ finalizing'[f].pc = "idle"
          /\ \/ UNCHANGED <<status, canonical>>
             \/ /\ finalizing[f].pc = "undo" /\ UNCHANGED status
                /\ canonical' = [canonical EXCEPT ![r] = FALSE]
             \/ /\ finalizing[f].pc = "finish" /\ status[r] = "QUARANTINED" /\ UNCHANGED canonical
                /\ status' = [status EXCEPT ![r] = "FINALIZED"]
             \/ /\ status[r] = "QUARANTINED" /\ UNCHANGED canonical
                /\ status' = [status EXCEPT ![r] = "REJECTED"]

LEMMA CallsMove == ASSUME MediaTypes, NEW f \in Finalizers, CallSteps(f) PROVE Moves(f)
<1>i. /\ finalizing[f].pc # "idle" <=> finalizing[f] # Failing!Idle
      /\ finalizing[f].pc # "idle" => finalizing[f].of \in Receipts
      /\ raw \in [Receipts -> {"none", "valid", "bad"}] /\ status \in [Receipts -> Stages]
  BY CallMoves DEF MediaTypes
<1>1. ASSUME NEW r \in Receipts, Failing!Finalize(f, r)
      PROVE  Moves(f)
  <2>1. PICK pc \in {"download", "drop"} : finalizing' = [finalizing EXCEPT ![f] = [pc |-> pc, of |-> r]]
    BY <1>1 DEF Failing!Finalize
  <2>2. [pc |-> pc, of |-> r] \in Finalizings
    BY DEF Finalizings, Failing!AtStep
  <2>3. /\ finalizing'[f].pc = pc /\ finalizing'[f].of = r
        /\ finalizing' \in [Finalizers -> {Failing!Idle} \cup Finalizings]
        /\ \A g \in Finalizers \ {f} : finalizing'[g] = finalizing[g]
    BY <2>1, <2>2 DEF MediaTypes
  <2> QED BY <1>i, <1>1, <2>3 DEF Moves, Failing!Finalize, Failing!rowVars, Failing!useVars, Failing!linkVars
<1>d. ASSUME Failing!Continue(f) \/ Failing!Die(f)
      PROVE  /\ finalizing[f].pc # "idle" /\ UNCHANGED <<age, sweep, consuming, overran, member, link, log>>
             /\ raw' \in [Receipts -> {"none", "valid", "bad"}]
  BY <1>i, <1>d DEF Failing!Continue, Failing!Die, Failing!Download, Failing!DropRaw, Failing!Reject, Failing!Store,
     Failing!ClearRaw, Failing!Undo, Failing!Finish, Failing!Recover, Failing!At, Failing!rowVars, Failing!useVars,
     Failing!linkVars
<1>2. ASSUME NEW pc \in Failing!AtStep \ {"clear"}, Failing!Goto(f, pc), Failing!Continue(f),
             pc = "finish" => finalizing[f].pc = "clear" \/ canonical[finalizing[f].of], UNCHANGED <<status, canonical>>
      PROVE  Moves(f)
  BY <1>d, <1>2, CallMoves DEF Moves
<1>3. CASE Failing!Download(f)
  <2>1. PICK pc \in {"recover", "drop", "store"} : Failing!Goto(f, pc)
    BY <1>3 DEF Failing!Download
  <2> QED BY <1>2, <1>3, <2>1 DEF Failing!Continue, Failing!Download, Failing!AtStep, Failing!rowVars
<1>4. CASE Failing!DropRaw(f)
  BY <1>2, <1>4 DEF Failing!Continue, Failing!DropRaw, Failing!AtStep, Failing!rowVars
<1>5. CASE Failing!Store(f)
  <2>1. CASE Failing!Goto(f, "undo") /\ UNCHANGED canonical
    BY <1>2, <1>5, <2>1 DEF Failing!Continue, Failing!Store, Failing!AtStep, Failing!rowVars
  <2>2. CASE canonical' = [canonical EXCEPT ![finalizing[f].of] = TRUE] /\ Failing!Goto(f, "clear")
    <3>1. "clear" \in Failing!AtStep /\ finalizing[f].pc = "store" /\ UNCHANGED status
      BY <1>5 DEF Failing!AtStep, Failing!Store, Failing!At, Failing!rowVars
    <3> QED BY <1>d, <1>5, <2>2, <3>1, CallMoves DEF Moves, Failing!Continue
  <2> QED BY <1>5, <2>1, <2>2 DEF Failing!Store
<1>6. CASE Failing!ClearRaw(f)
  BY <1>2, <1>6 DEF Failing!Continue, Failing!ClearRaw, Failing!At, Failing!AtStep, Failing!rowVars
<1>7. CASE Failing!Recover(f)
  <2>1. CASE canonical[finalizing[f].of]
    BY <1>2, <1>7, <2>1 DEF Failing!Continue, Failing!Recover, Failing!AtStep, Failing!rowVars
  <2>2. CASE ~canonical[finalizing[f].of]
    BY <1>d, <1>7, <2>2, CallMoves DEF Moves, Failing!Continue, Failing!Recover, Failing!rowVars
  <2> QED BY <2>1, <2>2
<1>8. CASE Failing!Undo(f)
  BY <1>d, <1>8, CallMoves DEF Moves, Failing!Continue, Failing!Undo, Failing!At, Failing!rowVars
<1>9. ASSUME NEW s \in {"FINALIZED", "REJECTED"}, Failing!Return(f), Failing!Continue(f), canonical' = canonical,
             s = "FINALIZED" => finalizing[f].pc = "finish",
             status' = [status EXCEPT ![finalizing[f].of] = IF @ = "QUARANTINED" THEN s ELSE @]
      PROVE  Moves(f)
  <2>1. CASE status[finalizing[f].of] = "QUARANTINED"
    <3>1. status' = [status EXCEPT ![finalizing[f].of] = s]
      BY <1>9, <2>1
    <3> QED BY <1>d, <1>9, <2>1, <3>1, CallMoves DEF Moves
  <2>2. CASE status[finalizing[f].of] # "QUARANTINED"
    <3>1. status' = status
      BY <1>i, <1>9, <2>2
    <3> QED BY <1>d, <1>9, <3>1, CallMoves DEF Moves
  <2> QED BY <2>1, <2>2
<1>10. CASE Failing!Finish(f)
  BY <1>9, <1>10 DEF Failing!Continue, Failing!Finish, Failing!At
<1>11. CASE Failing!Reject(f)
  BY <1>9, <1>11 DEF Failing!Continue, Failing!Reject
<1>12. CASE Failing!Die(f)
  BY <1>d, <1>12, CallMoves DEF Moves, Failing!Die, Failing!rowVars
<1> QED
  BY <1>1, <1>3, <1>4, <1>5, <1>6, <1>7, <1>8, <1>10, <1>11, <1>12 DEF CallSteps, Failing!Continue

LEMMA CallStep ==
    ASSUME MediaInv, NEW f \in Finalizers, CallSteps(f), part' = part,
           IF part = "twice" THEN \A g \in Finalizers : finalizing'[g].pc # "undo" ELSE OneCall'
    PROVE  MediaInv'
<1>t. /\ MediaTypes /\ SweepKnows /\ Serial /\ Failing!ReceiptHasObject /\ Failing!DeliveredIsLogged
      /\ \A g \in Finalizers : CallKnows(g)
      /\ \A q \in Receipts : UseKnows(q)
      /\ Moves(f) /\ UNCHANGED <<age, sweep, consuming, overran, member, link, log>>
  BY CallsMove DEF MediaInv, Moves
<1>i. \A g \in Finalizers : /\ finalizing[g].pc # "idle" => finalizing[g].of \in Receipts
                            /\ finalizing[g].pc # "idle" <=> finalizing[g] # Failing!Idle
  BY <1>t, CallMoves
<1>s. sweep.pc # "idle" => sweep.of \in Receipts
  BY <1>t DEF MediaTypes, Sweeps, Failing!Idle
<1>1. MediaTypes'
  <2>1. status' \in [Receipts -> Stages] /\ canonical' \in [Receipts -> BOOLEAN]
    BY <1>t DEF MediaTypes, Moves, Stages
  <2> QED BY <1>t, <2>1 DEF MediaTypes, Moves
<1>2. \A q \in Receipts : \/ status'[q] = status[q]
                          \/ status[q] = "QUARANTINED" /\ status'[q] \in {"FINALIZED", "REJECTED"}
  BY <1>t DEF MediaTypes, Moves
<1>3. (\A q \in Receipts : UseKnows(q)') /\ SweepKnows' /\ Failing!DeliveredIsLogged'
  BY <1>t, <1>s, <1>2 DEF UseKnows, SweepKnows, Used, Failing!DeliveredIsLogged
\* The object that is taken back is nobody else's.
<1>4. ASSUME NEW q \in Receipts, canonical[q], ~canonical'[q]
      PROVE  /\ part # "twice" /\ status'[q] \notin Used
             /\ \A g \in Finalizers : finalizing'[g].pc = "idle"
  <2>1. finalizing[f].pc = "undo" /\ q = finalizing[f].of /\ finalizing'[f].pc = "idle" /\ status' = status
    BY <1>t, <1>4 DEF Moves, MediaTypes
  <2>2. part # "twice" /\ status[q] \notin Used /\ \A g \in Finalizers \ {f} : finalizing[g].pc = "idle"
    BY <1>t, <1>i, <2>1 DEF Serial, OneCall
  <2> QED BY <1>t, <2>1, <2>2 DEF Moves
<1>5. ASSUME NEW g \in Finalizers
      PROVE  CallKnows(g)'
  <2>1. CASE g # f
    <3>1. finalizing'[g] = finalizing[g]
      BY <1>t, <2>1 DEF Moves
    <3> QED BY <1>t, <1>i, <1>2, <1>4, <3>1 DEF CallKnows
  <2>2. CASE g = f /\ finalizing[f].pc = "idle"
    BY <1>t, <2>2 DEF CallKnows, Moves
  <2>3. CASE g = f /\ finalizing[f].pc # "idle" /\ finalizing'[f].pc # "idle"
    BY <1>t, <1>i, <2>3 DEF CallKnows, Moves, MediaTypes
  <2>4. CASE g = f /\ finalizing'[f].pc = "idle"
    BY <2>4 DEF CallKnows
  <2> QED BY <2>1, <2>2, <2>3, <2>4
<1>6. Serial'
  <2>1. CASE part = "twice"
    BY <2>1 DEF Serial
  <2>2. ASSUME part # "twice", NEW g \in Finalizers, finalizing'[g].pc # "idle"
        PROVE  status'[finalizing'[g].of] \notin Used
    <3>1. CASE g = f
      BY <1>t, <2>2, <3>1 DEF Moves, Serial, Used
    <3>2. CASE g # f
      <4>1. finalizing'[g] = finalizing[g] /\ finalizing[f].pc = "idle"
        BY <1>t, <1>i, <2>2, <3>2 DEF Moves, Serial, OneCall
      <4>2. status' = status
        BY <1>t, <4>1 DEF Moves
      <4> QED BY <1>t, <2>2, <4>1, <4>2 DEF Serial
    <3> QED BY <3>1, <3>2
  <2> QED BY <2>1, <2>2 DEF Serial
<1>7. Failing!ReceiptHasObject'
  <2>1. ASSUME NEW q \in Receipts, status'[q] \in Used, ~canonical'[q]
        PROVE  (status'[q] = "FINALIZED" /\ age[q] = "old") \/ q \in overran
    <3>1. ~canonical[q]
      BY <1>4, <2>1
    <3>2. CASE status'[q] = status[q]
      BY <1>t, <2>1, <3>1, <3>2 DEF Failing!ReceiptHasObject, Failing!Due, Used
    <3>3. CASE status'[q] # status[q]
      <4>1. finalizing[f].pc = "finish" /\ finalizing[f].of = q /\ status[q] = "QUARANTINED"
        BY <1>t, <2>1, <3>3 DEF Moves, MediaTypes, Used
      <4> QED BY <1>t, <3>1, <4>1 DEF CallKnows
    <3> QED BY <3>2, <3>3
  <2> QED BY <1>t, <2>1 DEF Failing!ReceiptHasObject, Failing!Due, Used
<1> QED BY <1>1, <1>3, <1>5, <1>6, <1>7 DEF MediaInv

\* The sweep.
LEMMA SweepStep ==
    ASSUME MediaInv, Failing!Sweeper, part' = part
    PROVE  MediaInv'
<1>t. /\ MediaTypes /\ SweepKnows /\ Serial /\ Failing!ReceiptHasObject /\ Failing!DeliveredIsLogged
      /\ \A g \in Finalizers : CallKnows(g)
      /\ \A q \in Receipts : UseKnows(q)
      /\ UNCHANGED <<age, finalizing, consuming, overran, member, link, log>>
  BY DEF MediaInv, Failing!Sweeper, Failing!Select, Failing!SweepRaw, Failing!SweepCanonical, Failing!Expire,
     Failing!rowVars, Failing!useVars, Failing!linkVars
<1>i. \A g \in Finalizers : finalizing[g].pc # "idle" => finalizing[g].of \in Receipts
  BY <1>t, CallMoves
<1>s. /\ sweep.pc # "idle" => sweep \in Sweeps /\ sweep.of \in Receipts /\ sweep.key \in BOOLEAN
      /\ Failing!Idle.pc = "idle"
  BY <1>t DEF MediaTypes, Sweeps, Failing!Idle
<1>o. ASSUME MediaTypes', SweepKnows',
             \A q \in Receipts : \/ status'[q] = status[q]
                                 \/ status'[q] = "EXPIRED" /\ q \notin consuming /\ status[q] # "none",
             \A q \in Receipts : canonical[q] /\ ~canonical'[q] =>
                 status[q] # "QUARANTINED" /\ (status'[q] \in Used => Failing!Due(q) \/ q \in overran)
      PROVE  MediaInv'
  <2>1. \A g \in Finalizers : CallKnows(g)'
    BY <1>t, <1>i, <1>o DEF CallKnows
  <2>2. Serial' /\ \A q \in Receipts : UseKnows(q)'
    BY <1>t, <1>i, <1>o DEF Serial, OneCall, UseKnows, Used
  <2>3. Failing!ReceiptHasObject' /\ Failing!DeliveredIsLogged'
    BY <1>t, <1>o DEF Failing!ReceiptHasObject, Failing!DeliveredIsLogged, Failing!Due, Used
  <2> QED BY <1>o, <2>1, <2>2, <2>3 DEF MediaInv
<1>1. ASSUME NEW r \in Receipts, Failing!Select(r)
      PROVE  MediaInv'
  <2>1. sweep' = [pc |-> "raw", of |-> r, key |-> status[r] = "FINALIZED"] /\ UNCHANGED <<status, raw, canonical>>
    BY <1>1 DEF Failing!Select, Failing!rowVars
  <2>2. sweep' \in Sweeps
    BY <2>1 DEF Sweeps
  <2>3. SweepKnows'
    <3>1. sweep'.pc = "raw" /\ sweep'.of = r /\ (sweep'.key => status[r] = "FINALIZED")
      BY <2>1
    <3>2. status[r] = "FINALIZED" => age[r] = "old"
      BY <1>1 DEF Failing!Select, Failing!Due
    <3> QED BY <1>t, <2>1, <3>1, <3>2 DEF SweepKnows, Used
  <2> QED BY <1>t, <1>o, <2>1, <2>2, <2>3 DEF MediaTypes
<1>2. ASSUME NEW pc \in {"canonical", "row"}, sweep' = [sweep EXCEPT !.pc = pc], sweep.pc # "idle",
             pc = "canonical" => sweep.key, UNCHANGED status
      PROVE  SweepKnows' /\ sweep' \in Sweeps
  <2>1. sweep'.pc = pc /\ sweep'.of = sweep.of /\ sweep'.key = sweep.key /\ sweep' \in Sweeps
    BY <1>s, <1>2 DEF Sweeps
  <2> QED BY <1>t, <1>2, <2>1 DEF SweepKnows
<1>3. ASSUME sweep' = Failing!Idle
      PROVE  SweepKnows' /\ sweep' \in {Failing!Idle} \cup Sweeps
  BY <1>s, <1>3 DEF SweepKnows
<1>4. CASE Failing!SweepRaw
  <2>1. SweepKnows' /\ sweep' \in {Failing!Idle} \cup Sweeps
    BY <1>2, <1>3, <1>4 DEF Failing!SweepRaw, Failing!rowVars
  <2>2. raw' \in [Receipts -> {"none", "valid", "bad"}] /\ UNCHANGED <<status, canonical>>
    BY <1>t, <1>4 DEF Failing!SweepRaw, Failing!rowVars, MediaTypes
  <2> QED BY <1>t, <1>o, <2>1, <2>2 DEF MediaTypes
<1>5. CASE Failing!SweepCanonical
  <2>1. SweepKnows' /\ sweep' \in {Failing!Idle} \cup Sweeps
    BY <1>2, <1>3, <1>5 DEF Failing!SweepCanonical, Failing!rowVars
  <2>2. canonical' \in [Receipts -> BOOLEAN] /\ UNCHANGED <<status, raw>>
    BY <1>t, <1>5 DEF Failing!SweepCanonical, Failing!rowVars, MediaTypes
  <2>3. \A q \in Receipts : canonical[q] /\ ~canonical'[q] => q = sweep.of
    BY <1>t, <1>5 DEF Failing!SweepCanonical, MediaTypes
  <2>4. /\ status[sweep.of] # "QUARANTINED"
        /\ status[sweep.of] \in Used => Failing!Due(sweep.of) \/ sweep.of \in overran
    BY <1>t, <1>5 DEF Failing!SweepCanonical, SweepKnows, Failing!Due, Used
  <2> QED BY <1>t, <1>o, <2>1, <2>2, <2>3, <2>4 DEF MediaTypes
<1>6. CASE Failing!Expire
  <2>1. SweepKnows' /\ sweep' \in {Failing!Idle} \cup Sweeps /\ UNCHANGED <<raw, canonical>>
    BY <1>3, <1>6 DEF Failing!Expire
  <2>2. /\ status' \in [Receipts -> Stages]
        /\ \A q \in Receipts : \/ status'[q] = status[q]
                               \/ status'[q] = "EXPIRED" /\ q \notin consuming /\ status[q] # "none"
    BY <1>t, <1>6 DEF Failing!Expire, Failing!Due, MediaTypes, Stages
  <2> QED BY <1>t, <1>o, <2>1, <2>2 DEF MediaTypes
<1> QED BY <1>1, <1>4, <1>5, <1>6 DEF Failing!Sweeper

\* The viewers: what was handed out is in the log.
LinkSteps(v) ==
    \/ \E r \in Receipts : Failing!LoadAuthorizedReceipts(v, r)
    \/ Failing!SignObject(v) \/ Failing!StoreAccessAudit(v) \/ Failing!Leave(v)

LEMMA LinkStep ==
    ASSUME MediaInv, NEW v \in Viewers, LinkSteps(v), part' = part
    PROVE  MediaInv'
<1>t. /\ MediaTypes /\ Failing!DeliveredIsLogged
      /\ UNCHANGED <<status, age, raw, canonical, finalizing, sweep, consuming, overran>>
  BY DEF MediaInv, LinkSteps, Failing!LoadAuthorizedReceipts, Failing!SignObject, Failing!StoreAccessAudit,
     Failing!Leave, Failing!rowVars, Failing!useVars
<1>i. link[v].pc # "idle" => link[v] \in Links /\ link[v].of \in Receipts
  BY <1>t DEF MediaTypes, Links, Failing!Idle
<1>o. ASSUME MediaTypes', Failing!DeliveredIsLogged'
      PROVE  MediaInv'
  BY <1>t, <1>o DEF MediaInv, SweepKnows, Serial, OneCall, CallKnows, UseKnows, Failing!ReceiptHasObject, Failing!Due
<1>l. ASSUME NEW l \in {Failing!Idle} \cup Links, link' = [link EXCEPT ![v] = l], UNCHANGED member, log \subseteq log',
             log' \subseteq Viewers \X Receipts, l # Failing!Idle /\ l.pc = "delivered" => <<v, l.of>> \in log'
      PROVE  MediaInv'
  <2>1. MediaTypes'
    BY <1>t, <1>l DEF MediaTypes
  <2>2. Failing!DeliveredIsLogged'
    BY <1>t, <1>l DEF MediaTypes, Failing!DeliveredIsLogged
  <2> QED BY <1>o, <2>1, <2>2
<1>1. ASSUME NEW r \in Receipts, Failing!LoadAuthorizedReceipts(v, r)
      PROVE  MediaInv'
  <2>1. [pc |-> "authorized", of |-> r] \in Links
    BY DEF Links
  <2> QED BY <1>t, <1>l, <1>1, <2>1 DEF Failing!LoadAuthorizedReceipts, MediaTypes
<1>2. ASSUME NEW pc \in {"signed", "delivered"}, link[v].pc # "idle"
      PROVE  LET l == [link[v] EXCEPT !.pc = pc] IN l \in Links /\ l.pc = pc /\ l.of = link[v].of
  BY <1>i, <1>2 DEF Links
<1>3. CASE Failing!SignObject(v)
  <2>1. UNCHANGED <<member, log>> /\ link[v].pc # "idle" /\ log \subseteq Viewers \X Receipts
    BY <1>t, <1>3 DEF Failing!SignObject, MediaTypes
  <2>2. CASE link' = [link EXCEPT ![v] = Failing!Idle]
    BY <1>l, <2>1, <2>2
  <2>3. CASE link' = [link EXCEPT ![v].pc = "signed"]
    <3> DEFINE l == [link[v] EXCEPT !.pc = "signed"]
    <3>1. l \in Links /\ l.pc = "signed" /\ link' = [link EXCEPT ![v] = l]
      BY <1>2, <2>1, <2>3
    <3> HIDE DEF l
    <3> QED BY <1>l, <2>1, <3>1
  <2> QED BY <1>3, <2>2, <2>3 DEF Failing!SignObject
<1>4. CASE Failing!StoreAccessAudit(v)
  <2>1. UNCHANGED member /\ link[v].pc # "idle" /\ log \subseteq Viewers \X Receipts
    BY <1>t, <1>4 DEF Failing!StoreAccessAudit, MediaTypes
  <2>2. CASE link' = [link EXCEPT ![v] = Failing!Idle] /\ UNCHANGED log
    BY <1>l, <2>1, <2>2
  <2>3. CASE log' = log \cup {<<v, link[v].of>>} /\ link' = [link EXCEPT ![v].pc = "delivered"]
    <3> DEFINE l == [link[v] EXCEPT !.pc = "delivered"]
    <3>1. l \in Links /\ l.of = link[v].of /\ link' = [link EXCEPT ![v] = l]
      BY <1>2, <2>1, <2>3
    <3>2. log' \subseteq Viewers \X Receipts /\ log \subseteq log' /\ <<v, link[v].of>> \in log'
      BY <1>i, <2>1, <2>3
    <3> HIDE DEF l
    <3> QED BY <1>l, <2>1, <3>1, <3>2
  <2> QED BY <1>4, <2>2, <2>3 DEF Failing!StoreAccessAudit
<1>5. CASE Failing!Leave(v)
  BY <1>t, <1>o, <1>5 DEF Failing!Leave, MediaTypes, Failing!DeliveredIsLogged
<1> QED BY <1>1, <1>3, <1>4, <1>5 DEF LinkSteps

LEMMA MediaStep ==
    ASSUME MediaInv, [Failing!Next]_(Failing!vars), part' = part,
           IF part = "twice" THEN \A g \in Finalizers : finalizing'[g].pc # "undo" ELSE OneCall'
    PROVE  MediaInv'
<1>1. CASE UNCHANGED Failing!vars
  BY <1>1 DEF Failing!vars, MediaInv, MediaTypes, SweepKnows, Serial, OneCall, CallKnows, UseKnows,
     Failing!ReceiptHasObject, Failing!Due, Failing!DeliveredIsLogged
<1>2. CASE \E r \in Receipts : RowSteps(r)
  BY <1>2, RowStep
<1>3. CASE \E f \in Finalizers : CallSteps(f)
  BY <1>3, CallStep
<1>4. CASE \E v \in Viewers : LinkSteps(v)
  BY <1>4, LinkStep
<1> QED BY <1>1, <1>2, <1>3, <1>4, SweepStep DEF Failing!Next, RowSteps, CallSteps, LinkSteps

-----------------------------------------------------------------------------
\* The run: each part keeps the invariant of its module, and a part moves nothing but
\* its own variables. The parts without faults only do less.
PrivacyInv == Assumptions /\ part \in Parts /\ ExportInv /\ ErasureInv /\ MediaInv
moved == <<part, exportVars, erasureVars, mediaVars>>

LEMMA CalmIsFaulty == Calm!Next => Faulty!Next
<1>1. \A k : ~Calm!Fault(k)
  BY DEF Calm!Fault
<1>2. \A r \in Requests : Calm!Call(r) => Faulty!Call(r)
  BY DEF Calm!Call, Calm!CreateChecks, Calm!CreateInserts, Calm!GenerateReads, Calm!GenerateQueues, Calm!Pending,
     Calm!InProgress, Calm!Raced, Faulty!Call, Faulty!CreateChecks, Faulty!CreateInserts, Faulty!GenerateReads,
     Faulty!GenerateQueues, Faulty!Pending, Faulty!InProgress, Faulty!Raced
<1>3. \A r \in Requests : Calm!CancelRequest(r) \/ Calm!Age(r) => Faulty!CancelRequest(r) \/ Faulty!Age(r)
  BY DEF Calm!CancelRequest, Calm!Age, Calm!InProgress, Faulty!CancelRequest, Faulty!Age, Faulty!InProgress
<1>4. \A w \in Runners : Calm!Work(w) => Faulty!Work(w)
  BY DEF Calm!Work, Calm!Claim, Calm!StoreKey, Calm!Upload, Calm!Finish, Calm!Complete, Calm!Tell, Calm!Catch,
     Calm!Leave, Calm!Goto, Calm!Idle, Calm!Absent, Calm!JobAttempts, Faulty!Work, Faulty!Claim, Faulty!StoreKey,
     Faulty!Upload, Faulty!Finish, Faulty!Complete, Faulty!Tell, Faulty!Catch, Faulty!Leave, Faulty!Goto,
     Faulty!Idle, Faulty!Absent, Faulty!JobAttempts
<1> QED
  BY <1>1, <1>2, <1>3, <1>4 DEF Calm!Next, Faulty!Next, Calm!CleanupExpiredExports, Calm!StorageFails, Calm!Redeliver

LEMMA DeployedIsFaulty == Deployed!Next => Faulty!Next \/ \E r \in Requests : Deployed!GenerateQueues(r)
<1>1. \A k : ~Deployed!Fault(k)
  BY DEF Deployed!Fault
<1>2. \A r \in Requests : Deployed!Call(r) => Faulty!Call(r) \/ Deployed!GenerateQueues(r)
  BY DEF Deployed!Call, Deployed!CreateChecks, Deployed!CreateInserts, Deployed!GenerateReads, Deployed!Pending,
     Deployed!InProgress, Deployed!Raced, Faulty!Call, Faulty!CreateChecks, Faulty!CreateInserts,
     Faulty!GenerateReads, Faulty!Pending, Faulty!InProgress, Faulty!Raced
<1>3. \A r \in Requests : Deployed!CancelRequest(r) \/ Deployed!Age(r) => Faulty!CancelRequest(r) \/ Faulty!Age(r)
  BY DEF Deployed!CancelRequest, Deployed!Age, Deployed!InProgress,
     Faulty!CancelRequest, Faulty!Age, Faulty!InProgress
<1>4. \A w \in Runners : Deployed!Work(w) => Faulty!Work(w)
  BY DEF Deployed!Work, Deployed!Claim, Deployed!StoreKey, Deployed!Upload, Deployed!Finish, Deployed!Complete,
     Deployed!Tell, Deployed!Catch, Deployed!Leave, Deployed!Goto, Deployed!Idle, Deployed!Absent,
     Deployed!JobAttempts, Faulty!Work, Faulty!Claim, Faulty!StoreKey,
     Faulty!Upload, Faulty!Finish, Faulty!Complete, Faulty!Tell, Faulty!Catch, Faulty!Leave, Faulty!Goto,
     Faulty!Idle, Faulty!Absent, Faulty!JobAttempts
<1> QED
  BY <1>1, <1>2, <1>3, <1>4 DEF Deployed!Next, Faulty!Next, Deployed!CleanupExpiredExports,
     Deployed!StorageFails, Deployed!Redeliver

LEMMA IdleIsBusy == Idle!Next => Busy!Next
<1>1. \A k : ~Idle!Fault(k)
  BY DEF Idle!Fault
<1>2. \A x \in Executors : Idle!Execute(x) => Busy!Execute(x)
  <2>1. ASSUME NEW x \in Executors, NEW t \in Idle!Tasks
        PROVE  /\ Idle!ClosePosted(x, t) => Busy!ClosePosted(x, t)
               /\ Idle!RefundPosted(x, t) => Busy!RefundPosted(x, t)
               /\ Idle!SettleWorked(x, t) => Busy!SettleWorked(x, t)
    BY <1>1 DEF Idle!ClosePosted, Idle!RefundPosted, Idle!SettleWorked, Idle!Goto, Idle!Assigned, Idle!Held,
       Busy!ClosePosted, Busy!RefundPosted, Busy!SettleWorked, Busy!Goto, Busy!Assigned, Busy!Held
  <2>2. ASSUME NEW x \in Executors
        PROVE  /\ Idle!Cas(x) \/ Idle!ListPosted(x) => Busy!Cas(x) \/ Busy!ListPosted(x)
               /\ Idle!ListWorked(x) \/ Idle!WorkedDone(x) => Busy!ListWorked(x) \/ Busy!WorkedDone(x)
               /\ Idle!Anonymize(x) \/ Idle!Revoke(x) => Busy!Anonymize(x) \/ Busy!Revoke(x)
               /\ Idle!Finish(x) \/ Idle!Fail(x) => Busy!Finish(x) \/ Busy!Fail(x)
    BY <1>1 DEF Idle!Cas, Idle!ListPosted, Idle!ListWorked, Idle!WorkedDone, Idle!Anonymize, Idle!Revoke,
       Idle!Finish, Idle!Fail, Idle!Goto, Idle!Idle, Idle!Terminal, Idle!Held, Idle!Tasks, Idle!Refused,
       Busy!Cas, Busy!ListPosted, Busy!ListWorked, Busy!WorkedDone, Busy!Anonymize, Busy!Revoke,
       Busy!Finish, Busy!Fail, Busy!Goto, Busy!Idle, Busy!Terminal, Busy!Held, Busy!Tasks, Busy!Refused
  <2> QED BY <2>1, <2>2 DEF Idle!Execute, Busy!Execute, Idle!Tasks, Busy!Tasks
<1>4. \A x \in Executors : Idle!Begin(x) => Busy!Begin(x)
  BY DEF Idle!Begin, Idle!Goto, Idle!Idle, Busy!Begin, Busy!Goto, Busy!Idle
<1>3. \A t \in Idle!Tasks : Idle!NewTask(t) \/ Idle!Progress(t) => Busy!NewTask(t) \/ Busy!Progress(t)
  BY DEF Idle!NewTask, Idle!Progress, Idle!Listed, Busy!NewTask, Busy!Progress, Busy!Listed
<1> QED
  BY <1>1, <1>2, <1>3, <1>4 DEF Idle!Next, Busy!Next, Idle!Throw, Idle!Crash, Idle!DeadlinePasses,
     Idle!CancelReads, Idle!CancelWrites,
     Busy!DeadlinePasses, Busy!CancelReads, Busy!CancelWrites, Idle!Tasks, Busy!Tasks

LEMMA TwiceIsFailing ==
    ASSUME MediaTypes, Serial, part = "twice", Twice!Next
    PROVE  Failing!Next /\ \A g \in Finalizers : finalizing'[g].pc # "undo"
<1>i. \A f \in Finalizers : /\ finalizing[f].pc # "idle" <=> finalizing[f] # Failing!Idle
                            /\ finalizing[f].pc # "undo"
  BY CallMoves DEF Serial
<1>1. ASSUME NEW r \in Receipts,
             Twice!GetPresignedUrl(r) \/ Twice!PutObject(r) \/ Twice!GrowsOld(r) \/ Twice!Consume(r) \/ Twice!Commit(r)
      PROVE  RowSteps(r) /\ finalizing' = finalizing
  BY <1>1 DEF Twice!GetPresignedUrl, Twice!PutObject, Twice!GrowsOld, Twice!Consume, Twice!Commit, Twice!rowVars,
     Twice!useVars, Twice!linkVars, RowSteps, Failing!GetPresignedUrl, Failing!PutObject, Failing!GrowsOld,
     Failing!Consume, Failing!Commit, Failing!rowVars, Failing!useVars, Failing!linkVars
<1>2. ASSUME Twice!Sweeper
      PROVE  Failing!Sweeper /\ finalizing' = finalizing
  BY <1>2 DEF Twice!Sweeper, Twice!Select, Twice!SweepRaw, Twice!SweepCanonical, Twice!Expire, Twice!Due, Twice!Idle,
     Twice!rowVars, Twice!useVars, Twice!linkVars, Failing!Sweeper, Failing!Select, Failing!SweepRaw,
     Failing!SweepCanonical, Failing!Expire, Failing!Due, Failing!Idle, Failing!rowVars, Failing!useVars,
     Failing!linkVars
<1>3. ASSUME NEW v \in Viewers,
             \/ \E r \in Receipts : Twice!LoadAuthorizedReceipts(v, r)
             \/ Twice!SignObject(v) \/ Twice!StoreAccessAudit(v) \/ Twice!Leave(v)
      PROVE  LinkSteps(v) /\ finalizing' = finalizing
  BY <1>3 DEF Twice!LoadAuthorizedReceipts, Twice!SignObject, Twice!StoreAccessAudit, Twice!Leave, Twice!Idle,
     Twice!rowVars, Twice!useVars, LinkSteps, Failing!LoadAuthorizedReceipts, Failing!SignObject,
     Failing!StoreAccessAudit, Failing!Leave, Failing!Idle, Failing!rowVars, Failing!useVars
<1>4. ASSUME NEW f \in Finalizers, NEW r \in Receipts, Twice!Finalize(f, r)
      PROVE  Failing!Finalize(f, r) /\ \A g \in Finalizers : finalizing'[g].pc # "undo"
  <2>1. PICK pc \in {"download", "drop"} : finalizing' = [finalizing EXCEPT ![f] = [pc |-> pc, of |-> r]]
    BY <1>4 DEF Twice!Finalize
  <2>2. Failing!Finalize(f, r)
    BY <1>4 DEF Twice!Finalize, Twice!Idle, Twice!rowVars, Twice!useVars, Twice!linkVars, Failing!Finalize,
       Failing!Idle, Failing!rowVars, Failing!useVars, Failing!linkVars
  <2> QED BY <1>i, <2>1, <2>2 DEF MediaTypes
<1>5. ASSUME NEW f \in Finalizers, Twice!Continue(f)
      PROVE  Failing!Continue(f) /\ \A g \in Finalizers : finalizing'[g].pc # "undo"
  <2>1. Failing!Continue(f)
    BY <1>5 DEF Twice!Continue, Twice!Download, Twice!DropRaw, Twice!Reject, Twice!Store, Twice!ClearRaw, Twice!Undo,
       Twice!Finish, Twice!Recover, Twice!At, Twice!Goto, Twice!Return, Twice!Idle, Twice!rowVars, Twice!useVars,
       Twice!linkVars, Failing!Continue, Failing!Download, Failing!DropRaw, Failing!Reject, Failing!Store,
       Failing!ClearRaw, Failing!Undo, Failing!Finish, Failing!Recover, Failing!At, Failing!Goto, Failing!Return,
       Failing!Idle, Failing!rowVars, Failing!useVars, Failing!linkVars
  <2>2. \/ \E pc \in Failing!AtStep \ {"undo"} : Failing!Goto(f, pc) /\ finalizing[f].pc # "idle"
        \/ Failing!Return(f)
    BY <1>i, <1>5 DEF Twice!Continue, Twice!Download, Twice!DropRaw, Twice!Reject, Twice!Store, Twice!ClearRaw,
       Twice!Undo, Twice!Finish, Twice!Recover, Twice!At, Twice!Goto, Twice!Return, Twice!Idle, Failing!Goto,
       Failing!Return, Failing!Idle, Failing!AtStep
  <2> QED BY <1>i, <2>1, <2>2, CallMoves
<1>6. \A f \in Finalizers : ~Twice!Die(f)
  BY DEF Twice!Die
<1>7. CASE \E r \in Receipts : Twice!GetPresignedUrl(r) \/ Twice!PutObject(r) \/ Twice!GrowsOld(r) \/ Twice!Consume(r)
                               \/ Twice!Commit(r)
  BY <1>i, <1>1, <1>7 DEF Failing!Next, RowSteps
<1>8. CASE Twice!Sweeper
  BY <1>i, <1>2, <1>8 DEF Failing!Next
<1>9. CASE \E v \in Viewers : \/ \E r \in Receipts : Twice!LoadAuthorizedReceipts(v, r)
                              \/ Twice!SignObject(v) \/ Twice!StoreAccessAudit(v) \/ Twice!Leave(v)
  BY <1>i, <1>3, <1>9 DEF Failing!Next, LinkSteps
<1>10. CASE \E f \in Finalizers : (\E r \in Receipts : Twice!Finalize(f, r)) \/ Twice!Continue(f)
  BY <1>4, <1>5, <1>10 DEF Failing!Next
<1> QED BY <1>6, <1>7, <1>8, <1>9, <1>10 DEF Twice!Next

LEMMA PrivacyInit == Init => PrivacyInv
  BY PrivacyAssumption, ExportInit, ErasureInit, MediaInit DEF Init, PrivacyInv, Parts, Assumptions

LEMMA PrivacyStep == ASSUME PrivacyInv, [Next]_moved PROVE PrivacyInv'
<1>1. /\ part' = part
      /\ [Faulty!Next]_(Faulty!vars) \/ \E r \in Requests : Deployed!GenerateQueues(r)
      /\ [Busy!Next]_(Busy!vars)
      /\ \/ UNCHANGED Failing!vars
         \/ part = "failing" /\ Failing!Next /\ OneCall'
         \/ part = "twice" /\ Twice!Next
  BY CalmIsFaulty, DeployedIsFaulty, IdleIsBusy
     DEF Next, moved, exportVars, erasureVars, mediaVars, Faulty!vars, Busy!vars, Failing!vars
<1>2. ExportInv'
  BY <1>1, ExportStep, RefusedStep DEF PrivacyInv, Assumptions
<1>3. ErasureInv'
  BY <1>1, ErasureStep DEF PrivacyInv, Assumptions
<1>4. MediaInv'
  <2>1. CASE UNCHANGED Failing!vars
    <3>1. IF part = "twice" THEN \A g \in Finalizers : finalizing'[g].pc # "undo" ELSE OneCall'
      BY <2>1 DEF PrivacyInv, MediaInv, Serial, OneCall, Failing!vars
    <3> QED BY <1>1, <2>1, <3>1, MediaStep DEF PrivacyInv
  <2>2. CASE part = "failing" /\ Failing!Next /\ OneCall'
    BY <1>1, <2>2, MediaStep DEF PrivacyInv
  <2>3. CASE part = "twice" /\ Twice!Next
    BY <1>1, <2>3, TwiceIsFailing, MediaStep DEF PrivacyInv, MediaInv
  <2> QED BY <1>1, <2>1, <2>2, <2>3
<1>5. Assumptions' /\ part' \in Parts
  BY <1>1 DEF PrivacyInv, Assumptions
<1> QED BY <1>2, <1>3, <1>4, <1>5 DEF PrivacyInv

\* Whatever fails and however they interleave, exports, the erasure and uploads stay in
\* their types: an export's job has its three attempts and a fourth never starts.
THEOREM PrivacyTyped == Spec => []TypeOK
<1>1. PrivacyInv => TypeOK
  BY MediaTyped DEF PrivacyInv, ExportInv, ErasureInv, MediaInv, TypeOK
<1> QED BY <1>1, PrivacyInit, PrivacyStep, PTL DEF Spec, moved

\* A user has one export request in progress but after a race of createRequest with another
\* write; and one call of executeDeletion at a time cancels, refunds and anonymizes.
THEOREM RequestsAreAlone == Spec => []OneAtATime
<1>1. PrivacyInv => OneInProgress /\ OneExecutor
  BY ExportAlone, ExecutorAlone DEF PrivacyInv, OneInProgress, OneExecutor
<1> QED BY <1>1, PrivacyInit, PrivacyStep, PTL DEF Spec, moved, OneAtATime

\* deleteAndAnonymizeUserData commits only when the user's tasks hold no money but
\* for those created after the listing, and 'completed' is written only after it,
\* whichever attempt of whichever executor did which part. The sessions are revoked by
\* then, unless the revocation was lost or came when the row had a made-up uid.
THEOREM ErasureIsDone == Spec => [](CompletedIsErased /\ ErasedOwesNothing)
<1>1. PrivacyInv => CompletedIsErased /\ ErasedOwesNothing
  BY DEF PrivacyInv, ErasureInv, CompletedIsErased, ErasedOwesNothing
<1> QED BY <1>1, PrivacyInit, PrivacyStep, PTL DEF Spec, moved

\* What is called completed exists: the exported file when the user is told of it, the
\* erasure, the object of a finalized or used receipt, and the record of who saw it.
THEOREM CompletedIsReal == Spec => []CompletedIsDone
<1>1. PrivacyInv => /\ CompletedHasFile /\ ErasedOwesNothing /\ CompletedIsErased
                    /\ ReceiptHasObject /\ DeliveredIsLogged
  BY DEF PrivacyInv, ExportInv, ErasureInv, MediaInv, CompletedHasFile, ErasedOwesNothing, CompletedIsErased,
     ReceiptHasObject, DeliveredIsLogged
<1> QED BY <1>1, PrivacyInit, PrivacyStep, PTL DEF Spec, moved, CompletedIsDone

=============================================================================
