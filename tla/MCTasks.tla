-------------------------------- MODULE MCTasks --------------------------------
(***************************************************************************)
(* The task and the supply of workers for it, on small instances. The      *)
(* initial state picks one part, and only that part moves, so the parts'   *)
(* states add up. The constants are sets for TLC; what is proved of the    *)
(* task at the end is proved for any.                                      *)
(***************************************************************************)
EXTENDS Naturals, TLAPS

CONSTANTS
    Workers,      \* who may take the task, in every way
    Takers,       \* who may take the task through the reservation
    MaxProofs, MaxVersions   \* bounds on the proofs and on the scope's versions

VARIABLES
    part,
    task, res, escrow, jobs, app, assigning, scope, proofs, rejecting, message,
    cap, entry, wait, rec, admitted, recalcs, raced

\* Every mode of a task and every way to get it.
Task == INSTANCE TaskLifecycle WITH
    Modes <- {"standard", "consent", "instant"},
    Paths <- {"assign", "consent", "accept", "reserve"},
    Faults <- TRUE, LateFee <- TRUE
\* Through the dispatch reservation only, with requests that go on.
Reserved == INSTANCE TaskLifecycle WITH
    Workers <- Takers, Modes <- {"standard", "instant"}, Paths <- {"reserve"},
    Faults <- TRUE, LateFee <- TRUE

\* Two workers who share a cell that holds one and a half of them.
Shared == INSTANCE ExpertiseSupply WITH
    Users <- {"u1", "u2"}, Skills <- {"s1"}, Zones <- {"z1"}, Asked <- {14, 6}, MaxWeight <- 20, AdminMaxes <- {},
    Runs <- {"r1"}, MaxRecalcs <- 1, MaxAdmitted <- 2, Ages <- TRUE, Promotes <- FALSE
\* One worker between three kinds of work, with cells that hold two secondaries.
Three == INSTANCE ExpertiseSupply WITH
    Users <- {"u1"}, Skills <- {"s1", "s2", "s3"}, Zones <- {"z1"}, Asked <- {14}, MaxWeight <- 13, AdminMaxes <- {},
    Runs <- {"r1"}, MaxRecalcs <- 1, MaxAdmitted <- 3, Ages <- FALSE, Promotes <- FALSE
\* One worker who swaps two kinds of work.
Swap == INSTANCE ExpertiseSupply WITH
    Users <- {"u1"}, Skills <- {"s1", "s2"}, Zones <- {"z1"}, Asked <- {14, 6}, MaxWeight <- 20, AdminMaxes <- {},
    Runs <- {"r1"}, MaxRecalcs <- 1, MaxAdmitted <- 2, Ages <- FALSE, Promotes <- TRUE
\* A cell in two zones, whose maximum an administrator changes.
Managed == INSTANCE ExpertiseSupply WITH
    Users <- {"u1"}, Skills <- {"s1"}, Zones <- {"z1", "z2"}, Asked <- {14, 6}, MaxWeight <- 20, AdminMaxes <- {10},
    Runs <- {"r1"}, MaxRecalcs <- 1, MaxAdmitted <- 1, Ages <- FALSE, Promotes <- FALSE

\* The constants are as the modules assume.
Assumptions ==
    /\ Task!LifecycleAssumption /\ Task!NoneAssumption
    /\ Reserved!LifecycleAssumption /\ Reserved!NoneAssumption
    /\ Shared!ExpertiseAssumption /\ Three!ExpertiseAssumption /\ Swap!ExpertiseAssumption /\ Managed!ExpertiseAssumption
ASSUME TasksAssumption == Assumptions

taskVars == <<task, res, escrow, jobs, app, assigning, scope, proofs, rejecting, message>>
supplyVars == <<cap, entry, wait, rec, admitted, recalcs, raced>>

\* The parts that stand still are in one of their initial states.
Init ==
    /\ part \in {"task", "reserved", "shared", "three", "swap", "managed"}
    /\ IF part = "task" THEN Task!Init ELSE Reserved!Init
    /\ part \notin {"task", "reserved"} => task.mode = "standard"
    /\ CASE part = "three" -> Three!Init [] part = "swap" -> Swap!Init
         [] part = "managed" -> Managed!Init [] OTHER -> Shared!Init

Next ==
    \/ part = "task" /\ Task!Next /\ UNCHANGED <<part, supplyVars>>
    \/ part = "reserved" /\ Reserved!Next /\ UNCHANGED <<part, supplyVars>>
    \/ part = "shared" /\ Shared!Next /\ UNCHANGED <<part, taskVars>>
    \/ part = "three" /\ Three!Next /\ UNCHANGED <<part, taskVars>>
    \/ part = "managed" /\ Managed!Next /\ UNCHANGED <<part, taskVars>>
    \/ part = "swap" /\ Swap!Next /\ UNCHANGED <<part, taskVars>>

\* A started transaction ends, and a rejection goes on to its second one.
Fairness ==
    /\ \A w \in Takers : WF_taskVars(part = "reserved" /\ Reserved!AssignCommits(w))
    /\ WF_taskVars(part = "reserved" /\ Reserved!RejectProof)

Spec == Init /\ [][Next]_<<part, taskVars, supplyVars>> /\ Fairness

-----------------------------------------------------------------------------
\* The properties, each as its module states it, in the parts it is about.

\* Every variable stays in its type (tasks, proofs, scope; the supply tables).
TypeOK ==
    /\ IF part = "task" THEN Task!TypeOK ELSE Reserved!TypeOK
    /\ CASE part = "three" -> Three!TypeOK [] part = "swap" -> Swap!TypeOK
         [] part = "managed" -> Managed!TypeOK [] OTHER -> Shared!TypeOK

\* What a task's state says about its proof and its money is so, and what is told of it.
StateIsBacked == IF part = "task" THEN Task!StateIsBacked ELSE Reserved!StateIsBacked

\* A task taken through the reservation can be worked on.
AcceptedCanWork == part = "reserved" => Reserved!AcceptedCanWork

\* A rejected proof gives the task back, or the task is closed, unless that is lost.
RejectedIsRetaken == part = "reserved" => Reserved!RejectedIsRetaken

\* A worker never carries more than two kinds of work.
AtMostTwo ==
    CASE part = "three" -> Three!AtMostTwo [] part = "swap" -> Swap!AtMostTwo
         [] part = "managed" -> Managed!AtMostTwo [] OTHER -> Shared!AtMostTwo

\* A cell's record is the weight its workers carry, but for the known races.
UnracedWeightIsSum ==
    CASE part = "three" -> Three!UnracedWeightIsSum [] part = "swap" -> Swap!UnracedWeightIsSum
         [] part = "managed" -> Managed!UnracedWeightIsSum [] OTHER -> Shared!UnracedWeightIsSum

\* The supply a cell records is what its workers carry, each at most twice.
SupplyIsCounted == AtMostTwo /\ UnracedWeightIsSum

\* While a change of the scope waits for its decision, execution is frozen; nobody is
\* invited while someone ahead in the cell's queue still waits.
InTurn == [][Task!Frozen /\ (part = "shared" => Shared!InOrder)]_<<part, taskVars, supplyVars>>

-----------------------------------------------------------------------------
\* What is proved of the task in this system, for any workers and bounds. Its invariant
\* is the life cycle's, of the part that moves, and none moves the task but its own.
Parts == {"task", "reserved", "shared", "three", "swap", "managed"}
LifeHolds ==
    /\ Assumptions /\ part \in Parts
    /\ IF part = "task" THEN Task!LifeInv ELSE Reserved!LifeInv

LEMMA HoldsInit == Init => LifeHolds
<1> SUFFICES ASSUME Init PROVE LifeHolds
  OBVIOUS
<1>1. Assumptions /\ part \in Parts
  BY TasksAssumption DEF Init, Parts
<1>2. CASE part = "task"
  <2>1. Task!Init
    BY <1>2 DEF Init
  <2> QED BY <1>1, <1>2, <2>1, Task!LifeInit DEF LifeHolds, Assumptions
<1>3. CASE part # "task"
  <2>1. Reserved!Init
    BY <1>3 DEF Init
  <2> QED BY <1>1, <1>3, <2>1, Reserved!LifeInit DEF LifeHolds, Assumptions
<1> QED BY <1>2, <1>3

\* A step is one of the task's, in its part, or leaves the task alone.
LEMMA TaskMoves ==
    ASSUME [Next]_<<part, taskVars, supplyVars>>
    PROVE  /\ part' = part
           /\ \/ part = "task" /\ [Task!Next]_(Task!vars)
              \/ part # "task" /\ [Reserved!Next]_(Reserved!vars)
              \/ UNCHANGED taskVars
           /\ part \notin {"task", "reserved"} => UNCHANGED taskVars
  BY DEF Next, supplyVars

LEMMA HoldsStep ==
    ASSUME LifeHolds, [Next]_<<part, taskVars, supplyVars>>
    PROVE  LifeHolds'
<1>1. part' = part
  BY TaskMoves
<1>2. Assumptions'
  BY DEF LifeHolds, Assumptions, Task!LifecycleAssumption, Task!NoneAssumption
<1>3. CASE part = "task"
  <2>1. [Task!Next]_(Task!vars)
    BY <1>3, TaskMoves DEF taskVars, Task!vars
  <2>2. Task!LifeInv'
    BY <1>3, <2>1, Task!LifeTyped, Task!LifeStep, Task!ScopeStep DEF LifeHolds, Assumptions, Task!LifeInv
  <2> QED BY <1>1, <1>2, <1>3, <2>2 DEF LifeHolds
<1>4. CASE part # "task"
  <2>1. [Reserved!Next]_(Reserved!vars)
    BY <1>4, TaskMoves DEF taskVars, Reserved!vars
  <2>2. Reserved!LifeInv'
    BY <1>4, <2>1, Reserved!LifeTyped, Reserved!LifeStep, Reserved!ScopeStep
       DEF LifeHolds, Assumptions, Reserved!LifeInv
  <2> QED BY <1>1, <1>2, <1>4, <2>2 DEF LifeHolds
<1> QED BY <1>3, <1>4

\* Whoever has the task and however it was got: its proof is of the scope in force, a
\* refund is final, a taken task is funded and what is told of it agrees.
THEOREM StateStaysBacked == Spec => []StateIsBacked
<1>1. LifeHolds => StateIsBacked
  <2>1. ASSUME Task!LifecycleAssumption, Task!NoneAssumption, Task!LifeInv PROVE Task!StateIsBacked
    BY <2>1, Task!ReportsSound
       DEF Task!LifeInv, Task!StateIsBacked, Task!ProofSound, Task!MoneySound, Task!AcceptedIsFunded
  <2>2. ASSUME Reserved!LifecycleAssumption, Reserved!NoneAssumption, Reserved!LifeInv
        PROVE  Reserved!StateIsBacked
    BY <2>2, Reserved!ReportsSound DEF Reserved!LifeInv, Reserved!StateIsBacked, Reserved!ProofSound,
       Reserved!MoneySound, Reserved!AcceptedIsFunded
  <2> QED BY <2>1, <2>2 DEF LifeHolds, Assumptions, StateIsBacked
<1> QED BY <1>1, HoldsInit, HoldsStep, PTL DEF Spec

\* A task that can be had by reservation only can be worked on once it is taken.
THEOREM ReservedCanBegin == Spec => []AcceptedCanWork
<1> DEFINE Can == part = "reserved" => Reserved!CanWork
<1>1. Init => Can
  BY DEF Init, Reserved!Init, Reserved!CanWork
<1>2. LifeHolds /\ Can /\ [Next]_<<part, taskVars, supplyVars>> => Can'
  <2> SUFFICES ASSUME LifeHolds, Can, [Next]_<<part, taskVars, supplyVars>>, part' = "reserved"
               PROVE  Reserved!CanWork'
    OBVIOUS
  <2>1. part = "reserved" /\ [Reserved!Next]_(Reserved!vars)
    BY TaskMoves DEF taskVars, Reserved!vars
  <2>2. Reserved!CanWork /\ Reserved!LifeInv /\ Reserved!NoneAssumption
    BY <2>1 DEF LifeHolds, Assumptions
  <2> QED BY <2>1, <2>2, Reserved!CanWorkStep
<1>3. Can => AcceptedCanWork
  BY DEF AcceptedCanWork, Reserved!CanWork, Reserved!AcceptedCanWork
<1> QED BY <1>1, <1>2, <1>3, HoldsInit, HoldsStep, PTL DEF Spec

===============================================================================
