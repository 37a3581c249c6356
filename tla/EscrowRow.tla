------------------------------ MODULE EscrowRow ------------------------------
(***************************************************************************)
(* The escrow row: the states of table escrows, the transitions the        *)
(* service layer declares, and the database triggers every UPDATE of the   *)
(* row has to pass.  Pure operators, shared by the modules that move the   *)
(* row (Settlement) and by the abstract ledger they implement              *)
(* (EscrowLedger).                                                         *)
(***************************************************************************)
EXTENDS Naturals

EscrowStates ==
    {"PENDING", "FUNDED", "LOCKED_DISPUTE", "RELEASED", "REFUNDED", "REFUND_PARTIAL"}

TerminalStates == {"RELEASED", "REFUNDED", "REFUND_PARTIAL"}

\* VALID_TRANSITIONS of the service layer.
ValidTransitions ==
    [s \in EscrowStates |->
        CASE s = "PENDING"        -> {"FUNDED", "REFUNDED"}
          [] s = "FUNDED"         -> {"RELEASED", "REFUNDED", "LOCKED_DISPUTE"}
          [] s = "LOCKED_DISPUTE" -> {"RELEASED", "REFUNDED", "REFUND_PARTIAL"}
          [] OTHER                -> {}]

None == "none"

(***************************************************************************)
(* Triggers.  An UPDATE that a trigger rejects raises and rolls back the   *)
(* whole transaction.                                                      *)
(***************************************************************************)

\* Mutant: a terminal state is not final.
M_PreventEscrowTerminalMutation(old, new, workerFavored, override) ==
    old = "LOCKED_DISPUTE" /\ new = "RELEASED" => workerFavored \/ override

\* HX002: a terminal state is immutable, and a dispute lock opens towards
\* the worker only by a resolved RELEASE or a transaction-local override.
PreventEscrowTerminalMutation(old, new, workerFavored, override) ==
    /\ old \in TerminalStates => new = old
    /\ old = "LOCKED_DISPUTE" /\ new = "RELEASED" => workerFavored \/ override

\* Mutant: no check.
M_EnforceReleasedRequiresCompleted(old, new, taskState) == TRUE

\* HX201: RELEASED requires a COMPLETED task.
EnforceReleasedRequiresCompleted(old, new, taskState) ==
    new = "RELEASED" /\ old # "RELEASED" => taskState = "COMPLETED"

\* HX810: nothing is released to a worker whose payouts are locked.
PreventReleaseWhenPayoutsLocked(old, new, payoutsLocked) ==
    new = "RELEASED" /\ old # "RELEASED" => ~payoutsLocked

=============================================================================
