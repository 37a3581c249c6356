---------------------------- MODULE EscrowLedger ----------------------------
(***************************************************************************)
(* What the escrow promises, without processes, retries or Stripe: one     *)
(* row that follows VALID_TRANSITIONS, and whose settlement is final.      *)
(* `transfer' and `refund' are the Stripe objects the row names,           *)
(* `provider' says who paid the worker.                                    *)
(***************************************************************************)
EXTENDS EscrowRow

CONSTANTS TransferIds, RefundIds

VARIABLES state, transfer, refund, provider

vars == <<state, transfer, refund, provider>>

Providers == {None, "STRIPE", "MANUAL_RECONCILIATION"}

Init ==
    /\ state = "PENDING"
    /\ transfer = None
    /\ refund = None
    /\ provider = None

Moves(new) == new \in ValidTransitions[state] /\ state' = new

\* The poster's payment is confirmed.
Fund == Moves("FUNDED") /\ UNCHANGED <<transfer, refund, provider>>

\* A dispute, a chargeback or an abandonment freezes the row; the dispute
\* service also forgets the recorded transfer.
Lock ==
    /\ Moves("LOCKED_DISPUTE")
    /\ transfer' \in {transfer, None}
    /\ UNCHANGED <<refund, provider>>

\* A payout that was issued is written to a row that is not settled yet.
RecordTransfer(t) ==
    /\ state \in {"FUNDED", "LOCKED_DISPUTE"}
    /\ transfer = None
    /\ transfer' = t
    /\ UNCHANGED <<state, refund, provider>>

\* A refund that was issued is written once, whatever the state.
RecordRefund(r) ==
    /\ refund = None
    /\ refund' = r
    /\ UNCHANGED <<state, transfer, provider>>

\* The worker is paid by the transfer the row then names, or by hand.
Release ==
    /\ Moves("RELEASED")
    /\ \/ provider' = "STRIPE" /\ transfer' \in TransferIds
       \/ provider' = "MANUAL_RECONCILIATION" /\ transfer = None /\ transfer' = None
    /\ UNCHANGED refund

\* The poster is paid back by the refund the row then names, or, when the
\* row was paid behind the back of the refund, the row is closed with what it
\* names already.
Refund ==
    /\ Moves("REFUNDED")
    /\ refund' \in RefundIds \cup {refund}
    /\ UNCHANGED <<transfer, provider>>

\* The amount is split: both sides are named.
Split ==
    /\ Moves("REFUND_PARTIAL")
    /\ transfer' \in TransferIds
    /\ refund' \in RefundIds
    /\ UNCHANGED provider

Next ==
    \/ Fund
    \/ Lock
    \/ \E t \in TransferIds : RecordTransfer(t)
    \/ \E r \in RefundIds : RecordRefund(r)
    \/ Release
    \/ Refund
    \/ Split

Spec == Init /\ [][Next]_vars

=============================================================================
