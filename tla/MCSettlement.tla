---------------------------- MODULE MCSettlement ----------------------------
(***************************************************************************)
(* The settlement of an escrow for TLC: two processes, the jobs that pass  *)
(* the signature check as the code computes it, and what the repository's  *)
(* documents and comments say of the settlement and the code does not do.  *)
(* A run of its own refutes NoDoubleTransfer; README.md describes the      *)
(* others.                                                                 *)
(***************************************************************************)
EXTENDS Settlement, Sequences, TLC

CONSTANTS p1, p2

ProcessSymmetry == Permutations(Workers)

-----------------------------------------------------------------------------
(***************************************************************************)
(* The boundary of a financial job.  The outbox worker signs the payload   *)
(* it reads from the JSONB column, the worker of the job checks the        *)
(* signature over the object its zod schema returns.  A signature is an    *)
(* HMAC of JSON.stringify, so it depends on the ORDER of the keys and on   *)
(* which keys there are: that, and not the values, is what this module     *)
(* keeps of a payload.                                                     *)
(***************************************************************************)

Keys == {"reason", "task_id", "escrow_id", "dispute_id", "refund_amount",
         "release_amount", "outcome_escrow_action"}

\* External: JSONB keeps the keys of an object by length.
JsonbOrder == <<"reason", "task_id", "escrow_id", "dispute_id", "refund_amount",
                "release_amount", "outcome_escrow_action">>

\* The keys each producer writes; a resolution may leave the amounts out.
Emitted(kind, amounts) ==
    IF kind = "completion" THEN {"escrow_id", "task_id", "reason"}
    ELSE {"escrow_id", "task_id", "dispute_id", "reason", "outcome_escrow_action"}
           \cup (IF amounts THEN {"refund_amount", "release_amount"} ELSE {})

\* A zod object has the keys of its schema, in the schema's order.
SchemaOrder(kind) ==
    IF kind = "completion" THEN <<"escrow_id", "task_id", "reason">>
    ELSE <<"escrow_id", "task_id", "dispute_id", "reason", "refund_amount", "release_amount">>

Serialized(order, keys) == LET Present(k) == k \in keys IN SelectSeq(order, Present)

\* The text signJobPayload and verifyJobSignature hash.
SignedText(kind, amounts)   == Serialized(JsonbOrder, Emitted(kind, amounts))
VerifiedText(kind, amounts) == Serialized(SchemaOrder(kind), Emitted(kind, amounts))

VerifyPayload(kind) == \E amounts \in BOOLEAN : SignedText(kind, amounts) = VerifiedText(kind, amounts)

\* The kinds of job that pass their worker's signature check.
JobsThatVerify == {kind \in SignedJobs : VerifyPayload(kind)}

-----------------------------------------------------------------------------

DisputeIsOpen == dispute \in {"OPEN", "EVIDENCE_REQUESTED", "ESCALATED"}

\* README: a row in LOCKED_DISPUTE is "frozen during dispute - neither party
\* can access": no money moves at Stripe while a dispute is undecided.  A
\* payout that was loaded before the dispute is still sent.
FrozenDuringDispute ==
    [][DisputeIsOpen /\ DisputeIsOpen' => UNCHANGED <<stripe.transfers, stripe.refunds>>]_vars

\* The completion plan: "No double-spend window", "release exactly once".  A
\* RELEASE resolution pays again what the completion payout, forgotten by the
\* dispute, has already sent.
NoDoubleTransfer ==
    Cardinality(stripe.transfers \ stripe.reversed) <= 1

\* README: REFUND_PARTIAL is the end of a split resolution.  The webhook of
\* the split's own refund makes the row REFUNDED if it is first, and the
\* worker's share is never sent.
SplitEndsPartial ==
    dispute = "SPLIT" /\ escrow.state \in TerminalStates => escrow.state = "REFUND_PARTIAL"

\* workerStateError: an escrow is not refunded "for a task that has been
\* accepted by a worker".  A worker can accept between the two transactions
\* of a refund.
RefundNotAfterAcceptance ==
    [][escrow.state = "FUNDED" /\ escrow'.state = "REFUNDED" =>
         task \notin {"ACCEPTED", "PROOF_SUBMITTED", "COMPLETED"}]_vars

\* handleChargeRefunded: "a refund after release is valid" and "must flow
\* through".  The trigger that keeps RELEASED final rejects it, after the
\* worker's transfer was reversed.
ReversedReleaseIsRefunded ==
    [](escrow.state = "RELEASED" /\ escrow.transfer \in stripe.reversed
         => <>(escrow.state = "REFUNDED"))

\* DisputeService.create: "Accept both FUNDED and RELEASED escrow states".
\* The trigger rejects the lock of a RELEASED row.
ReleasedCanBeDisputed ==
    /\ "dispute" \in Operations
    /\ task = "COMPLETED" /\ dispute = "NONE" /\ escrow.state = "RELEASED"
    => ENABLED CreateDispute

=============================================================================
