----------------------------- MODULE TestProviders -----------------------------
(***************************************************************************)
(* The providers that stand in for Stripe, for the identity service and    *)
(* for the screening service on CONTROLLED_TEST work: their records live   *)
(* in the same database, so their calls are transactions, and what has to  *)
(* be idempotent is made so by advisory locks, keys and unique columns.    *)
(***************************************************************************)
EXTENDS FiniteSets

CONSTANTS
    Settlers,                  \* callers that settle the payout, each with a key of its own
    Cases,                     \* identity verifications of a user
    Consents, Seekers,         \* permissions for a screening; the calls that use one
    Crossing                   \* whether other actors refund the escrow or touch a check

TestProvidersAssumption ==
    /\ Crossing \in BOOLEAN /\ "none" \notin Settlers \cup Cases \cup Consents

VARIABLES
    intent, escrow, payoutReady, destination,
    transfer,                  \* the settler that inserted the transfer of the escrow
    settler,                   \* where a settler is
    idcase,                    \* identity_verification_cases.status
    pointed, verified,         \* users.identity_verification_case_id and is_verified
    report, background,        \* of a consent: the provider's and background_checks.status
    seeker, crossed,           \* where a call is; the consents of calls that overlapped
    owed                       \* recomputations of the capability profile

payVars == <<intent, escrow, payoutReady, destination, transfer, settler>>
identityVars == <<idcase, pointed, verified>>
screeningVars == <<report, background, seeker, crossed, owed>>
vars == <<payVars, identityVars, screeningVars>>

Idle == [at |-> "idle", with |-> "none"]

TypeOK ==
    /\ intent \in {"none", "requires_confirmation", "succeeded"}
    /\ escrow \in {"PENDING", "FUNDED", "RELEASED", "REFUNDED"}
    /\ {payoutReady, destination, verified} \subseteq BOOLEAN
    /\ transfer \in Settlers \cup {"none"}
    /\ settler \in [Settlers -> {"idle", "looked", "paid", "settled", "failed"}]
    /\ idcase \in [Cases -> {"none", "PENDING", "PROCESSING", "REVIEW_REQUIRED", "VERIFIED", "FAILED",
                             "UNAVAILABLE", "EXPIRED", "REVOKED"}]
    /\ pointed \in Cases \cup {"none"}
    /\ report \in [Consents -> {"none", "PENDING", "CLEAR"}]
    /\ background \in [Consents -> {"none", "PENDING", "IN_PROGRESS", "CLEAR", "CONSIDER"}]
    /\ seeker \in [Seekers -> [at : {"idle", "looked", "done", "refused"}, with : Consents \cup {"none"}]]
    /\ crossed \subseteq Consents /\ owed \subseteq Consents

Init ==
    /\ intent = "none" /\ escrow = "PENDING" /\ payoutReady = FALSE /\ destination = FALSE
    /\ transfer = "none" /\ settler = [s \in Settlers |-> "idle"]
    /\ idcase = [c \in Cases |-> "none"] /\ pointed = "none" /\ verified = FALSE
    /\ report = [c \in Consents |-> "none"] /\ background = report
    /\ seeker = [s \in Seekers |-> Idle] /\ crossed = {} /\ owed = {}

-----------------------------------------------------------------------------
\* createIntent: ON CONFLICT of the escrow DO NOTHING.
CreateIntent ==
    /\ Settlers # {} /\ escrow = "PENDING" /\ intent = "none"
    /\ intent' = "requires_confirmation"
    /\ UNCHANGED <<escrow, payoutReady, destination, transfer, settler, identityVars, screeningVars>>

ConfirmIntent ==
    /\ intent = "requires_confirmation" /\ intent' = "succeeded"
    /\ UNCHANGED <<escrow, payoutReady, destination, transfer, settler, identityVars, screeningVars>>

\* confirmFunding asks for the intent first.
Succeeded == intent = "succeeded"
ConfirmFunding ==
    /\ Succeeded /\ escrow = "PENDING" /\ escrow' = "FUNDED"
    /\ UNCHANGED <<intent, payoutReady, destination, transfer, settler, identityVars, screeningVars>>

CompleteTask ==
    /\ escrow = "FUNDED" /\ payoutReady' = TRUE
    /\ UNCHANGED <<intent, escrow, destination, transfer, settler, identityVars, screeningVars>>

Refund ==
    /\ Crossing /\ escrow = "FUNDED" /\ escrow' = "REFUNDED"
    /\ UNCHANGED <<intent, payoutReady, destination, transfer, settler, identityVars, screeningVars>>

ActivateDestination ==
    /\ Settlers # {} /\ destination' = TRUE
    /\ UNCHANGED <<intent, escrow, payoutReady, transfer, settler, identityVars, screeningVars>>

\* createPaidTransfer: under the lock of the key, which is not the lock of another
\* caller's key, the transfer of the key or of the escrow is looked for.
Look(s) ==
    /\ settler[s] \in {"idle", "failed"} /\ payoutReady
    /\ settler' = [settler EXCEPT ![s] = IF transfer = "none" THEN "looked" ELSE "paid"]
    /\ UNCHANGED <<intent, escrow, payoutReady, destination, transfer, identityVars, screeningVars>>

\* Then the task and the escrow are locked and checked.
Payable == payoutReady /\ escrow = "FUNDED" /\ destination

\* The id of the transfer is made of the escrow's, so a second INSERT fails.
InsertTransfer(s) ==
    /\ settler[s] = "looked"
    /\ IF Payable /\ transfer = "none"
       THEN transfer' = s /\ settler' = [settler EXCEPT ![s] = "paid"]
       ELSE settler' = [settler EXCEPT ![s] = "failed"] /\ UNCHANGED transfer
    /\ UNCHANGED <<intent, escrow, payoutReady, destination, identityVars, screeningVars>>

\* verifyPaidTransfer, inside the release.
PaidTransfer == transfer # "none" /\ destination

\* settleLocalTestPayout: a release that comes too late asks whether it was this one.
Release(s) ==
    /\ settler[s] = "paid"
    /\ \/ escrow = "FUNDED" /\ PaidTransfer /\ escrow' = "RELEASED" /\ settler' = [settler EXCEPT ![s] = "settled"]
       \/ escrow = "RELEASED" /\ settler' = [settler EXCEPT ![s] = "settled"] /\ UNCHANGED escrow
       \/ escrow = "REFUNDED" /\ settler' = [settler EXCEPT ![s] = "failed"] /\ UNCHANGED escrow
    /\ UNCHANGED <<intent, payoutReady, destination, transfer, identityVars, screeningVars>>

-----------------------------------------------------------------------------
\* begin_identity_verification_case_v1, as prepare calls it: the user is pointed at the
\* new case unless the user is verified.
Prepare(c) ==
    /\ idcase[c] = "none"
    /\ idcase' = [idcase EXCEPT ![c] = "PENDING"]
    /\ pointed' = IF verified THEN pointed ELSE c
    /\ UNCHANGED <<verified, payVars, screeningVars>>

MayBecome(from) ==
    CASE from = "PENDING" -> {"PROCESSING", "REVIEW_REQUIRED", "VERIFIED", "FAILED", "UNAVAILABLE"}
      [] from = "PROCESSING" -> {"REVIEW_REQUIRED", "VERIFIED", "FAILED", "UNAVAILABLE"}
      [] from = "REVIEW_REQUIRED" -> {"VERIFIED", "FAILED"}
      [] from = "VERIFIED" -> {"EXPIRED", "REVOKED"}
      [] OTHER -> {}

\* The user follows an event of the case the user is pointed at; and a verification.
Follow(c, to) ==
    /\ pointed' = IF to = "VERIFIED" THEN c ELSE pointed
    /\ verified' = IF to = "VERIFIED" THEN TRUE
                   ELSE IF to \in {"EXPIRED", "REVOKED"} /\ pointed = c THEN FALSE ELSE verified

\* record_identity_verification_event_v1.
Event(c, to) ==
    /\ to \in MayBecome(idcase[c])
    /\ idcase' = [idcase EXCEPT ![c] = to]
    /\ Follow(c, to)
    /\ UNCHANGED <<payVars, screeningVars>>

CompleteVerified(c) == idcase[c] \in {"PENDING", "PROCESSING", "REVIEW_REQUIRED"} /\ Event(c, "VERIFIED")

-----------------------------------------------------------------------------
Active(c) == background[c] \in {"PENDING", "IN_PROGRESS", "CLEAR"}

\* initiate: under the lock of the key, a report of the key or of the consent, and
\* a check that is active; none of them is there to be locked.
Seek(s, c) ==
    /\ seeker[s].at = "idle"
    /\ LET answer == IF report[c] # "none" THEN "done"
                     ELSE IF \E d \in Consents : Active(d) THEN "refused" ELSE "looked" IN
       seeker' = [seeker EXCEPT ![s] = [at |-> answer, with |-> c]]
    /\ crossed' = IF \E t \in Seekers \ {s} : seeker[t].at = "looked"
                  THEN crossed \cup {c} \cup {seeker[t].with : t \in {u \in Seekers : seeker[u].at = "looked"}}
                  ELSE crossed
    /\ UNCHANGED <<report, background, owed, payVars, identityVars>>

\* The report's id is made of worker and consent, so the second INSERT of one fails.
InsertReport(s) ==
    LET c == seeker[s].with IN
    /\ seeker[s].at = "looked"
    /\ IF report[c] = "none"
       THEN /\ report' = [report EXCEPT ![c] = "PENDING"]
            /\ background' = [background EXCEPT ![c] = "PENDING"]
            /\ seeker' = [seeker EXCEPT ![s].at = "done"]
       ELSE /\ seeker' = [seeker EXCEPT ![s] = Idle]
            /\ UNCHANGED <<report, background>>
    /\ UNCHANGED <<crossed, owed, payVars, identityVars>>

\* completeClear, under the lock of the check; the profile is recomputed afterwards, and
\* again when the caller comes back.
CompleteClear(c) ==
    /\ \/ /\ report[c] = "PENDING" /\ background[c] \in {"PENDING", "IN_PROGRESS"}
          /\ report' = [report EXCEPT ![c] = "CLEAR"]
          /\ background' = [background EXCEPT ![c] = "CLEAR"]
       \/ report[c] = "CLEAR" /\ background[c] = "CLEAR" /\ UNCHANGED <<report, background>>
    /\ owed' = owed \cup {c}
    /\ UNCHANGED <<seeker, crossed, payVars, identityVars>>

Recomputed(c) ==
    /\ c \in owed /\ owed' = owed \ {c}
    /\ UNCHANGED <<report, background, seeker, crossed, payVars, identityVars>>

\* updateBackgroundCheckStatus takes any check by its external id.
Overwritten(c, status) ==
    /\ Crossing /\ background[c] # "none"
    /\ background' = [background EXCEPT ![c] = status]
    /\ UNCHANGED <<report, seeker, crossed, owed, payVars, identityVars>>

-----------------------------------------------------------------------------
PayStep ==
    \/ CreateIntent \/ ConfirmIntent \/ ConfirmFunding \/ CompleteTask \/ Refund \/ ActivateDestination
    \/ \E s \in Settlers : Look(s) \/ InsertTransfer(s) \/ Release(s)
IdentityStep ==
    \E c \in Cases : \/ Prepare(c) \/ CompleteVerified(c)
                     \/ \E to \in MayBecome(idcase[c]) : Event(c, to)
ScreeningStep ==
    \/ \E s \in Seekers : InsertReport(s) \/ \E c \in Consents : Seek(s, c)
    \/ \E c \in Consents : \/ CompleteClear(c) \/ Recomputed(c)
                           \/ \E st \in {"IN_PROGRESS", "CLEAR", "CONSIDER"} : Overwritten(c, st)

Next == PayStep \/ IdentityStep \/ ScreeningStep

Settling(s) == Look(s) \/ InsertTransfer(s) \/ Release(s)

Spec == Init /\ [][Next]_vars

-----------------------------------------------------------------------------
\* What a settler reports as settled is released, on a paid transfer of a completed task.
SettledIsReleased ==
    /\ \A s \in Settlers : settler[s] = "settled" => escrow = "RELEASED"
    /\ escrow = "RELEASED" => (transfer # "none" /\ payoutReady)

\* A verified user is pointed at a case that is verified.
VerifiedIsBacked == verified => (pointed # "none" /\ idcase[pointed] = "VERIFIED")

\* Two checks are active only after two calls that overlapped.
TwoChecksNeedARace ==
    \A c, d \in Consents : (c # d /\ Active(c) /\ Active(d)) => {c, d} \subseteq crossed

\* A refunded escrow has no paid transfer. Violated: the refund comes between the transfer
\* and the release, which are two transactions.
RefundedIsUnpaid == escrow = "REFUNDED" => transfer = "none"

\* A user with a verified case is verified. Violated: an older case was replaced by
\* one that was revoked.
VerifiedCaseCounts == (\E c \in Cases : idcase[c] = "VERIFIED") => verified

\* A completed task whose worker has a destination is paid or refunded.
Ended == escrow \in {"RELEASED", "REFUNDED"}
================================================================================
