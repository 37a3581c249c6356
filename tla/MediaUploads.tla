------------------------------ MODULE MediaUploads ------------------------------
(***************************************************************************)
(* Private images (routers/upload, MediaUploadFinalizationService,         *)
(* MediaUploadReceiptService, PrivateMediaDeliveryService, storage/r2): a  *)
(* receipt names a quarantined object; finalization writes the sanitised   *)
(* canonical object and deletes the raw one; a message or a proof consumes *)
(* the receipt; a sweep removes what expired; viewers get signed links.    *)
(*                                                                         *)
(* The row is in the database, the two objects in R2, and each call to     *)
(* either is a step. A fault ends a call after any of its steps.           *)
(***************************************************************************)
EXTENDS FiniteSets

CONSTANTS
    Receipts,
    Finalizers, \* concurrent calls of finalizeMediaUpload
    Viewers,    \* participants who ask for links
    BadAllowed, \* whether an upload may differ from its signed contract
    Faults      \* whether calls to storage fail and processes die

MediaAssumption == BadAllowed \in BOOLEAN /\ Faults \in BOOLEAN /\ IsFiniteSet(Receipts)

VARIABLES
    status,    \* media_upload_receipts.status
    age,       \* of a receipt: "fresh", "stale" (15 minutes), "old" (24 hours)
    raw,       \* the object under the quarantine key
    canonical, \* whether the canonical object exists
    call,      \* calls of finalizeMediaUpload
    sweep,     \* the row expireMediaUploadReceipts is working on
    consuming, \* receipts in a transaction of their consumer
    overran,   \* receipts that grew old inside that transaction
    member,    \* viewers who are participants of the task
    link,      \* what each viewer's request for links has come to
    log        \* media_access_log

vars == <<status, age, raw, canonical, call, sweep, consuming, overran, member, link, log>>

Idle == [pc |-> "idle"]
AtStep == {"download", "store", "clear", "finish", "recover", "drop", "reject", "undo"}

TypeOK ==
    /\ status \in [Receipts -> {"none", "QUARANTINED", "FINALIZED", "CONSUMED", "REJECTED", "EXPIRED"}]
    /\ age \in [Receipts -> {"fresh", "stale", "old"}]
    /\ raw \in [Receipts -> {"none", "valid", "bad"}] /\ canonical \in [Receipts -> BOOLEAN]
    /\ call \in [Finalizers -> {Idle} \cup [pc : AtStep, of : Receipts]]
    /\ sweep \in {Idle} \cup [pc : {"raw", "canonical", "row"}, of : Receipts, key : BOOLEAN]
    /\ consuming \subseteq Receipts /\ overran \subseteq Receipts /\ member \subseteq Viewers
    /\ link \in [Viewers -> {Idle} \cup [pc : {"authorized", "signed", "delivered"}, of : Receipts]]
    /\ log \subseteq Viewers \X Receipts

Init ==
    /\ status = [r \in Receipts |-> "none"] /\ age = [r \in Receipts |-> "fresh"]
    /\ raw = [r \in Receipts |-> "none"] /\ canonical = [r \in Receipts |-> FALSE]
    /\ call = [f \in Finalizers |-> Idle] /\ sweep = Idle
    /\ consuming = {} /\ overran = {} /\ member = Viewers
    /\ link = [v \in Viewers |-> Idle] /\ log = {}

rowVars == <<status, age>>
linkVars == <<member, link, log>>
useVars == <<consuming, overran>>

-----------------------------------------------------------------------------
GetPresignedUrl(r) ==
    /\ status[r] = "none"
    /\ status' = [status EXCEPT ![r] = "QUARANTINED"]
    /\ UNCHANGED <<age, raw, canonical, call, sweep, useVars, linkVars>>

\* The client puts the object, as often as it likes while the address is valid.
PutObject(r) ==
    /\ status[r] # "none" /\ age[r] = "fresh"
    /\ \E o \in {"valid"} \cup (IF BadAllowed THEN {"bad"} ELSE {}) : raw' = [raw EXCEPT ![r] = o]
    /\ UNCHANGED <<rowVars, canonical, call, sweep, useVars, linkVars>>

GrowsOld(r) ==
    /\ status[r] # "none" /\ age[r] # "old"
    /\ age' = [age EXCEPT ![r] = IF @ = "fresh" THEN "stale" ELSE "old"]
    /\ overran' = IF age[r] = "stale" /\ r \in consuming THEN overran \cup {r} ELSE overran
    /\ UNCHANGED <<status, raw, canonical, call, sweep, consuming, linkVars>>

-----------------------------------------------------------------------------
At(f, pc) == call[f] # Idle /\ call[f].pc = pc
Goto(f, pc) == call' = [call EXCEPT ![f].pc = pc]
Return(f) == call' = [call EXCEPT ![f] = Idle]

\* finalizeMediaUpload: what the row says first.
Finalize(f, r) ==
    /\ call[f] = Idle /\ status[r] = "QUARANTINED"
    /\ call' = [call EXCEPT ![f] = [pc |-> IF age[r] = "fresh" THEN "download" ELSE "drop", of |-> r]]
    /\ UNCHANGED <<rowVars, raw, canonical, sweep, useVars, linkVars>>

\* validateStoredObject and sanitizeImageBytes decide what becomes of the object.
Download(f) ==
    /\ At(f, "download")
    /\ Goto(f, CASE raw[call[f].of] = "none" -> "recover"
                 [] raw[call[f].of] = "bad" -> "drop"
                 [] OTHER -> "store")
    /\ UNCHANGED <<rowVars, raw, canonical, sweep, useVars, linkVars>>

\* rejectAndDeleteRaw.
DropRaw(f) ==
    /\ At(f, "drop")
    /\ raw' = [raw EXCEPT ![call[f].of] = "none"]
    /\ Goto(f, "reject")
    /\ UNCHANGED <<rowVars, canonical, sweep, useVars, linkVars>>

Reject(f) ==
    /\ At(f, "reject")
    /\ status' = [status EXCEPT ![call[f].of] = IF @ = "QUARANTINED" THEN "REJECTED" ELSE @]
    /\ Return(f)
    /\ UNCHANGED <<age, raw, canonical, sweep, useVars, linkVars>>

\* A failure of either write takes the canonical object back.
Store(f) ==
    /\ At(f, "store")
    /\ \/ canonical' = [canonical EXCEPT ![call[f].of] = TRUE] /\ Goto(f, "clear")
       \/ Faults /\ Goto(f, "undo") /\ UNCHANGED canonical
    /\ UNCHANGED <<rowVars, raw, sweep, useVars, linkVars>>

ClearRaw(f) ==
    /\ At(f, "clear")
    /\ \/ raw' = [raw EXCEPT ![call[f].of] = "none"] /\ Goto(f, "finish")
       \/ Faults /\ Goto(f, "undo") /\ UNCHANGED raw
    /\ UNCHANGED <<rowVars, canonical, sweep, useVars, linkVars>>

Undo(f) ==
    /\ At(f, "undo")
    /\ \/ canonical' = [canonical EXCEPT ![call[f].of] = FALSE]
       \/ Faults /\ UNCHANGED canonical
    /\ Return(f)
    /\ UNCHANGED <<rowVars, raw, sweep, useVars, linkVars>>

Finish(f) ==
    /\ At(f, "finish")
    /\ status' = [status EXCEPT ![call[f].of] = IF @ = "QUARANTINED" THEN "FINALIZED" ELSE @]
    /\ Return(f)
    /\ UNCHANGED <<age, raw, canonical, sweep, useVars, linkVars>>

\* recoverCanonicalFinalization: an earlier call got as far as deleting the raw object.
Recover(f) ==
    /\ At(f, "recover")
    /\ IF canonical[call[f].of] THEN Goto(f, "finish") ELSE Return(f)
    /\ UNCHANGED <<rowVars, raw, canonical, sweep, useVars, linkVars>>

Die(f) ==
    /\ Faults /\ call[f] # Idle /\ Return(f)
    /\ UNCHANGED <<rowVars, raw, canonical, sweep, useVars, linkVars>>

-----------------------------------------------------------------------------
Due(r) == (status[r] = "QUARANTINED" /\ age[r] # "fresh") \/ (status[r] = "FINALIZED" /\ age[r] = "old")

\* expireMediaUploadReceipts: the objects of the row as it was read, then the row.
Select(r) ==
    /\ sweep = Idle /\ Due(r)
    /\ sweep' = [pc |-> "raw", of |-> r, key |-> status[r] = "FINALIZED"]
    /\ UNCHANGED <<rowVars, raw, canonical, call, useVars, linkVars>>

SweepRaw ==
    /\ sweep.pc = "raw"
    /\ \/ /\ raw' = [raw EXCEPT ![sweep.of] = "none"]
          /\ sweep' = [sweep EXCEPT !.pc = IF sweep.key THEN "canonical" ELSE "row"]
       \/ Faults /\ sweep' = Idle /\ UNCHANGED raw
    /\ UNCHANGED <<rowVars, canonical, call, useVars, linkVars>>

SweepCanonical ==
    /\ sweep.pc = "canonical"
    /\ \/ /\ canonical' = [canonical EXCEPT ![sweep.of] = FALSE]
          /\ sweep' = [sweep EXCEPT !.pc = "row"]
       \/ Faults /\ sweep' = Idle /\ UNCHANGED canonical
    /\ UNCHANGED <<rowVars, raw, call, useVars, linkVars>>

Expire ==
    /\ sweep.pc = "row" /\ sweep.of \notin consuming
    /\ status' = [status EXCEPT ![sweep.of] = IF Due(sweep.of) THEN "EXPIRED" ELSE @]
    /\ sweep' = Idle
    /\ UNCHANGED <<age, raw, canonical, call, useVars, linkVars>>

-----------------------------------------------------------------------------
\* consumeFinalizedMediaReceipt, in a transaction whose NOW() is its beginning and
\* which holds the row until it commits.
Consume(r) ==
    /\ status[r] = "FINALIZED" /\ age[r] # "old" /\ r \notin consuming
    /\ consuming' = consuming \cup {r}
    /\ UNCHANGED <<rowVars, raw, canonical, call, sweep, overran, linkVars>>

Commit(r) ==
    /\ r \in consuming /\ consuming' = consuming \ {r}
    /\ \/ status' = [status EXCEPT ![r] = "CONSUMED"]
       \/ Faults /\ UNCHANGED status
    /\ UNCHANGED <<age, raw, canonical, call, sweep, overran, linkVars>>

-----------------------------------------------------------------------------
\* issueParticipantMediaAccess: authorise, sign, and record; what could not be recorded
\* under the authority of that moment is not handed out.
LoadAuthorizedReceipts(v, r) ==
    /\ link[v] = Idle /\ status[r] = "CONSUMED" /\ v \in member
    /\ link' = [link EXCEPT ![v] = [pc |-> "authorized", of |-> r]]
    /\ UNCHANGED <<rowVars, raw, canonical, call, sweep, useVars, member, log>>

SignObject(v) ==
    /\ link[v].pc = "authorized"
    /\ \/ link' = [link EXCEPT ![v].pc = "signed"]
       \/ Faults /\ link' = [link EXCEPT ![v] = Idle]
    /\ UNCHANGED <<rowVars, raw, canonical, call, sweep, useVars, member, log>>

StoreAccessAudit(v) ==
    /\ link[v].pc = "signed"
    /\ IF v \in member /\ status[link[v].of] = "CONSUMED"
       THEN log' = log \cup {<<v, link[v].of>>} /\ link' = [link EXCEPT ![v].pc = "delivered"]
       ELSE link' = [link EXCEPT ![v] = Idle] /\ UNCHANGED log
    /\ UNCHANGED <<rowVars, raw, canonical, call, sweep, useVars, member>>

\* The task's worker changes.
Leave(v) ==
    /\ v \in member /\ member' = member \ {v}
    /\ UNCHANGED <<rowVars, raw, canonical, call, sweep, useVars, link, log>>

-----------------------------------------------------------------------------
Continue(f) ==
    Download(f) \/ DropRaw(f) \/ Reject(f) \/ Store(f) \/ ClearRaw(f) \/ Undo(f) \/ Finish(f) \/ Recover(f)
Sweeper == (\E r \in Receipts : Select(r)) \/ SweepRaw \/ SweepCanonical \/ Expire

Next ==
    \/ \E r \in Receipts : GetPresignedUrl(r) \/ PutObject(r) \/ GrowsOld(r) \/ Consume(r) \/ Commit(r)
    \/ \E f \in Finalizers : (\E r \in Receipts : Finalize(f, r)) \/ Continue(f) \/ Die(f)
    \/ Sweeper
    \/ \E v \in Viewers : (\E r \in Receipts : LoadAuthorizedReceipts(v, r)) \/ SignObject(v)
                          \/ StoreAccessAudit(v) \/ Leave(v)

\* Time passes, the sweep runs from the maintenance queue, transactions end.
Fairness == WF_vars(Sweeper) /\ \A r \in Receipts : WF_vars(GrowsOld(r)) /\ WF_vars(Commit(r))

Spec == Init /\ [][Next]_vars /\ Fairness

-----------------------------------------------------------------------------
\* A receipt that is finalized or consumed has its canonical object, but when it is due
\* to be swept and when a consumer's transaction outlived the receipt: for one call at a time
\* whatever fails, and for concurrent ones while storage works (Finalizers and Faults).
ReceiptHasObject ==
    \A r \in Receipts :
        status[r] \in {"FINALIZED", "CONSUMED"} /\ ~canonical[r] => Due(r) \/ r \in overran

\* A link was handed out only under a record of it (media_access_log).
DeliveredIsLogged ==
    \A v \in Viewers : link[v] # Idle /\ link[v].pc = "delivered" => <<v, link[v].of>> \in log

\* A receipt is consumed, rejected or expired in the end.
ReceiptEnds ==
    \A r \in Receipts : status[r] = "QUARANTINED" ~> status[r] \in {"CONSUMED", "REJECTED", "EXPIRED"}

\* Of an ended receipt: nothing of it is left in storage.
EndedLeavesNothing ==
    \A r \in Receipts : status[r] \in {"REJECTED", "EXPIRED"} => ~canonical[r]
=============================================================================
