------------------------------ MODULE Credentials ------------------------------
(***************************************************************************)
(* What lets one worker into restricted work: licences and insurance that  *)
(* are submitted and reviewed, a background check with the rights that     *)
(* stand between a report and a refusal, and the capability profile that   *)
(* is computed from them, in a transaction that follows the one that       *)
(* changed a record.                                                       *)
(***************************************************************************)
EXTENDS Integers, FiniteSets

CONSTANTS
    Papers, Licences,          \* submissions; those of a licence, the others of insurance
    MaxDay,                    \* bound on days
    Screened,                  \* whether the worker asks for a background check
    Faults                     \* whether a process can stop between two transactions

CredentialsAssumption ==
    /\ Licences \subseteq Papers /\ MaxDay \in Nat /\ {Screened, Faults} \subseteq BOOLEAN
    /\ "report" \notin Papers

VARIABLES
    today, submitting,         \* submissions that found no other one
    paper,                     \* license_verifications, insurance_verifications
    consent, check,            \* worker_screening_consents; background_checks.status
    notice, contest, plea,     \* the notice before a refusal, a dispute, an appeal
    profile,                   \* capability_profiles and verified_trades
    owed,                      \* recomputations that follow a commit
    missed,                    \* why the profile may be behind
    together                   \* submissions that were made side by side

paperVars == <<submitting, paper, together>>
checkVars == <<consent, check, notice, contest, plea>>
profileVars == <<profile, owed, missed>>
vars == <<today, paperVars, checkVars, profileVars>>

NotSubmitted == [status |-> "none", expires |-> 0]
Kind(p) == IF p \in Licences THEN Licences ELSE Papers \ Licences

TypeOK ==
    /\ today \in 0..MaxDay
    /\ submitting \cup together \subseteq Papers
    /\ paper \in [Papers -> [status : {"none", "PENDING", "APPROVED", "REJECTED"}, expires : 0..MaxDay]]
    /\ consent \in {"none", "granted", "revoked"}
    /\ check \in {"none", "PENDING", "IN_PROGRESS", "CLEAR", "CONSIDER", "PRE_ADVERSE", "DISPUTED", "FAILED"}
    /\ notice \in {"none", "delivered", "elapsed"}
    /\ {contest, plea} \subseteq {"none", "OPEN", "closed"}
    /\ profile \in [trade : BOOLEAN, insured : BOOLEAN, cleared : BOOLEAN]
    /\ owed \subseteq Papers \cup {"report"}
    /\ missed \subseteq {"day", "lost", "left"}

Init ==
    /\ today = 0 /\ submitting = {} /\ together = {}
    /\ paper = [p \in Papers |-> NotSubmitted]
    /\ consent = "none" /\ check = "none" /\ notice = "none" /\ contest = "none" /\ plea = "none"
    /\ profile = [trade |-> FALSE, insured |-> FALSE, cleared |-> FALSE]
    /\ owed = {} /\ missed = {}

-----------------------------------------------------------------------------
Live(p) == paper[p].status \in {"PENDING", "APPROVED"}

\* A licence stands in the way of another when it has expired, too, as nothing marks it
\* expired; insurance that ends soon does not.
LicenceBlocks(p) == p \in Licences /\ Live(p)
InsuranceBlocks(p) == p \notin Licences /\ Live(p) /\ paper[p].expires > today + 1
Blocks(p) == LicenceBlocks(p) \/ InsuranceBlocks(p)

\* The look at the other papers, then the INSERT.
LookFor(p) ==
    /\ paper[p] = NotSubmitted /\ p \notin submitting
    /\ submitting' = submitting \cup {p}
    /\ together' = IF submitting \cap Kind(p) = {} THEN together
                   ELSE together \cup {p} \cup (submitting \cap Kind(p))
    /\ UNCHANGED <<today, paper, checkVars, profileVars>>

CheckLicence(p) == p \in Licences /\ (\A q \in Licences : ~LicenceBlocks(q)) /\ LookFor(p)
CheckInsurance(p) == p \notin Licences /\ (\A q \in Papers : ~InsuranceBlocks(q)) /\ LookFor(p)

Insert(p, day) ==
    /\ p \in submitting /\ submitting' = submitting \ {p}
    /\ paper' = [paper EXCEPT ![p] = [status |-> "PENDING", expires |-> day]]
    /\ UNCHANGED <<today, together, checkVars, profileVars>>

SubmitLicence(p, day) == p \in Licences /\ Insert(p, day)
SubmitInsurance(p, day) == p \notin Licences /\ Insert(p, day)

\* The recomputation comes after the UPDATE.
Reviewed(p, status) ==
    /\ paper[p].status = "PENDING"
    /\ paper' = [paper EXCEPT ![p].status = status]
    /\ owed' = IF status = "APPROVED" THEN owed \cup {p} ELSE owed
    /\ UNCHANGED <<today, submitting, together, checkVars, profile, missed>>

ApproveLicence(p) == p \in Licences /\ Reviewed(p, "APPROVED")
RejectLicence(p) == p \in Licences /\ Reviewed(p, "REJECTED")
ApproveInsurance(p) == p \notin Licences /\ Reviewed(p, "APPROVED")
RejectInsurance(p) == p \notin Licences /\ Reviewed(p, "REJECTED")

-----------------------------------------------------------------------------
\* The profile says what the records say: approved and ending after today.
Good(p) == paper[p].status = "APPROVED" /\ paper[p].expires > today
Licensed == \E p \in Licences : Good(p)
Insured == \E p \in Papers \ Licences : Good(p)
Cleared == check = "CLEAR"
Computed == [trade |-> Licensed, insured |-> Insured, cleared |-> Cleared]

\* recomputeCapabilityProfile, under the lock of the user: for a caller that owes it,
\* or for a reader of the profile.
Recompute(rest) ==
    /\ profile' = Computed /\ missed' = {} /\ owed' = rest
    /\ UNCHANGED <<today, paperVars, checkVars>>

Refresh(c) == c \in owed /\ Recompute(owed \ {c})
ReadProfile == Recompute(owed)

Lose(c) ==
    /\ Faults /\ c \in owed
    /\ owed' = owed \ {c} /\ missed' = missed \cup {"lost"}
    /\ UNCHANGED <<today, paperVars, checkVars, profile>>

\* Nothing runs at midnight: markExpiredLicenses and its like have no caller.
Midnight ==
    /\ today < MaxDay /\ today' = today + 1
    /\ missed' = missed \cup {"day"}
    /\ UNCHANGED <<paperVars, checkVars, profile, owed>>

-----------------------------------------------------------------------------
\* A step of the check to a status. Only a way into CLEAR is followed by a recomputation.
Becomes(status) ==
    /\ check' = status
    /\ owed' = IF status = "CLEAR" THEN owed \cup {"report"} ELSE owed
    /\ missed' = IF check = "CLEAR" /\ status # "CLEAR" THEN missed \cup {"left"} ELSE missed
    /\ UNCHANGED <<today, paperVars, profile>>

\* enforce_worker_screening_adverse_action, on every way into FAILED.
MayFail == check = "FAILED" \/ (notice = "elapsed" /\ contest # "OPEN")
GrantConsent ==
    /\ Screened /\ consent # "granted" /\ consent' = "granted"
    /\ UNCHANGED <<today, paperVars, check, notice, contest, plea, profileVars>>

RevokeConsent ==
    /\ consent = "granted" /\ consent' = "revoked"
    /\ UNCHANGED <<today, paperVars, check, notice, contest, plea, profileVars>>

Initiate ==
    /\ consent = "granted" /\ check = "none" /\ Becomes("PENDING")
    /\ UNCHANGED <<consent, notice, contest, plea>>

\* updateBackgroundCheckStatus does not look at the status it replaces.
ProviderUpdates(status) ==
    /\ check # "none" /\ Becomes(status)
    /\ UNCHANGED <<consent, notice, contest, plea>>

ReviewClear ==
    /\ check = "CONSIDER" /\ Becomes("CLEAR")
    /\ UNCHANGED <<consent, notice, contest, plea>>

\* beginPreAdverseAction: one notice for a check, the first one counts.
BeginPreAdverse ==
    /\ check \in {"CONSIDER", "PRE_ADVERSE"} /\ Becomes("PRE_ADVERSE")
    /\ notice' = IF notice = "none" THEN "delivered" ELSE notice
    /\ UNCHANGED <<consent, contest, plea>>

WindowElapses ==
    /\ notice = "delivered" /\ notice' = "elapsed"
    /\ UNCHANGED <<today, paperVars, consent, check, contest, plea, profileVars>>

\* finalizeAdverseAction has no condition of its own on the status.
FinalizeAdverse ==
    /\ notice # "none" /\ MayFail /\ Becomes("FAILED")
    /\ UNCHANGED <<consent, notice, contest, plea>>

\* submitScreeningDispute; one open dispute by index.
Dispute ==
    /\ check \in {"CONSIDER", "PRE_ADVERSE", "DISPUTED", "FAILED"} /\ contest # "OPEN"
    /\ contest' = "OPEN" /\ Becomes("DISPUTED")
    /\ UNCHANGED <<consent, notice, plea>>

ResolveDispute(status) ==
    /\ contest = "OPEN" /\ contest' = "closed" /\ Becomes(status)
    /\ UNCHANGED <<consent, notice, plea>>

\* submitScreeningAppeal, resolveScreeningAppeal: the appeal's status is what is looked at.
Appeal ==
    /\ check = "FAILED" /\ plea' = "OPEN"
    /\ UNCHANGED <<today, paperVars, consent, check, notice, contest, profileVars>>

ResolveAppeal(status) ==
    /\ plea = "OPEN" /\ plea' = "closed"
    /\ status = "FAILED" => MayFail
    /\ Becomes(status)
    /\ UNCHANGED <<consent, notice, contest>>

-----------------------------------------------------------------------------
PaperStep == \E p \in Papers :
    \/ CheckLicence(p) \/ ApproveLicence(p) \/ RejectLicence(p)
    \/ CheckInsurance(p) \/ ApproveInsurance(p) \/ RejectInsurance(p)
    \/ \E day \in 1..MaxDay : SubmitLicence(p, day) \/ SubmitInsurance(p, day)
ProfileStep == ReadProfile \/ \E c \in owed : Refresh(c) \/ Lose(c)
CheckStep ==
    \/ GrantConsent \/ RevokeConsent \/ Initiate
    \/ \E s \in {"IN_PROGRESS", "CLEAR", "CONSIDER"} : ProviderUpdates(s)
    \/ ReviewClear \/ BeginPreAdverse \/ WindowElapses \/ FinalizeAdverse
RightsStep ==
    \/ Dispute \/ Appeal
    \/ \E s \in {"CLEAR", "PRE_ADVERSE"} : ResolveDispute(s)
    \/ \E s \in {"CLEAR", "FAILED"} : ResolveAppeal(s)

Next == PaperStep \/ Midnight \/ ProfileStep \/ CheckStep \/ RightsStep

Spec == Init /\ [][Next]_vars

-----------------------------------------------------------------------------
\* Two papers of a kind are live together only when they were submitted side by side:
\* the look and the INSERT are two statements, and no index joins them.
DoubledNeedsARace ==
    \A p, q \in Papers :
        (p # q /\ Kind(p) = Kind(q) /\ Blocks(p) /\ Blocks(q)) => (p \in together /\ q \in together)

\* The profile differs from the records only while a recomputation is owed, or after one
\* was lost, a day went by or a check left CLEAR.
BehindForAReason == profile # Computed => (owed # {} \/ missed # {})

\* No refusal stands while the worker disputes the report.
PausedInDispute == check = "FAILED" => contest # "OPEN"

\* A refusal follows its notice and the window after it.
RefusedAfterNotice == check = "FAILED" => notice = "elapsed"

\* A dispute that is open keeps the report disputed. Violated: a late message of the
\* provider, or an appeal that is overturned, replaces the status.
DisputedWhileOpen == contest = "OPEN" => check = "DISPUTED"

\* A report that was corrected is not refused again by an older appeal. Violated.
CorrectedStays == [][(check = "CLEAR" /\ plea = "OPEN") => check' # "FAILED"]_vars

\* Whoever lost a clear report is not cleared in the profile. Violated: only a way into
\* CLEAR is followed by a recomputation.
ClearedIsClear == (profile.cleared /\ owed = {}) => check = "CLEAR"
================================================================================
