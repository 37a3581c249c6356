----------------------------- MODULE ProofSignals -----------------------------
(***************************************************************************)
(* The advisory signals of one proof: its photo is analysed for the worker *)
(* who asks, for the poster who accepts, and for a queued job, each time   *)
(* through a provider that may be slow, unavailable or wrong, and each     *)
(* analysis is written over the one before. The judge weighs a review's    *)
(* own analysis with the place where the proof was made.                   *)
(***************************************************************************)
EXTENDS Integers, FiniteSets, FiniteSetsExt

CONSTANTS
    Requests, Reviews, Jobs,   \* submissions of the worker, reviews by the poster, deliveries of a job
    Faces,                     \* what a provider can see: liveness and deepfake scores, in hundredths
    Places,                    \* where the proof was made: metres from the task, accuracy; or nothing
    Faults                     \* whether locks expire, jobs stop and accounts are erased

Calls == Requests \cup Reviews \cup Jobs

ProofSignalsAssumption ==
    /\ Faces \subseteq [live : 0..100, fake : 0..100]
    /\ \A p \in Places : p = <<>> \/ p \in Nat \X Nat
    /\ Faults \in BOOLEAN /\ "none" \notin Calls
    /\ \A a, b \in {Requests, Reviews, Jobs} : a = b \/ a \cap b = {}

VARIABLES
    consent,                   \* user_consents: biometric_data
    place,                     \* the recorded place of the proof
    proof, reviewable,         \* proofs.state; whether the task still waits for a review
    signal,                    \* biometric_signal_status and the scores
    mark, told,                \* metadata of the submission; the administrators
    opinion,                   \* the judge's logged verdict on an acceptance
    call, lock,                \* where a call is; who holds the advisory lock of reviews
    erased,                    \* whether the worker's data is erased
    overtaken,                 \* calls admitted before consent was withdrawn or data erased
    torn, crowded              \* a job that stopped between its writes; a lock that was lost

recordVars == <<consent, place, erased, reviewable>>
doubtVars == <<overtaken, torn, crowded>>
vars == <<recordVars, proof, signal, mark, told, opinion, call, lock, doubtVars>>

None == [live |-> -1, fake |-> -1]
Idle == [at |-> "idle", answer |-> "none", face |-> None, spot |-> <<>>]
NotRun == [status |-> "NOT_RUN", face |-> None]

TypeOK ==
    /\ {consent, reviewable, told, erased, torn, crowded} \subseteq BOOLEAN
    /\ place \in Places \cup {<<>>}
    /\ proof \in {"SUBMITTED", "ACCEPTED", "REJECTED"}
    /\ signal \in [status : {"NOT_RUN", "AVAILABLE", "UNAVAILABLE", "FAILED"}, face : Faces \cup {None}]
    /\ mark \in [found : {"none", "approve", "manual_review", "reject"}, manual : BOOLEAN]
    /\ opinion \in {"none", "APPROVE", "MANUAL_REVIEW"}
    /\ call \in [Calls -> [at : {"idle", "admitted", "answered", "written", "marked", "done"},
                           answer : {"none", "AVAILABLE", "UNAVAILABLE", "FAILED"},
                           face : Faces \cup {None}, spot : Places \cup {<<>>}]]
    /\ lock \in Reviews \cup {"none"}
    /\ overtaken \subseteq Calls

Init ==
    /\ consent = FALSE /\ place \in Places /\ reviewable = TRUE /\ erased = FALSE
    /\ proof = "SUBMITTED" /\ signal = NotRun /\ mark = [found |-> "none", manual |-> FALSE]
    /\ told = FALSE /\ opinion = "none" /\ call = [c \in Calls |-> Idle] /\ lock = "none"
    /\ overtaken = {} /\ torn = FALSE /\ crowded = FALSE

-----------------------------------------------------------------------------
\* What an analysis of a face recommends, and the level of its risk.
Recommends(f) ==
    CASE f.live < 50 \/ f.fake > 85 -> "reject"
      [] f.live < 70 /\ f.live >= 50 /\ f.fake <= 85 -> "manual_review"
      [] OTHER -> "approve"

RiskLevel(f) ==
    CASE f.fake > 90 \/ f.live < 40 -> "CRITICAL"
      [] f.fake > 85 \/ f.live < 60 -> "HIGH"
      [] f.fake > 70 \/ f.live < 70 -> "MEDIUM"
      [] OTHER -> "LOW"

\* The judge's scores, in hundredths, twice over to stay whole. Neither the way travelled nor the
\* time lock reaches it.
ScoreBiometric(f) == (100 - f.live) + f.fake
Near(p) == p[1] <= 500
ScoreLogistics(p) == (IF Near(p) THEN 0 ELSE 80) + (IF p[2] > 50 THEN 20 ELSE 0)

\* Components weigh the same; with fewer than two the judge does not approve.
DeterministicVerdict(f, p) ==
    LET known == (IF f = None THEN {} ELSE {"biometric"}) \cup (IF p = <<>> THEN {} ELSE {"logistics"})
        score(c) == IF c = "biometric" THEN ScoreBiometric(f) ELSE ScoreLogistics(p)
        sum == MapThenSumSet(score, known)
        n == Cardinality(known)
    IN CASE n > 0 /\ sum > 140 * n -> "REJECT"
         [] n = 2 /\ sum < 60 * n -> "APPROVE"
         [] OTHER -> "MANUAL_REVIEW"

-----------------------------------------------------------------------------
InFlight == {c \in Calls : call[c].at \in {"admitted", "answered"}}
GoesTo(c, at) == call' = [call EXCEPT ![c].at = at]

\* updateConsent: one row per user and type.
SetConsent ==
    /\ Requests # {} /\ ~erased /\ consent' = ~consent
    /\ overtaken' = IF consent THEN overtaken \cup InFlight ELSE overtaken
    /\ UNCHANGED <<place, erased, reviewable, proof, signal, mark, told, opinion, call, lock, torn, crowded>>

\* A request of the worker is refused while scores are there, and without consent.
Admits == signal.status # "AVAILABLE" /\ consent
AskedByWorker(r) ==
    /\ call[r].at = "idle" /\ ~erased /\ place # <<>> /\ Admits
    /\ GoesTo(r, "admitted")
    /\ UNCHANGED <<recordVars, proof, signal, mark, told, opinion, lock, doubtVars>>

\* The poster accepts: a look at the proof and its place, then the lock, which another review
\* may have. Without a photo nothing is analysed.
AcceptBegins(v) ==
    /\ call[v].at = "idle" /\ proof = "SUBMITTED" /\ lock = "none" /\ lock' = v
    /\ call' = [call EXCEPT ![v].at = IF erased THEN "written" ELSE "admitted", ![v].spot = place]
    /\ UNCHANGED <<recordVars, proof, signal, mark, told, opinion, doubtVars>>

\* A delivery of the job ends at once when its mark is there.
JobBegins(j) ==
    /\ call[j].at = "idle" /\ ~erased
    /\ GoesTo(j, IF mark.found = "none" THEN "admitted" ELSE "done")
    /\ UNCHANGED <<recordVars, proof, signal, mark, told, opinion, lock, doubtVars>>

\* One provider after the other; scores, or none, or an error.
Answer(c) ==
    /\ call[c].at = "admitted"
    /\ \/ \E f \in Faces : call' = [call EXCEPT ![c].at = "answered", ![c].answer = "AVAILABLE", ![c].face = f]
       \/ \E s \in {"UNAVAILABLE", "FAILED"} :
             call' = [call EXCEPT ![c].at = "answered", ![c].answer = s]
    /\ UNCHANGED <<recordVars, proof, signal, mark, told, opinion, lock, doubtVars>>

\* analyzeProofSubmission writes what it got over what was there.
Written(c) == [status |-> call[c].answer, face |-> call[c].face]
Write(c) ==
    /\ call[c].at = "answered" /\ signal' = Written(c) /\ GoesTo(c, "written")
    /\ UNCHANGED <<recordVars, proof, mark, told, opinion, lock, doubtVars>>

\* The worker gets a recommendation; nothing of it is stored.
TellWorker(r) ==
    /\ r \in Requests /\ call[r].at = "written" /\ GoesTo(r, "done")
    /\ UNCHANGED <<recordVars, proof, signal, mark, told, opinion, lock, doubtVars>>

-----------------------------------------------------------------------------
\* A reviewer gives back whatever lock is there.
LetGo(v) ==
    /\ lock' = "none"
    /\ crowded' = (crowded \/ lock \notin {v, "none"})

\* The judge's advice from a model is logged and thrown away; what counts is computed.
SynthesizeVerdict(v) == DeterministicVerdict(call[v].face, call[v].spot)

\* The verdict is logged in the transaction of the review.
LogVerdict(verdict) == opinion' = verdict

\* commitReview: the proof and the task are as they were, the verdict is logged with the state.
Accept(v) ==
    LET verdict == SynthesizeVerdict(v) IN
    /\ call[v].at = "written" /\ GoesTo(v, "done") /\ LetGo(v)
    /\ IF verdict # "REJECT" /\ proof = "SUBMITTED" /\ reviewable
       THEN proof' = "ACCEPTED" /\ LogVerdict(verdict)
       ELSE UNCHANGED <<proof, opinion>>
    /\ UNCHANGED <<recordVars, signal, mark, told, overtaken, torn>>

\* A rejection takes the same lock for one transaction and analyses nothing.
Reject ==
    /\ Reviews # {} /\ lock = "none" /\ proof = "SUBMITTED" /\ reviewable /\ proof' = "REJECTED"
    /\ UNCHANGED <<recordVars, signal, mark, told, opinion, call, lock, doubtVars>>

\* The task is cancelled or disputed meanwhile.
TaskMoves ==
    /\ Reviews # {} /\ reviewable /\ proof = "SUBMITTED" /\ reviewable' = FALSE
    /\ UNCHANGED <<consent, place, erased, proof, signal, mark, told, opinion, call, lock, doubtVars>>

\* The lock outlives its time before the analysis ends, or Redis is away.
LockLost ==
    /\ Faults /\ lock # "none" /\ lock' = "none" /\ crowded' = TRUE
    /\ UNCHANGED <<recordVars, proof, signal, mark, told, opinion, call, overtaken, torn>>

-----------------------------------------------------------------------------
\* The job's writes: the analysis, the need of a person, the message to the administrators.
MarkFound(j) ==
    /\ j \in Jobs /\ call[j].at = "written"
    /\ IF call[j].face = None
       THEN mark' = mark /\ GoesTo(j, IF call[j].answer = "UNAVAILABLE" THEN "done" ELSE "idle")
       ELSE mark' = [mark EXCEPT !.found = Recommends(call[j].face)]
            /\ GoesTo(j, IF Recommends(call[j].face) = "approve" THEN "done" ELSE "marked")
    /\ UNCHANGED <<recordVars, proof, signal, told, opinion, lock, doubtVars>>

MarkManual(j) ==
    /\ call[j].at = "marked" /\ mark' = [mark EXCEPT !.manual = TRUE] /\ told' = TRUE
    /\ GoesTo(j, "done")
    /\ UNCHANGED <<recordVars, proof, signal, opinion, lock, doubtVars>>

\* The job stops and is delivered again.
JobStops(j) ==
    /\ Faults /\ call[j].at \in {"admitted", "answered", "written", "marked"}
    /\ call' = [call EXCEPT ![j] = Idle] /\ torn' = (torn \/ call[j].at = "marked")
    /\ UNCHANGED <<recordVars, proof, signal, mark, told, opinion, lock, overtaken, crowded>>

\* deleteAndAnonymizeUserData resets the submission and removes the photo and the consent.
Erase ==
    /\ Faults /\ ~erased /\ erased' = TRUE /\ consent' = FALSE /\ place' = <<>>
    /\ signal' = NotRun /\ mark' = [found |-> "none", manual |-> FALSE]
    /\ overtaken' = overtaken \cup {c \in Calls : call[c].at \notin {"idle", "done"}}
    /\ UNCHANGED <<reviewable, proof, told, opinion, call, lock, torn, crowded>>

Next ==
    \/ SetConsent \/ Reject \/ TaskMoves \/ LockLost \/ Erase
    \/ \E r \in Requests : AskedByWorker(r) \/ TellWorker(r)
    \/ \E v \in Reviews : AcceptBegins(v) \/ Accept(v)
    \/ \E j \in Jobs : JobBegins(j) \/ MarkFound(j) \/ MarkManual(j) \/ JobStops(j)
    \/ \E c \in Calls : Answer(c) \/ Write(c)

Spec == Init /\ [][Next]_vars

-----------------------------------------------------------------------------
\* A signal says AVAILABLE exactly when it has scores, whoever wrote last.
ScoresAreAvailable == (signal.status = "AVAILABLE") <=> (signal.face # None)

\* An accepted proof has the verdict of a judge who did not reject it: the one of the review
\* that accepted it, whatever other analyses have written since.
AcceptedIsJudged == (proof = "ACCEPTED") <=> (opinion # "none")
JudgedOnOwnScores ==
    \A v \in Reviews : proof' = "ACCEPTED" /\ proof # "ACCEPTED" /\ call'[v].at # call[v].at
        => opinion' = DeterministicVerdict(call[v].face, call[v].spot) /\ opinion' # "REJECT"

\* Scores that come without consent, or after the erasure, come from a call that was under way.
UnwantedNeedsARace ==
    \A r \in Calls : signal' # signal /\ signal'.face # None /\ call[r].at = "answered"
        /\ call'[r].at = "written" /\ (erased \/ (r \in Requests /\ ~consent)) => r \in overtaken

\* Two reviews are under way only when the lock was lost.
ReviewsExclude ==
    crowded \/ Cardinality({v \in Reviews : call[v].at \in {"admitted", "answered", "written"}}) <= 1

\* A flagged analysis is marked for a person and told, unless the job stopped between the two writes.
FlagIsMarked ==
    mark.found \in {"manual_review", "reject"} => torn \/ mark.manual \/ \E j \in Jobs : call[j].at = "marked"

\* What the comments and messages say and the code does not do: a photo is analysed under consent
\* only; a proof is analysed for its worker once; a critical risk is not approved.
CollectedWithConsent == [][signal'.face # None /\ signal'.face # signal.face => consent]_vars
SubmittedOnce == [][signal.status = "AVAILABLE" => signal'.face # None \/ erased']_vars
CriticalIsNotApproved ==
    [][\A v \in Reviews : opinion' = "APPROVE" /\ opinion # "APPROVE" /\ call'[v].at # call[v].at
          => RiskLevel(call[v].face) # "CRITICAL"]_vars
=============================================================================
