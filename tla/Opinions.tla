---------------------------------- MODULE Opinions ----------------------------------
(***************************************************************************)
(* What the mediation agent proposes about a dispute while it goes on, and *)
(* what the reputation agent makes of a worker's record. Neither changes   *)
(* the dispute or the record; administrators read their opinions.          *)
(***************************************************************************)
EXTENDS Integers, Sequences, FiniteSets, Functions

CONSTANTS
    Amounts,    \* of the escrow in dispute, in cents
    Openers,    \* who may have opened it
    Senders,    \* who sends photographs
    Histories,  \* what the parties' accounts may say: [disputes, tier], the worse of the two
    Advices,    \* calls about the dispute
    Kinds,      \* what they ask for: "analysis", "questions" or "escalation"
    Answers,    \* what the model may answer to an analysis: [action, ratio, faults, confidence, escalate]
    Profiles,   \* records a worker may start with
    Stars,      \* ratings a worker may get
    MaxEvents   \* bound: events of the record

OpinionsAssumption ==
    /\ Amounts \subseteq Nat /\ Openers \cup Senders \subseteq {"poster", "worker"}
    /\ Kinds \subseteq {"analysis", "questions", "escalation"}
    /\ \A a \in Answers : /\ a.action \in {"RELEASE", "REFUND", "SPLIT"} /\ a.confidence \in 0..100
                          /\ Len(a.ratio) \in {0, 2} /\ Len(a.faults) = 3
    /\ Stars \subseteq 1..5 /\ MaxEvents \in Nat

VARIABLES
    case,      \* the dispute, its task and its escrow
    exhibits,  \* rows of evidence: [by, about], about the task or the dispute
    advice,    \* calls, with what they have read and what they advise
    standing,  \* the worker's record
    events     \* bound: events so far

caseVars == <<case, exhibits, advice>>
recordVars == <<standing, events>>
vars == <<caseVars, recordVars>>

HighValue == 20000
LowValue == 5000

Unasked == [at |-> "idle", kind |-> "none", dispute |-> "none", opener |-> "none", task |-> "none", evidence |-> {},
            action |-> "none", ratio |-> <<>>, faults |-> <<>>, confidence |-> 0, escalate |-> FALSE, by |-> "none"]

Init ==
    /\ case \in [amount : Amounts, opener : Openers, history : Histories, dispute : {"OPEN"}, task : {"DISPUTED"},
                 outcome : {"none"}]
    /\ exhibits = {} /\ advice = [a \in Advices |-> Unasked]
    /\ standing \in Profiles /\ events = 0

\* What is read of a worker's record, beside its ratings and its account.
Counters ==
    {"done", "active", "cancelled", "disputed", "disputes", "open", "recent", "paired", "fresh", "prior", "denied"}
TypeOK ==
    /\ case.dispute \in {"OPEN", "EVIDENCE_REQUESTED", "ESCALATED", "RESOLVED"}
    /\ case.task \in {"DISPUTED", "COMPLETED", "CANCELLED"}
    /\ exhibits \subseteq [by : {"poster", "worker"}, about : {"task", "dispute"}]
    /\ \A a \in Advices : /\ advice[a].at \in {"idle", "dispute", "task", "evidence", "done"}
                          /\ advice[a].action \in {"none", "RELEASE", "REFUND", "SPLIT"}
    /\ \A f \in Counters : standing[f] \in Nat
    /\ events \in 0..MaxEvents
-----------------------------------------------------------------------------
(***************************************************************************)
(* The dispute. A photograph sent in a conversation is filed as evidence   *)
(* of the task; nothing files any as evidence of the dispute.              *)
(***************************************************************************)
StorePhotoEvidence(who) ==
    /\ [by |-> who, about |-> "task"] \notin exhibits
    /\ exhibits' = exhibits \cup {[by |-> who, about |-> "task"]}
    /\ UNCHANGED <<case, advice, recordVars>>

MayBecome(from) ==
    CASE from = "OPEN"               -> {"EVIDENCE_REQUESTED", "ESCALATED"}
      [] from = "EVIDENCE_REQUESTED" -> {"OPEN", "ESCALATED"}
      [] OTHER                       -> {}
Move(state) ==
    /\ state \in MayBecome(case.dispute)
    /\ case' = [case EXCEPT !.dispute = state]
    /\ UNCHANGED <<exhibits, advice, recordVars>>
Resolve(outcome) ==
    /\ case.dispute /= "RESOLVED"
    /\ case' = [case EXCEPT !.dispute = "RESOLVED", !.outcome = outcome,
                            !.task = IF outcome = "RELEASE" THEN "COMPLETED" ELSE "CANCELLED"]
    /\ UNCHANGED <<exhibits, advice, recordVars>>

\* gatherDisputeContext reads row by row, each as it then is.
ReadDispute(a, kind) ==
    /\ advice[a].at = "idle"
    /\ advice' = [advice EXCEPT ![a] = [Unasked EXCEPT !.at = "dispute", !.kind = kind, !.dispute = case.dispute,
                                                       !.opener = case.opener]]
    /\ UNCHANGED <<case, exhibits, recordVars>>
ReadTask(a) ==
    /\ advice[a].at = "dispute"
    /\ advice' = [advice EXCEPT ![a].at = "task", ![a].task = case.task]
    /\ UNCHANGED <<case, exhibits, recordVars>>
ReadEvidence(a) ==
    /\ advice[a].at = "task"
    /\ advice' = [advice EXCEPT ![a].at = "evidence", ![a].evidence = {e.by : e \in {x \in exhibits : x.about = "dispute"}}]
    /\ UNCHANGED <<case, exhibits, recordVars>>

\* What the rules advise.
Opinion(action, confidence, escalate) ==
    [action |-> action, ratio |-> IF action = "SPLIT" THEN <<50, 50>> ELSE <<>>, faults |-> <<33, 33, 34>>,
     confidence |-> confidence, escalate |-> escalate]
DeterministicAnalysis(o) ==
    IF case.amount > HighValue THEN Opinion("SPLIT", 30, TRUE)
    ELSE IF o.task = "COMPLETED" /\ "poster" \notin o.evidence /\ case.amount < LowValue
      THEN [Opinion("RELEASE", 70, FALSE) EXCEPT !.faults = <<70, 10, 20>>]
    ELSE IF o.opener = "poster" /\ o.evidence = {"poster"} /\ case.amount < LowValue
      THEN [Opinion("REFUND", 60, FALSE) EXCEPT !.faults = <<10, 70, 20>>]
    ELSE Opinion("SPLIT", 40, TRUE)
DeterministicEscalation(o) ==
    \/ case.amount > HighValue
    \/ case.history.disputes > 3 \/ case.history.tier <= 1
    \/ o.evidence /= {} /\ case.amount >= LowValue

\* An answer is put right where its numbers do not add up; a sum of nothing cannot be. What is
\* no number is -1.
NoNumber == -1
Total(s) == FoldFunction(+, 0, s)
NormalFaults(f) ==
    IF Total(f) \in 95..105 THEN f
    ELSE [i \in 1..3 |-> IF Total(f) = 0 THEN NoNumber ELSE (f[i] * 100) \div Total(f)]
NormalRatio(a) ==
    IF a.action /= "SPLIT" THEN a.ratio
    ELSE IF a.ratio = <<>> THEN <<50, 50>>
    ELSE IF Total(a.ratio) \in 99..101 THEN a.ratio
    ELSE IF Total(a.ratio) = 0 THEN <<NoNumber, NoNumber>>
    ELSE LET share == (200 * a.ratio[1] + Total(a.ratio)) \div (2 * Total(a.ratio)) IN <<share, 100 - share>>
ValidatedAnswer(a) == [a EXCEPT !.faults = NormalFaults(a.faults), !.ratio = NormalRatio(a)]

Say(a, by, o) ==
    advice' = [advice EXCEPT ![a].at = "done", ![a].by = by, ![a].action = o.action, ![a].ratio = o.ratio,
                             ![a].faults = o.faults, ![a].confidence = o.confidence, ![a].escalate = o.escalate]
AnalyzeDispute(a) ==
    /\ advice[a].at = "evidence" /\ advice[a].kind = "analysis"
    /\ \/ Say(a, "rules", DeterministicAnalysis(advice[a]))
       \/ \E x \in Answers : Say(a, "model", ValidatedAnswer(x))
    /\ UNCHANGED <<case, exhibits, recordVars>>
GenerateEvidenceRequest(a) ==
    /\ advice[a].at = "evidence" /\ advice[a].kind = "questions"
    /\ advice' = [advice EXCEPT ![a].at = "done", ![a].confidence = 80]
    /\ UNCHANGED <<case, exhibits, recordVars>>
AssessEscalation(a) ==
    /\ advice[a].at = "evidence" /\ advice[a].kind = "escalation"
    /\ LET needed == DeterministicEscalation(advice[a])
       IN  advice' = [advice EXCEPT ![a].at = "done", ![a].by = "rules", ![a].escalate = needed,
                                    ![a].confidence = IF needed THEN 90 ELSE 80]
    /\ UNCHANGED <<case, exhibits, recordVars>>

Mediation ==
    \/ \E who \in Senders : StorePhotoEvidence(who)
    \/ \E s \in {"OPEN", "EVIDENCE_REQUESTED", "ESCALATED"} : Move(s)
    \/ \E outcome \in {"RELEASE", "REFUND", "SPLIT"} : Resolve(outcome)
    \/ \E a \in Advices : \/ \E k \in Kinds : ReadDispute(a, k)
                          \/ ReadTask(a) \/ ReadEvidence(a)
                          \/ AnalyzeDispute(a) \/ GenerateEvidenceRequest(a) \/ AssessEscalation(a)
-----------------------------------------------------------------------------
(***************************************************************************)
(* The record, and what is made of it. Averages are hundredths, scores are *)
(* added up in tenths.                                                     *)
(***************************************************************************)
Rounded(n, d) == (2 * n + d) \div (2 * d)
Share(n, of) == IF of = 0 THEN 0 ELSE Rounded(100 * n, of)
Tasks(r) == r.done + r.active + r.cancelled + r.disputed
Average(r) == IF r.ratings = <<>> THEN 0 ELSE Rounded(100 * Total(r.ratings), Len(r.ratings))

\* The newer half of the last twenty ratings against the older half.
Trend(r) ==
    LET lastOnes == SubSeq(r.ratings, 1, IF Len(r.ratings) > 20 THEN 20 ELSE Len(r.ratings))
        h        == Len(lastOnes) \div 2
        k        == Len(lastOnes) - h
        gain     == 10 * (k * Total(SubSeq(lastOnes, 1, h)) - h * Total(SubSeq(lastOnes, h + 1, h + k)))
    IN  CASE Len(lastOnes) < 6  -> "stable"
          [] gain > 3 * h * k   -> "improving"
          [] -gain > 3 * h * k  -> "declining"
          [] OTHER              -> "stable"

Consistency(r) ==
    (IF r.streak > 10 THEN 5 ELSE IF r.streak > 3 THEN 3 ELSE 0) + (IF r.age > 180 THEN 5 ELSE IF r.age > 30 THEN 2 ELSE 0)
      + (IF r.done > 20 THEN 5 ELSE IF r.done > 5 THEN 2 ELSE 0)
Verification(r) == (IF r.verified THEN 5 ELSE 0) + (IF r.age > 180 THEN 5 ELSE 0)
RiskDeduction(r) ==
    5 * r.open + (IF Share(r.disputes, r.done) > 20 THEN 10 ELSE 0) + (IF Trend(r) = "declining" THEN 15 ELSE 0)
      + (IF r.recent >= 3 THEN 10 ELSE 0)
HeuristicTrustScore(r) ==
    LET tenths == (IF Average(r) > 0 THEN Average(r) ELSE 250) + 2 * Share(r.done, Tasks(r))
                    + 10 * (Consistency(r) + Verification(r) - RiskDeduction(r))
        score  == Rounded(tenths, 10)
    IN  IF score < 0 THEN 0 ELSE IF score > 100 THEN 100 ELSE score
RecommendedTier(r) ==
    CASE HeuristicTrustScore(r) >= 85 /\ r.done >= 25 -> 4
      [] HeuristicTrustScore(r) >= 70 /\ r.done >= 10 -> 3
      [] HeuristicTrustScore(r) >= 50 /\ r.done >= 3  -> 2
      [] OTHER                                        -> 1

\* No threshold leads to tier 1, so the question fails for an account of tier 0.
TierThresholds == [n \in 2..4 |->
    CASE n = 2 -> [tasks |-> 3, rating |-> 400, calm |-> TRUE, verified |-> FALSE, age |-> 0]
      [] n = 3 -> [tasks |-> 10, rating |-> 430, calm |-> TRUE, verified |-> TRUE, age |-> 0]
      [] n = 4 -> [tasks |-> 25, rating |-> 450, calm |-> FALSE, verified |-> TRUE, age |-> 180]]
ShouldPromoteTier(r) ==
    /\ r.tier + 1 \in DOMAIN TierThresholds
    /\ LET t == TierThresholds[r.tier + 1]
       IN  /\ r.done >= t.tasks /\ Average(r) >= t.rating /\ (t.calm => r.open = 0)
           /\ (t.verified => r.verified) /\ r.age >= t.age

StarsOf(r, n) == Cardinality({i \in DOMAIN r.ratings : r.ratings[i] = n})
RatingAnomalies(r) ==
    {k \in {"fives", "ones"} : /\ Len(r.ratings) >= 5
                               /\ CASE k = "fives" -> 100 * StarsOf(r, 5) > 95 * Len(r.ratings)
                                    [] k = "ones"  -> 2 * StarsOf(r, 1) > Len(r.ratings)}
VolumeAnomalies(r) == IF r.prior > 0 /\ r.fresh > 3 * r.prior THEN {"volume"} ELSE {}
CancellationAnomalies(r) ==
    IF r.fresh + r.prior >= 3 /\ 10 * r.denied > 4 * (r.fresh + r.prior) THEN {"cancellations"} ELSE {}
PairAnomalies(r) == IF r.paired >= 10 THEN {"pair", "critical pair"} ELSE IF r.paired >= 5 THEN {"pair"} ELSE {}
DetectAnomalies(r) == RatingAnomalies(r) \cup VolumeAnomalies(r) \cup CancellationAnomalies(r) \cup PairAnomalies(r)

Becomes(r) == /\ events < MaxEvents /\ events' = events + 1 /\ standing' = r
              /\ UNCHANGED caseVars
Accept == Becomes([standing EXCEPT !.active = @ + 1, !.fresh = @ + 1])
Complete(paired) ==
    /\ standing.active > 0
    /\ Becomes([standing EXCEPT !.active = @ - 1, !.done = @ + 1, !.paired = IF paired THEN @ + 1 ELSE @])
\* A task that its worker gives up is no longer the worker's.
Abandon ==
    /\ standing.active > 0
    /\ Becomes([standing EXCEPT !.active = @ - 1, !.fresh = @ - 1])
Cancel ==
    /\ standing.active > 0
    /\ Becomes([standing EXCEPT !.active = @ - 1, !.cancelled = @ + 1, !.denied = @ + 1])
Dispute(paired) ==
    /\ standing.done > 0 /\ (paired => standing.paired > 0)
    /\ Becomes([standing EXCEPT !.done = @ - 1, !.disputed = @ + 1, !.disputes = @ + 1, !.open = @ + 1,
                                !.recent = @ + 1, !.paired = IF paired THEN @ - 1 ELSE @])
Settle(won) ==
    /\ standing.open > 0
    /\ Becomes([standing EXCEPT !.open = @ - 1, !.disputed = @ - 1, !.done = IF won THEN @ + 1 ELSE @,
                                !.cancelled = IF won THEN @ ELSE @ + 1, !.denied = IF won THEN @ ELSE @ + 1])
Rate(stars) == Becomes([standing EXCEPT !.ratings = <<stars>> \o @])
Record ==
    \/ Accept \/ Abandon \/ Cancel
    \/ \E b \in BOOLEAN : Complete(b) \/ Dispute(b) \/ Settle(b)
    \/ \E s \in Stars : Rate(s)

Next == Mediation \/ Record
Spec == Init /\ [][Next]_vars
-----------------------------------------------------------------------------
\* DisputeAIService.deterministicAnalysis: the rules take a side, and ask for no escalation, only
\* after the dispute has been decided for the worker: until then the task is not COMPLETED, and
\* what is filed about the task is not read.
SideIsTakenLate ==
    \A a \in Advices :
      advice[a].kind = "analysis" /\ advice[a].by = "rules" /\ (advice[a].action /= "SPLIT" \/ ~advice[a].escalate) =>
        case.outcome = "RELEASE" /\ case.amount < LowValue /\ advice[a].action = "RELEASE"

\* DisputeAIService.analyzeDispute: the shares of an advised split add up, unless the model gave
\* both as nothing; so do the faults.
SharesAddUp ==
    \A a \in Advices :
      /\ advice[a].action = "SPLIT" => advice[a].ratio = <<NoNumber, NoNumber>> \/ Total(advice[a].ratio) \in 99..101
      /\ advice[a].action /= "none" =>
           advice[a].faults = [i \in 1..3 |-> NoNumber] \/ Total(advice[a].faults) \in 95..105

\* DisputeAIService.assessEscalation: assessments of one dispute agree, whatever the parties have
\* sent in between.
AssessmentsAgree ==
    \A a, b \in {x \in Advices : advice[x].kind = "escalation" /\ advice[x].at = "done"} :
      advice[a].escalate = advice[b].escalate

\* ReputationAIService._heuristicTrustScore: what goes badly for a worker raises the score only
\* when the worker gives a task up, which takes it off the record; when a dispute takes the only
\* completed task away, and with it the share of disputes; or when a bad rating moves an older
\* one out of the newer half, and the trend no longer declines.
WorseRaisesScoreRarely ==
    LET r == standing
        s == standing'
        leaves   == Tasks(s) < Tasks(r)
        disputed == s.open > r.open
        rated    == Len(s.ratings) > Len(r.ratings) /\ Head(s.ratings) = 1
        denied   == s.cancelled > r.cancelled /\ s.open = r.open
    IN  (leaves \/ disputed \/ rated \/ denied) /\ HeuristicTrustScore(s) > HeuristicTrustScore(r) =>
          \/ leaves
          \/ disputed /\ s.done = 0 /\ Share(r.disputes, r.done) > 20
          \/ rated /\ Trend(r) = "declining" /\ Trend(s) /= "declining"

\* ReputationAIService.detectAnomalies: a suspicion goes away by its opposite only; those of a rise
\* in work and of cancellations also go away when work is given up.
SuspicionNeedsItsOpposite ==
    LET r == standing
        s == standing'
        gone == DetectAnomalies(r) \ DetectAnomalies(s)
    IN  /\ "fives" \in gone => Head(s.ratings) < 5
        /\ "ones" \in gone => Head(s.ratings) > 1
        /\ "volume" \in gone => Tasks(s) < Tasks(r)
        /\ "cancellations" \in gone => Tasks(s) /= Tasks(r)
        /\ "pair" \in gone => s.open > r.open

\* ReputationAIService.shouldPromoteTier against _heuristicTrustScore: a worker with nothing but
\* completed tasks who may rise is advised to rise, except on the day the account is old enough.
EligibleIsAdvised ==
    ShouldPromoteTier(standing) /\ standing.done = Tasks(standing) /\ standing.disputes = 0 /\ Trend(standing) /= "declining" =>
      RecommendedTier(standing) > standing.tier \/ standing.age = 180
=============================================================================
