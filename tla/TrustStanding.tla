----------------------------- MODULE TrustStanding -----------------------------
(***************************************************************************)
(* The standing of one worker account (TrustTierService, trust-worker,     *)
(* trust-tier-promotion-worker, WorkerStandingAppealService,               *)
(* WorkerStandingDecisionService, admin.setUserBan and setSuspension):     *)
(* the trust tier and its ledger, penalties of disputes, promotions by the *)
(* hourly job and by administrators, bans, and appeals of either.          *)
(*                                                                         *)
(* A database transaction that locks the user's row is one step. Tiers are *)
(* 0 Explorer to 4 Licensed Specialist; only 0 -> 1 and 1 -> 2 are open.   *)
(***************************************************************************)
EXTENDS Integers, Sequences, FiniteSets

CONSTANTS
    Disputes,     \* disputes resolved with a penalty for this account
    AsWorker,     \* those in which it was the worker (else the poster)
    Refunded,     \* those whose outcome is REFUND or SPLIT
    Admins,
    Promoters,    \* concurrent calls of applyPromotion
    StartTiers,
    Attempts,     \* how often the job of a penalty runs before it is given up
    MaxDecisions, \* bound on standing decisions
    MaxAppeals,   \* bound on appeals
    MaxChanges    \* bound on changes of the evidence

StandingAssumption ==
    /\ IsFiniteSet(Disputes) /\ AsWorker \subseteq Disputes /\ Refunded \subseteq Disputes
    /\ StartTiers \subseteq 0..4 /\ Attempts \in Nat \ {0} /\ MaxDecisions \in Nat /\ MaxAppeals \in Nat /\ MaxChanges \in Nat
    /\ "system" \notin Admins /\ "nobody" \notin Admins

VARIABLES
    tier,      \* users.trust_tier (capability_profiles follows it by a trigger)
    hold,      \* users.trust_hold with the state of trust_hold_until
    banned,    \* users.is_banned
    status,    \* users.account_status
    ledger,    \* trust_ledger
    refusals,  \* failed runs of each penalty's job
    recent,    \* dispute penalties of the last 30 days
    evidence,  \* how much of the next tier's criteria the account's records support
    changes,   \* how often the evidence changed
    promo,     \* calls of applyPromotion
    decision,  \* worker_standing_decisions
    appeal     \* worker_standing_appeals

vars == <<tier, hold, banned, status, ledger, refusals, recent, evidence, changes, promo, decision, appeal>>

Idle == [pc |-> "idle"]
Steps == {"evaluated", "read"}
Live == {"OPEN", "UNDER_REVIEW", "NEEDS_INFORMATION"}
NoHold == [on |-> FALSE, until |-> "none"]

TypeOK ==
    /\ tier \in 0..4 /\ banned \in BOOLEAN /\ status \in {"ACTIVE", "SUSPENDED"}
    /\ hold \in [on : BOOLEAN, until : {"none", "future", "past"}]
    /\ ledger \in Seq([source : {"system", "dispute", "appeal"}, id : Disputes \cup {"none"}, old : 0..4, new : 0..4])
    /\ refusals \in [Disputes -> 0..Attempts]
    /\ recent \in 0..Cardinality(Disputes)
    /\ evidence \in {"little", "more", "enough"} /\ changes \in 0..MaxChanges
    /\ promo \in [Promoters -> {Idle} \cup [pc : {"evaluated"}, target : 1..4]
                               \cup [pc : {"read"}, target : 1..4, seen : 0..4]]
    /\ decision \in Seq([type : {"DEACTIVATION", "PROGRESSION"}, from : 0..4, to : 0..4,
                         reasons : {"none", "little", "more"}, by : Admins \cup {"system"}, open : BOOLEAN])
    /\ Len(decision) <= MaxDecisions
    /\ appeal \in Seq([decision : 1..MaxDecisions, status : {"OPEN", "OVERTURNED", "UPHELD"},
                       by : Admins \cup {"nobody"}])
    /\ Len(appeal) <= MaxAppeals

Init ==
    /\ tier \in StartTiers /\ hold = NoHold /\ banned = FALSE /\ status = "ACTIVE"
    /\ ledger = <<>> /\ refusals = [d \in Disputes |-> 0] /\ recent = 0 /\ evidence = "little" /\ changes = 0
    /\ promo = [p \in Promoters |-> Idle]
    /\ decision = <<>> /\ appeal = <<>>

-----------------------------------------------------------------------------
\* evaluatePromotion: the only promotions the release has are to Verified and Home Ready.
Eligible == ~banned /\ tier \in {0, 1} /\ evidence = "enough"
Enabled(t) == t \in {0, 1}

\* The trigger on users: no tier is skipped on the way up, and going up takes the
\* authority that only applyPromotion and an overturned appeal set.
Allowed(new, authority) == new > tier => authority /\ new = tier + 1

\* Records come and go: identity, phone, payouts, screening, completions, disputes.
EvidenceChanges ==
    /\ changes < MaxChanges /\ changes' = changes + 1
    /\ evidence' \in {"little", "more", "enough"} \ {evidence}
    /\ UNCHANGED <<refusals, tier, hold, banned, status, ledger, recent, promo, decision, appeal>>

MonthPasses ==
    /\ recent > 0 /\ recent' = 0
    /\ hold' = [hold EXCEPT !.until = IF @ = "future" THEN "past" ELSE @]
    /\ UNCHANGED <<refusals, tier, banned, status, ledger, evidence, changes, promo, decision, appeal>>

-----------------------------------------------------------------------------
\* processTrustJob of a dispute with a penalty; the row of the user is locked.
Recorded(d) == \E i \in DOMAIN ledger : ledger[i].source = "dispute" /\ ledger[i].id = d

\* The job has attempts left.
Alive(d) == refusals[d] < Attempts

\* A mutant: without the floor.
M_Lowered == tier - 1

Lowered == IF tier - 1 > 1 THEN tier - 1 ELSE 1

Holds(d) == IF d \in AsWorker THEN Lowered = 1 /\ d \in Refunded ELSE recent + 1 >= 2

\* A mutant: the check for a replay is dropped.
M_Penalise(d) ==
    /\ Allowed(Lowered, FALSE)
    /\ tier' = Lowered
    /\ hold' = IF Holds(d) THEN [on |-> TRUE, until |-> "future"]
               ELSE IF Lowered # tier THEN [hold EXCEPT !.until = "none"] ELSE hold
    /\ Len(ledger) < 6
    /\ ledger' = Append(ledger, [source |-> "dispute", id |-> d, old |-> tier, new |-> Lowered])
    /\ recent' = IF recent < Cardinality(Disputes) THEN recent + 1 ELSE recent
    /\ UNCHANGED <<refusals, banned, status, evidence, changes, promo, decision, appeal>>

\* A hold that the new penalty does not renew loses its end when the row is written.
Penalise(d) ==
    /\ ~Recorded(d) /\ Alive(d)
    /\ Allowed(Lowered, FALSE)
    /\ tier' = Lowered
    /\ hold' = IF Holds(d) THEN [on |-> TRUE, until |-> "future"]
               ELSE IF Lowered # tier THEN [hold EXCEPT !.until = "none"] ELSE hold
    /\ ledger' = Append(ledger, [source |-> "dispute", id |-> d, old |-> tier, new |-> Lowered])
    /\ recent' = recent + 1
    /\ UNCHANGED <<refusals, banned, status, evidence, changes, promo, decision, appeal>>

\* For an Explorer the floor is a rise, which the trigger refuses; the job fails and is
\* run again, until its attempts are used up.
PenaltyFails(d) ==
    /\ ~Recorded(d) /\ Alive(d)
    /\ ~Allowed(Lowered, FALSE)
    /\ refusals' = [refusals EXCEPT ![d] = @ + 1]
    /\ UNCHANGED <<tier, hold, banned, status, ledger, recent, evidence, changes, promo, decision, appeal>>

-----------------------------------------------------------------------------
\* The hourly job evaluates a candidate; TrustService.promote names a tier itself.
Evaluate(p) ==
    /\ promo[p] = Idle
    /\ \E target \in 1..4 :
         /\ promo' = [promo EXCEPT ![p] = [pc |-> "evaluated", target |-> target]]
         /\ \/ Eligible /\ ~hold.on /\ status = "ACTIVE" /\ target = tier + 1
            \/ p \in Admins
    /\ UNCHANGED <<refusals, tier, hold, banned, status, ledger, recent, evidence, changes, decision, appeal>>

ReadTier(p) ==
    /\ promo[p].pc = "evaluated"
    /\ promo' = [promo EXCEPT ![p] = IF banned \/ @.target <= tier THEN Idle
                                     ELSE [pc |-> "read", target |-> @.target, seen |-> tier]]
    /\ UNCHANGED <<refusals, tier, hold, banned, status, ledger, recent, evidence, changes, decision, appeal>>

\* A mutant: the criteria are not evaluated again under the lock.
M_Promote(p) ==
    /\ promo[p].pc = "read"
    /\ promo' = [promo EXCEPT ![p] = Idle]
    /\ IF tier = promo[p].seen /\ ~banned /\ Allowed(promo[p].target, TRUE)
       THEN /\ tier' = promo[p].target
            /\ ledger' = Append(ledger, [source |-> "system", id |-> "none", old |-> tier, new |-> tier'])
       ELSE UNCHANGED <<tier, ledger>>
    /\ UNCHANGED <<refusals, hold, banned, status, recent, evidence, changes, decision, appeal>>

Promote(p) ==
    /\ promo[p].pc = "read"
    /\ promo' = [promo EXCEPT ![p] = Idle]
    /\ IF tier = promo[p].seen /\ Eligible /\ promo[p].target = tier + 1
       THEN /\ tier' = promo[p].target
            /\ ledger' = Append(ledger, [source |-> "system", id |-> "none", old |-> tier, new |-> tier'])
       ELSE UNCHANGED <<tier, ledger>>
    /\ UNCHANGED <<refusals, hold, banned, status, recent, evidence, changes, decision, appeal>>

-----------------------------------------------------------------------------
\* A ban, by an administrator or the system, comes with the right to appeal.
Ban(by) ==
    /\ ~banned /\ Len(decision) < MaxDecisions
    /\ banned' = TRUE
    /\ decision' = Append(decision, [type |-> "DEACTIVATION", from |-> tier, to |-> 0, reasons |-> "none",
                                     by |-> by, open |-> TRUE])
    /\ UNCHANGED <<refusals, tier, hold, status, ledger, recent, evidence, changes, promo, appeal>>

Unban ==
    /\ banned /\ banned' = FALSE
    /\ UNCHANGED <<refusals, tier, hold, status, ledger, recent, evidence, changes, promo, decision, appeal>>

SetSuspension(s) ==
    /\ ~banned /\ status # s /\ status' = s
    /\ UNCHANGED <<refusals, tier, hold, banned, ledger, recent, evidence, changes, promo, decision, appeal>>

DeadlinePasses(i) ==
    /\ decision[i].open
    /\ decision' = [decision EXCEPT ![i].open = FALSE]
    /\ UNCHANGED <<refusals, tier, hold, banned, status, ledger, recent, evidence, changes, promo, appeal>>

-----------------------------------------------------------------------------
Pending(i) == \E k \in DOMAIN appeal : appeal[k].decision = i /\ appeal[k].status \in Live

\* insertAppeal: one that is still open is answered as it stands.
Lodged(i) == Append(appeal, [decision |-> i, status |-> "OPEN", by |-> "nobody"])

OpenDeactivationAppeal(i) ==
    /\ decision[i].type = "DEACTIVATION" /\ decision[i].open
    /\ ~Pending(i) /\ Len(appeal) < MaxAppeals
    /\ appeal' = Lodged(i)
    /\ UNCHANGED <<refusals, tier, hold, banned, status, ledger, recent, evidence, changes, promo, decision>>

\* The decision that is appealed is made by the appeal, once for the same reasons.
OpenProgressionAppeal ==
    /\ ~banned /\ status = "ACTIVE" /\ Enabled(tier) /\ ~Eligible /\ Len(appeal) < MaxAppeals
    /\ LET refusal == [type |-> "PROGRESSION", from |-> tier, to |-> tier + 1, reasons |-> evidence,
                       by |-> "system"]
           Same(i) == \A f \in DOMAIN refusal : decision[i][f] = refusal[f]
       IN  \/ /\ \A i \in DOMAIN decision : ~Same(i)
              /\ Len(decision) < MaxDecisions
              /\ decision' = Append(decision, [f \in DOMAIN refusal \cup {"open"} |->
                                               IF f = "open" THEN TRUE ELSE refusal[f]])
              /\ appeal' = Lodged(Len(decision'))
           \/ /\ \E i \in DOMAIN decision :
                   Same(i) /\ decision[i].open /\ ~Pending(i) /\ appeal' = Lodged(i)
              /\ UNCHANGED decision
    /\ UNCHANGED <<refusals, tier, hold, banned, status, ledger, recent, evidence, changes, promo>>

\* resolveWorkerStandingAppeal. What stands against it makes the call fail.
Independent(k, a) == decision[appeal[k].decision].by # a

Settled(k, a, verdict) == appeal' = [appeal EXCEPT ![k].status = verdict, ![k].by = a]

Uphold(k, a) ==
    /\ appeal[k].status \in Live /\ Independent(k, a)
    /\ Settled(k, a, "UPHELD")
    /\ UNCHANGED <<refusals, tier, hold, banned, status, ledger, recent, evidence, changes, promo, decision>>

OverturnBan(k, a) ==
    /\ appeal[k].status \in Live /\ Independent(k, a)
    /\ decision[appeal[k].decision].type = "DEACTIVATION"
    /\ Settled(k, a, "OVERTURNED")
    /\ banned' = FALSE /\ status' = "ACTIVE"
    /\ UNCHANGED <<refusals, tier, hold, ledger, recent, evidence, changes, promo, decision>>

OverturnProgression(k, a) ==
    /\ appeal[k].status \in Live /\ Independent(k, a)
    /\ LET d == decision[appeal[k].decision]
       IN  /\ d.type = "PROGRESSION" /\ ~banned
           /\ \/ tier >= d.to /\ UNCHANGED <<tier, ledger>>
              \/ /\ tier = d.from /\ Eligible
                 /\ tier' = d.to
                 /\ ledger' = Append(ledger, [source |-> "appeal", id |-> "none", old |-> d.from, new |-> d.to])
    /\ Settled(k, a, "OVERTURNED")
    /\ UNCHANGED <<refusals, hold, banned, status, recent, evidence, changes, promo, decision>>

-----------------------------------------------------------------------------
Next ==
    \/ EvidenceChanges \/ MonthPasses \/ Unban
    \/ \E d \in Disputes : Penalise(d) \/ PenaltyFails(d)
    \/ \E p \in Promoters : Evaluate(p) \/ ReadTier(p) \/ Promote(p)
    \/ \E by \in Admins \cup {"system"} : Ban(by)
    \/ \E s \in {"ACTIVE", "SUSPENDED"} : SetSuspension(s)
    \/ \E i \in DOMAIN decision : DeadlinePasses(i) \/ OpenDeactivationAppeal(i)
    \/ OpenProgressionAppeal
    \/ \E k \in DOMAIN appeal, a \in Admins : Uphold(k, a) \/ OverturnBan(k, a) \/ OverturnProgression(k, a)

Fairness == \A d \in Disputes : WF_vars(Penalise(d))

Spec == Init /\ [][Next]_vars /\ Fairness

-----------------------------------------------------------------------------
\* The ledger accounts for the tier: every entry starts where the last one ended, and
\* the last one ends at the tier (trust_ledger against users.trust_tier, written by
\* three services).
LedgerIsAccount ==
    /\ \A i \in 1..(Len(ledger) - 1) : ledger[i + 1].old = ledger[i].new
    /\ ledger # <<>> => ledger[Len(ledger)].new = tier

\* A dispute costs the account a tier at most once, however often its job is delivered.
PenaltyOnce ==
    \A i, j \in DOMAIN ledger :
        ledger[i].source = "dispute" /\ ledger[j] = [ledger[i] EXCEPT !.old = ledger[j].old, !.new = ledger[j].new]
        => i = j

\* A tier is gained one at a time, while the records support it and no ban is in force,
\* whatever changed since the promotion was evaluated.
EarnedStep == tier' > tier => tier' = tier + 1 /\ evidence = "enough" /\ ~banned
PromotionIsEarned == [][EarnedStep]_vars

\* An overturned refusal has given the tier it refused: some entry of the ledger reaches it.
OverturnedIsGranted ==
    \A k \in DOMAIN appeal :
        LET d == decision[appeal[k].decision]
        IN  appeal[k].status = "OVERTURNED" /\ d.type = "PROGRESSION"
            => \E i \in DOMAIN ledger : ledger[i].new >= d.to

\* A decision has one appeal under review at a time.
OneLiveAppeal ==
    \A j, k \in DOMAIN appeal :
        appeal[j].status \in Live /\ appeal[k].status \in Live /\ appeal[j].decision = appeal[k].decision => j = k

\* A penalty is lost only to an account that was an Explorer at each of its attempts:
\* once the account is above tier 0 a job with an attempt left reaches the ledger.
PenaltyIsRecorded == \A d \in Disputes : tier # 0 /\ Alive(d) ~> Recorded(d)

\* Of a hold: it has an end.
HoldHasAnEnd == hold.on => hold.until # "none"

\* Of an appeal: it lifts the ban it is about, and no later one.
Latest(i) == \A j \in DOMAIN decision : j > i => decision[j].type = "PROGRESSION"
LiftedIsReviewed ==
    [][\A k \in DOMAIN appeal :
         appeal[k].status # appeal'[k].status /\ banned /\ ~banned' => Latest(appeal[k].decision)]_vars

=============================================================================
