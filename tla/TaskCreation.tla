------------------------------- MODULE TaskCreation -------------------------------
(***************************************************************************)
(* How a task comes to be. A draft is weighed by the compliance rules,     *)
(* priced, measured against the template, the poster's standing, the       *)
(* region's policy and the poster's plan, and stored once per client key.  *)
(* An instant task then looks for a worker, in waves, until it gives up.   *)
(***************************************************************************)
EXTENDS Integers, FiniteSets, FiniteSetsExt

CONSTANTS
    Drafts,    \* what a poster may submit by number: what the rules read in it
    Keys,      \* client idempotency keys; NoKey is a request without one
    NoKey,
    Requests,  \* calls of create and evaluateDraft
    Policies,  \* versions of the region's policy, from 1 on
    Posters,   \* standings the poster may start with: [plan, lapsed, entitled, hold]
    Changes,   \* what may change meanwhile: "hold", "renew", "lapse", "policy", "forget"
    Hustlers,  \* workers by name
    Skill,     \* [tier, hold, pro, entitled] of a worker
    Runs,      \* deliveries of jobs of the instant queue, at most one at a time each
    InstantOn, SurgeOn, \* the switches of instant mode
    PostLimit, \* instant posts an hour
    Faults     \* which statements may fail: "count", "store", "match", "announce"

TaskCreationAssumption ==
    /\ NoKey \notin Keys /\ DOMAIN Skill = Hustlers
    /\ \A p \in DOMAIN Policies : p \in Nat \ {0} /\ Policies[p].risks \subseteq {"LOW", "HIGH", "IN_HOME"}
    /\ \A i \in DOMAIN Drafts : LET d == Drafts[i] IN d.heuristic \in 0..85 /\ d.price \in Nat /\ d.payout \in -1..d.price

VARIABLES
    poster,    \* users: [phrase, count, plan, lapsed, entitled, hold]
    post,      \* requests, with what they have read
    policy,    \* the version of the region's policy in force
    tasks,     \* tasks by the request that made them
    keys,      \* task_create_requests
    violations, \* compliance_violations: the requests that logged one
    wave,      \* runs of the instant jobs
    invited,   \* task.instant_available in the outbox: <<task, worker, wave>>
    alerted,   \* notifications: <<task, worker>> with their number
    owing,     \* jobs of the outbox: <<task, level>>, 0 for the first wave
    heldThen   \* requests that had begun when the poster was put on hold

posterVars == <<poster, policy, heldThen>>
createVars == <<post, tasks, keys, violations>>
instantVars == <<wave, invited, alerted, owing>>
vars == <<posterVars, createVars, instantVars>>

Risks == {"LOW", "HIGH", "IN_HOME"}
NoTask == [draft |-> 0, price |-> 0, risk |-> "LOW", version |-> 0, state |-> "none", instant |-> FALSE,
           minutes |-> -1, surge |-> 0]
Idle == [at |-> "idle", kind |-> "create", draft |-> 0, key |-> NoKey, repeat |-> FALSE, snap |-> 0, version |-> 0,
         instant |-> FALSE, answer |-> "none", task |-> 0]
Rest == [at |-> "idle", task |-> 0, level |-> 0, left |-> {}, worker |-> "nobody"]

Init ==
    /\ poster \in {[phrase |-> "never", count |-> 0, plan |-> s.plan, lapsed |-> s.lapsed,
                    entitled |-> s.entitled, hold |-> s.hold] : s \in Posters}
    /\ post = [r \in Requests |-> Idle]
    /\ policy = 1
    /\ tasks = [r \in Requests |-> NoTask]
    /\ keys = {} /\ violations = {} /\ heldThen = {}
    /\ wave = [w \in Runs |-> Rest]
    /\ invited = {} /\ owing = {}
    /\ alerted = [tw \in Requests \X Hustlers |-> 0]
-----------------------------------------------------------------------------
(***************************************************************************)
(* Compliance. The rules' highest score, raised by what else they find;    *)
(* the model's opinion is recorded and decides nothing.                    *)
(***************************************************************************)
WeaponScore(negated) == IF negated THEN 60 ELSE 85
Forbidden(d) == d.continuous \/ d.forbidden
SoftScore(d) == IF d.massage /\ d.licence THEN 0 ELSE d.heuristic
HeuristicScore(d) ==
    IF Forbidden(d) THEN 85
    ELSE IF d.weapon /= "none" THEN WeaponScore(d.weapon = "range") ELSE SoftScore(d)
Injected(d, score) == IF d.injection > 60 THEN 100 ELSE score
PhraseScore(d, repeat, score) ==
    IF ~d.phrase THEN score
    ELSE Max({21, IF score >= 85 THEN score ELSE IF repeat THEN score + 25 ELSE score + 15})
Deceptive(d) == d.deceptive
DeceptionScore(d, score) == IF Deceptive(d) THEN Max({35, score}) ELSE score
Score(d, repeat) == DeceptionScore(d, PhraseScore(d, repeat, Injected(d, HeuristicScore(d))))
Tier(score) == IF score >= 61 THEN "hard_block" ELSE IF score >= 21 THEN "soft_flag" ELSE "clean"
Blocked(d, repeat) == Tier(Score(d, repeat)) = "hard_block"

(***************************************************************************)
(* The template's policy, widened by what the description shows.           *)
(***************************************************************************)
TemplateTier == [standard_physical |-> 0, in_home |-> 2, care |-> 3, content_creator |-> 1, wildcard_bizarre |-> 1]
TemplateFloor == [standard_physical |-> 1500, in_home |-> 4000, care |-> 3600, content_creator |-> 2000,
                  wildcard_bizarre |-> 5000]
Care(d) == d.template = "care" \/ d.care
InHome(d) == d.template = "in_home" \/ d.home
Release(d) == d.template = "content_creator" \/ d.filmed
BaseRisk(d) == IF d.people \/ Care(d) THEN 3 ELSE IF InHome(d) THEN 2 ELSE 0
RiskTier(d) == Max({BaseRisk(d), TemplateTier[d.template], IF Deceptive(d) THEN 2 ELSE 0})
RiskLevel(d) == <<"LOW", "LOW", "HIGH", "IN_HOME">>[RiskTier(d) + 1]
\* Licensed work inside a home has the floor of licensed work, which is the lower one.
ContentFloor(d) ==
    IF Care(d) THEN 3600 ELSE IF d.licensed THEN 3000 ELSE IF InHome(d) THEN 4000 ELSE IF Release(d) THEN 2000
    ELSE 1500
PolicyFloor(d) == Max({TemplateFloor[d.template], ContentFloor(d)})
\* Premiums are paid on a wildcard task that is what it says.
Premium(d) ==
    IF d.template = "wildcard_bizarre" /\ ~Deceptive(d) /\ d.bizarre THEN Min({50, d.premium}) ELSE 0

(***************************************************************************)
(* The price a draft is given where it names none. The rules' own proposal *)
(* for a short description is refused by the rules' own validator.         *)
(***************************************************************************)
TalentTemplates == {"wildcard_bizarre", "content_creator"}
Confidence(d) == CASE d.words = "short" -> 50 [] d.words = "plain" -> 75 [] d.words = "long" -> 90
Proposed(d) == Max({1500, Min({50000, IF d.template \in TalentTemplates THEN 7500 ELSE d.usual})})
ProposalIsValid(d, price) == price \in 1500..50000 /\ Confidence(d) >= 60
ScopedPrice(d) ==
    LET raised == Max({Proposed(d), PolicyFloor(d)})
    IN  Min({50000, (raised * (100 + Premium(d)) + 50) \div 100})
PriceOf(d) ==
    IF d.price > 0 THEN d.price
    ELSE IF ProposalIsValid(d, Proposed(d)) THEN ScopedPrice(d) ELSE PolicyFloor(d)
PriceIsEnough(d) == PriceOf(d) >= Max({1500, PolicyFloor(d)})
\* -1 stands for no quote: payout and margin are given together and add up to the price.
QuoteAddsUp(d) == d.payout = -1 \/ d.payout \in 1..d.price

(***************************************************************************)
(* The region's policy. A task without a quoted payout meets no floor.     *)
(***************************************************************************)
FinancialReasons(d, p) == PriceOf(d) < p.floor \/ d.payout < p.payout
RegionAllows(d, p) ==
    /\ p.production /\ p.approved /\ RiskLevel(d) \in p.risks /\ ~FinancialReasons(d, p)
    /\ d.licensed => p.licensed
    /\ Release(d) => p.recording

PlanAllows(risk, plan, entitled) == risk = "LOW" \/ plan = "premium" \/ entitled

(***************************************************************************)
(* What keeps a draft out of instant mode.                                 *)
(***************************************************************************)
PlaceIsMissing(d) == d.place = "none"
PlaceIsVague(d) == d.place = "vague"
AccessIsMissing(d) == d.place = "private" /\ ~d.access
CriteriaAreMissing(d) == d.complex /\ d.words = "short" /\ ~d.outcome
Ambiguous(d) == d.ambiguous
InstantEligible(d) ==
    ~PlaceIsMissing(d) /\ ~PlaceIsVague(d) /\ ~AccessIsMissing(d) /\ ~CriteriaAreMissing(d) /\ ~Ambiguous(d)

\* The request is hashed by the risk level that was asked for, LOW if none was; the stored hash
\* is computed once the policy's level has taken its place.
AskedHash(i) == <<i, "LOW">>
StoredHash(i) == <<i, RiskLevel(Drafts[i])>>
WithKey(k) == {entry \in keys : entry.key = k}

TypeOK ==
    /\ poster.phrase \in {"never", "recent", "old"} /\ poster.count \in Nat
    /\ poster.plan \in {"free", "premium"} /\ poster.lapsed \in BOOLEAN /\ poster.hold \in BOOLEAN
    /\ \A r \in Requests :
         /\ post[r].at \in {"idle", "asked", "cleared", "counting", "counted", "priced", "trusted", "placed",
                            "resetting", "planned", "gated", "stored", "clocked", "done"}
         /\ post[r].draft \in DOMAIN Drafts \cup {0} /\ post[r].key \in Keys \cup {NoKey}
         /\ post[r].task \in Requests \cup {0} /\ post[r].version \in DOMAIN Policies \cup {0}
         /\ tasks[r].state \in {"none", "OPEN", "MATCHING", "ACCEPTED"} /\ tasks[r].surge \in 0..3
         /\ tasks[r].minutes \in -1..3 /\ tasks[r].risk \in Risks
    /\ policy \in DOMAIN Policies /\ heldThen \subseteq Requests /\ violations \subseteq Requests
    /\ keys \subseteq [key : Keys, hash : (DOMAIN Drafts) \X Risks, task : Requests]
    /\ \A w \in Runs : wave[w].at \in {"idle", "inviting", "surging", "alerting"} /\ wave[w].left \subseteq Hustlers
    /\ invited \subseteq Requests \X Hustlers \X (0..2) /\ owing \subseteq Requests \X (0..3)
    /\ alerted \in [Requests \X Hustlers -> 0..Cardinality(Runs)]
-----------------------------------------------------------------------------
(***************************************************************************)
(* A request, from the client's call to the stored task.                   *)
(***************************************************************************)
Draft(r) == Drafts[post[r].draft]
Risk(r) == RiskLevel(Draft(r))
Go(r, at) == post' = [post EXCEPT ![r].at = at]
End(r, answer, task) == post' = [post EXCEPT ![r].at = "done", ![r].answer = answer, ![r].task = task]
Fails(what) == what \in Faults

Ask(r, kind, d, k) ==
    /\ post[r].at = "idle"
    /\ kind = "preview" => k = NoKey
    /\ post' = [post EXCEPT ![r].at = IF kind = "preview" THEN "cleared" ELSE "asked", ![r].kind = kind,
                            ![r].draft = d, ![r].key = k]
    /\ UNCHANGED <<posterVars, tasks, keys, violations, instantVars>>

Preflight(r) ==
    /\ post[r].at = "asked"
    /\ LET known == WithKey(post[r].key)
       IN  IF post[r].key = NoKey \/ known = {} THEN Go(r, "cleared")
           ELSE \E entry \in known :
                  IF entry.hash = AskedHash(post[r].draft) THEN End(r, "replay", entry.task)
                  ELSE End(r, "conflict", entry.task)
    /\ UNCHANGED <<posterVars, tasks, keys, violations, instantVars>>

\* One statement reads the counter of the phrase and writes it, but two of them that overlap both
\* read what was there before either.
ReadPhrase(r) ==
    /\ post[r].at = "cleared"
    /\ \/ /\ Draft(r).phrase
          /\ post' = [post EXCEPT ![r].at = "counting", ![r].repeat = (poster.phrase = "recent"),
                                  ![r].snap = poster.count]
       \/ (~Draft(r).phrase \/ Fails("count")) /\ Go(r, "counted")
    /\ UNCHANGED <<posterVars, tasks, keys, violations, instantVars>>

WritePhrase(r) ==
    /\ post[r].at = "counting"
    /\ poster' = [poster EXCEPT !.phrase = "recent", !.count = post[r].snap + 1]
    /\ Go(r, "counted")
    /\ UNCHANGED <<policy, heldThen, tasks, keys, violations, instantVars>>

Judge(r) ==
    /\ post[r].at = "counted"
    /\ LET score == Score(Draft(r), post[r].repeat)
       IN  /\ violations' = IF score >= 21 THEN violations \cup {r} ELSE violations
           /\ IF Tier(score) = "hard_block" THEN End(r, "blocked", 0)
              ELSE IF post[r].kind = "preview" THEN End(r, "preview", 0)
              ELSE IF ~QuoteAddsUp(Draft(r)) \/ ~PriceIsEnough(Draft(r)) THEN End(r, "refused", 0)
              ELSE Go(r, "priced")
    /\ UNCHANGED <<posterVars, tasks, keys, instantVars>>

CheckHold(r) ==
    /\ post[r].at = "priced"
    /\ IF Risk(r) /= "LOW" /\ poster.hold THEN End(r, "refused", 0) ELSE Go(r, "trusted")
    /\ UNCHANGED <<posterVars, tasks, keys, violations, instantVars>>

PolicyInForce == Policies[policy]
CheckRegion(r) ==
    /\ post[r].at = "trusted"
    /\ IF RegionAllows(Draft(r), PolicyInForce)
       THEN post' = [post EXCEPT ![r].at = "placed", ![r].version = policy] ELSE End(r, "refused", 0)
    /\ UNCHANGED <<posterVars, tasks, keys, violations, instantVars>>

Planned(r, plan) ==
    IF PlanAllows(Risk(r), plan, poster.entitled) THEN Go(r, "planned") ELSE End(r, "refused", 0)

ReadPlan(r) ==
    /\ post[r].at = "placed"
    /\ IF poster.plan /= "free" /\ poster.lapsed THEN Go(r, "resetting") ELSE Planned(r, poster.plan)
    /\ UNCHANGED <<posterVars, tasks, keys, violations, instantVars>>

\* The lapsed plan is written off by a statement of its own, which does not look again.
ResetPlan(r) ==
    /\ post[r].at = "resetting"
    /\ poster' = [poster EXCEPT !.plan = "free", !.lapsed = FALSE]
    /\ Planned(r, "free")
    /\ UNCHANGED <<policy, heldThen, tasks, keys, violations, instantVars>>

InstantPosts == Cardinality({r \in Requests : tasks[r].instant})
Gate(r) ==
    /\ post[r].at = "planned"
    /\ IF ~(Draft(r).instant /\ InstantOn) THEN Go(r, "gated")
       ELSE IF InstantPosts >= PostLimit \/ ~InstantEligible(Draft(r)) THEN End(r, "refused", 0)
       ELSE post' = [post EXCEPT ![r].at = "gated", ![r].instant = TRUE]
    /\ UNCHANGED <<posterVars, tasks, keys, violations, instantVars>>

\* One transaction, under a lock on the key: the task, its escrow, its scope and its request.
NewTask(r) ==
    [draft |-> post[r].draft, price |-> PriceOf(Draft(r)), risk |-> Risk(r), version |-> post[r].version,
     state |-> IF post[r].instant THEN "MATCHING" ELSE "OPEN", instant |-> post[r].instant, minutes |-> -1,
     surge |-> 0]
Witnessed(r) == [key |-> post[r].key, hash |-> StoredHash(post[r].draft), task |-> r]
Materialize(r) == IF post[r].instant THEN Go(r, "stored") ELSE End(r, "created", r)
Store(r) ==
    /\ post[r].at = "gated"
    /\ LET known == WithKey(post[r].key)
       IN  \/ /\ Fails("store") /\ End(r, "error", 0) /\ UNCHANGED <<tasks, keys>>
           \/ /\ known = {}
              /\ tasks' = [tasks EXCEPT ![r] = NewTask(r)]
              /\ keys' = IF post[r].key = NoKey THEN keys ELSE keys \cup {Witnessed(r)}
              /\ Materialize(r)
           \/ \E entry \in known :
                /\ IF entry.hash = StoredHash(post[r].draft) THEN End(r, "replay", entry.task)
                   ELSE End(r, "conflict", entry.task)
                /\ UNCHANGED <<tasks, keys>>
    /\ UNCHANGED <<posterVars, violations, instantVars>>

\* After the commit, and each on its own: the clock of the search is set, the search is announced.
StartClock(r) ==
    /\ post[r].at = "stored"
    /\ \/ Go(r, "clocked") /\ tasks' = [tasks EXCEPT ![r].minutes = 0]
       \/ Fails("match") /\ End(r, "error", 0) /\ UNCHANGED tasks
    /\ UNCHANGED <<posterVars, keys, violations, instantVars>>

Announce(r) ==
    /\ post[r].at = "clocked"
    /\ \/ End(r, "created", r) /\ owing' = owing \cup {<<r, 0>>}
       \/ Fails("announce") /\ End(r, "error", 0) /\ UNCHANGED owing
    /\ UNCHANGED <<posterVars, tasks, keys, violations, wave, invited, alerted>>

Post(r) ==
    \/ \E kind \in {"create", "preview"}, d \in DOMAIN Drafts, k \in Keys \cup {NoKey} : Ask(r, kind, d, k)
    \/ Preflight(r) \/ ReadPhrase(r) \/ WritePhrase(r) \/ Judge(r)
    \/ CheckHold(r) \/ CheckRegion(r) \/ ReadPlan(r) \/ ResetPlan(r) \/ Gate(r)
    \/ Store(r) \/ StartClock(r) \/ Announce(r)
-----------------------------------------------------------------------------
(***************************************************************************)
(* An instant task's search for a worker.                                  *)
(***************************************************************************)
Searching(t) == tasks[t].state = "MATCHING" /\ tasks[t].instant
Sensitive(t) == Drafts[tasks[t].draft].sensitive
LeastTier(t) == IF Sensitive(t) THEN 3 ELSE 2
MayTake(h, risk) ==
    risk = "LOW" \/ ((Skill[h].pro \/ Skill[h].entitled) /\ Skill[h].tier >= 3 /\ ~Skill[h].hold)
Reach(t, tier) == {h \in Hustlers : ~Skill[h].hold /\ Skill[h].tier >= tier /\ MayTake(h, tasks[t].risk)}
FirstWave(t) ==
    IF tasks[t].risk = "IN_HOME" THEN {}
    ELSE Reach(t, Max({LeastTier(t), IF tasks[t].risk = "HIGH" THEN 3 ELSE 1}))
WiderWave(t) == Reach(t, Max({1, LeastTier(t) - 1}))
SurgeLevel(minutes) == Max({0, minutes})

TakeMatching(w, t) ==
    /\ wave[w].at = "idle" /\ <<t, 0>> \in owing /\ InstantOn
    /\ Searching(t)
    /\ wave' = [wave EXCEPT ![w] = [Rest EXCEPT !.at = "inviting", !.task = t, !.left = FirstWave(t)]]
    /\ UNCHANGED <<posterVars, createVars, invited, alerted, owing>>

\* The first wave is written worker by worker, with no transaction around it.
Invite(w) ==
    /\ wave[w].at = "inviting"
    /\ \/ \E h \in wave[w].left :
            /\ invited' = invited \cup {<<wave[w].task, h, 0>>}
            /\ wave' = [wave EXCEPT ![w].left = @ \ {h}]
       \/ wave[w].left = {} /\ wave' = [wave EXCEPT ![w] = Rest] /\ UNCHANGED invited
    /\ UNCHANGED <<posterVars, createVars, alerted, owing>>

EvaluateSurges(t) ==
    /\ Searching(t) /\ tasks[t].minutes >= 1
    /\ tasks[t].surge < SurgeLevel(tasks[t].minutes)
    /\ owing' = owing \cup {<<t, SurgeLevel(tasks[t].minutes)>>}
    /\ UNCHANGED <<posterVars, createVars, wave, invited, alerted>>

\* The level is computed anew, whatever level the job was sent for.
TakeSurge(w, t, l) ==
    /\ wave[w].at = "idle" /\ l > 0 /\ <<t, l>> \in owing /\ SurgeOn
    /\ Searching(t) /\ SurgeLevel(tasks[t].minutes) > tasks[t].surge
    /\ wave' = [wave EXCEPT ![w] = [Rest EXCEPT !.at = "surging", !.task = t, !.level = SurgeLevel(tasks[t].minutes),
                                                !.left = WiderWave(t)]]
    /\ UNCHANGED <<posterVars, createVars, invited, alerted, owing>>

\* The wider waves raise the level of the task whatever its state has become.
Widen(w) ==
    /\ wave[w].at = "surging" /\ wave[w].level < 3
    /\ LET t == wave[w].task
       IN  IF tasks[t].surge < wave[w].level
           THEN /\ tasks' = [tasks EXCEPT ![t].surge = wave[w].level]
                /\ invited' = invited \cup {<<t, h, wave[w].level>> : h \in wave[w].left}
           ELSE UNCHANGED <<tasks, invited>>
    /\ wave' = [wave EXCEPT ![w] = Rest]
    /\ UNCHANGED <<posterVars, post, keys, violations, alerted, owing>>

GiveUp(w) ==
    /\ wave[w].at = "surging" /\ wave[w].level = 3
    /\ LET t == wave[w].task
       IN  tasks' = IF Searching(t) /\ tasks[t].surge < 3
                    THEN [tasks EXCEPT ![t].state = "OPEN", ![t].instant = FALSE, ![t].surge = 3] ELSE tasks
    /\ wave' = [wave EXCEPT ![w] = Rest]
    /\ UNCHANGED <<posterVars, post, keys, violations, invited, alerted, owing>>

TakeAlert(w, t, h) ==
    /\ wave[w].at = "idle" /\ \E l \in 0..2 : <<t, h, l>> \in invited
    /\ Searching(t) /\ alerted[<<t, h>>] = 0
    /\ wave' = [wave EXCEPT ![w] = [Rest EXCEPT !.at = "alerting", !.task = t, !.worker = h]]
    /\ UNCHANGED <<posterVars, createVars, invited, alerted, owing>>

Alert(w) ==
    /\ wave[w].at = "alerting"
    /\ alerted' = [alerted EXCEPT ![<<wave[w].task, wave[w].worker>>] = @ + 1]
    /\ wave' = [wave EXCEPT ![w] = Rest]
    /\ UNCHANGED <<posterVars, createVars, invited, owing>>

\* A worker accepts, elsewhere; and time passes.
Accept(t) ==
    /\ Searching(t)
    /\ tasks' = [tasks EXCEPT ![t].state = "ACCEPTED"]
    /\ UNCHANGED <<posterVars, post, keys, violations, instantVars>>

Minute(t) ==
    /\ Searching(t) /\ tasks[t].minutes \in 0..2
    /\ tasks' = [tasks EXCEPT ![t].minutes = @ + 1]
    /\ UNCHANGED <<posterVars, post, keys, violations, instantVars>>

Search(w) ==
    \/ Invite(w) \/ Widen(w) \/ GiveUp(w) \/ Alert(w)
    \/ \E t \in Requests : TakeMatching(w, t) \/ \E l \in 1..3 : TakeSurge(w, t, l)
    \/ \E t \in Requests, h \in Hustlers : TakeAlert(w, t, h)
-----------------------------------------------------------------------------
\* What others change in the meantime.
Begun(r) == post[r].at \notin {"idle", "asked", "cleared", "counting", "counted", "priced", "done"}
Change(what) ==
    /\ what \in Changes
    /\ \/ /\ what = "hold" /\ ~poster.hold
          /\ poster' = [poster EXCEPT !.hold = TRUE]
          /\ heldThen' = {r \in Requests : Begun(r)} /\ UNCHANGED policy
       \/ /\ what = "renew" /\ (poster.plan = "free" \/ poster.lapsed)
          /\ poster' = [poster EXCEPT !.plan = "premium", !.lapsed = FALSE] /\ UNCHANGED <<policy, heldThen>>
       \/ /\ what = "lapse" /\ poster.plan = "premium" /\ ~poster.lapsed
          /\ poster' = [poster EXCEPT !.lapsed = TRUE] /\ UNCHANGED <<policy, heldThen>>
       \/ /\ what = "forget" /\ poster.phrase = "recent"
          /\ poster' = [poster EXCEPT !.phrase = "old"] /\ UNCHANGED <<policy, heldThen>>
       \/ /\ what = "policy" /\ policy + 1 \in DOMAIN Policies
          /\ policy' = policy + 1 /\ UNCHANGED <<poster, heldThen>>
    /\ UNCHANGED <<createVars, instantVars>>

Next ==
    \/ \E r \in Requests : Post(r)
    \/ \E w \in Runs : Search(w)
    \/ \E t \in Requests : EvaluateSurges(t) \/ Accept(t) \/ Minute(t)
    \/ \E what \in Changes : Change(what)

Spec == Init /\ [][Next]_vars
-----------------------------------------------------------------------------
Made(r) == tasks[r].state /= "none"

\* TaskCreateService.existingOutcome: a key has made one task, from the draft it names, and no
\* two calls with one key were both told that they had created something.
OneTaskPerKey ==
    /\ \A e, f \in keys : e.key = f.key => e = f
    /\ \A e \in keys : Made(e.task) /\ e.hash[1] = tasks[e.task].draft
    /\ \A r, q \in Requests :
         r /= q /\ post[r].key = post[q].key /\ post[r].key /= NoKey => ~(Made(r) /\ Made(q))

\* TaskReadService.lookupCreateRequest: a repeated call is refused as another one only if it is,
\* or if the policy has raised the risk of the task above the one that was asked for.
ConflictHasReason ==
    \A r \in Requests :
      post[r].answer = "conflict" =>
        post[r].draft /= tasks[post[r].task].draft \/ tasks[post[r].task].risk /= "LOW"

\* RegionPolicyService: what is stored satisfies the version of the policy it was stored with,
\* which asks for a quoted payout: no task is ever made at a price of the platform's own.
QuotedWithinPolicy ==
    \A r \in Requests : Made(r) =>
      /\ RegionAllows(Drafts[tasks[r].draft], Policies[tasks[r].version])
      /\ Drafts[tasks[r].draft].price > 0 /\ tasks[r].price = Drafts[tasks[r].draft].price

\* TaskCreateService.startInstantMatching: a task that searches has a clock, or the call that
\* made it has not finished or has failed after its commit.
SearchHasClock ==
    \A r \in Requests : Searching(r) /\ tasks[r].minutes < 0 => post[r].at = "stored" \/ post[r].answer = "error"

\* instant-matching-worker, instant-surge-worker: whoever is invited may take the task.
InvitedMayTake ==
    \A i \in invited : MayTake(i[2], tasks[i[1]].risk) /\ ~Skill[i[2]].hold /\ Skill[i[2]].tier >= LeastTier(i[1]) - 1

\* ComplianceGuardianService._codeLevelPatternMatch: the phrase of a created task is remembered,
\* and a draft that a repetition blocks was not blocked as such.
PhraseIsRemembered ==
    \A r \in Requests :
      Made(r) /\ Drafts[tasks[r].draft].phrase /\ ~Fails("count") =>
        poster.phrase /= "never" /\ poster.count > 0 /\ r \in violations

\* TaskCreateService.assertPosterTrustHold: a poster on hold gets no risky task, except by a call
\* that had passed the check when the hold came.
HeldGetsNoRisk ==
    \A r \in Requests : ~Made(r) /\ tasks'[r].state /= "none" /\ poster.hold => tasks'[r].risk = "LOW" \/ r \in heldThen

\* instant-surge-worker: a search widens and never narrows, and what has been accepted is not
\* given up.
SearchOnlyWidens ==
    \A t \in Requests :
      /\ tasks'[t].surge >= tasks[t].surge
      /\ tasks[t].state = "ACCEPTED" => tasks'[t].state = "ACCEPTED"
      /\ ~(Made(t) /\ tasks'[t].instant /\ ~tasks[t].instant)
=============================================================================
