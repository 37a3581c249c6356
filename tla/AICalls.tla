---------------------------------- MODULE AICalls ----------------------------------
(***************************************************************************)
(* Calls of language models. AIClient asks the providers of a route in     *)
(* turn, keeps answers and has every answer observed before it is given;   *)
(* AIRouter asks within budgets; the onboarding agent turns an answer into *)
(* a job, a proposal, a decision and a row of users.                       *)
(***************************************************************************)
EXTENDS Integers, Sequences, FiniteSets, FiniteSetsExt

CONSTANTS
    Calls,      \* calls of AIClient
    Requests,   \* what they may ask: [chain, prompt, user, kept, observed]
    Contents,   \* what a provider may answer: "good", or "bad" for what is not the JSON asked for
    Responders, \* users' responses to an answer, all with one idempotency key
    Fields,     \* what a response may say was edited
    Routed,     \* calls of AIRouter, for one user on one day
    AgentOf,    \* their agents
    Fallbacks,  \* the providers of an agent, in turn
    Limits,     \* the budgets: [agent, user, all]
    Cost,       \* what an answer costs
    Retries,    \* repetitions of a failed attempt
    Submissions, \* calls of submitCalibration, for one user
    Faults      \* what may fail: "keep", "record", "track", "die" and the statements of a submission

Statements == {"event", "job", "start", "proposal", "decision", "complete", "user"}
AICallsAssumption ==
    /\ Contents \subseteq {"good", "bad"} /\ DOMAIN AgentOf = Routed
    /\ \A q \in Requests : Len(q.chain) > 0 /\ q.kept \in BOOLEAN /\ q.observed \in BOOLEAN
    /\ Faults \subseteq {"keep", "record", "track", "die"} \cup Statements
    /\ Cost \in Nat \ {0} /\ Retries \in Nat /\ \A b \in DOMAIN Limits : Limits[b] \in Nat

VARIABLES
    cache,     \* Redis: answers by prompt, user and the provider's model
    call,      \* calls, with what they have got
    observed,  \* ai_observation_events: [call, result, provider]
    replicated, \* calls whose events have reached the replica
    response,  \* responses, with what they have read
    outcomes,  \* ai_observation_outcomes: [call, edited]
    routed,    \* routed calls
    spent,     \* Redis counters: [agent, user, all]
    billed,    \* what the providers have been asked for
    crowded,   \* a budget was looked at while another call had not been counted
    submission, \* submissions, with their jobs
    role       \* users.role_confidence: the submission it is from, or "none"

clientVars == <<cache, call, observed, replicated, response, outcomes>>
routerVars == <<routed, spent, billed, crowded>>
onboardingVars == <<submission, role>>
vars == <<clientVars, routerVars, onboardingVars>>

Agents == {AgentOf[r] : r \in Routed}
Unasked == [at |-> "idle", chain |-> <<>>, prompt |-> "none", user |-> "none", kept |-> FALSE, observed |-> FALSE,
            left |-> <<>>, provider |-> "none", content |-> "none", result |-> "none", answer |-> "none"]
Unrouted == [at |-> "idle", left |-> <<>>, tries |-> 0, answer |-> "none"]
Unsubmitted == [at |-> "idle", event |-> FALSE, status |-> "none", attempts |-> 0, proposal |-> FALSE,
                decision |-> FALSE, answer |-> "none"]

Init ==
    /\ cache = {} /\ observed = {} /\ replicated = {} /\ outcomes = {}
    /\ call = [c \in Calls |-> Unasked]
    /\ response = [r \in Responders |-> [at |-> "idle", call |-> "none", edited |-> "none", saw |-> {}, answer |-> "none"]]
    /\ routed = [r \in Routed |-> Unrouted]
    /\ spent = [agent |-> [a \in Agents |-> 0], user |-> 0, all |-> 0]
    /\ billed = 0 /\ crowded = FALSE
    /\ submission = [s \in Submissions |-> Unsubmitted]
    /\ role = "none"

Fails(what) == what \in Faults

TypeOK ==
    /\ \A e \in cache : e.content \in Contents
    /\ \A c \in Calls : /\ call[c].at \in {"idle", "asking", "keeping", "recording", "failing", "done"}
                        /\ call[c].result \in {"none", "CACHED", "GENERATED"}
                        /\ call[c].answer \in {"none", "served", "unparsed", "withheld", "failed"}
    /\ observed \subseteq [call : Calls, result : {"CACHED", "GENERATED", "FAILED"}, provider : {o.provider : o \in observed}]
    /\ replicated \subseteq Calls /\ outcomes \subseteq [call : Calls, edited : Fields]
    /\ \A r \in Responders : response[r].at \in {"idle", "allowed", "reading", "done"}
    /\ \A r \in Routed : routed[r].at \in {"idle", "global", "user", "asking", "agentCost", "userCost", "allCost", "done"}
    /\ spent.user \in Nat /\ spent.all \in Nat /\ billed \in Nat /\ crowded \in BOOLEAN
    /\ \A s \in Submissions : submission[s].status \in {"none", "PENDING", "PROCESSING", "COMPLETED", "FAILED"}
    /\ role \in Submissions \cup {"none"}
-----------------------------------------------------------------------------
(***************************************************************************)
(* AIClient.                                                               *)
(***************************************************************************)
\* The key of a kept answer is the prompt, the user and the model, which tells the provider.
Kept(c, provider) ==
    {e \in cache : e.prompt = call[c].prompt /\ e.user = call[c].user /\ e.provider = provider}

Look(c, q) ==
    /\ call[c].at = "idle"
    /\ LET asked == [Unasked EXCEPT !.chain = q.chain, !.prompt = q.prompt, !.user = q.user, !.kept = q.kept,
                                    !.observed = q.observed]
           hits == {e \in cache : q.kept /\ e.prompt = q.prompt /\ e.user = q.user /\ e.provider = Head(q.chain)}
       IN  \/ \E e \in hits :
                call' = [call EXCEPT ![c] = [asked EXCEPT !.at = "recording", !.provider = e.provider,
                                                          !.content = e.content, !.result = "CACHED"]]
           \/ hits = {} /\ call' = [call EXCEPT ![c] = [asked EXCEPT !.at = "asking", !.left = q.chain]]
    /\ UNCHANGED <<cache, observed, replicated, response, outcomes, routerVars, onboardingVars>>

\* A provider that is not configured, is shut off, takes too long or answers nothing is passed over.
NextProvider(c) ==
    call' = [call EXCEPT ![c].left = Tail(@), ![c].at = IF Len(call[c].left) = 1 THEN "failing" ELSE "asking"]
AskProvider(c) ==
    /\ call[c].at = "asking"
    /\ \/ \E k \in Contents :
            call' = [call EXCEPT ![c].at = "keeping", ![c].provider = Head(call[c].left), ![c].content = k]
       \/ NextProvider(c)
    /\ UNCHANGED <<cache, observed, replicated, response, outcomes, routerVars, onboardingVars>>

\* An answer that cannot be kept is thrown away, and the next provider is asked.
Keep(c) ==
    /\ call[c].at = "keeping"
    /\ \/ /\ call' = [call EXCEPT ![c].at = "recording", ![c].result = "GENERATED"]
          /\ cache' = IF call[c].kept
                      THEN (cache \ Kept(c, call[c].provider)) \cup
                           {[prompt |-> call[c].prompt, user |-> call[c].user, provider |-> call[c].provider,
                             content |-> call[c].content]}
                      ELSE cache
       \/ call[c].kept /\ Fails("keep") /\ NextProvider(c) /\ UNCHANGED cache
    /\ UNCHANGED <<observed, replicated, response, outcomes, routerVars, onboardingVars>>

Observation(c, result, provider) == [call |-> c, result |-> result, provider |-> provider]
Observe(c, result, provider) ==
    observed' = IF call[c].observed THEN observed \cup {Observation(c, result, provider)} ELSE observed

\* The answer is parsed by whoever receives it.
ParseJSON(c) == IF call[c].content = "bad" THEN "unparsed" ELSE "served"
RecordObservation(c) ==
    /\ call[c].at = "recording"
    /\ \/ /\ call' = [call EXCEPT ![c].at = "done", ![c].answer = ParseJSON(c)]
          /\ Observe(c, call[c].result, call[c].provider)
       \/ /\ call[c].observed /\ Fails("record")
          /\ call' = [call EXCEPT ![c].at = "done", ![c].answer = "withheld"] /\ UNCHANGED observed
    /\ UNCHANGED <<cache, replicated, response, outcomes, routerVars, onboardingVars>>

RecordFailure(c) ==
    /\ call[c].at = "failing"
    /\ call' = [call EXCEPT ![c].at = "done", ![c].answer = "failed"]
    /\ \/ Observe(c, "FAILED", Head(call[c].chain))
       \/ Fails("record") /\ UNCHANGED observed
    /\ UNCHANGED <<cache, replicated, response, outcomes, routerVars, onboardingVars>>

Expire(e) ==
    /\ cache' = cache \ {e}
    /\ UNCHANGED <<call, observed, replicated, response, outcomes, routerVars, onboardingVars>>

\* The user says what became of an answer. The event is read from the replica; the outcome is
\* inserted unless one with the key is there, and a statement that finds one it had not seen
\* when it began gives no row.
Replicate(c) ==
    /\ c \notin replicated /\ \E o \in observed : o.call = c /\ o.result /= "FAILED"
    /\ replicated' = replicated \cup {c}
    /\ UNCHANGED <<cache, call, observed, response, outcomes, routerVars, onboardingVars>>
Respond(r, c, edited) ==
    /\ response[r].at = "idle"
    /\ response' = [response EXCEPT ![r].at = IF c \in replicated THEN "allowed" ELSE "done", ![r].call = c,
                                    ![r].edited = edited,
                                    ![r].answer = IF c \in replicated THEN "none" ELSE "unknown"]
    /\ UNCHANGED <<cache, call, observed, replicated, outcomes, routerVars, onboardingVars>>
Known(r) == {o \in outcomes : o.call = response[r].call}
Outcome(r) == [call |-> response[r].call, edited |-> response[r].edited]
SeeOutcome(r) ==
    /\ response[r].at = "allowed"
    /\ response' = [response EXCEPT ![r].at = "reading", ![r].saw = Known(r)]
    /\ UNCHANGED <<cache, call, observed, replicated, outcomes, routerVars, onboardingVars>>
RecordOutcome(r) ==
    /\ response[r].at = "reading"
    /\ outcomes' = IF Known(r) = {} THEN outcomes \cup {Outcome(r)} ELSE outcomes
    /\ response' = [response EXCEPT ![r].at = "done",
         ![r].answer = IF Known(r) = {} THEN "recorded" ELSE IF response[r].saw = {} THEN "lost"
                       ELSE IF \E o \in response[r].saw : o.edited = response[r].edited THEN "recorded" ELSE "conflict"]
    /\ UNCHANGED <<cache, call, observed, replicated, routerVars, onboardingVars>>

Client ==
    \/ \E c \in Calls : \/ \E q \in Requests : Look(c, q)
                        \/ AskProvider(c) \/ Keep(c) \/ RecordObservation(c) \/ RecordFailure(c) \/ Replicate(c)
    \/ \E e \in cache : Expire(e)
    \/ \E r \in Responders : \/ \E c \in Calls, f \in Fields : Respond(r, c, f)
                             \/ SeeOutcome(r) \/ RecordOutcome(r)
-----------------------------------------------------------------------------
(***************************************************************************)
(* AIRouter: three budgets are looked at in turn, and three counters are   *)
(* raised in turn once a provider has answered.                            *)
(***************************************************************************)
At(r, at) == routed' = [routed EXCEPT ![r].at = at]
EndRouted(r, answer) == routed' = [routed EXCEPT ![r].at = "done", ![r].answer = answer]
Uncounted == {r \in Routed : routed[r].at \in {"global", "user", "asking", "agentCost", "userCost", "allCost"}}
Crowd(r) == crowded' = (crowded \/ Uncounted \ {r} /= {})
CheckGlobalBudget(r) ==
    /\ routed[r].at = "idle"
    /\ IF spent.all < Limits.all THEN At(r, "global") ELSE EndRouted(r, "refused")
    /\ Crowd(r) /\ UNCHANGED <<clientVars, spent, billed, onboardingVars>>
CheckUserBudget(r) ==
    /\ routed[r].at = "global"
    /\ IF spent.user < Limits.user THEN At(r, "user") ELSE EndRouted(r, "refused")
    /\ Crowd(r) /\ UNCHANGED <<clientVars, spent, billed, onboardingVars>>
CheckBudget(r) ==
    /\ routed[r].at = "user"
    /\ IF spent.agent[AgentOf[r]] < Limits.agent
       THEN routed' = [routed EXCEPT ![r].at = "asking", ![r].left = Fallbacks[AgentOf[r]]]
       ELSE EndRouted(r, "refused")
    /\ Crowd(r) /\ UNCHANGED <<clientVars, spent, billed, onboardingVars>>

\* An attempt that fails may have been billed all the same. It is repeated, unless the breaker
\* of the provider is open.
RetryWithBackoff(r) ==
    IF routed[r].tries < Retries THEN routed' = [routed EXCEPT ![r].tries = @ + 1]
    ELSE IF Len(routed[r].left) > 1 THEN routed' = [routed EXCEPT ![r].tries = 0, ![r].left = Tail(@)]
    ELSE EndRouted(r, "exhausted")
SkipProvider(r) ==
    IF Len(routed[r].left) > 1 THEN routed' = [routed EXCEPT ![r].tries = 0, ![r].left = Tail(@)]
    ELSE EndRouted(r, "exhausted")
Attempt(r) ==
    /\ routed[r].at = "asking"
    /\ \/ At(r, "agentCost") /\ billed' = billed + Cost
       \/ RetryWithBackoff(r) /\ billed' \in {billed, billed + Cost}
       \/ SkipProvider(r) /\ UNCHANGED billed
    /\ UNCHANGED <<clientVars, spent, crowded, onboardingVars>>

\* A counter that cannot be raised is let be.
TrackCost(r) ==
    /\ routed[r].at = "agentCost" /\ At(r, "userCost")
    /\ \/ spent' = [spent EXCEPT !.agent[AgentOf[r]] = @ + Cost]
       \/ Fails("track") /\ UNCHANGED spent
    /\ UNCHANGED <<clientVars, billed, crowded, onboardingVars>>
TrackUserCost(r) ==
    /\ routed[r].at = "userCost" /\ At(r, "allCost")
    /\ spent' = [spent EXCEPT !.user = @ + Cost] \/ (Fails("track") /\ UNCHANGED spent)
    /\ UNCHANGED <<clientVars, billed, crowded, onboardingVars>>
TrackGlobalCost(r) ==
    /\ routed[r].at = "allCost" /\ EndRouted(r, "answered")
    /\ spent' = [spent EXCEPT !.all = @ + Cost] \/ (Fails("track") /\ UNCHANGED spent)
    /\ UNCHANGED <<clientVars, billed, crowded, onboardingVars>>
Router == \E r \in Routed : \/ CheckGlobalBudget(r) \/ CheckUserBudget(r) \/ CheckBudget(r)
                            \/ Attempt(r) \/ TrackCost(r) \/ TrackUserCost(r) \/ TrackGlobalCost(r)
-----------------------------------------------------------------------------
(***************************************************************************)
(* OnboardingAIService.submitCalibration, statement by statement. What     *)
(* start and complete answer is not looked at.                             *)
(***************************************************************************)
EndSubmission(s, answer) == submission' = [submission EXCEPT ![s].at = "done", ![s].answer = answer]
CreateEvent(s) ==
    /\ submission[s].at = "idle"
    /\ \/ submission' = [submission EXCEPT ![s].at = "event", ![s].event = TRUE]
       \/ Fails("event") /\ EndSubmission(s, "error")
    /\ UNCHANGED <<clientVars, routerVars, role>>
CreateJob(s) ==
    /\ submission[s].at = "event"
    /\ \/ submission' = [submission EXCEPT ![s].at = "job", ![s].status = "PENDING"]
       \/ Fails("job") /\ EndSubmission(s, "error")
    /\ UNCHANGED <<clientVars, routerVars, role>>
StartJob(s) ==
    /\ submission[s].at = "job"
    /\ \/ submission' = [submission EXCEPT ![s].at = "started", ![s].status = "PROCESSING", ![s].attempts = @ + 1]
       \/ Fails("start") /\ submission' = [submission EXCEPT ![s].at = "started"]
    /\ UNCHANGED <<clientVars, routerVars, role>>
CreateProposal(s) ==
    /\ submission[s].at = "started"
    /\ \/ submission' = [submission EXCEPT ![s].at = "proposed", ![s].proposal = TRUE]
       \/ Fails("proposal") /\ submission' = [submission EXCEPT ![s].at = "failing"]
    /\ UNCHANGED <<clientVars, routerVars, role>>
CreateDecision(s) ==
    /\ submission[s].at = "proposed"
    /\ \/ submission' = [submission EXCEPT ![s].at = "decided", ![s].decision = TRUE]
       \/ Fails("decision") /\ submission' = [submission EXCEPT ![s].at = "failing"]
    /\ UNCHANGED <<clientVars, routerVars, role>>
MaxAttempts == 3
FailJob(s) ==
    /\ submission[s].at = "failing"
    /\ submission' = [submission EXCEPT ![s].at = "done", ![s].answer = "error",
                        ![s].status = IF submission[s].attempts < MaxAttempts THEN "PENDING" ELSE "FAILED"]
    /\ UNCHANGED <<clientVars, routerVars, role>>
CompleteJob(s) ==
    /\ submission[s].at = "decided"
    /\ \/ submission' = [submission EXCEPT ![s].at = "completed", ![s].status = "COMPLETED"]
       \/ Fails("complete") /\ submission' = [submission EXCEPT ![s].at = "completed"]
    /\ UNCHANGED <<clientVars, routerVars, role>>
ApplyInference(s) ==
    /\ submission[s].at = "completed"
    /\ \/ EndSubmission(s, "inferred") /\ role' = s
       \/ Fails("user") /\ EndSubmission(s, "error") /\ UNCHANGED role
    /\ UNCHANGED <<clientVars, routerVars>>
Die(s) ==
    /\ Fails("die") /\ submission[s].at \notin {"idle", "done"}
    /\ EndSubmission(s, "died")
    /\ UNCHANGED <<clientVars, routerVars, role>>
Onboarding ==
    \E s \in Submissions :
      \/ CreateEvent(s) \/ CreateJob(s) \/ StartJob(s) \/ CreateProposal(s) \/ CreateDecision(s) \/ FailJob(s)
      \/ CompleteJob(s) \/ ApplyInference(s) \/ Die(s)

Next == Client \/ Router \/ Onboarding
Spec == Init /\ [][Next]_vars
-----------------------------------------------------------------------------
Records(c) == {o \in observed : o.call = c}

\* AIClient.call: nothing is given to anyone before it is recorded, once, as what it is.
GivenIsRecorded ==
    \A c \in Calls :
      /\ call[c].answer \in {"served", "unparsed"} /\ call[c].observed =>
           Records(c) = {Observation(c, call[c].result, call[c].provider)}
      /\ call[c].answer = "withheld" => Records(c) = {}
      /\ Cardinality(Records(c)) <= 1

\* AIClient.hashPrompt: a kept answer was given by the provider it is ascribed to, to the prompt
\* it is used for, and for the user it is given to.
CachedIsAscribed ==
    \A c \in Calls :
      call[c].result = "CACHED" =>
        \E d \in Calls \ {c} :
          /\ call[d].result = "GENERATED" /\ call[d].provider = call[c].provider /\ call[d].prompt = call[c].prompt
          /\ call[d].user = call[c].user /\ call[d].content = call[c].content

\* AIObservabilityService.recordOutcome: what a user was told was recorded is what is recorded;
\* a response is lost, as its caller is told, only beside another one, and one outcome remains.
OutcomeIsFirst ==
    /\ \A o, p \in outcomes : o.call = p.call => o = p
    /\ \A r \in Responders :
         /\ response[r].answer = "recorded" => Outcome(r) \in outcomes
         /\ response[r].answer \in {"lost", "conflict"} =>
              \E s \in Responders \ {r} : response[s].answer = "recorded" /\ response[s].call = response[r].call

\* AIRouter.callAI: a budget is overspent only by calls that were checked side by side.
OverspendNeedsACrowd ==
    \/ crowded
    \/ /\ spent.all < Limits.all + Cost /\ spent.user < Limits.user + Cost
       /\ \A a \in Agents : spent.agent[a] < Limits.agent + Cost

\* AIRouter.trackCost and its companions: nothing is counted that was not asked for, and at rest
\* the counters agree unless one could not be raised.
CountersAgree ==
    /\ spent.all <= billed /\ spent.user <= billed
    /\ ~Fails("track") /\ (\A r \in Routed : routed[r].at \notin {"agentCost", "userCost", "allCost"}) =>
         spent.user = spent.all /\ spent.all = MapThenSumSet(LAMBDA a : spent.agent[a], Agents)

\* OnboardingAIService.submitCalibration: what a user row says was proposed and decided first.
RoleIsDecided ==
    \A s \in Submissions :
      /\ role = s => submission[s].event /\ submission[s].proposal /\ submission[s].decision
      /\ submission[s].decision => submission[s].proposal /\ submission[s].status /= "none"

\* AIJobService: a job that nobody works on and that has not ended was left by a failure, and
\* one that has ended well without its effect was left by one.
LeftJobHasReason ==
    \A s \in Submissions :
      submission[s].at = "done" =>
        /\ submission[s].status \in {"PENDING", "PROCESSING"} =>
             submission[s].answer \in {"error", "died"} \/ Fails("complete")
        /\ submission[s].status = "COMPLETED" /\ submission[s].answer /= "inferred" =>
             submission[s].answer = "died" \/ Fails("user")
=============================================================================
