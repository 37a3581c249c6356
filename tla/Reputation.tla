------------------------------ MODULE Reputation ------------------------------
(***************************************************************************)
(* What is said of people: the two ratings of a completed task, given by   *)
(* its participants, by the messaging bridge or after a week by nobody     *)
(* (RatingService, VerifiedPosterRatingService), and the recommendations   *)
(* of neighbours, with the signals against them and their appeals          *)
(* (MarketplaceReputationService).  A transaction commits at its last      *)
(* step; what two of them read before is from before both.                 *)
(***************************************************************************)
EXTENDS Naturals, FiniteSets

CONSTANTS
    Tasks,      \* completed tasks of one poster and one worker
    Stars,      \* numbers of stars given
    Reviews,    \* providerReviewIds of the bridge
    Callers,    \* requests under way
    Moderated,  \* ratings are moderated
    Erasing,    \* accounts are erased
    Neighbours  \* nobody, or two people who may recommend each other

ReputationAssumption ==
    /\ Stars \subseteq 1..5 /\ Moderated \in BOOLEAN /\ Erasing \in BOOLEAN
    /\ Cardinality(Neighbours) \in {0, 2}

VARIABLES
    rating,     \* task_ratings, by task and rater
    late,       \* tasks completed more than seven days ago
    lock,       \* the holder of a task's advisory lock
    call,       \* where a request stands
    evidence,   \* the bridge's events, by review
    erased,     \* sides whose account is erased
    members,    \* neighbours with an active membership
    writing,    \* recommendations about to be inserted, by recommender
    advice,     \* local_provider_recommendations, by recommender
    signal,     \* reputation_signal_flags of a recommendation
    appeal,     \* reputation_signal_appeals of a signal
    met         \* history: two recommendations were under way at once

ratingVars == <<rating, late, lock, call, evidence, erased>>
adviceVars == <<members, writing, advice, signal, appeal, met>>
vars == <<ratingVars, adviceVars>>

Sides == {"poster", "worker"}
None == [by |-> "none"]
Free == [pc |-> "free"]
NoLock == "none"

Ratings == [by : {"person", "auto"}, stars : Stars \cup {5}, comment : BOOLEAN,
            public : BOOLEAN, blind : BOOLEAN]

Init ==
    /\ rating = [t \in Tasks |-> [s \in Sides |-> None]]
    /\ late = {} /\ erased = {}
    /\ lock = [t \in Tasks |-> NoLock]
    /\ call = [c \in Callers |-> Free]
    /\ evidence = [k \in Reviews |-> None]
    /\ members = Neighbours
    /\ writing = [u \in Neighbours |-> "no"]
    /\ advice = [u \in Neighbours |-> "none"]
    /\ signal = [u \in Neighbours |-> "none"]
    /\ appeal = [u \in Neighbours |-> "none"]
    /\ met = FALSE

Submissions == [pc : {"prior", "lock", "write"}, task : Tasks, side : Sides, stars : Stars,
                comment : BOOLEAN, review : Reviews \cup {"none"}, found : 0..2]

TypeOK ==
    /\ rating \in [Tasks -> [Sides -> {None} \cup Ratings]]
    /\ late \subseteq Tasks /\ erased \subseteq Sides
    /\ lock \in [Tasks -> Callers \cup {NoLock}]
    /\ call \in [Callers -> {Free} \cup Submissions \cup [pc : {"auto"}, todo : SUBSET Tasks]
                    \cup [pc : {"evidence"}, task : Tasks, stars : Stars, review : Reviews]]
    /\ evidence \in [Reviews -> {None} \cup [by : {"bridge"}, task : Tasks, stars : Stars]]
    /\ members \subseteq Neighbours
    /\ writing \in [Neighbours -> {"no", "plain", "held"}]
    /\ advice \in [Neighbours -> {"none", "PENDING_MODERATION", "HELD_FOR_REVIEW", "PUBLISHED",
                                  "REJECTED", "REMOVED"}]
    /\ signal \in [Neighbours -> {"none", "OPEN", "DISMISSED"}]
    /\ appeal \in [Neighbours -> {"none", "PENDING", "UPHELD", "OVERTURNED"}]
    /\ met \in BOOLEAN

-----------------------------------------------------------------------------
\* submitRating

Rated(t, s) == rating[t][s] # None
Count(t) == Cardinality({s \in Sides : Rated(t, s)})

\* A participant's rating; the worker or the poster asks for himself.
SubmitRating(c, t, s, n, commented) ==
    /\ call[c] = Free /\ s \notin erased
    /\ call' = [call EXCEPT ![c] = [pc |-> "lock", task |-> t, side |-> s, stars |-> n,
                                    comment |-> commented, review |-> "none", found |-> 0]]
    /\ UNCHANGED <<rating, late, lock, evidence, erased, adviceVars>>

\* Under the task's lock: in time, and not there yet.
MayRate(t, s) == t \notin late /\ ~Rated(t, s)

LockAndLook(c) ==
    /\ call[c].pc = "lock"
    /\ LET t == call[c].task IN
       /\ lock[t] = NoLock
       /\ IF MayRate(t, call[c].side)
          THEN /\ lock' = [lock EXCEPT ![t] = c]
               /\ call' = [call EXCEPT ![c].pc = "write", ![c].found = Count(t)]
          ELSE call' = [call EXCEPT ![c] = Free] /\ UNCHANGED lock
    /\ UNCHANGED <<rating, late, evidence, erased, adviceVars>>

\* The first is blind; the second shows every rating of the task.
Given(c) == [by |-> "person", stars |-> call[c].stars, comment |-> call[c].comment,
             public |-> call[c].found >= 1, blind |-> call[c].found = 0]
Reveal(r) == IF r = None THEN r ELSE [r EXCEPT !.public = TRUE, !.blind = FALSE]
WithRating(c) ==
    LET both == [rating[call[c].task] EXCEPT ![call[c].side] = Given(c)]
    IN  IF call[c].found = 1 THEN [s \in Sides |-> Reveal(both[s])] ELSE both

\* insertRating and the commit; the bridge's request goes on to its evidence.
InsertRating(c) ==
    /\ call[c].pc = "write"
    /\ LET t == call[c].task IN
       /\ rating' = [rating EXCEPT ![t] = WithRating(c)]
       /\ lock' = [lock EXCEPT ![t] = NoLock]
       /\ call' = [call EXCEPT ![c] =
             IF call[c].review = "none" THEN Free
             ELSE [pc |-> "evidence", task |-> t, stars |-> call[c].stars, review |-> call[c].review]]
    /\ UNCHANGED <<late, evidence, erased, adviceVars>>

\* A failed statement or a process that ends: the transaction leaves nothing.
Fail(c) ==
    /\ call[c] # Free
    /\ call' = [call EXCEPT ![c] = Free]
    /\ lock' = [t \in Tasks |-> IF lock[t] = c THEN NoLock ELSE lock[t]]
    /\ UNCHANGED <<rating, late, evidence, erased, adviceVars>>

-----------------------------------------------------------------------------
\* The bridge: the poster's rating as it came by message.

SameReview(k, t, n) == evidence[k] # None => evidence[k].task = t /\ evidence[k].stars = n

RecordPosterRating(c, k, t, n) ==
    /\ call[c] = Free /\ SameReview(k, t, n)
    /\ call' = [call EXCEPT ![c] = [pc |-> "prior", task |-> t, side |-> "poster", stars |-> n,
                                    comment |-> FALSE, review |-> k, found |-> 0]]
    /\ UNCHANGED <<rating, late, lock, evidence, erased, adviceVars>>

\* A rating that is there already, whoever gave it, is the answer.
Replay(c) ==
    /\ call[c].pc = "prior"
    /\ call' = [call EXCEPT ![c] = IF Rated(@.task, "poster") THEN Free ELSE [@ EXCEPT !.pc = "lock"]]
    /\ UNCHANGED <<rating, late, lock, evidence, erased, adviceVars>>

WriteEvidence(c) ==
    /\ call[c].pc = "evidence"
    /\ evidence' = [evidence EXCEPT ![call[c].review] =
          IF @ = None THEN [by |-> "bridge", task |-> call[c].task, stars |-> call[c].stars] ELSE @]
    /\ call' = [call EXCEPT ![c] = Free]
    /\ UNCHANGED <<rating, late, lock, erased, adviceVars>>

-----------------------------------------------------------------------------
\* processAutoRatings, when an administrator asks for it

WeekPasses(t) ==
    /\ late' = late \cup {t} /\ late' # late
    /\ UNCHANGED <<rating, lock, call, evidence, erased, adviceVars>>

UnratedTasks == {t \in late : Count(t) < 2}

ProcessAutoRatings(c) ==
    /\ call[c] = Free /\ UnratedTasks # {}
    /\ call' = [call EXCEPT ![c] = [pc |-> "auto", todo |-> UnratedTasks]]
    /\ UNCHANGED <<rating, late, lock, evidence, erased, adviceVars>>

Auto == [by |-> "auto", stars |-> 5, comment |-> TRUE, public |-> TRUE, blind |-> FALSE]
\* ON CONFLICT DO NOTHING; of two ratings a blind one is shown.
Completed(r) ==
    CASE r = None -> Auto
      [] r # None -> IF r.blind /\ ~r.public THEN Reveal(r) ELSE r

ProcessTaskAutoRating(c, t) ==
    /\ call[c].pc = "auto" /\ t \in call[c].todo /\ lock[t] = NoLock
    /\ rating' = [rating EXCEPT ![t] = [s \in Sides |-> Completed(rating[t][s])]]
    /\ call' = [call EXCEPT ![c] = IF @.todo = {t} THEN Free ELSE [@ EXCEPT !.todo = @ \ {t}]]
    /\ UNCHANGED <<late, lock, evidence, erased, adviceVars>>

-----------------------------------------------------------------------------
\* Others who write the rows, without the lock

\* applyModerationAction: only whether a rating is public.
Moderate(t, s, shown) ==
    /\ Moderated /\ Rated(t, s) /\ rating[t][s].public # shown
    /\ rating' = [rating EXCEPT ![t][s].public = shown]
    /\ UNCHANGED <<late, lock, call, evidence, erased, adviceVars>>

\* The erasure clears comments, which the trigger of the table refuses: it
\* succeeds only where there are none.  The trigger also waits for the task's row.
EraseAccount(s) ==
    /\ Erasing /\ s \notin erased
    /\ \A t \in Tasks, q \in Sides : Rated(t, q) => ~rating[t][q].comment /\ lock[t] = NoLock
    /\ rating' = [t \in Tasks |-> [q \in Sides |->
          IF Rated(t, q) THEN [rating[t][q] EXCEPT !.public = FALSE] ELSE None]]
    /\ erased' = erased \cup {s}
    /\ UNCHANGED <<late, lock, call, evidence, adviceVars>>

-----------------------------------------------------------------------------
\* Recommendations of neighbours

Live(u) == advice[u] \in {"PENDING_MODERATION", "HELD_FOR_REVIEW", "PUBLISHED"}

VerifyMembership(u) ==
    /\ u \notin members /\ members' = members \cup {u}
    /\ UNCHANGED <<ratingVars, writing, advice, signal, appeal, met>>

MembershipExpires(u) ==
    /\ u \in members /\ members' = members \ {u}
    /\ UNCHANGED <<ratingVars, writing, advice, signal, appeal, met>>

\* The reads of submitLocalRecommendation: a recommendation in return holds it.
LookForReturn(u, v) ==
    /\ u # v /\ u \in members /\ advice[u] = "none" /\ writing[u] = "no"
    /\ writing' = [writing EXCEPT ![u] = IF Live(v) THEN "held" ELSE "plain"]
    /\ met' = (met \/ writing[v] # "no")
    /\ UNCHANGED <<ratingVars, members, advice, signal, appeal>>

\* The trigger asks for the membership again; a held one raises a signal.
Recommend(u) ==
    /\ writing[u] # "no"
    /\ writing' = [writing EXCEPT ![u] = "no"]
    /\ \/ /\ u \in members
          /\ advice' = [advice EXCEPT ![u] =
                IF writing[u] = "held" THEN "HELD_FOR_REVIEW" ELSE "PENDING_MODERATION"]
          /\ signal' = [signal EXCEPT ![u] = IF writing[u] = "held" THEN "OPEN" ELSE @]
       \/ UNCHANGED <<advice, signal>>
    /\ UNCHANGED <<ratingVars, members, appeal, met>>

Decisions(state) ==
    CASE state \in {"PENDING_MODERATION", "HELD_FOR_REVIEW"} -> {"PUBLISHED", "REJECTED"}
      [] state = "PUBLISHED" -> {"REMOVED"}
      [] OTHER -> {}

ModerateRecommendation(u, decision) ==
    /\ decision \in Decisions(advice[u])
    /\ advice' = [advice EXCEPT ![u] = decision]
    /\ UNCHANGED <<ratingVars, members, writing, signal, appeal, met>>

\* The recommended provider appeals; a signal has one appeal.
AppealSignal(u) ==
    /\ signal[u] = "OPEN" /\ appeal[u] = "none"
    /\ appeal' = [appeal EXCEPT ![u] = "PENDING"]
    /\ UNCHANGED <<ratingVars, members, writing, advice, signal, met>>

ResolveAppeal(u, decision) ==
    /\ appeal[u] = "PENDING"
    /\ appeal' = [appeal EXCEPT ![u] = decision]
    /\ signal' = [signal EXCEPT ![u] = IF decision = "OVERTURNED" THEN "DISMISSED" ELSE @]
    /\ UNCHANGED <<ratingVars, members, writing, advice, met>>

-----------------------------------------------------------------------------
Next ==
    \/ \E c \in Callers :
          \/ \E t \in Tasks, s \in Sides, n \in Stars, commented \in BOOLEAN :
                SubmitRating(c, t, s, n, commented)
          \/ \E k \in Reviews, t \in Tasks, n \in Stars : RecordPosterRating(c, k, t, n)
          \/ LockAndLook(c) \/ InsertRating(c) \/ Replay(c) \/ WriteEvidence(c) \/ Fail(c)
          \/ ProcessAutoRatings(c)
          \/ \E t \in Tasks : ProcessTaskAutoRating(c, t)
    \/ \E t \in Tasks : \/ WeekPasses(t)
                        \/ \E s \in Sides, shown \in BOOLEAN : Moderate(t, s, shown)
    \/ \E s \in Sides : EraseAccount(s)
    \/ \E u \in Neighbours :
          \/ VerifyMembership(u) \/ MembershipExpires(u) \/ Recommend(u) \/ AppealSignal(u)
          \/ \E v \in Neighbours : LookForReturn(u, v)
          \/ \E decision \in {"PUBLISHED", "REJECTED", "REMOVED"} : ModerateRecommendation(u, decision)
          \/ \E decision \in {"UPHELD", "OVERTURNED"} : ResolveAppeal(u, decision)

Spec == Init /\ [][Next]_vars

-----------------------------------------------------------------------------
\* What a task shows (getTaskRatings), and what a profile shows (getRatingsForUser).
ShownOfTask(t) == {s \in Sides : Rated(t, s) /\ rating[t][s].public /\ ~rating[t][s].blind}
ShownOnProfiles(t) == {s \in Sides : Rated(t, s) /\ rating[t][s].public}

\* Where nobody moderates or erases, the ratings of a task appear together: none
\* before both are there, and both as soon as they are, however submissions and
\* the weekly run overlap or fail.
RevealedTogether ==
    ~Moderated /\ ~Erasing =>
        \A t \in Tasks :
            LET shown == IF Count(t) = 2 THEN Sides ELSE {}
            IN  ShownOfTask(t) = shown /\ ShownOnProfiles(t) = shown

\* A piece of evidence names a rating that its poster was recorded to have given.
EvidenceIsTrue ==
    \A k \in Reviews : evidence[k] # None =>
        LET r == rating[evidence[k].task]["poster"]
        IN  r.by = "person" /\ r.stars = evidence[k].stars

\* Two live recommendations of each other of which none was held crossed.
MutualNeedsARace ==
    \A u, v \in Neighbours : u # v /\ Live(u) /\ Live(v) =>
        signal[u] # "none" \/ signal[v] # "none" \/ met

\* A rating once given stays: nobody's five stars replace what a person wrote.
RatingsStay ==
    \A t \in Tasks, s \in Sides : Rated(t, s) =>
        rating'[t][s].by = rating[t][s].by /\ rating'[t][s].stars = rating[t][s].stars

\* Of blind ratings (rating.ts: "blind until both parties rate"): a moderator's
\* approval puts one on the profile, and averages count it from the start.
BlindStaysHidden == \A t \in Tasks : Count(t) = 1 => ShownOnProfiles(t) = {}

\* Of the erasure: nothing an erased person has said is shown.
ErasedStaysHidden == erased # {} => \A t \in Tasks : ShownOfTask(t) = {}
===============================================================================
