-------------------------------- MODULE Offers --------------------------------
(***************************************************************************)
(* Who gets a task: offers shown to workers, their counters, and the three *)
(* ways to an assignment, which take their locks in different ways. A      *)
(* worker accepts (TaskAcceptService) or the poster assigns an applicant   *)
(* (TaskAssignmentProcedures), under the lock of the task; the engine      *)
(* reserves (TaskReservationService), under the locks of task and worker.  *)
(***************************************************************************)
EXTENDS Integers, FiniteSets

-----------------------------------------------------------------------------
(***************************************************************************)
(* WorkerCounterOfferPolicy.ts: the bounds within which a worker may ask   *)
(* for more than a task pays. Amounts are integer cents.                   *)
(***************************************************************************)
MarginFloorBps == 1000
MaximumPayoutIncreaseBps == 2000
MaximumCustomerIncreaseBps == 2500
MaximumAbsolutePayoutIncreaseCents == 5000
MinimumPayoutIncreaseCents == 100

\* Of a task that costs the customer total, pays payout, and leaves margin.
MinimumCounterPayout(payout) == payout + MinimumPayoutIncreaseCents
CustomerMaximum(total) == (total * (10000 + MaximumCustomerIncreaseBps)) \div 10000
MarginMaximum(margin) == (margin * (10000 - MarginFloorBps)) \div MarginFloorBps

\* No more than the least of the four maxima.
WithinMaximum(total, payout, margin, proposed) ==
    /\ proposed <= (payout * (10000 + MaximumPayoutIncreaseBps)) \div 10000
    /\ proposed <= payout + MaximumAbsolutePayoutIncreaseCents
    /\ proposed <= CustomerMaximum(total) - margin
    /\ proposed <= MarginMaximum(margin)

\* buildWorkerCounterCorridor, for the proposal: economics that add up, and room.
InCorridor(total, payout, margin, proposed) ==
    /\ total > 0 /\ payout > 0 /\ margin >= 0
    /\ payout + margin = total
    /\ margin * 10000 >= total * MarginFloorBps
    /\ proposed >= MinimumCounterPayout(payout)
    /\ WithinMaximum(total, payout, margin, proposed)

\* What evaluateWorkerCounter asks once more of the new total.
KeepsMargin(margin, proposed) == margin * 10000 >= (proposed + margin) * MarginFloorBps
KeepsCustomer(total, margin, proposed) == proposed + margin <= CustomerMaximum(total)

\* evaluateWorkerCounter: what it accepts.
Accepted(total, payout, margin, proposed) ==
    /\ InCorridor(total, payout, margin, proposed)
    /\ KeepsCustomer(total, margin, proposed)
    /\ KeepsMargin(margin, proposed)

-----------------------------------------------------------------------------
CONSTANTS
    Tasks, Workers,
    MaxActive,                 \* tasks a worker may have when accepting one
    MaxTerms,                  \* bound on versions of a task's terms
    Total, Payout, Margin,     \* of a task, in cents
    Proposals                  \* what workers ask for

OffersAssumption ==
    /\ IsFiniteSet(Tasks) /\ "none" \notin Workers
    /\ MaxActive \in Nat \ {0} /\ MaxTerms \in Nat \ {0}
    /\ {Total, Payout, Margin} \cup Proposals \subseteq Int

VARIABLES
    state, worker, \* of a task
    terms,         \* the version of price, scope and cancellation policy
    escrow,        \* of a task: "FUNDED" or "REFUNDED"
    fit,           \* workers the policies find eligible
    shown, live,   \* worker_offer_decisions; those that have not expired
    counter,       \* the last counter of a worker for a task
    lapsed,        \* counters past expires_at
    deciding,      \* the transaction that holds a task's row, with whom it assigns
    overlapped     \* workers for whom two of them were open at once

taskVars == <<state, worker, terms, escrow>>
offerVars == <<shown, live>>
counterVars == <<counter, lapsed>>
vars == <<taskVars, fit, offerVars, counterVars, deciding, overlapped>>

Pairs == Tasks \X Workers
NoCounter == [status |-> "none", terms |-> 0, payout |-> 0]
Free == [by |-> "nobody"]

TypeOK ==
    /\ state \in [Tasks -> {"open", "accepted", "done", "cancelled"}]
    /\ worker \in [Tasks -> Workers \cup {"none"}]
    /\ terms \in [Tasks -> 1..MaxTerms]
    /\ escrow \in [Tasks -> {"FUNDED", "REFUNDED"}]
    /\ fit \subseteq Workers
    /\ live \subseteq shown /\ shown \subseteq Tasks \X Workers \X (1..MaxTerms)
    /\ counter \in [Pairs -> [status : {"none", "PENDING_POSTER", "REJECTED", "APPROVED_REAUTH_REQUIRED",
                                        "MATERIALIZED"},
                              terms : 0..MaxTerms, payout : Proposals \cup {0}]]
    /\ lapsed \subseteq Pairs
    /\ deciding \in [Tasks -> {Free} \cup [by : {"accept", "reserve"}, who : Workers]]
    /\ overlapped \subseteq Workers

Init ==
    /\ state = [t \in Tasks |-> "open"] /\ worker = [t \in Tasks |-> "none"]
    /\ terms = [t \in Tasks |-> 1] /\ escrow = [t \in Tasks |-> "FUNDED"]
    /\ fit = Workers /\ shown = {} /\ live = {}
    /\ counter = [p \in Pairs |-> NoCounter] /\ lapsed = {}
    /\ deciding = [t \in Tasks |-> Free] /\ overlapped = {}

-----------------------------------------------------------------------------
Unlocked(t) == deciding[t] = Free
Reserving(w) == \E t \in Tasks : deciding[t] = [by |-> "reserve", who |-> w]
ActiveTasks(w) == {t \in Tasks : worker[t] = w /\ state[t] = "accepted"}
Active(w) == Cardinality(ActiveTasks(w))
Has(t, w) == counter[<<t, w>>].status \in {"APPROVED_REAUTH_REQUIRED", "MATERIALIZED"}
Authorized(t) == \E w \in Workers : Has(t, w)
Pending(t, w) == counter[<<t, w>>].status = "PENDING_POSTER"
Current(t, w) == <<t, w, terms[t]>> \in live

\* persistWorkerOfferDecision: ON CONFLICT of the same terms DO NOTHING.
ShowOffer(t, w) ==
    /\ state[t] = "open"
    /\ shown' = shown \cup {<<t, w, terms[t]>>}
    /\ live' = IF <<t, w, terms[t]>> \in shown THEN live ELSE live \cup {<<t, w, terms[t]>>}
    /\ UNCHANGED <<taskVars, fit, counterVars, deciding, overlapped>>

OfferExpires(o) ==
    /\ o \in live /\ live' = live \ {o}
    /\ UNCHANGED <<taskVars, fit, shown, counterVars, deciding, overlapped>>

\* Bans, holds, screenings, credentials. The engine holds the row of its worker.
FitnessChanges(w) ==
    /\ ~Reserving(w)
    /\ fit' = IF w \in fit THEN fit \ {w} ELSE fit \cup {w}
    /\ UNCHANGED <<taskVars, offerVars, counterVars, deciding, overlapped>>

ChangeTerms(t) ==
    /\ Unlocked(t) /\ state[t] = "open" /\ terms[t] < MaxTerms
    /\ terms' = [terms EXCEPT ![t] = @ + 1]
    /\ UNCHANGED <<state, worker, escrow, fit, offerVars, counterVars, deciding, overlapped>>

-----------------------------------------------------------------------------
\* assertTaskMutationEligibility, under the lock of the task. A pending counter of
\* the worker stands in the way for good once it has expired: nothing ends it.
Eligible(t, w) ==
    /\ state[t] = "open" /\ worker[t] = "none" /\ escrow[t] = "FUNDED"
    /\ w \in fit /\ Current(t, w) /\ Active(w) < MaxActive
    /\ ~Pending(t, w)
    /\ \A v \in Workers : counter[<<t, v>>].status # "APPROVED_REAUTH_REQUIRED"

\* loadTaskForReservation, loadWorkerForReservation and the policies after them:
\* counters are not looked at.
Available(t, w) == state[t] = "open" /\ worker[t] = "none" /\ escrow[t] = "FUNDED" /\ Current(t, w)
Fit(w) == w \in fit
Reservable(t, w) == Available(t, w) /\ Fit(w) /\ Active(w) = 0

Begin(t, w, by) ==
    /\ deciding' = [deciding EXCEPT ![t] = [by |-> by, who |-> w]]
    /\ overlapped' = IF \E s \in Tasks : deciding[s] # Free /\ deciding[s].who = w
                     THEN overlapped \cup {w} ELSE overlapped
    /\ UNCHANGED <<taskVars, fit, offerVars, counterVars>>

BeginAccept(t, w) == Unlocked(t) /\ Eligible(t, w) /\ Begin(t, w, "accept")

BeginReserve(t, w) == Unlocked(t) /\ ~Reserving(w) /\ Reservable(t, w) /\ Begin(t, w, "reserve")

\* assignTask, commitAssignment, commitReservation.
Commit(t) ==
    /\ ~Unlocked(t)
    /\ state' = [state EXCEPT ![t] = "accepted"]
    /\ worker' = [worker EXCEPT ![t] = deciding[t].who]
    /\ deciding' = [deciding EXCEPT ![t] = Free]
    /\ UNCHANGED <<terms, escrow, fit, offerVars, counterVars, overlapped>>

RollBack(t) ==
    /\ ~Unlocked(t)
    /\ deciding' = [deciding EXCEPT ![t] = Free]
    /\ UNCHANGED <<taskVars, fit, offerVars, counterVars, overlapped>>

-----------------------------------------------------------------------------
\* submit. A rejected counter may be followed by another one.
SubmitCounter(t, w, p) ==
    /\ Unlocked(t) /\ state[t] = "open" /\ escrow[t] = "FUNDED"
    /\ ~Authorized(t) /\ ~Pending(t, w) /\ Current(t, w)
    /\ Accepted(Total, Payout, Margin, p)
    /\ counter' = [counter EXCEPT ![<<t, w>>] =
           [status |-> "PENDING_POSTER", terms |-> terms[t], payout |-> p]]
    /\ lapsed' = lapsed \ {<<t, w>>}
    /\ UNCHANGED <<taskVars, fit, offerVars, deciding, overlapped>>

CounterExpires(t, w) ==
    /\ Pending(t, w) /\ lapsed' = lapsed \cup {<<t, w>>}
    /\ UNCHANGED <<taskVars, fit, offerVars, counter, deciding, overlapped>>

\* review: of the terms that were countered, and one approval for a task.
Reviewable(t, w) ==
    /\ Unlocked(t) /\ state[t] = "open"
    /\ Pending(t, w) /\ <<t, w>> \notin lapsed /\ counter[<<t, w>>].terms = terms[t]

Approve(t, w) ==
    /\ Reviewable(t, w) /\ ~Authorized(t)
    /\ counter' = [counter EXCEPT ![<<t, w>>].status = "APPROVED_REAUTH_REQUIRED"]
    /\ UNCHANGED <<taskVars, fit, offerVars, lapsed, deciding, overlapped>>

Reject(t, w) ==
    /\ Reviewable(t, w)
    /\ counter' = [counter EXCEPT ![<<t, w>>].status = "REJECTED"]
    /\ UNCHANGED <<taskVars, fit, offerVars, lapsed, deciding, overlapped>>

\* The trigger on tasks that replace another.
Replaceable(t) == state[t] = "cancelled" /\ escrow[t] = "REFUNDED"

\* materialize: the replacement is a task of its own, unpaid, for this worker.
Materialize(t, w) ==
    /\ counter[<<t, w>>].status = "APPROVED_REAUTH_REQUIRED"
    /\ Replaceable(t)
    /\ counter' = [counter EXCEPT ![<<t, w>>].status = "MATERIALIZED"]
    /\ UNCHANGED <<taskVars, fit, offerVars, lapsed, deciding, overlapped>>

-----------------------------------------------------------------------------
Cancel(t) ==
    /\ Unlocked(t) /\ state[t] \in {"open", "accepted"}
    /\ state' = [state EXCEPT ![t] = "cancelled"]
    /\ UNCHANGED <<worker, terms, escrow, fit, offerVars, counterVars, deciding, overlapped>>

Refund(t) ==
    /\ state[t] = "cancelled" /\ escrow' = [escrow EXCEPT ![t] = "REFUNDED"]
    /\ UNCHANGED <<state, worker, terms, fit, offerVars, counterVars, deciding, overlapped>>

Complete(t) ==
    /\ state[t] = "accepted" /\ state' = [state EXCEPT ![t] = "done"]
    /\ UNCHANGED <<worker, terms, escrow, fit, offerVars, counterVars, deciding, overlapped>>

Next ==
    \/ \E t \in Tasks, w \in Workers :
          \/ ShowOffer(t, w) \/ BeginAccept(t, w) \/ BeginReserve(t, w)
          \/ \E p \in Proposals : SubmitCounter(t, w, p)
          \/ CounterExpires(t, w) \/ Approve(t, w) \/ Reject(t, w) \/ Materialize(t, w)
    \/ \E o \in live : OfferExpires(o)
    \/ \E w \in Workers : FitnessChanges(w)
    \/ \E t \in Tasks : ChangeTerms(t) \/ Commit(t) \/ RollBack(t) \/ Cancel(t) \/ Refund(t) \/ Complete(t)

Spec == Init /\ [][Next]_vars

-----------------------------------------------------------------------------
(***************************************************************************)
(* AssignedOnShownTerms: whichever way a worker came to a task, its terms  *)
(* are those of an offer the worker was shown, though the poster may       *)
(* change them while the assignment is decided.                            *)
(***************************************************************************)
AssignedOnShownTerms == \A t \in Tasks : worker[t] # "none" => <<t, worker[t], terms[t]>> \in shown

(***************************************************************************)
(* OneReplacement: of the counters to a task at most one is ever approved, *)
(* and what replaces the task does so when its money is back.              *)
(***************************************************************************)
OneReplacement ==
    \A t \in Tasks :
        /\ \A v, w \in Workers : Has(t, v) /\ Has(t, w) => v = w
        /\ (\E w \in Workers : counter[<<t, w>>].status = "MATERIALIZED")
              => state[t] = "cancelled" /\ escrow[t] = "REFUNDED"

(***************************************************************************)
(* OverloadNeedsARace: a worker has more than MaxActive tasks only after   *)
(* two assignments of that worker were open at once.                       *)
(***************************************************************************)
OverloadNeedsARace == \A w \in Workers : Active(w) > MaxActive => w \in overlapped

(***************************************************************************)
(* ReservedIsFit: between the engine's checks and its commit nothing about *)
(* the worker changes.                                                     *)
(***************************************************************************)
ReservedIsFit == \A w \in Workers : Reserving(w) => w \in fit

(***************************************************************************)
(* A claim the code does not keep. AuthorizedIsUnassigned: a task whose    *)
(* replacement the poster has approved goes to nobody; the engine does not *)
(* look at counters.                                                       *)
(***************************************************************************)
AuthorizedIsUnassigned ==
    \A t \in Tasks, w \in Workers : counter[<<t, w>>].status = "APPROVED_REAUTH_REQUIRED" => state[t] # "accepted"

-----------------------------------------------------------------------------
(***************************************************************************)
(* The invariant behind the four properties.  A task whose assignment is   *)
(* decided is open, on terms its worker was shown, and locked, so neither  *)
(* its terms nor its state change.  A worker with no overlap is decided    *)
(* about at one task at most, below the limit.                             *)
(***************************************************************************)
RowSound(t) ==
    /\ worker[t] # "none" => state[t] # "open" /\ <<t, worker[t], terms[t]>> \in shown
    /\ deciding[t] # Free => state[t] = "open" /\ <<t, deciding[t].who, terms[t]>> \in shown

ReplacedSound(t) ==
    /\ \A v, w \in Workers : Has(t, v) /\ Has(t, w) => v = w
    /\ \A w \in Workers : counter[<<t, w>>].status = "MATERIALIZED" =>
                              state[t] = "cancelled" /\ escrow[t] = "REFUNDED"

Decided(t, w) == deciding[t] # Free /\ deciding[t].who = w
Loaded(w) ==
    /\ Reserving(w) => w \in fit
    /\ w \notin overlapped =>
           /\ Active(w) <= MaxActive
           /\ \A t \in Tasks : Decided(t, w) => Active(w) < MaxActive
           /\ \A s, t \in Tasks : Decided(s, w) /\ Decided(t, w) => s = t

OffersInv ==
    /\ TypeOK
    /\ \A t \in Tasks : RowSound(t) /\ ReplacedSound(t)
    /\ \A w \in Workers : Loaded(w)

Deciding == {Free} \cup [by : {"accept", "reserve"}, who : Workers]
=============================================================================
