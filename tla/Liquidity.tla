-------------------------------- MODULE Liquidity --------------------------------
(***************************************************************************)
(* Where work may be dispatched. A cell is a category of work in a zone    *)
(* and window; an administrator has it evaluated from its own tasks, and   *)
(* the database lets a task be accepted only in a cell that is open. A     *)
(* steady cell may be extended to a neighbour. Tasks of certification are  *)
(* kept to cells of their own, with offers a worker has reviewed.          *)
(***************************************************************************)
EXTENDS Integers, FiniteSets, Functions

CONSTANTS
    Cells,       \* keys of cells: [zone, category, window]
    FirstCells,  \* those launched at the start, in production
    MeasuresOf,  \* what the tasks of a cell may measure to, in percent and dollars
    Floors,      \* hourly floors that may be approved
    Tasks, TestTasks,   \* tasks by name; those of certification
    CategoryOf, HomeOf, \* the category of a task; the cell a test task's place gives
    MarginOf,    \* the margin of a test task
    Workers,     \* the workers of the test tasks
    Requests,    \* requests to expand: [key, from, to, override]
    MaxEdits     \* bound on what administrators and posters change by hand

\* Requests are told apart by their key, once they are trimmed and put in lower case.
Keys == {r.key : r \in Requests}
LiquidityAssumption ==
    /\ FirstCells \subseteq Cells /\ TestTasks \subseteq Tasks /\ MaxEdits \in Nat
    /\ DOMAIN MeasuresOf = Cells /\ Floors \subseteq Nat \ {0}
    /\ DOMAIN CategoryOf = Tasks /\ DOMAIN MarginOf = TestTasks /\ HomeOf \in [TestTasks -> Cells \ FirstCells]
    /\ Requests \subseteq [key : Keys, from : Cells, to : Cells,
                           override : {"none", "valid", "overlong"}]

\* Fifteen minutes, for which a decision is fresh, are the unit. An offer lives for two of
\* them; the fourteen stable days are three, which keeps their order.
FreshFor == 1
OfferFor == 2
StableFor == 3
Old == FreshFor + 1
NoCell == [zone |-> "unmapped", category |-> "", window |-> ""]
NoOffer == [terms |-> -1, age |-> OfferFor, proof |-> Old]
NoMeasure == [completed |-> 0, paid |-> 0, fill |-> 0, providers |-> 0, anchors |-> 0, contribution |-> 0,
              sample |-> 0, hourly |-> 0, dispute |-> 0, noShow |-> 0, cancelled |-> 0, repeat |-> 0]

VARIABLES
    cell,      \* zone_category_cells
    measured,  \* the measures of the last evaluation
    greensThen, \* green categories of the zone at that evaluation
    task,      \* tasks: state, cell, and whether the acceptance has not committed
    greensSeen, overlapped, \* what an acceptance counted; whether it overlapped with one in its cell
    request,   \* liquidity_expansion_requests by key
    witness, viewed, agreed, \* test tasks: ages of a witness; the last offer viewed and accepted
    terms, rewritten, \* the terms of a test task; whose witness another preparation has outdated
    edits

cellVars == <<cell, measured, greensThen>>
taskVars == <<task, greensSeen, overlapped>>
testVars == <<witness, viewed, agreed, terms, rewritten>>
vars == <<cellVars, taskVars, request, testVars, edits>>

States == {"CLOSED", "SEEDING", "LIMITED", "OPEN", "DENSE", "THROTTLED", "SUSPENDED"}
NewCell(kind, enabled, floor, state) ==
    [kind |-> kind, enabled |-> enabled, floor |-> floor, suspended |-> FALSE, state |-> state,
     dispatch |-> FALSE, eligible |-> FALSE, limit |-> 0, age |-> Old, stable |-> 0]

TypeOK ==
    /\ cell \in [Cells -> [kind : {"none", "production", "test"}, enabled : BOOLEAN, floor : Floors \cup {0, 20},
                           suspended : BOOLEAN, state : States, dispatch : BOOLEAN, eligible : BOOLEAN,
                           limit : {0, 1, 5, 10}, age : 0..Old, stable : 0..StableFor]]
    /\ measured \in [Cells -> UNION Range(MeasuresOf) \cup {NoMeasure} \cup {[NoMeasure EXCEPT !.contribution = m] : m \in 0..99}]
    /\ greensThen \in [Cells -> 0..Cardinality(Cells)]
    /\ task \in [Tasks -> [state : {"OPEN", "ACCEPTING", "ACCEPTED", "ENDED"}, cell : Cells \cup {NoCell}]]
    /\ greensSeen \in [Tasks -> 0..Cardinality(Cells)] /\ overlapped \subseteq Tasks
    /\ request \in [Keys -> {"none", "APPROVED", "DENIED", "OVERRIDE_PREPARED"}]
    /\ witness \in [TestTasks \X Workers -> 0..Old]
    /\ viewed \in [TestTasks \X Workers -> [terms : -1..MaxEdits, age : 0..OfferFor, proof : 0..Old]]
    /\ agreed \in [TestTasks \X Workers -> [terms : -1..MaxEdits, age : 0..OfferFor, proof : 0..Old]]
    /\ terms \in [TestTasks -> 0..MaxEdits] /\ rewritten \subseteq TestTasks \X Workers /\ edits \in 0..MaxEdits

Init ==
    /\ cell \in {[c \in Cells |-> IF c \in FirstCells THEN NewCell("production", TRUE, f, "SEEDING")
                                  ELSE NewCell("none", FALSE, 0, "CLOSED")] : f \in Floors}
    /\ measured = [c \in Cells |-> NoMeasure] /\ greensThen = [c \in Cells |-> 0]
    /\ task = [t \in Tasks |-> [state |-> "OPEN", cell |-> NoCell]]
    /\ greensSeen = [t \in Tasks |-> 0] /\ overlapped = {}
    /\ request = [k \in Keys |-> "none"]
    /\ witness = [tw \in TestTasks \X Workers |-> Old]
    /\ viewed = [tw \in TestTasks \X Workers |-> NoOffer] /\ agreed = viewed
    /\ terms = [t \in TestTasks |-> 0] /\ rewritten = {} /\ edits = 0
-----------------------------------------------------------------------------
(***************************************************************************)
(* The policy. A cell is launched, then covered, then kept back by what    *)
(* goes wrong in it, and otherwise as open as its numbers allow.           *)
(***************************************************************************)
Production(c) == cell[c].kind = "production"
GreenCategories(zone) ==
    Cardinality({c.category : c \in {d \in Cells : Production(d) /\ cell[d].enabled /\ d.zone = zone}})
LaunchBlocked(c) ==
    \/ ~cell[c].enabled
    \/ GreenCategories(c.zone) \notin 2..3
    \/ cell[c].floor = 0
Uncovered(m) == m.providers = 0 \/ m.anchors = 0
Seeded(m) == m.providers < 2 \/ m.anchors < 2
Underpaid(m, floor) == m.paid >= 30 /\ (m.sample < 30 \/ m.hourly < floor)
PerformanceBlocked(m, floor) ==
    \/ m.contribution <= 0 \/ Underpaid(m, floor)
    \/ m.dispute > 8 \/ m.noShow > 8 \/ m.cancelled > 15

Dense(m) == m.paid >= 100 /\ m.fill >= 92 /\ m.providers >= 5
Open(m) == m.paid >= 30 /\ m.fill >= 85 /\ m.providers >= 5
Limited(m) == m.completed >= 10 /\ m.fill >= 70
ThresholdState(m) ==
    CASE Dense(m) -> "DENSE"
      [] ~Dense(m) /\ Open(m) -> "OPEN"
      [] ~Dense(m) /\ ~Open(m) /\ Limited(m) -> "LIMITED"
      [] OTHER -> "SEEDING"

BaseState(c, m) ==
    IF cell[c].suspended THEN "SUSPENDED"
    ELSE IF LaunchBlocked(c) \/ Uncovered(m) THEN "CLOSED"
    ELSE IF Seeded(m) THEN "SEEDING"
    ELSE IF PerformanceBlocked(m, cell[c].floor) THEN "THROTTLED"
    ELSE ThresholdState(m)

\* What expansion asks of the numbers, once in the policy and once more when it is requested.
Sound(m, floor) ==
    /\ m.fill >= 85 /\ m.contribution > 0 /\ m.sample >= 30 /\ m.hourly >= floor
    /\ m.dispute <= 5 /\ m.noShow <= 5 /\ m.providers >= 5 /\ m.repeat >= 20
\* The stability is that of the state before: a cell that has just opened counts it too.
CanExpand(c, m, state) ==
    state \in {"OPEN", "DENSE"} /\ cell[c].stable = StableFor /\ cell[c].floor > 0 /\ Sound(m, cell[c].floor)

MaxConcurrent(state) ==
    CASE state = "LIMITED" -> 1 [] state = "OPEN" -> 5 [] state = "DENSE" -> 10 [] OTHER -> 0
DispatchAllowed(state, m) == state \in {"LIMITED", "OPEN", "DENSE"} /\ m.contribution > 0

\* A row that an acceptance holds for share cannot be locked for update.
Shared(c) == \E t \in Tasks : task[t].state = "ACCEPTING" /\ task[t].cell = c

\* Counts and averages of the tasks of the zone and category, whatever their window; where
\* a contribution or an hourly wage is missing for one task, the average is 0.
WriteMeasures(c, m) == measured' = [measured EXCEPT ![c] = m]

RecalculateCell(c, m) ==
    /\ Production(c) /\ ~Shared(c)
    /\ LET state == BaseState(c, m)
       IN cell' = [cell EXCEPT ![c] = [@ EXCEPT
              !.state = state, !.dispatch = DispatchAllowed(state, m), !.eligible = CanExpand(c, m, state),
              !.limit = MaxConcurrent(state), !.age = 0, !.stable = IF state = cell[c].state THEN cell[c].stable ELSE 0]]
    /\ WriteMeasures(c, m)
    /\ greensThen' = [greensThen EXCEPT ![c] = GreenCategories(c.zone)]
    /\ UNCHANGED <<taskVars, request, testVars, edits>>

\* The columns nothing in the program writes are set by hand, as far as the constraints allow.
SetFloor(c, floor) ==
    /\ edits < MaxEdits /\ Production(c) /\ ~Shared(c) /\ cell[c].floor # floor
    /\ cell[c].dispatch => (floor > 0 /\ ~Underpaid(measured[c], floor))
    /\ cell[c].eligible => (floor > 0 /\ measured[c].sample >= 30 /\ measured[c].hourly >= floor)
    /\ cell' = [cell EXCEPT ![c].floor = floor] /\ edits' = edits + 1
    /\ UNCHANGED <<measured, greensThen, taskVars, request, testVars>>

Suspend(c) ==
    /\ edits < MaxEdits /\ Production(c) /\ ~Shared(c) /\ ~cell[c].suspended
    /\ cell' = [cell EXCEPT ![c].suspended = TRUE] /\ edits' = edits + 1
    /\ UNCHANGED <<measured, greensThen, taskVars, request, testVars>>
-----------------------------------------------------------------------------
(***************************************************************************)
(* Expansion. A request is kept by actor and key; the cell it asks for     *)
(* must not exist under any kind, though only production cells are looked  *)
(* for: a test cell of that key makes the whole transaction fail.          *)
(***************************************************************************)
Differences(a, b) == {a.zone # b.zone, a.category # b.category} = BOOLEAN
Steady(c) ==
    /\ cell[c].state \in {"OPEN", "DENSE"} /\ cell[c].eligible /\ cell[c].age <= FreshFor
    /\ cell[c].stable = StableFor /\ cell[c].floor > 0 /\ Sound(measured[c], cell[c].floor)
Adjacent(r) == Differences(r.from, r.to) /\ ~Production(r.to)
Overridden(r) == r.override = "valid"
Decision(r) ==
    CASE Adjacent(r) /\ Steady(r.from) -> "APPROVED"
      [] Adjacent(r) /\ ~Steady(r.from) /\ Overridden(r) -> "OVERRIDE_PREPARED"
      [] OTHER -> "DENIED"

RequestAdjacentExpansion(r) ==
    /\ request[r.key] = "none" /\ Production(r.from) /\ ~Shared(r.from)
    /\ Decision(r) # "DENIED" => cell[r.to].kind = "none"
    /\ request' = [request EXCEPT ![r.key] = Decision(r)]
    /\ cell' = [cell EXCEPT ![r.to] =
           CASE Decision(r) = "APPROVED" -> NewCell("production", TRUE, 0, "SEEDING")
             [] Decision(r) = "OVERRIDE_PREPARED" -> NewCell("production", FALSE, 0, "CLOSED")
             [] OTHER -> @]
    /\ UNCHANGED <<measured, greensThen, taskVars, testVars, edits>>
-----------------------------------------------------------------------------
(***************************************************************************)
(* Work. A task is bound to a cell of its category and of its own kind.    *)
(* Its acceptance reads the cell under a lock that it shares with other    *)
(* acceptances, counts, and commits.                                       *)
(***************************************************************************)
BindTaskToCell(t, c) ==
    /\ task[t].state = "OPEN" /\ t \notin TestTasks /\ Production(c) /\ CategoryOf[t] = c.category
    /\ task[t].cell # c
    /\ task' = [task EXCEPT ![t].cell = c]
    /\ UNCHANGED <<cellVars, greensSeen, overlapped, request, testVars, edits>>

Active(c) == Cardinality({t \in Tasks : task[t].cell = c /\ task[t].state = "ACCEPTED"})
LaunchedFor(c) ==
    /\ cell[c].floor > 0 /\ ~Underpaid(measured[c], cell[c].floor)
    /\ GreenCategories(c.zone) \in 2..3
Dispatchable(c) ==
    /\ cell[c].dispatch /\ cell[c].state \in {"LIMITED", "OPEN", "DENSE"}
    /\ cell[c].age <= FreshFor /\ measured[c].contribution > 0

WitnessCurrent(t, w) ==
    LET c == task[t].cell IN
    /\ witness[t, w] <= FreshFor /\ cell[c].kind = "test" /\ cell[c].age <= FreshFor
    /\ measured[c].contribution = MarginOf[t]
OfferCurrent(t, offer) == offer.age < OfferFor /\ offer.terms = terms[t]

\* A reservation wants an accepted offer, the trigger that the last one is on the terms.
MayReserve(t, w) ==
    /\ WitnessCurrent(t, w) /\ OfferCurrent(t, agreed[t, w]) /\ agreed[t, w].proof <= FreshFor
    /\ OfferCurrent(t, viewed[t, w])

AcceptTask(t) ==
    LET c == task[t].cell IN
    /\ task[t].state = "OPEN" /\ c \in Cells
    /\ IF t \in TestTasks THEN cell[c].kind = "test" /\ \E w \in Workers : MayReserve(t, w)
       ELSE Production(c) /\ LaunchedFor(c)
    /\ Dispatchable(c) /\ Active(c) < cell[c].limit
    /\ task' = [task EXCEPT ![t].state = "ACCEPTING"]
    /\ greensSeen' = [greensSeen EXCEPT ![t] = GreenCategories(c.zone)]
    /\ overlapped' = IF Shared(c) THEN overlapped \cup {t} \cup {u \in Tasks : task[u].state = "ACCEPTING" /\ task[u].cell = c}
                     ELSE overlapped
    /\ UNCHANGED <<cellVars, request, testVars, edits>>

CommitAcceptance(t) ==
    /\ task[t].state = "ACCEPTING" /\ task' = [task EXCEPT ![t].state = "ACCEPTED"]
    /\ UNCHANGED <<cellVars, greensSeen, overlapped, request, testVars, edits>>

EndWork(t) ==
    /\ task[t].state = "ACCEPTED" /\ task' = [task EXCEPT ![t].state = "ENDED"]
    /\ UNCHANGED <<cellVars, greensSeen, overlapped, request, testVars, edits>>
-----------------------------------------------------------------------------
(***************************************************************************)
(* Work of certification. Preparing a task for a worker writes the cell of *)
(* its place anew and a witness; the worker reviews an offer on the        *)
(* strength of the witness and then accepts it. Whether the worker is fit  *)
(* for such work is left to Credentials and TestProviders.                 *)
(***************************************************************************)
TestCell(c) ==
    [NewCell("test", FALSE, 20, "LIMITED") EXCEPT !.dispatch = TRUE, !.limit = 1, !.age = 0]

Preparable(t) == task[t].state = "OPEN"
NewWitness(t, w) == witness' = [witness EXCEPT ![t, w] = 0]
PrepareAndBind(t, w) ==
    LET c == HomeOf[t] IN
    /\ Preparable(t) /\ ~Shared(c) /\ ~Production(c)
    /\ cell' = [cell EXCEPT ![c] = TestCell(c)]
    /\ measured' = [measured EXCEPT ![c] = [NoMeasure EXCEPT !.contribution = MarginOf[t]]]
    /\ task' = [task EXCEPT ![t].cell = c]
    /\ NewWitness(t, w)
    /\ rewritten' = {tw \in rewritten : tw # <<t, w>>} \cup
           {tw \in TestTasks \X Workers : HomeOf[tw[1]] = c /\ MarginOf[tw[1]] # MarginOf[t]}
    /\ UNCHANGED <<greensThen, greensSeen, overlapped, request, viewed, agreed, terms, edits>>

ReviewReady(t, w) == task[t].state = "OPEN" /\ WitnessCurrent(t, w)
Offer(t, w) == [terms |-> terms[t], age |-> 0, proof |-> witness[t, w]]
Review(t, w) ==
    /\ ReviewReady(t, w)
    /\ viewed' = [viewed EXCEPT ![t, w] = Offer(t, w)]
    /\ UNCHANGED <<cellVars, taskVars, request, witness, agreed, terms, rewritten, edits>>

Accept(t, w) ==
    /\ task[t].state = "OPEN" /\ WitnessCurrent(t, w)
    /\ OfferCurrent(t, viewed[t, w]) /\ viewed[t, w].proof <= FreshFor
    /\ agreed' = [agreed EXCEPT ![t, w] = viewed[t, w]]
    /\ UNCHANGED <<cellVars, taskVars, request, witness, viewed, terms, rewritten, edits>>

\* The poster changes what the offer was made on.
EditTerms(t) ==
    /\ task[t].state = "OPEN" /\ edits < MaxEdits
    /\ terms' = [terms EXCEPT ![t] = @ + 1] /\ edits' = edits + 1
    /\ UNCHANGED <<cellVars, taskVars, request, witness, viewed, agreed, rewritten>>

More(n, most) == IF n < most THEN n + 1 ELSE n
Aged(offer) == [offer EXCEPT !.age = More(@, OfferFor), !.proof = More(@, Old)]
\* Transactions are over within the unit.
TimePasses ==
    /\ \A t \in Tasks : task[t].state # "ACCEPTING"
    /\ cell' = [c \in Cells |-> [cell[c] EXCEPT !.age = More(@, Old),
                    !.stable = IF measured[c] = NoMeasure THEN @ ELSE More(@, StableFor)]]
    /\ witness' = [tw \in DOMAIN witness |-> More(witness[tw], Old)]
    /\ viewed' = [tw \in DOMAIN viewed |-> Aged(viewed[tw])]
    /\ agreed' = [tw \in DOMAIN agreed |-> Aged(agreed[tw])]
    /\ UNCHANGED <<measured, greensThen, taskVars, request, terms, rewritten, edits>>

Next ==
    \/ \E c \in Cells : (\E m \in MeasuresOf[c] : RecalculateCell(c, m)) \/ (\E f \in Floors \cup {0} : SetFloor(c, f)) \/ Suspend(c)
    \/ \E r \in Requests : RequestAdjacentExpansion(r)
    \/ \E t \in Tasks : AcceptTask(t) \/ CommitAcceptance(t) \/ EndWork(t) \/ \E c \in Cells : BindTaskToCell(t, c)
    \/ \E t \in TestTasks : EditTerms(t) \/ \E w \in Workers : PrepareAndBind(t, w) \/ Review(t, w) \/ Accept(t, w)
    \/ TimePasses
Spec == Init /\ [][Next]_vars
-----------------------------------------------------------------------------
\* The public snapshot: a stale cell promises nothing unless it is suspended.
Stale(c) == cell[c].age > FreshFor
Shown(c) ==
    IF Stale(c) /\ cell[c].state # "SUSPENDED" THEN "LATER_WINDOWS"
    ELSE CASE cell[c].state \in {"OPEN", "DENSE"} -> "AVAILABLE"
           [] cell[c].state = "LIMITED" -> "LIMITED"
           [] cell[c].state \in {"SUSPENDED", "CLOSED"} -> "TEMPORARILY_UNAVAILABLE"
           [] OTHER -> "LATER_WINDOWS"

\* What customers are shown as available is what the database would accept, unless the cell is
\* full or its zone has got another category since: the policy and the trigger are two codes.
ShownIsAcceptable ==
    \A c \in Cells : (Production(c) /\ cell[c].enabled /\ Shown(c) \in {"AVAILABLE", "LIMITED"}) =>
        \/ Dispatchable(c) /\ LaunchedFor(c)
        \/ GreenCategories(c.zone) # greensThen[c]

\* More work than the limit allows, or work in a zone with too many categories, is accepted
\* only by an acceptance that overlapped with another, or with the expansion of the zone.
AcceptedWithinRules ==
    \A t \in Tasks : (task[t].state = "ACCEPTING" /\ task'[t].state = "ACCEPTED") =>
        LET c == task[t].cell IN
        /\ Active(c) < cell[c].limit \/ t \in overlapped
        /\ t \in TestTasks \/ GreenCategories(c.zone) \in 2..3 \/ greensSeen[t] # GreenCategories(c.zone)

\* Test work stays in test cells and other work out of them, and nothing turns one into the other.
KindsStayApart ==
    \A t \in Tasks : task[t].cell \in Cells =>
        cell[task[t].cell].kind = (IF t \in TestTasks THEN "test" ELSE "production")

\* An accepted test offer on a fresh witness fails to reserve the open task only because the
\* terms changed, or another task with another margin was prepared for the same cell.
LostForAReason ==
    \A t \in TestTasks, w \in Workers :
        (task[t].state = "OPEN" /\ agreed[t, w].terms >= 0 /\ agreed[t, w].proof <= FreshFor) =>
            MayReserve(t, w) \/ agreed[t, w].terms # terms[t] \/ <<t, w>> \in rewritten

\* A cell that an expansion made does not dispatch before an hourly floor is approved for it,
\* and one that an override prepared does not at all.
ExpandedIsShut ==
    \A c \in Cells \ FirstCells : (Production(c) /\ cell[c].dispatch) =>
        /\ cell[c].enabled /\ measured[c] # NoMeasure /\ cell[c].floor > 0
        /\ \E r \in Requests : r.to = c /\ request[r.key] = "APPROVED"
================================================================================
