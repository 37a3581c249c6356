---------------------------- MODULE ExpertiseSupply ----------------------------
(***************************************************************************)
(* Supply control: workers take at most two kinds of work, each with a     *)
(* weight, and every cell (a kind of work in a zone) records the weight it *)
(* carries. Requests change that record inside serializable transactions;  *)
(* the daily recalculation reads, adds up and overwrites it in statements  *)
(* of their own.                                                           *)
(* Weights are in twentieths: 0.7 is 14, 0.3 is 6.                         *)
(***************************************************************************)
EXTENDS Integers, FiniteSets, FiniteSetsExt, SequencesExt

CONSTANTS
    Users, Skills, Zones,
    Asked,        \* the slots that requests ask for
    MaxWeight,    \* max_weight_capacity
    AdminMaxes,   \* what an administrator may set it to
    Runs,         \* concurrent calls of recalculateAllCapacity
    MaxRecalcs,   \* bound on the recalculations
    MaxAdmitted,  \* bound on the admissions
    Ages,         \* does time pass: fortnights, and the ends of invitations and expansions
    Promotes      \* may a worker swap the two kinds of work

Primary == 14
Secondary == 6
Slots == {Primary, Secondary}

ExpertiseAssumption ==
    /\ Asked \subseteq Slots
    /\ MaxWeight \in Nat /\ AdminMaxes \subseteq Nat
    /\ MaxRecalcs \in Nat /\ MaxAdmitted \in Nat /\ {Ages, Promotes} \subseteq BOOLEAN

Cells == Skills \X Zones

VARIABLES
    cap,      \* expertise_capacity
    entry,    \* user_expertise: one row for a user and a skill
    wait,     \* expertise_waitlist: one row for a user and a cell
    rec,      \* what each recalculation is doing
    admitted, recalcs,
    raced     \* history: cells whose record a known race or gap has skewed

vars == <<cap, entry, wait, rec, admitted, recalcs, raced>>

NoEntry == [status |-> "none"]
NoWait == [status |-> "none", pos |-> 0, weight |-> 0, lapsed |-> FALSE]
Idle == [pc |-> "idle"]

Active(u, s) == entry[u, s].status = "active"
ActiveOf(u) == {s \in Skills : Active(u, s)}
Here(c) == {u \in Users : Active(u, c[1]) /\ entry[u, c[1]].zone = c[2]}
Sum(c) == MapThenSumSet(LAMBDA u : entry[u, c[1]].effective, Here(c))
Expanded(max, expand) == IF expand THEN max + max \div 10 ELSE max
EffectiveMax(c) == Expanded(cap[c].max, cap[c].expand)
Less(a, b) == Max({0, a - b})

TypeOK ==
    /\ cap \in [Cells -> [max : {MaxWeight} \cup AdminMaxes, weight : Nat, hustlers : Nat,
                          liquid : BOOLEAN, expand : BOOLEAN]]
    /\ \A u \in Users, s \in Skills : entry[u, s] = NoEntry
         \/ entry[u, s] \in [status : {"active", "inactive"}, zone : Zones, slot : Slots,
                             effective : {0} \cup Slots \cup {w \div 2 : w \in Slots}, held : BOOLEAN,
                             seen : {"new", "never", "recent", "late", "gone"}]
    /\ wait \in [Users \X Cells -> [status : {"none", "waiting", "invited", "accepted", "expired", "cancelled"},
                                    pos : Nat, weight : Slots \cup {0}, lapsed : BOOLEAN]]
    /\ raced \subseteq Cells
    /\ admitted \in 0..MaxAdmitted /\ recalcs \in 0..MaxRecalcs
    /\ \A r \in Runs : rec[r].pc \in {"idle", "decay", "sum", "write", "invite", "expire"}

Init ==
    /\ cap = [c \in Cells |-> [max |-> MaxWeight, weight |-> 0, hustlers |-> 0, liquid |-> FALSE, expand |-> FALSE]]
    /\ entry = [k \in Users \X Skills |-> NoEntry]
    /\ wait = [k \in Users \X Cells |-> NoWait]
    /\ rec = [r \in Runs |-> Idle]
    /\ admitted = 0 /\ recalcs = 0 /\ raced = {}

\* A recalculation has added up cell c and not yet written the sum.
Summed(r, c) == rec[r].pc = "write" /\ rec[r].cell = c
BetweenSumAndWrite(c) == \E r \in Runs : Summed(r, c)
\* A recalculation has decayed the workers of c and not yet written the sum.
Unwritten(c) == \E r \in Runs : rec[r].pc \in {"sum", "write"} /\ rec[r].cell = c
Race(cs) == raced' = raced \cup {c \in cs : BetweenSumAndWrite(c)}

-----------------------------------------------------------------------------
\* Requests. Each is one serializable transaction.

NewEntry(z, w) ==
    [status |-> "active", zone |-> z, slot |-> w, effective |-> w, held |-> TRUE, seen |-> "new"]

Admits(c, w) ==
    /\ cap[c].weight + w <= EffectiveMax(c)
    /\ cap[c].hustlers = 0 \/ cap[c].liquid

\* The waitlist row of k: an earlier row is kept as it is, whatever its status.
Queued(k, w) ==
    IF wait[k].status # "none" THEN wait
    ELSE [wait EXCEPT ![k] = [status |-> "waiting", weight |-> w, lapsed |-> FALSE,
                              pos |-> 1 + Max({wait[<<u, k[2]>>].pos : u \in Users})]]

AddUserExpertise(u, c, w) ==
    LET s == c[1] IN
    /\ ~\E t \in ActiveOf(u) : entry[u, t].held
    /\ Cardinality(ActiveOf(u)) < 2
    /\ ~Active(u, s)
    /\ entry[u, s].status = "inactive" => ~entry[u, s].held
    /\ IF Admits(c, w)
       THEN /\ admitted < MaxAdmitted /\ admitted' = admitted + 1
            /\ entry' = [entry EXCEPT ![<<u, s>>] = NewEntry(c[2], w)]
            /\ cap' = [cap EXCEPT ![c].weight = @ + w, ![c].hustlers = @ + 1]
            /\ UNCHANGED wait
       ELSE /\ entry' = [entry EXCEPT ![<<u, s>>] = NoEntry]
            /\ wait' = Queued(<<u, c>>, w)
            /\ UNCHANGED <<cap, admitted>>
    /\ Race({c}) /\ UNCHANGED <<rec, recalcs>>

Freed(u, s) == entry[u, s].effective

\* The zone comes from the request, not from the row.
RemoveUserExpertise(u, s, z) ==
    /\ Active(u, s) /\ ~entry[u, s].held
    /\ entry' = [entry EXCEPT ![<<u, s>>].status = "inactive", ![<<u, s>>].held = TRUE]
    /\ cap' = [cap EXCEPT ![<<s, z>>].weight = Less(@, Freed(u, s)), ![<<s, z>>].hustlers = Less(@, 1)]
    /\ raced' = raced \cup {c \in {<<s, z>>, <<s, entry[u, s].zone>>} :
                              BetweenSumAndWrite(c) \/ z # entry[u, s].zone}
    /\ UNCHANGED <<wait, rec, admitted, recalcs>>

Swapped(e, w) == [e EXCEPT !.slot = w, !.effective = w, !.held = TRUE]

PromoteExpertise(u, s) ==
    \E t \in ActiveOf(u) :
      LET cs == <<s, entry[u, s].zone>>
          ct == <<t, entry[u, t].zone>> IN
      /\ Promotes /\ Active(u, s) /\ s # t
      /\ ~entry[u, s].held /\ ~entry[u, t].held
      /\ entry[u, s].slot = Secondary /\ entry[u, t].slot = Primary
      /\ entry' = [entry EXCEPT ![<<u, s>>] = Swapped(@, Primary), ![<<u, t>>] = Swapped(@, Secondary)]
      /\ cap' = [cap EXCEPT ![cs].weight = @ + (Primary - Secondary), ![ct].weight = Less(@, Primary - Secondary)]
      /\ raced' = raced \cup {c \in {cs, ct} : \/ BetweenSumAndWrite(c)
                                              \/ entry[u, c[1]].effective # entry[u, c[1]].slot}
      /\ UNCHANGED <<wait, rec, admitted, recalcs>>

\* The trigger check_max_expertise: before every insert, also one that will update.
\* A mutant: no trigger.
M_TriggerAllows(u) == TRUE
TriggerAllows(u) == Cardinality(ActiveOf(u)) < 2

AcceptWaitlistInvite(u, c) ==
    LET k == <<u, c>>
        w == wait[k].weight IN
    /\ wait[k].status = "invited"
    /\ IF wait[k].lapsed
       THEN /\ wait' = [wait EXCEPT ![k].status = "expired"]
            /\ UNCHANGED <<cap, entry, admitted, raced>>
       ELSE IF cap[c].weight + w > EffectiveMax(c)
       THEN UNCHANGED <<wait, cap, entry, admitted, raced>>
       ELSE /\ TriggerAllows(u)
            /\ admitted < MaxAdmitted /\ admitted' = admitted + 1
            /\ entry' = [entry EXCEPT ![<<u, c[1]>>] =
                 IF @ = NoEntry THEN NewEntry(c[2], w)
                 ELSE [@ EXCEPT !.status = "active", !.slot = w, !.effective = w, !.held = TRUE]]
            /\ cap' = [cap EXCEPT ![c].weight = @ + w, ![c].hustlers = @ + 1]
            /\ wait' = [wait EXCEPT ![k].status = "accepted"]
            /\ LET old == IF entry[u, c[1]] = NoEntry THEN {} ELSE {<<c[1], entry[u, c[1]].zone>>} IN
               raced' = raced \cup {d \in {c} \cup old :
                          BetweenSumAndWrite(d) \/ Active(u, c[1]) \/ old \ {c} # {}}
    /\ UNCHANGED <<rec, recalcs>>

AdminUpdateCapacity(c) ==
    /\ \E m \in AdminMaxes, l \in BOOLEAN : cap' = [cap EXCEPT ![c].max = m, ![c].liquid = l]
    /\ UNCHANGED <<entry, wait, rec, admitted, recalcs, raced>>

-----------------------------------------------------------------------------
\* The daily recalculation: for each cell decay, add up, write, invite.

Begin(r) ==
    /\ rec[r].pc = "idle" /\ recalcs < MaxRecalcs /\ recalcs' = recalcs + 1
    /\ \E c \in Cells : rec' = [rec EXCEPT ![r] =
         [pc |-> "decay", cell |-> c, left |-> Cells \ {c}, max |-> [d \in Cells |-> cap[d].max]]]
    /\ UNCHANGED <<cap, entry, wait, admitted, raced>>

\* last_task_accepted_at IS NULL halves the weight at once: the third update,
\* which would wait a fortnight for such a row, has nothing left to do.
Decayed(e) ==
    IF e.seen \in {"new", "never", "late"} THEN [e EXCEPT !.effective = e.slot \div 2]
    ELSE IF e.seen = "gone" THEN [e EXCEPT !.effective = 0] ELSE e

Decay(r) ==
    /\ rec[r].pc = "decay"
    /\ LET c == rec[r].cell IN
       /\ entry' = [k \in Users \X Skills |->
            IF k[2] = c[1] /\ k[1] \in Here(c) THEN Decayed(entry[k]) ELSE entry[k]]
       /\ raced' = raced \cup (IF BetweenSumAndWrite(c) THEN {c} ELSE {})
    /\ rec' = [rec EXCEPT ![r].pc = "sum"]
    /\ UNCHANGED <<cap, wait, admitted, recalcs>>

AddUp(r) ==
    /\ rec[r].pc = "sum"
    /\ LET c == rec[r].cell IN rec' = [rec EXCEPT ![r] =
         [pc |-> "write", cell |-> c, left |-> @.left, max |-> @.max, sum |-> Sum(c),
          count |-> Cardinality({u \in Here(c) : entry[u, c[1]].effective > 0})]]
    /\ raced' = raced \ {rec[r].cell}
    /\ UNCHANGED <<cap, entry, wait, admitted, recalcs>>

Follow(r) ==
    IF rec[r].left = {} THEN [pc |-> "expire"]
    ELSE LET c == CHOOSE c \in rec[r].left : TRUE IN
         [pc |-> "decay", cell |-> c, left |-> rec[r].left \ {c}, max |-> rec[r].max]

\* The waiters of c by position.
Waiters(c) ==
    SetToSortSeq({u \in Users : wait[<<u, c>>].status = "waiting"}, LAMBDA u, v : wait[<<u, c>>].pos < wait[<<v, c>>].pos)

\* The record is overwritten with the sum read before; who has accepted a task of
\* the kind in the last fortnight is working.
WriteBack(r) ==
    /\ rec[r].pc = "write"
    /\ \E liquid \in BOOLEAN, expand \in BOOLEAN, working \in SUBSET (IF Ages THEN Here(rec[r].cell) ELSE {}) :
         LET c == rec[r].cell
             sum == rec[r].sum
             room == Expanded(rec[r].max[c], expand) - sum IN
         /\ liquid => sum > 0
         /\ cap' = [cap EXCEPT ![c].weight = sum, ![c].hustlers = rec[r].count,
                               ![c].liquid = liquid, ![c].expand = expand]
         /\ entry' = [k \in Users \X Skills |->
              IF k[2] = c[1] /\ k[1] \in working THEN [entry[k] EXCEPT !.seen = "recent"] ELSE entry[k]]
         /\ rec' = [rec EXCEPT ![r] =
              IF room > 0 /\ (rec[r].count = 0 \/ liquid)
              THEN [pc |-> "invite", cell |-> c, left |-> @.left, max |-> @.max, room |-> room, queue |-> Waiters(c)]
              ELSE Follow(r)]
    /\ UNCHANGED <<wait, admitted, recalcs, raced>>

Invite(r) ==
    /\ rec[r].pc = "invite"
    /\ LET c == rec[r].cell
           k == <<Head(rec[r].queue), c>> IN
       IF rec[r].queue = <<>> THEN rec' = [rec EXCEPT ![r] = Follow(r)] /\ UNCHANGED wait
       ELSE IF wait[k].weight > rec[r].room THEN rec' = [rec EXCEPT ![r] = Follow(r)] /\ UNCHANGED wait
       ELSE IF Cardinality(ActiveOf(k[1])) >= 2
       THEN /\ wait' = [wait EXCEPT ![k].status = "cancelled"]
            /\ rec' = [rec EXCEPT ![r].queue = Tail(@)]
       ELSE /\ wait' = [wait EXCEPT ![k].status = "invited", ![k].lapsed = FALSE]
            /\ rec' = [rec EXCEPT ![r].queue = Tail(@), ![r].room = @ - wait[k].weight]
    /\ UNCHANGED <<cap, entry, admitted, recalcs, raced>>

ExpireInvites(r) ==
    /\ rec[r].pc = "expire"
    /\ wait' = [k \in Users \X Cells |->
         IF wait[k].status = "invited" /\ wait[k].lapsed THEN [wait[k] EXCEPT !.status = "expired"] ELSE wait[k]]
    /\ rec' = [rec EXCEPT ![r] = Idle]
    /\ UNCHANGED <<cap, entry, admitted, recalcs, raced>>

\* A statement fails or the process dies: the rest of the recalculation is left out.
Abort(r) ==
    /\ rec[r].pc # "idle"
    /\ rec' = [rec EXCEPT ![r] = Idle]
    /\ raced' = IF rec[r].pc \in {"sum", "write"} THEN raced \cup {rec[r].cell} ELSE raced
    /\ UNCHANGED <<cap, entry, wait, admitted, recalcs>>

-----------------------------------------------------------------------------
\* Time and work.

Release(u, s) ==
    /\ entry[u, s] # NoEntry
    /\ entry[u, s].held
    /\ entry' = [entry EXCEPT ![<<u, s>>].held = FALSE, ![<<u, s>>].seen = IF @ = "new" THEN "never" ELSE @]
    /\ UNCHANGED <<cap, wait, rec, admitted, recalcs, raced>>

Later(u, s) ==
    /\ Ages /\ Active(u, s) /\ entry[u, s].seen \in {"new", "recent", "late"}
    /\ entry' = [entry EXCEPT ![<<u, s>>].seen =
         CASE @ = "new" -> "never" [] @ = "recent" -> "late" [] @ = "late" -> "gone"]
    /\ UNCHANGED <<cap, wait, rec, admitted, recalcs, raced>>

InviteLapses(k) ==
    /\ Ages /\ wait[k].status = "invited" /\ ~wait[k].lapsed
    /\ wait' = [wait EXCEPT ![k].lapsed = TRUE]
    /\ UNCHANGED <<cap, entry, rec, admitted, recalcs, raced>>

ExpansionEnds(c) ==
    /\ Ages /\ cap[c].expand /\ cap' = [cap EXCEPT ![c].expand = FALSE]
    /\ UNCHANGED <<entry, wait, rec, admitted, recalcs, raced>>

Next ==
    \/ \E u \in Users, c \in Cells : (\E w \in Asked : AddUserExpertise(u, c, w)) \/ AcceptWaitlistInvite(u, c) \/ InviteLapses(<<u, c>>)
    \/ \E u \in Users, s \in Skills : (\E z \in Zones : RemoveUserExpertise(u, s, z)) \/ PromoteExpertise(u, s)
    \/ \E u \in Users, s \in Skills : Release(u, s) \/ Later(u, s)
    \/ \E c \in Cells : AdminUpdateCapacity(c) \/ ExpansionEnds(c)
    \/ \E r \in Runs : Begin(r) \/ Decay(r) \/ AddUp(r) \/ WriteBack(r) \/ Invite(r) \/ ExpireInvites(r) \/ Abort(r)

Spec == Init /\ [][Next]_vars

-----------------------------------------------------------------------------
\* A user never carries more than two kinds of work: accepting an invitation
\* checks nothing itself, the insert's trigger does.
AtMostTwo == \A u \in Users : Cardinality(ActiveOf(u)) <= 2

\* A cell's record is the weight its workers carry, except while a
\* recalculation has decayed them and not yet written, and in a cell that a
\* change between sum and write, a second acceptance, a promotion of decayed
\* work or a removal in another zone has skewed since the last sum.
UnracedWeightIsSum ==
    \A c \in Cells \ raced : Unwritten(c) \/ cap[c].weight = Sum(c)

\* Nobody is invited while someone ahead in the cell's queue still waits.
InOrder ==
    \A u, v \in Users, c \in Cells :
      wait[<<u, c>>].status = "waiting" /\ wait'[<<u, c>>].status = "invited" /\ wait[<<v, c>>].status = "waiting"
      => wait[<<u, c>>].pos <= wait[<<v, c>>].pos
InvitedInOrder == [][InOrder]_vars

\* The header: "Each hustler has max_skill_weight = 1.0".
WholeWorker ==
    \A u \in Users : MapThenSumSet(LAMBDA s : entry[u, s].slot, ActiveOf(u)) <= 20

\* A request that answers "added to the waitlist" leaves the user waiting.
WaitlistedIsWaiting ==
    [][\A u \in Users, c \in Cells, w \in Slots :
         AddUserExpertise(u, c, w) /\ ~Admits(c, w) => wait'[<<u, c>>].status \in {"waiting", "invited"}]_vars

\* An expired invitation whose answer is "re-queued" is back in the queue.
ExpiredIsRequeued ==
    [][\A u \in Users, c \in Cells :
         AcceptWaitlistInvite(u, c) /\ wait[<<u, c>>].lapsed => wait'[<<u, c>>].status = "waiting"]_vars

\* Who has not yet accepted a task keeps the full weight for the first fortnight.
NewcomerIsWhole ==
    \A u \in Users, s \in Skills : Active(u, s) =>
      (entry[u, s].seen = "new" => entry[u, s].effective = entry[u, s].slot)

\* The hard cap: what the workers of a cell carry is within the expanded maximum.
HardCap == \A c \in Cells : Sum(c) <= Expanded(cap[c].max, TRUE)

\* Outside a recalculation the record is the sum: what the gate compares is the truth.
RecordIsSum == \A c \in Cells : Unwritten(c) \/ cap[c].weight = Sum(c)
================================================================================
