------------------------ MODULE NotificationCreation ------------------------
(***************************************************************************)
(* NotificationService.createNotification and the recovery of what it      *)
(* could not queue: one user, one object, two categories that supersede    *)
(* each other (proof_submitted and proof_rejected), one external channel.  *)
(*                                                                         *)
(* A creation is not a transaction: it looks for a replay, reads the       *)
(* frequency counters, reads the groups, inserts, supersedes, increments,  *)
(* writes the delivery and queues the channel, each in a call of its own.  *)
(* delivery "none" is the row that is not written yet.                     *)
(***************************************************************************)
EXTENDS Naturals, Sequences, FiniteSets

CONSTANTS
    Creators,     \* processes that create notifications
    Submissions,  \* explicit dedupe keys of proof_submitted events
    Rejections,   \* and of proof_rejected events
    HourlyLimit,  \* NOTIFICATION_FREQUENCY_LIMITS perHour
    DailyLimit,   \* NOTIFICATION_FREQUENCY_LIMITS perDay
    GroupMax,     \* notifications of a group (5 in the code)
    MaxAttempts,  \* max_attempts of a delivery
    FaultKinds,   \* subset of {"crash", "queueError", "redisError"}
    MaxFaults     \* bound on faults

Keys == Submissions \cup Rejections
Categories == {"proof_submitted", "proof_rejected"}
CategoryOf == [k \in Keys |-> IF k \in Submissions THEN "proof_submitted" ELSE "proof_rejected"]

CreationAssumption ==
    /\ IsFiniteSet(Creators) /\ IsFiniteSet(Keys)
    /\ Keys # {} /\ Submissions \cap Rejections = {}
    /\ {HourlyLimit, DailyLimit, GroupMax, MaxAttempts} \subseteq Nat \ {0}
    /\ MaxFaults \in Nat

VARIABLES
    call,      \* the creation each process is in
    notes,     \* notifications, in the order of their INSERT
    counter,   \* Redis: notifications counted per category in this hour and day
    answered,  \* history: notifications whose id a call has returned as a success
    raced,     \* history: notifications inserted between another's INSERT and its supersession
    faults

vars == <<call, notes, counter, answered, raced, faults>>

Idle == [pc |-> "idle", key |-> CHOOSE k \in Keys : TRUE, group |-> 0, pos |-> 0, note |-> 0]

Indices == 1..Cardinality(Keys)

TypeOK ==
    /\ call \in [Creators ->
         [pc : {"idle", "check", "group", "insert", "supersede", "count", "deliver", "queue"},
          key : Keys, group : 0..Cardinality(Keys), pos : Nat, note : 0..Cardinality(Keys)]]
    /\ notes \in Seq(
         [key : Keys, group : Indices, pos : Nat, batched : BOOLEAN, by : 0..Cardinality(Keys),
          delivery : {"none", "pending", "queued", "retry_pending", "failed_terminal", "cancelled"},
          attempts : 0..MaxAttempts, outbox : BOOLEAN])
    /\ counter \in [Categories -> Nat]
    /\ answered \subseteq Indices /\ raced \subseteq Indices
    /\ faults \in 0..MaxFaults

Init ==
    /\ call = [c \in Creators |-> Idle]
    /\ notes = << >>
    /\ counter = [g \in Categories |-> 0]
    /\ answered = {} /\ raced = {}
    /\ faults = 0

Fault(kind) ==
    /\ kind \in FaultKinds
    /\ faults < MaxFaults
    /\ faults' = faults + 1

Category(i) == CategoryOf[notes[i].key]
Of(g) == {i \in DOMAIN notes : Category(i) = g}
Latest(S) == CHOOSE i \in S : \A j \in S : j <= i
Group(n) == {i \in DOMAIN notes : notes[i].group = n}

At(c, pc) == call[c].pc = pc
MyCategory(c) == CategoryOf[call[c].key]
MyNote(c) == notes[call[c].note]
Goto(c, pc) == call' = [call EXCEPT ![c].pc = pc]
Return(c) == call' = [call EXCEPT ![c] = Idle]

Replays(k) == {i \in DOMAIN notes : notes[i].key = k}

-----------------------------------------------------------------------------
\* createNotification

\* The explicit key is replayed before preferences and limits are looked at.
Start(c, k) ==
    /\ At(c, "idle")
    /\ \/ /\ Replays(k) = {}
          /\ call' = [call EXCEPT ![c] = [Idle EXCEPT !.pc = "check", !.key = k]]
          /\ UNCHANGED answered
       \/ /\ Replays(k) # {}
          /\ answered' = answered \cup Replays(k)
          /\ UNCHANGED call
    /\ UNCHANGED <<notes, counter, raced, faults>>

\* batchNotification: the newest notification of the category takes the event
\* in; without one the call fails.
Batched(g) ==
    IF Of(g) = {} THEN notes
    ELSE [notes EXCEPT ![Latest(Of(g))].batched = TRUE]

\* A mutant: the hourly limit is off by one.
M_CheckFrequency(c) ==
    LET count == counter[MyCategory(c)] IN
    /\ At(c, "check")
    /\ IF count >= DailyLimit THEN Return(c) /\ UNCHANGED notes
       ELSE IF count > HourlyLimit THEN Return(c) /\ notes' = Batched(MyCategory(c))
       ELSE Goto(c, "group") /\ UNCHANGED notes
    /\ UNCHANGED <<counter, answered, raced, faults>>

\* At the daily limit the event is refused, at the hourly limit it is batched.
\* Preferences, too, may refuse it.
CheckFrequency(c) ==
    LET count == counter[MyCategory(c)] IN
    /\ At(c, "check")
    /\ IF count >= DailyLimit THEN Return(c) /\ UNCHANGED notes
       ELSE IF count >= HourlyLimit THEN Return(c) /\ notes' = Batched(MyCategory(c))
       ELSE (Goto(c, "group") \/ Return(c)) /\ UNCHANGED notes
    /\ UNCHANGED <<counter, answered, raced, faults>>

\* Redis does not answer: the check fails open.
CheckFailsOpen(c) ==
    /\ At(c, "check")
    /\ Fault("redisError")
    /\ Goto(c, "group")
    /\ UNCHANGED <<notes, counter, answered, raced>>

\* The group of the highest position; a full one starts a new group (group 0).
FindGroup(c) ==
    /\ At(c, "group")
    /\ \/ /\ Of(MyCategory(c)) = {}
          /\ call' = [call EXCEPT ![c] = [@ EXCEPT !.pc = "insert", !.group = 0, !.pos = 1]]
       \/ \E i \in Of(MyCategory(c)) :
            /\ \A j \in Of(MyCategory(c)) : notes[j].pos <= notes[i].pos
            /\ call' = [call EXCEPT ![c] =
                 IF Cardinality(Group(notes[i].group)) < GroupMax
                   THEN [@ EXCEPT !.pc = "insert", !.group = notes[i].group, !.pos = notes[i].pos + 1]
                   ELSE [@ EXCEPT !.pc = "insert", !.group = 0, !.pos = 1]]
    /\ UNCHANGED <<notes, counter, answered, raced, faults>>

\* ON CONFLICT (dedupe_key) DO NOTHING; a conflict is answered with the row.
\* A new group is named after the notification that starts it.
Insert(c) ==
    LET i == Len(notes) + 1
        k == call[c].key
        others == {d \in Creators : At(d, "supersede")} IN
    /\ At(c, "insert")
    /\ \/ /\ Replays(k) = {}
          /\ notes' = Append(notes,
               [key |-> k, group |-> IF call[c].group = 0 THEN i ELSE call[c].group,
                pos |-> call[c].pos, batched |-> FALSE, by |-> 0,
                delivery |-> "none", attempts |-> 0, outbox |-> FALSE])
          /\ call' = [call EXCEPT ![c] = [@ EXCEPT !.pc = "supersede", !.note = i]]
          /\ raced' = IF others # {} THEN raced \cup {i} ELSE raced
          /\ UNCHANGED answered
       \/ /\ Replays(k) # {}
          /\ answered' = answered \cup Replays(k)
          /\ Return(c)
          /\ UNCHANGED <<notes, raced>>
    /\ UNCHANGED <<counter, faults>>

\* The two categories supersede each other; nothing compares the ages.
Supersede(c) ==
    /\ At(c, "supersede")
    /\ notes' = [i \in DOMAIN notes |->
         IF Category(i) = MyCategory(c) \/ notes[i].by # 0 \/ i = call[c].note THEN notes[i]
         ELSE [notes[i] EXCEPT !.by = call[c].note,
                               !.delivery = IF @ \in {"pending", "queued", "retry_pending"}
                                              THEN "cancelled" ELSE @]]
    /\ Goto(c, "count")
    /\ UNCHANGED <<counter, answered, raced, faults>>

IncrementFrequency(c) ==
    /\ At(c, "count")
    /\ \/ counter' = [counter EXCEPT ![MyCategory(c)] = @ + 1] /\ UNCHANGED faults
       \/ Fault("redisError") /\ UNCHANGED counter
    /\ Goto(c, "deliver")
    /\ UNCHANGED <<notes, answered, raced>>

WriteDelivery(c) ==
    /\ At(c, "deliver")
    /\ notes' = [notes EXCEPT ![call[c].note].delivery = "pending"]
    /\ Goto(c, "queue")
    /\ UNCHANGED <<counter, answered, raced, faults>>

Failed(n, state) ==
    [n EXCEPT !.delivery = state, !.attempts = IF @ < MaxAttempts THEN @ + 1 ELSE @]

\* The outbox row, or the persisted failure of the channel, whatever became of
\* the delivery meanwhile.
QueueChannel(c) ==
    LET i == call[c].note IN
    /\ At(c, "queue")
    /\ \/ notes' = [notes EXCEPT ![i].outbox = TRUE] /\ UNCHANGED faults
       \/ /\ Fault("queueError")
          /\ notes' = [notes EXCEPT ![i] = Failed(@, "retry_pending")]
    /\ answered' = answered \cup {i}
    /\ Return(c)
    /\ UNCHANGED <<counter, raced>>

\* The process dies, or a query of the call fails and the caller gets an error.
Crash(c) ==
    /\ ~At(c, "idle")
    /\ Fault("crash")
    /\ Return(c)
    /\ UNCHANGED <<notes, counter, answered, raced>>

-----------------------------------------------------------------------------
\* The rest of the service

\* recoverDue takes what waits for a retry and has no outbox row; its failure is
\* markNotificationDeliveryFailure.
RecoverDue(i) ==
    /\ notes[i].delivery = "retry_pending" /\ notes[i].by = 0 /\ ~notes[i].outbox
    /\ \/ /\ notes' = [notes EXCEPT ![i] = [@ EXCEPT !.outbox = TRUE, !.delivery = "queued"]]
          /\ UNCHANGED faults
       \/ /\ Fault("queueError")
          /\ notes' = [notes EXCEPT ![i] =
               Failed(@, IF notes[i].attempts + 1 >= MaxAttempts THEN "failed_terminal" ELSE "retry_pending")]
    /\ UNCHANGED <<call, counter, answered, raced>>

Next ==
    \/ \E c \in Creators :
         \/ \E k \in Keys : Start(c, k)
         \/ CheckFrequency(c) \/ CheckFailsOpen(c) \/ FindGroup(c) \/ Insert(c)
         \/ Supersede(c) \/ IncrementFrequency(c) \/ WriteDelivery(c) \/ QueueChannel(c)
         \/ Crash(c)
    \/ \E i \in DOMAIN notes : RecoverDue(i)

\* A call that has begun goes on, and the recovery job is repeated.
Fairness ==
    /\ \A c \in Creators :
         /\ WF_vars(CheckFrequency(c)) /\ WF_vars(FindGroup(c)) /\ WF_vars(Insert(c))
         /\ WF_vars(Supersede(c)) /\ WF_vars(IncrementFrequency(c))
         /\ WF_vars(WriteDelivery(c)) /\ WF_vars(QueueChannel(c))
    /\ WF_vars(\E i \in DOMAIN notes : RecoverDue(i))

Spec == Init /\ [][Next]_vars /\ Fairness

-----------------------------------------------------------------------------
\* Properties

\* Calls that read the counter before another increments it overshoot the hourly
\* limit, by at most one for each other process and each lost reading or increment
\* (check before the INSERT, increment after it).
QuotaOvershootIsBounded ==
    \A g \in Categories :
        Cardinality(Of(g)) <= HourlyLimit + Cardinality(Creators) - 1 + faults

\* The same for groups: each other process can add one to a full group.
GroupOvershootIsBounded ==
    \A n \in Indices : Cardinality(Group(n)) <= GroupMax + Cardinality(Creators) - 1

\* A notification is superseded by an older one only when it was inserted between
\* the older one's INSERT and its supersession; then each may supersede the other.
OlderSupersedesInARace ==
    \A i \in DOMAIN notes : notes[i].by # 0 /\ notes[i].by < i => i \in raced

\* Without a crash, every notification is queued, superseded, or failed for an
\* operator to see, whatever happens to the outbox.
NotificationIsQueued ==
    \A i \in Indices : (i \in DOMAIN notes) ~>
        /\ i \in DOMAIN notes
        /\ \/ notes[i].outbox \/ notes[i].by # 0
           \/ notes[i].delivery = "failed_terminal"

InFlight(i) == \E c \in Creators : call[c].note = i

\* A notification that a call has returned, and nobody works on, has a delivery
\* ("deferred never means silently dropped").
AnsweredHasDelivery ==
    \A i \in answered : ~InFlight(i) => notes[i].delivery # "none"

\* When nobody creates, the counter has every notification ("a re-run after the
\* INSERT succeeded but before the increment did not permanently lose the quota slot").
AnsweredIsCounted ==
    \A g \in Categories :
        (\A c \in Creators : At(c, "idle")) /\ Of(g) \subseteq answered
          => counter[g] >= Cardinality(Of(g))

=============================================================================
