--------------------------------- MODULE SafetyCases ---------------------------------
(***************************************************************************)
(* The safety of a task: the reports of its participants, sent online or   *)
(* kept on the device and sent later; the cases operators answer; timed    *)
(* check-ins, which become cases when nobody confirms them; the location a *)
(* reporter shared; and the question a device asks about what it sent.     *)
(***************************************************************************)
EXTENDS Integers, Sequences, FiniteSets, FiniteSetsExt

CONSTANTS
    Reports,     \* what participants send, each any number of times
    Calls,       \* concurrent calls of reportSafety
    Probes,      \* concurrent calls of reconcileOfflineActions
    Checkins,    \* check-ins that may be started, by participant: records [by, n]
    Admins,
    Messages,    \* provider events of calls and texts
    MaxCases,
    MaxVersion,  \* bound on the task's version
    Leaves       \* may the worker abandon the task

Users == {"poster", "worker"}
Evidence == {"online", "sequenced", "hashed"}
Channels == {"call", "text", "in_app_only", "do_not_contact"}

SafetyAssumption ==
    /\ MaxCases \in Nat /\ MaxVersion \in Nat \ {0} /\ Leaves \in BOOLEAN
    /\ \A r \in Reports : /\ r.by \in Users /\ r.evidence \in Evidence /\ r.channel \in Channels
                          /\ r.seq \in Nat /\ r.prior \in Nat /\ r.shares \in BOOLEAN
                          /\ (r.evidence = "online") <=> (r.seq = 0)
    /\ \A t \in Checkins : t.by \in Users

VARIABLES
    task,     \* its version, whether work on it is open, whether it has its worker
    cases,    \* task_safety_incidents in the order of their commits, with their events and mirror
    call,     \* by call, the report and the next step of reportSafety
    checkin,  \* task_safety_checkins
    due,      \* active check-ins whose deadline passed, the earliest first
    message,  \* contact events by provider_event_id
    aged,     \* reports whose location was captured more than seven days ago
    probe,    \* by call, what reconcileOfflineActions has read
    told,     \* the last answer about each report
    misread   \* history: reports recorded between the reads of an answer about them

vars == <<task, cases, call, checkin, due, message, aged, probe, told, misread>>
asked == <<probe, told, misread>>
timers == <<checkin, due>>

None == "none"
Free == [pc |-> "free"]

Init ==
    /\ task = [version |-> 1, open |-> TRUE, worker |-> TRUE]
    /\ cases = <<>>
    /\ call = [c \in Calls |-> Free]
    /\ checkin = [t \in Checkins |-> [status |-> None, incident |-> 0]]
    /\ due = <<>>
    /\ message = [m \in Messages |-> [of |-> 0, kind |-> None]]
    /\ aged = {}
    /\ probe = [p \in Probes |-> Free]
    /\ told = [r \in Reports |-> None] /\ misread = {}

TypeOK ==
    /\ task \in [version : 1..MaxVersion, open : BOOLEAN, worker : BOOLEAN]
    /\ Len(cases) <= MaxCases
    /\ \A i \in DOMAIN cases :
           /\ \/ cases[i].from = "report" /\ cases[i].what \in Reports
              \/ cases[i].from = "checkin" /\ cases[i].what \in Checkins
           /\ cases[i].status \in {"received", "acknowledged", "resolved"}
           /\ cases[i].owner \in Admins \cup {None} /\ cases[i].resolvedBy \in Admins \cup {None}
           /\ cases[i].contact \in {"received", "contact_attempted", "contact_delivered", "contact_failed"}
           /\ cases[i].proof \in Messages \cup {None}
           /\ cases[i].place \in {None, "kept", "expired", "deleted"}
           /\ cases[i].mirror \in {"open", "resolved"}
    /\ call \in [Calls -> {Free} \cup [pc : {"look", "record"}, report : Reports]]
    /\ checkin \in [Checkins -> [status : {None, "active", "confirmed", "escalated"}, incident : 0..MaxCases]]
    /\ \A i \in DOMAIN due : due[i] \in Checkins
    /\ message \in [Messages -> [of : 0..MaxCases, kind : {None, "contact_attempted", "contact_delivered",
                                                           "contact_failed"}]]
    /\ aged \subseteq Reports /\ misread \subseteq Reports
    /\ probe \in [Probes -> {Free} \cup [pc : {"stored", "latest"}, report : Reports, version : 1..MaxVersion]]
    /\ told \in [Reports -> {None, "SERVER_CONFIRMED", "CONFLICT", "LOCAL_PENDING"}]

-----------------------------------------------------------------------------
\* The task, as its other operations leave it

Participant(u) == u = "poster" \/ task.worker

\* Any other change of the row, and the end of the work on it.
ChangeTask ==
    /\ task.version < MaxVersion
    /\ \E open \in BOOLEAN : /\ open => task.open
                             /\ task' = [task EXCEPT !.version = @ + 1, !.open = open]
    /\ UNCHANGED <<cases, call, timers, message, aged, asked>>

\* abandon: the row forgets its worker.
Abandon ==
    /\ Leaves /\ task.open /\ task.worker /\ task.version < MaxVersion
    /\ task' = [version |-> task.version + 1, open |-> FALSE, worker |-> FALSE]
    /\ UNCHANGED <<cases, call, timers, message, aged, asked>>

-----------------------------------------------------------------------------
\* reportSafety

\* The cases of a reporter's reports, and the one a key is taken by, if any.
Reported(u) == {i \in DOMAIN cases : cases[i].from = "report" /\ cases[i].what.by = u}
Taken(r) == {i \in Reported(r.by) : cases[i].what.key = r.key}

\* existingIncident: what an older client stored is compared without the
\* evidence it did not send.
Replays(r, s) ==
    /\ r.by = s.by /\ r.key = s.key /\ r.text = s.text /\ r.channel = s.channel /\ r.shares = s.shares
    /\ \/ s.evidence = "online"
       \/ /\ r.evidence # "online" /\ r.seq = s.seq /\ r.prior = s.prior
          /\ s.evidence = "sequenced" \/ r.evidence = "hashed"

\* assertSafetySyncBoundary, under the lock of the task's row: written for the
\* current version, after everything its sender has sent.
InOrder(r) ==
    r.evidence # "online" =>
        /\ r.prior = task.version
        /\ \A i \in Reported(r.by) : r.seq > cases[i].what.seq

\* A device knows the versions the server has told it.
Send(c, r) ==
    /\ call[c] = Free
    /\ Participant(r.by) /\ r.prior <= task.version /\ r \notin aged
    /\ call' = [call EXCEPT ![c] = [pc |-> "look", report |-> r]]
    /\ UNCHANGED <<task, cases, timers, message, aged, asked>>

\* The first read of the transaction: a key that is taken ends the call, with
\* the case or, for other contents, with CONFLICT.
Look(c) ==
    /\ call[c].pc = "look"
    /\ call' = [call EXCEPT ![c] = IF Taken(call[c].report) = {} THEN [@ EXCEPT !.pc = "record"] ELSE Free]
    /\ UNCHANGED <<task, cases, timers, message, aged, asked>>

\* insertIncident and mirrorNewIncident: the case, its first event and its copy
\* for Operations.
New(from, what, place) ==
    Append(cases, [from |-> from, what |-> what, status |-> "received", owner |-> None, resolvedBy |-> None,
                   contact |-> "received", proof |-> None, place |-> place, mirror |-> "open"])

\* A key that was taken meanwhile, a report out of order and a reporter who has
\* left the task (HX819) end the call and write nothing.
Record(c) ==
    /\ call[c].pc = "record"
    /\ LET r == call[c].report
           recorded == Taken(r) = {} /\ InOrder(r) /\ Participant(r.by)
       IN  /\ recorded => Len(cases) < MaxCases
           /\ cases' = IF recorded THEN New("report", r, IF r.shares THEN "kept" ELSE None) ELSE cases
           /\ misread' = IF recorded /\ \E p \in Probes : probe[p].pc = "latest" /\ probe[p].report = r
                         THEN misread \cup {r} ELSE misread
    /\ call' = [call EXCEPT ![c] = Free]
    /\ UNCHANGED <<task, timers, message, aged, probe, told>>

-----------------------------------------------------------------------------
\* reconcileOfflineActions: the task, the stored row and the latest sequence are
\* three reads without a transaction.

Ask(p, r) ==
    /\ probe[p] = Free
    /\ Participant(r.by) /\ r.evidence = "hashed" /\ r.prior <= task.version
    /\ probe' = [probe EXCEPT ![p] = [pc |-> "stored", report |-> r, version |-> task.version]]
    /\ UNCHANGED <<task, cases, call, timers, message, aged, told, misread>>

Answer(p, answer) ==
    /\ told' = [told EXCEPT ![probe[p].report] = answer]
    /\ probe' = [probe EXCEPT ![p] = Free]

\* A row without a hash is recognized by its sequence and version alone.
Recognized(r, found) ==
    \E i \in found : LET s == cases[i].what
                     IN  s.seq = r.seq /\ s.prior = r.prior /\ (s.evidence = "sequenced" \/ s = r)

ReadStored(p) ==
    /\ probe[p].pc = "stored"
    /\ LET r == probe[p].report
           found == {i \in Taken(r) : cases[i].what.evidence # "online"}
       IN  IF found = {}
           THEN /\ probe' = [probe EXCEPT ![p].pc = "latest"]
                /\ UNCHANGED told
           ELSE Answer(p, IF Recognized(r, found) THEN "SERVER_CONFIRMED" ELSE "CONFLICT")
    /\ UNCHANGED <<task, cases, call, timers, message, aged, misread>>

ReadLatest(p) ==
    /\ probe[p].pc = "latest"
    /\ LET r == probe[p].report
           latest == Max({0} \cup {cases[i].what.seq : i \in Reported(r.by)})
       IN  Answer(p, IF r.seq <= latest \/ r.prior # probe[p].version THEN "CONFLICT" ELSE "LOCAL_PENDING")
    /\ UNCHANGED <<task, cases, call, timers, message, aged, misread>>

-----------------------------------------------------------------------------
\* TaskSafetyCheckinService

\* One check-in at a time; a key that was used answers with its check-in.
MayStart(t) ==
    /\ checkin[t].status = None
    /\ task.open /\ Participant(t.by)
    /\ \A s \in Checkins : s.by = t.by => checkin[s].status # "active"

Start(t) ==
    /\ MayStart(t)
    /\ checkin' = [checkin EXCEPT ![t].status = "active"]
    /\ UNCHANGED <<task, cases, call, due, message, aged, asked>>

DeadlinePasses(t) ==
    /\ checkin[t].status = "active" /\ \A i \in DOMAIN due : due[i] # t
    /\ due' = Append(due, t)
    /\ UNCHANGED <<task, cases, call, checkin, message, aged, asked>>

\* confirm does not ask whether the participant still works on the task.
Confirm(t) ==
    /\ checkin[t].status = "active" /\ \A i \in DOMAIN due : due[i] # t
    /\ checkin' = [checkin EXCEPT ![t].status = "confirmed"]
    /\ UNCHANGED <<task, cases, call, due, message, aged, asked>>

\* escalateDue takes the earliest; the insert of its case is refused when its
\* participant has left (HX819), and then the job fails as a whole.
EscalateDue ==
    /\ due # <<>> /\ Participant(Head(due).by) /\ Len(cases) < MaxCases
    /\ LET t == Head(due)
       IN  /\ cases' = New("checkin", t, None)
           /\ checkin' = [checkin EXCEPT ![t] = [status |-> "escalated", incident |-> Len(cases) + 1]]
    /\ due' = Tail(due)
    /\ UNCHANGED <<task, call, message, aged, asked>>

-----------------------------------------------------------------------------
\* IncidentSafetyAdminService: each call is one transaction under the case's lock.

\* acknowledgeSafety binds the case to the operator who is first.
Acknowledge(a, i) ==
    /\ i \in DOMAIN cases /\ cases[i].status = "received"
    /\ cases' = [cases EXCEPT ![i].status = "acknowledged", ![i].owner = a]
    /\ UNCHANGED <<task, call, timers, message, aged, asked>>

\* resolveSafety: the owner's resolution also ends the copy for Operations,
\* which the generic resolve leaves alone.
MayResolve(a, i) == i \in DOMAIN cases /\ cases[i].status = "acknowledged" /\ cases[i].owner = a

Resolve(a, i) ==
    /\ MayResolve(a, i)
    /\ cases' = [cases EXCEPT ![i].status = "resolved", ![i].resolvedBy = a, ![i].mirror = "resolved"]
    /\ UNCHANGED <<task, call, timers, message, aged, asked>>

Channel(i) == IF cases[i].from = "checkin" THEN "in_app_only" ELSE cases[i].what.channel

AllowedFrom == [contact_attempted |-> {"received", "contact_failed"},
                contact_delivered |-> {"contact_attempted", "contact_failed"},
                contact_failed |-> {"contact_attempted"}]

\* recordSafetyContact by any operator, of any open case; an event that is known
\* is a replay or a CONFLICT.
RecordContact(m, kind, i) ==
    /\ i \in DOMAIN cases /\ cases[i].status # "resolved"
    /\ Channel(i) \in {"call", "text"}
    /\ message[m].of = 0
    /\ cases[i].contact \in AllowedFrom[kind]
    /\ message' = [message EXCEPT ![m] = [of |-> i, kind |-> kind]]
    /\ cases' = [cases EXCEPT ![i].contact = kind, ![i].proof = m]
    /\ UNCHANGED <<task, call, timers, aged, asked>>

-----------------------------------------------------------------------------
\* The location of a report: seven days old at most when it is sent, kept for
\* thirty days.

CaptureAges(r) ==
    /\ r.shares /\ r \notin aged
    /\ aged' = aged \cup {r}
    /\ UNCHANGED <<task, cases, call, timers, message, asked>>

LocationExpires(i) ==
    /\ i \in DOMAIN cases /\ cases[i].place = "kept"
    /\ cases' = [cases EXCEPT ![i].place = "expired"]
    /\ UNCHANGED <<task, call, timers, message, aged, asked>>

\* expireDue
DeleteLocation(i) ==
    /\ i \in DOMAIN cases /\ cases[i].place = "expired"
    /\ cases' = [cases EXCEPT ![i].place = "deleted"]
    /\ UNCHANGED <<task, call, timers, message, aged, asked>>

Next ==
    \/ ChangeTask \/ Abandon
    \/ \E c \in Calls : Look(c) \/ Record(c) \/ \E r \in Reports : Send(c, r)
    \/ \E p \in Probes : ReadStored(p) \/ ReadLatest(p) \/ \E r \in Reports : Ask(p, r)
    \/ \E t \in Checkins : Start(t) \/ DeadlinePasses(t) \/ Confirm(t)
    \/ EscalateDue
    \/ \E i \in 1..MaxCases :
           \/ \E a \in Admins : Acknowledge(a, i) \/ Resolve(a, i)
           \/ \E m \in Messages, kind \in DOMAIN AllowedFrom : RecordContact(m, kind, i)
           \/ LocationExpires(i) \/ DeleteLocation(i)
    \/ \E r \in Reports : CaptureAges(r)

\* The maintenance jobs come again and again.
Spec ==
    /\ Init /\ [][Next]_vars
    /\ WF_vars(EscalateDue)
    /\ \A i \in 1..MaxCases : WF_vars(DeleteLocation(i))

-----------------------------------------------------------------------------
\* What a case says fits together: an owner since it was acknowledged, the
\* owner's resolution together with the end of its copy for Operations, a
\* contact that a provider event of this case and an allowed channel prove, and
\* a check-in that names it back; a key has one case.
CasesAreWhole ==
    \A i \in DOMAIN cases :
        LET k == cases[i]
        IN  /\ (k.owner = None) <=> (k.status = "received")
            /\ (k.status = "resolved") <=> (k.mirror = "resolved")
            /\ k.mirror = "resolved" => k.resolvedBy = k.owner
            /\ k.contact # "received" =>
                   /\ Channel(i) \in {"call", "text"}
                   /\ k.proof # None /\ message[k.proof] = [of |-> i, kind |-> k.contact]
            /\ k.from = "checkin" => checkin[k.what] = [status |-> "escalated", incident |-> i]
            /\ k.from = "report" => Taken(k.what) = {i}

\* A device is told CONFLICT, and so to start again, of a report that is
\* recorded only when it was recorded between the reads of the answer.
ConflictIsReal ==
    \A r \in Reports :
        told[r] = "CONFLICT" /\ (\E i \in Reported(r.by) : cases[i].what = r) => r \in misread

\* It is told that its report is confirmed only when it is.
ConfirmedIsRecorded ==
    \A r \in Reports : told[r] = "SERVER_CONFIRMED" => \E i \in Reported(r.by) : Replays(r, cases[i].what)

\* Reports kept on a device are recorded in the order they were written, and
\* only while the task is as their writer saw it.
OfflineInOrder ==
    Len(cases') > Len(cases) =>
        LET new == cases'[Len(cases')]
        IN  new.from = "report" /\ new.what.evidence # "online" =>
                /\ new.what.prior = task'.version
                /\ \A i \in Reported(new.what.by) : cases[i].what.seq < new.what.seq

\* Nothing a case has come to is taken back.
CasesAdvance ==
    \A i \in DOMAIN cases :
        /\ i \in DOMAIN cases' /\ cases'[i].what = cases[i].what
        /\ cases[i].owner # None => cases'[i].owner = cases[i].owner
        /\ cases[i].status = "resolved" => cases'[i].status = "resolved" /\ cases'[i].contact = cases[i].contact
        /\ cases[i].place = "deleted" => cases'[i].place = "deleted"

\* A check-in nobody confirmed becomes a case, unless a participant leaves the
\* task: then it may stay for ever, behind the one who left.
MissedIsEscalated ==
    \A t \in Checkins : (\E i \in DOMAIN due : due[i] = t) ~> checkin[t].status = "escalated" \/ ~task.worker
==============================================================================
