----------------------------- MODULE AccountControl -----------------------------
(***************************************************************************)
(* How an account is kept out and who may decide it: the caches of an      *)
(* authenticated session and the marker that revokes them, the roles of    *)
(* administrators, and what a ban, a suspension or a detected pattern of   *)
(* fraud does to the tasks and escrows of a user.                          *)
(***************************************************************************)
EXTENDS Integers, Sequences, FiniteSetsExt, Functions

CONSTANTS
    Places,      \* caches of a session: one per process, "rest" in Redis for the REST routes
    Calls,       \* requests of the user under way
    Orders,      \* administrators' requests to bar the user or to let the user in, by process
    MaxOrders,   \* bound on the orders carried out
    Staff,       \* people who may have a role
    RoleChanges, \* grants and revocations of roles: [kind, by, on, rank]
    FirstRoles,  \* the ranks of Staff at the start
    Ring, Posters,      \* users of one task each, in the order of a pattern: posters, or workers it is offered to
    Detections, Levels, \* patterns of fraud; the levels they may have
    Scores,      \* scores an administrator sets by hand, in percent
    Columns,     \* whether the escrow queries fit the schema (escrows has no poster_id, no worker_id)
    Faults       \* whether Redis and database calls fail

Users == Range(Ring)
AccountControlAssumption ==
    /\ Posters \subseteq Users /\ Scores \subseteq 0..100 /\ Columns \in BOOLEAN /\ Faults \in BOOLEAN
    /\ Orders \subseteq Places /\ MaxOrders \in Nat
    /\ RoleChanges \subseteq [kind : {"grant", "revoke"}, by : Staff, on : Staff, rank : 1..5]
    /\ FirstRoles \subseteq [Staff -> 0..5]
    /\ Levels \subseteq {"CRITICAL", "HIGH", "MEDIUM", "LOW"}

\* Half of AUTH_CACHE_TTL_MS is the unit: an entry lives for 5 minutes, a marker for 12.
EntryTtl == 2
MarkerTtl == 4
Founder == 5

VARIABLES
    barred,            \* users: is_banned, or account_status SUSPENDED
    cache, marker,     \* periods left of a cached session, of auth:revoked
    signedOut,         \* Firebase has revoked the refresh tokens
    call, order, left, \* the user's requests; the administrators'; orders left
    unmarked, crossed, \* a marker was not written or not read; a lift has overlapped with a bar
    role, change,      \* admin_roles by rank; where a change of roles is
    raced,             \* two changes have overlapped
    detection, status, score, suspectTask, escrow, \* patterns; the users and their work
    passed, told       \* why a step was left out, by user; who was told of a suspension

sessionVars == <<barred, cache, marker, signedOut, call, order, left, unmarked, crossed>>
roleVars == <<role, change, raced>>
fraudVars == <<detection, status, score, suspectTask, escrow, passed, told>>
vars == <<sessionVars, roleVars, fraudVars>>

Active == {"ACCEPTED", "IN_PROGRESS", "PROOF_SUBMITTED"}
Excuses == {"update", "lock", "open", "refund", "rescored", "unread", "lifted"}
TypeOK ==
    /\ barred \in BOOLEAN /\ cache \in [Places -> 0..EntryTtl] /\ marker \in 0..MarkerTtl
    /\ signedOut \in BOOLEAN /\ unmarked \in BOOLEAN /\ crossed \in BOOLEAN
    /\ call \in [Calls -> [at : {"idle", "loaded"}, place : Places, aged : BOOLEAN]]
    /\ order \in [Orders -> {"idle", "barred", "evicted", "lifted"}] /\ left \in 0..MaxOrders
    /\ role \in [Staff -> 0..Founder]
    /\ change \in [RoleChanges -> {"idle", "ranked", "checked", "done", "refused"}]
    /\ raced \in BOOLEAN
    /\ detection \in [Detections -> [at : {"idle", "next", "suspended", "scored", "locked", "over"},
                                     level : Levels \cup {"none"}, todo : Seq(Users)]]
    /\ status \in [Users -> {"ACTIVE", "SUSPENDED"}] /\ score \in [Users -> 0..100]
    /\ suspectTask \in [Users -> {"OPEN", "CANCELLED", "COMPLETED"} \cup Active]
    /\ escrow \in [Users -> {"FUNDED", "LOCKED_DISPUTE", "REFUNDED", "RELEASED"}]
    /\ passed \in [Users -> SUBSET Excuses] /\ told \subseteq Users

Init ==
    /\ barred = FALSE /\ cache = [p \in Places |-> 0] /\ marker = 0 /\ signedOut = FALSE
    /\ call = [c \in Calls |-> [at |-> "idle", place |-> CHOOSE p \in Places : TRUE, aged |-> FALSE]]
    /\ order = [o \in Orders |-> "idle"] /\ left = MaxOrders /\ unmarked = FALSE /\ crossed = FALSE
    /\ role \in FirstRoles /\ change = [c \in RoleChanges |-> "idle"] /\ raced = FALSE
    /\ detection = [d \in Detections |-> [at |-> "idle", level |-> "none", todo |-> <<>>]]
    /\ status = [u \in Users |-> "ACTIVE"] /\ score = [u \in Users |-> 0]
    /\ suspectTask = [u \in Users |-> "OPEN"] /\ escrow = [u \in Users |-> "FUNDED"]
    /\ passed = [u \in Users |-> {}] /\ told = {}
-----------------------------------------------------------------------------
(***************************************************************************)
(* Sessions. A request is served from a cache if Redis has no marker; a    *)
(* read of Redis that fails finds none. Otherwise Firebase is asked and    *)
(* the row is read; the row is cached later, unless it was barred.         *)
(***************************************************************************)
Refused(p) == marker > 0 /\ cache' = [cache EXCEPT ![p] = 0] /\ UNCHANGED unmarked
Unseen == Faults /\ marker > 0 /\ unmarked' = TRUE /\ UNCHANGED cache
ServedFrom(p) == marker = 0 /\ UNCHANGED <<cache, unmarked>>

UseCache(p) ==
    /\ cache[p] > 0
    /\ Refused(p) \/ Unseen \/ ServedFrom(p)
    /\ UNCHANGED <<barred, marker, signedOut, call, order, left, crossed, roleVars, fraudVars>>

Load(c, p) ==
    /\ call[c].at = "idle" /\ cache[p] = 0 /\ ~signedOut /\ ~barred
    /\ call' = [call EXCEPT ![c] = [at |-> "loaded", place |-> p, aged |-> FALSE]]
    /\ UNCHANGED <<barred, cache, marker, signedOut, order, left, unmarked, crossed, roleVars, fraudVars>>

Keep(c) ==
    /\ call[c].at = "loaded"
    /\ cache' = [cache EXCEPT ![call[c].place] = EntryTtl]
    /\ call' = [call EXCEPT ![c].at = "idle"]
    /\ UNCHANGED <<barred, marker, signedOut, order, left, unmarked, crossed, roleVars, fraudVars>>

\* The user signs in again: a new token, of which no cache knows.
SignIn ==
    /\ signedOut /\ \A c \in Calls : call[c].at = "idle"
    /\ signedOut' = FALSE /\ cache' = [p \in Places |-> 0]
    /\ UNCHANGED <<barred, marker, call, order, left, unmarked, crossed, roleVars, fraudVars>>

\* Half a cache's lifetime passes. No request lasts for two of them.
Less(n) == IF n = 0 THEN 0 ELSE n - 1
TimePasses ==
    /\ \E p \in Places : cache[p] > 0
    /\ \A c \in Calls : ~(call[c].at = "loaded" /\ call[c].aged)
    /\ cache' = [p \in Places |-> Less(cache[p])] /\ marker' = Less(marker)
    /\ call' = [c \in Calls |-> [call[c] EXCEPT !.aged = TRUE]]
    /\ UNCHANGED <<barred, signedOut, order, left, unmarked, crossed, roleVars, fraudVars>>

\* setUserBan and setSuspension commit first and revoke afterwards.
Busy(o) == order[o] # "idle"
Commit(o, value) ==
    /\ ~Busy(o) /\ left > 0 /\ left' = left - 1
    /\ barred' = value /\ order' = [order EXCEPT ![o] = IF value THEN "barred" ELSE "lifted"]
    /\ crossed' = (crossed \/ \E other \in Orders : Busy(other))
    /\ UNCHANGED <<cache, marker, signedOut, call, unmarked, roleVars, fraudVars>>

WriteMarker ==
    \/ marker' = MarkerTtl /\ UNCHANGED unmarked
    \/ Faults /\ UNCHANGED marker /\ unmarked' = TRUE

InvalidateAuthCache(o) ==
    /\ order[o] = "barred" /\ order' = [order EXCEPT ![o] = "evicted"]
    /\ cache' = [cache EXCEPT ![o] = 0] /\ WriteMarker
    /\ UNCHANGED <<barred, signedOut, call, left, crossed, roleVars, fraudVars>>

RevokeUserSessions(o) ==
    /\ order[o] = "evicted" /\ order' = [order EXCEPT ![o] = "idle"]
    /\ WriteMarker /\ (signedOut' = TRUE \/ (Faults /\ UNCHANGED signedOut))
    /\ UNCHANGED <<barred, cache, call, left, crossed, roleVars, fraudVars>>

ClearRevocation(o) ==
    /\ order[o] = "lifted" /\ order' = [order EXCEPT ![o] = "idle"]
    /\ cache' = [cache EXCEPT ![o] = 0] /\ (marker' = 0 \/ (Faults /\ UNCHANGED marker))
    /\ UNCHANGED <<barred, signedOut, call, left, unmarked, crossed, roleVars, fraudVars>>
-----------------------------------------------------------------------------
(***************************************************************************)
(* Roles. The rank of the caller is read, then the role of the other       *)
(* person, then it is written.                                             *)
(***************************************************************************)
MayDecide(rank, wanted) == wanted < rank \/ (wanted = Founder /\ rank >= Founder)

ReadCallerRank(c) ==
    /\ change[c] = "idle" /\ c.by # c.on /\ role[c.by] > 0
    /\ change' = [change EXCEPT ![c] = IF MayDecide(role[c.by], c.rank) THEN "ranked" ELSE "refused"]
    /\ raced' = (raced \/ \E other \in RoleChanges : change[other] \in {"ranked", "checked"})
    /\ UNCHANGED <<role, sessionVars, fraudVars>>

ReadTargetRole(c) ==
    /\ change[c] = "ranked" /\ c.kind = "grant"
    /\ change' = [change EXCEPT ![c] = IF role[c.on] \in {0, c.rank} THEN "checked" ELSE "refused"]
    /\ UNCHANGED <<role, raced, sessionVars, fraudVars>>

GrantAdminRole(c) ==
    /\ change[c] = "checked"
    /\ role' = [role EXCEPT ![c.on] = c.rank] /\ change' = [change EXCEPT ![c] = "done"]
    /\ UNCHANGED <<raced, sessionVars, fraudVars>>

RevokeAdminRole(c) ==
    /\ change[c] = "ranked" /\ c.kind = "revoke"
    /\ IF role[c.on] = c.rank
       THEN role' = [role EXCEPT ![c.on] = 0] /\ change' = [change EXCEPT ![c] = "done"]
       ELSE UNCHANGED role /\ change' = [change EXCEPT ![c] = "refused"]
    /\ UNCHANGED <<raced, sessionVars, fraudVars>>
-----------------------------------------------------------------------------
(***************************************************************************)
(* A detected pattern is recorded, then answered user by user. A critical  *)
(* one suspends, scores, locks the escrows of active work and cancels the  *)
(* tasks; each of these may fail, and the ones after it are still made.    *)
(***************************************************************************)
Theirs(u) == u \in Posters \/ suspectTask[u] # "OPEN"
Excuse(u, why) == passed' = [passed EXCEPT ![u] = @ \cup {why}]

DetectPattern(d, level) ==
    /\ detection[d].at = "idle"
    /\ detection' = [detection EXCEPT ![d] = [at |-> "next", level |-> level, todo |-> Ring]]
    /\ UNCHANGED <<status, score, suspectTask, escrow, passed, told, sessionVars, roleVars>>

Turn(d, u) == detection[d].todo # <<>> /\ u = Head(detection[d].todo)
MoveOn(d) == detection' = [detection EXCEPT ![d].at = "next", ![d].todo = Tail(@)]

Suspend(d, u) ==
    /\ detection[d].at = "next" /\ detection[d].level = "CRITICAL" /\ Turn(d, u)
    /\ \/ /\ status' = [status EXCEPT ![u] = "SUSPENDED"] /\ UNCHANGED passed
          /\ detection' = [detection EXCEPT ![d].at = "suspended"]
       \/ Faults /\ Excuse(u, "update") /\ MoveOn(d) /\ UNCHANGED status
    /\ UNCHANGED <<score, suspectTask, escrow, told, sessionVars, roleVars>>

SetScore(u, new) ==
    /\ score' = [score EXCEPT ![u] = new]
    /\ IF new < score[u] THEN Excuse(u, "rescored") ELSE UNCHANGED passed

ScoreSuspended(d, u) ==
    /\ detection[d].at = "suspended" /\ Turn(d, u)
    /\ SetScore(u, 95) \/ (Faults /\ UNCHANGED score /\ Excuse(u, "unread"))
    /\ detection' = [detection EXCEPT ![d].at = "scored"]
    /\ UNCHANGED <<status, suspectTask, escrow, told, sessionVars, roleVars>>

LockEscrows(d, u) ==
    /\ detection[d].at = "scored" /\ Turn(d, u)
    /\ detection' = [detection EXCEPT ![d].at = "locked"]
    /\ \/ /\ Columns
          /\ IF Theirs(u) /\ suspectTask[u] \in Active /\ escrow[u] = "FUNDED"
             THEN escrow' = [escrow EXCEPT ![u] = "LOCKED_DISPUTE"] ELSE UNCHANGED escrow
          /\ IF suspectTask[u] = "OPEN" THEN Excuse(u, "open") ELSE UNCHANGED passed
       \/ (Faults \/ ~Columns) /\ Excuse(u, "lock") /\ UNCHANGED escrow
    /\ UNCHANGED <<status, score, suspectTask, told, sessionVars, roleVars>>

CancelTheirTasks(u) ==
    suspectTask' = [suspectTask EXCEPT ![u] = IF Theirs(u) /\ @ \in Active \cup {"OPEN"}
                                              THEN "CANCELLED" ELSE @]
CancelTasks(d, u) ==
    /\ detection[d].at = "locked" /\ Turn(d, u) /\ MoveOn(d)
    /\ CancelTheirTasks(u) \/ (Faults /\ UNCHANGED suspectTask)
    /\ UNCHANGED <<status, score, escrow, passed, told, sessionVars, roleVars>>

\* The other levels only flag and score; an error ends the response.
ScoreOf == [HIGH |-> 75, MEDIUM |-> 50, LOW |-> 30]
ScoreFlagged(d, u) ==
    /\ detection[d].at = "next" /\ detection[d].level \notin {"CRITICAL", "none"} /\ Turn(d, u)
    /\ \/ SetScore(u, ScoreOf[detection[d].level]) /\ MoveOn(d)
       \/ /\ Faults /\ detection[d].level = "HIGH" /\ UNCHANGED <<score, passed>>
          /\ detection' = [detection EXCEPT ![d].at = "over", ![d].todo = <<>>]
    /\ UNCHANGED <<status, suspectTask, escrow, told, sessionVars, roleVars>>

\* Every user of a critical pattern is told of a suspension.
TellUsers(d) ==
    /\ detection[d].at = "next" /\ detection[d].todo = <<>>
    /\ told' = IF detection[d].level = "CRITICAL" THEN Users ELSE told
    /\ detection' = [detection EXCEPT ![d].at = "over"]
    /\ UNCHANGED <<status, score, suspectTask, escrow, passed, sessionVars, roleVars>>

CalculateRiskScore(u, new) ==
    /\ new # score[u] /\ SetScore(u, new)
    /\ UNCHANGED <<detection, status, suspectTask, escrow, told, sessionVars, roleVars>>

\* setSuspension and setUserBan: refund idle work, lock active work, cancel the tasks.
SetSuspension(u) ==
    /\ status[u] = "ACTIVE" /\ status' = [status EXCEPT ![u] = "SUSPENDED"]
    /\ IF ~Columns THEN UNCHANGED <<escrow, suspectTask, passed>>
       ELSE /\ \/ /\ escrow[u] = "FUNDED" /\ Theirs(u) /\ suspectTask[u] \notin Active \cup {"COMPLETED"}
                  /\ \/ escrow' = [escrow EXCEPT ![u] = "REFUNDED"] /\ UNCHANGED passed
                     \/ Faults /\ UNCHANGED escrow /\ Excuse(u, "refund")
               \/ /\ escrow[u] = "FUNDED" /\ Theirs(u) /\ suspectTask[u] \in Active \cup {"COMPLETED"}
                  /\ \/ escrow' = [escrow EXCEPT ![u] = "LOCKED_DISPUTE"] /\ UNCHANGED passed
                     \/ Faults /\ UNCHANGED escrow /\ Excuse(u, "lock")
               \/ (escrow[u] # "FUNDED" \/ ~Theirs(u)) /\ UNCHANGED <<escrow, passed>>
            /\ CancelTheirTasks(u)
    /\ UNCHANGED <<detection, score, told, sessionVars, roleVars>>

Unsuspend(u) ==
    /\ status[u] = "SUSPENDED" /\ status' = [status EXCEPT ![u] = "ACTIVE"] /\ Excuse(u, "lifted")
    /\ UNCHANGED <<detection, score, suspectTask, escrow, told, sessionVars, roleVars>>

\* assertFraudRisk: the latest score decides; a read that fails lets the worker in.
Clear(u) == score[u] <= 70
AcceptTask(u) ==
    /\ suspectTask[u] = "OPEN" /\ escrow[u] = "FUNDED" /\ status[u] = "ACTIVE"
    /\ \/ (u \in Posters \/ Clear(u)) /\ UNCHANGED passed
       \/ Faults /\ Excuse(u, "unread")
    /\ suspectTask' = [suspectTask EXCEPT ![u] = "ACCEPTED"]
    /\ UNCHANGED <<detection, status, score, escrow, told, sessionVars, roleVars>>

CompleteAndRelease(u) ==
    /\ suspectTask[u] = "ACCEPTED" /\ escrow[u] = "FUNDED"
    /\ suspectTask' = [suspectTask EXCEPT ![u] = "COMPLETED"] /\ escrow' = [escrow EXCEPT ![u] = "RELEASED"]
    /\ UNCHANGED <<detection, status, score, passed, told, sessionVars, roleVars>>

Respond(d, u) ==
    \/ Suspend(d, u) \/ ScoreSuspended(d, u) \/ LockEscrows(d, u) \/ CancelTasks(d, u) \/ ScoreFlagged(d, u)
Next ==
    \/ \E p \in Places : UseCache(p) \/ \E c \in Calls : Load(c, p)
    \/ \E c \in Calls : Keep(c)
    \/ SignIn \/ TimePasses
    \/ \E o \in Orders : \/ \E value \in BOOLEAN : Commit(o, value)
                         \/ InvalidateAuthCache(o) \/ RevokeUserSessions(o) \/ ClearRevocation(o)
    \/ \E c \in RoleChanges :
           ReadCallerRank(c) \/ ReadTargetRole(c) \/ GrantAdminRole(c) \/ RevokeAdminRole(c)
    \/ \E d \in Detections : \/ \E level \in Levels : DetectPattern(d, level)
                             \/ \E u \in Users : Respond(d, u)
                             \/ TellUsers(d)
    \/ \E u \in Users : \/ \E new \in Scores : CalculateRiskScore(u, new)
                        \/ SetSuspension(u) \/ Unsuspend(u) \/ AcceptTask(u) \/ CompleteAndRelease(u)

Spec == Init /\ [][Next]_vars
-----------------------------------------------------------------------------
\* A barred account with a cached session is stopped by the marker, once its revocation is through,
\* unless Redis failed or an order to let it in overlapped (auth/middleware.ts, auth-cache.ts).
BarredIsStopped ==
    (barred /\ ~unmarked /\ ~crossed /\ \A o \in Orders : order[o] # "barred")
        => \A p \in Places : cache[p] > 0 => marker > 0

\* The last founder goes only when two founders remove each other at once.
FoundersRemain ==
    (\E first \in FirstRoles : Founder \in {first[p] : p \in Staff}) =>
        (Founder \in {role[p] : p \in Staff} \/ raced)

\* The highest rank there is rises, and a role replaces another one, only by overlapping changes.
RoleMovesNeedARace ==
    \/ raced
    \/ /\ Staff # {} => Max({role'[p] : p \in Staff}) <= Max({role[p] : p \in Staff})
       /\ \A p \in Staff : (role[p] > 0 /\ role'[p] > 0) => role'[p] = role[p]

\* A task that a response has cancelled leaves its escrow funded for a reason only.
CancelledIsSettled ==
    \A u \in Users : (suspectTask[u] = "CANCELLED" /\ escrow[u] = "FUNDED")
        => passed[u] \cap {"lock", "open", "refund"} # {}

\* A worker of an answered critical pattern has work only for a reason: the gate reads the latest score.
SuspectHasNoNewWork ==
    \A u \in Users \ Posters : (suspectTask[u] = "OPEN" /\ suspectTask'[u] = "ACCEPTED" /\ score[u] > 70)
        => "unread" \in passed'[u]

\* Whoever was told of a suspension is suspended, unless it failed or was lifted.
ToldIsSuspended ==
    \A u \in told : status[u] = "SUSPENDED" \/ passed[u] \cap {"update", "lifted"} # {}
=============================================================================
