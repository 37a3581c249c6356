----------------------------- MODULE PersonalData -----------------------------
(***************************************************************************)
(* What an erasure does to each kind of record of a user, beside requests  *)
(* of the user that are still under way, other people's records that name  *)
(* the user, an export that reads one kind after another, and the cool-    *)
(* down of such requests, which every process keeps for itself.            *)
(***************************************************************************)
EXTENDS Naturals, FiniteSets

CONSTANTS
    Deleted, Redacted, Unlinked, Kept,  \* kinds of records, by what the erasure does to them
    Restricting,                        \* deleted kinds that other records hold on to
    Exported, Recent,                   \* kinds an export reads; those it reads in part
    Requests,                           \* requests of the user that write records
    Processes, MaxRestarts              \* API processes; bound on their restarts

Kinds == Deleted \cup Redacted \cup Unlinked \cup Kept

PersonalDataAssumption ==
    /\ Restricting \subseteq Deleted /\ Recent \subseteq Exported /\ Exported \subseteq Kinds
    /\ \A A, B \in {Deleted, Redacted, Unlinked, Kept} : A = B \/ A \cap B = {}
    /\ MaxRestarts \in Nat

VARIABLES
    rows,      \* of a kind: what of the user it has
    held,      \* restricting kinds that a notice or a receipt refers to
    session,   \* whether the user's sessions are valid
    erased, failed,
    request,   \* where a request is
    again,     \* kinds written after the erasure
    file,      \* what an export has read, and whether it has ended
    stamp,     \* processes that remember the last request
    allowed, restarts

dataVars == <<rows, held, again>>
limitVars == <<stamp, allowed, restarts>>
vars == <<dataVars, session, erased, failed, request, file, limitVars>>

TypeOK ==
    /\ rows \in [Kinds -> {"none", "own", "masked", "unlinked"}]
    /\ held \subseteq Restricting /\ again \subseteq Kinds
    /\ {session, erased, failed} \subseteq BOOLEAN
    /\ request \in [Requests -> {"idle", "admitted", "done"}]
    /\ file \in [read : SUBSET Exported, got : SUBSET Exported, masked : SUBSET Exported]
    /\ stamp \subseteq Processes /\ allowed \in Nat /\ restarts \in 0..MaxRestarts

Init ==
    /\ rows = [k \in Kinds |-> "none"] /\ held = {} /\ again = {}
    /\ session = TRUE /\ erased = FALSE /\ failed = FALSE
    /\ request = [r \in Requests |-> "idle"]
    /\ file = [read |-> {}, got |-> {}, masked |-> {}]
    /\ stamp = {} /\ allowed = 0 /\ restarts = 0

-----------------------------------------------------------------------------
\* The session is looked at when a request comes, and the record is written after that.
Admit(r) ==
    /\ request[r] = "idle" /\ session /\ request' = [request EXCEPT ![r] = "admitted"]
    /\ UNCHANGED <<dataVars, session, erased, failed, file, limitVars>>

WriteRecord(r, k) ==
    /\ request[r] = "admitted" /\ request' = [request EXCEPT ![r] = "done"]
    /\ rows' = [rows EXCEPT ![k] = "own"]
    /\ again' = IF erased THEN again \cup {k} ELSE again
    /\ UNCHANGED <<held, session, erased, failed, file, limitVars>>

\* A notice, a dispute or a provider's report of a check refers to it, ON DELETE RESTRICT.
HoldOn(k) ==
    /\ k \in Restricting \ held /\ rows[k] = "own" /\ held' = held \cup {k}
    /\ UNCHANGED <<rows, again, session, erased, failed, request, file, limitVars>>

-----------------------------------------------------------------------------
\* The statements of the serializable transaction, by what they do to a kind.
AfterDelete(k) == "none"
AfterRedaction(k) == IF rows[k] = "none" THEN "none" ELSE "masked"
AfterUnlinking(k) == IF rows[k] = "none" THEN "none" ELSE "unlinked"

Outcome ==
    [k \in Kinds |->
        IF k \in Deleted THEN AfterDelete(k)
        ELSE IF k \in Redacted THEN AfterRedaction(k)
        ELSE IF k \in Unlinked THEN AfterUnlinking(k)
        ELSE rows[k]]
\* One referenced check stops all of it.
EraseAll ==
    /\ ~erased
    /\ IF \E k \in held : rows[k] = "own"
       THEN failed' = TRUE /\ UNCHANGED <<rows, erased>>
       ELSE rows' = Outcome /\ erased' = TRUE /\ UNCHANGED failed
    /\ UNCHANGED <<held, again, session, request, file, limitVars>>

\* Auth cache, live streams and tokens, after the commit.
RevokeSessions ==
    /\ erased /\ session /\ session' = FALSE
    /\ UNCHANGED <<dataVars, erased, failed, request, file, limitVars>>

-----------------------------------------------------------------------------
\* Each kind is a query of its own; messages and events older than 90 days stay out.
CollectUserDataForExport(k) ==
    /\ k \in Exported \ file.read
    /\ file' = [read |-> file.read \cup {k},
                got |-> IF rows[k] = "own" /\ k \notin Recent THEN file.got \cup {k} ELSE file.got,
                masked |-> IF rows[k] = "masked" THEN file.masked \cup {k} ELSE file.masked]
    /\ UNCHANGED <<dataVars, session, erased, failed, request, limitVars>>

\* Nothing else is in progress: a Map of the process decides.
CheckRateLimit(p) ==
    /\ p \notin stamp /\ stamp' = stamp \cup {p} /\ allowed' = allowed + 1
    /\ UNCHANGED <<dataVars, session, erased, failed, request, file, restarts>>

Restart(p) ==
    /\ p \in stamp /\ restarts < MaxRestarts
    /\ stamp' = stamp \ {p} /\ restarts' = restarts + 1
    /\ UNCHANGED <<dataVars, session, erased, failed, request, file, allowed>>

Next ==
    \/ \E r \in Requests : Admit(r) \/ \E k \in Kinds : WriteRecord(r, k)
    \/ \E k \in Kinds : HoldOn(k) \/ CollectUserDataForExport(k)
    \/ EraseAll \/ RevokeSessions
    \/ \E p \in Processes : CheckRateLimit(p) \/ Restart(p)

Spec == Init /\ [][Next]_vars

-----------------------------------------------------------------------------
\* After an erasure the user's own words are only where they were kept on purpose or written again
\* by a request that a session let in before it was revoked.
RemainsWereRewritten ==
    erased => \A k \in Kinds : rows[k] = "own" => k \in Kept \cup again

\* Once the sessions are gone and no request is under way, nothing is written again.
NothingComesBack ==
    ~session /\ (\A r \in Requests : request[r] # "admitted")
        => \A k \in Kinds : rows'[k] = rows[k]

\* A file that has masked records was begun or ended after the erasure.
MaskedAfterErasure == file.masked # {} => erased

\* The cool-down lets one request through per process and restart.
CooldownPerProcess == allowed <= Cardinality(Processes) + restarts

\* What the documentation promises: an erasure leaves nothing of the user's own that an export had
\* shown; an export has everything there is; one request per cool-down.
ExportedIsErased == erased => \A k \in Exported : rows[k] # "own"
ExportIsComplete == file.read = Exported /\ ~erased => \A k \in Kinds : rows[k] = "own" => k \in file.got
OncePerCooldown == allowed <= 1
=============================================================================
