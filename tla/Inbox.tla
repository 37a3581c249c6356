--------------------------------- MODULE Inbox ---------------------------------
(***************************************************************************)
(* What a user has on the receiving side of notifications: the devices that*)
(* pushes go to, the preferences, the address that emails are queued to,   *)
(* the notifications themselves until they are cleaned up, and the end of  *)
(* the quiet hours that a delivery waits for.                              *)
(***************************************************************************)
EXTENDS Integers, FiniteSets, Folds

CONSTANTS
    Users, Tokens,             \* accounts; FCM tokens, one per device
    Registrations,             \* calls of registerDeviceToken
    Pushes,                    \* pushes that are sent
    Cap,                       \* DEVICE_TOKEN_CAP
    Savers, Values,            \* calls of updatePreferences; what a preference can be
    Emailed,                   \* whether the one notification goes out by email
    MaxMoves,                  \* bound on changes of hands and of address
    Day, Jumps                 \* hours of the day; hours at which clocks go back, or no hour

InboxAssumption ==
    /\ Cap \in Nat \ {0} /\ MaxMoves \in Nat /\ Emailed \in BOOLEAN /\ Day \in Nat \ {0}
    /\ Jumps \subseteq Int /\ "none" \notin Users \cup Values

VARIABLES
    tokens,                    \* device_tokens: the rows of a user, oldest first, and the active ones
    owner,                     \* who uses the device
    registering,               \* where a registration is
    push,                      \* where a push is, and the tokens it has read
    shared, overlapped,        \* tokens that changed hands; users whose registrations overlapped
    prefs, saving, asked,      \* the row; where a save is; the value last saved of each field
    address, email,            \* users.email; email_outbox, by address, and its outbox event
    note,                      \* the notification
    moves

deviceVars == <<tokens, owner, registering, push, shared, overlapped>>
prefVars == <<prefs, saving, asked>>
emailVars == <<address, email, note>>
vars == <<deviceVars, prefVars, emailVars, moves>>

Fields == {"push", "email"}
Active(u) == tokens[u].active
NoRow == [f \in Fields |-> "none"]

TypeOK ==
    /\ \A u \in Users : tokens[u].active \subseteq Tokens /\ tokens[u].order \in [Tokens -> 0..Cardinality(Tokens)]
    /\ owner \in [Tokens -> Users]
    /\ registering \in [Registrations -> [at : {"idle", "counted", "trimmed", "done"},
                                          user : Users, token : Tokens, full : BOOLEAN]]
    /\ push \in [Pushes -> [at : {"idle", "read", "done"}, user : Users, to : SUBSET Tokens]]
    /\ shared \subseteq Tokens /\ overlapped \subseteq Users
    /\ {prefs, asked} \subseteq [Fields -> Values \cup {"none"}]
    /\ saving \in [Savers -> {"idle", "insert", "done", "failed"}]
    /\ address \in 0..MaxMoves
    /\ email \in [rows : SUBSET (0..MaxMoves), events : SUBSET (0..MaxMoves)]
    /\ note \in {"fresh", "read", "expired", "gone"}
    /\ moves \in 0..MaxMoves

Init ==
    /\ tokens = [u \in Users |-> [active |-> {}, order |-> [t \in Tokens |-> 0]]]
    /\ owner \in [Tokens -> Users]
    /\ registering \in [Registrations -> [at : {"idle"}, user : Users, token : Tokens, full : {FALSE}]]
    /\ push \in [Pushes -> [at : {"idle"}, user : Users, to : {{}}]]
    /\ shared = {} /\ overlapped = {}
    /\ prefs = NoRow /\ saving = [s \in Savers |-> "idle"] /\ asked = NoRow
    /\ address = 0 /\ email = [rows |-> {}, events |-> {}] /\ note = "fresh" /\ moves = 0

-----------------------------------------------------------------------------
\* registerDeviceToken: a count of the other active tokens, ...
Others(r) == tokens[registering[r].user].active \ {registering[r].token}

Count(r) ==
    /\ registering[r].at = "idle" /\ owner[registering[r].token] = registering[r].user
    /\ registering' = [registering EXCEPT ![r].at = "counted", ![r].full = Cardinality(Others(r)) >= Cap]
    /\ overlapped' = IF \E q \in Registrations \ {r} : registering[q].user = registering[r].user
                                                   /\ registering[q].at \in {"counted", "trimmed"}
                     THEN overlapped \cup {registering[r].user} ELSE overlapped
    /\ UNCHANGED <<tokens, owner, push, shared, prefVars, emailVars, moves>>

\* ... the end of the oldest when they are too many, ...
Trim(r) ==
    LET u == registering[r].user
        oldest == {t \in Others(r) : \A q \in Others(r) : tokens[u].order[t] <= tokens[u].order[q]} IN
    /\ registering[r].at = "counted"
    /\ registering' = [registering EXCEPT ![r].at = "trimmed"]
    /\ IF registering[r].full /\ oldest # {}
       THEN \E t \in oldest : tokens' = [tokens EXCEPT ![u].active = @ \ {t}, ![u].order[t] = 0]
       ELSE UNCHANGED tokens
    /\ UNCHANGED <<owner, push, shared, overlapped, prefVars, emailVars, moves>>
\* ... and the row, which is unique for the user and the token.
Newest(u) == Cardinality({t \in Tokens : tokens[u].order[t] # 0}) + 1
Register(r) ==
    LET u == registering[r].user  t == registering[r].token IN
    /\ registering[r].at = "trimmed"
    /\ registering' = [registering EXCEPT ![r].at = "done"]
    /\ tokens' = [tokens EXCEPT ![u].active = @ \cup {t},
                                ![u].order[t] = IF @ = 0 THEN Newest(u) ELSE @]
    /\ UNCHANGED <<owner, push, shared, overlapped, prefVars, emailVars, moves>>

Unregister(u, t) ==
    /\ t \in Active(u) /\ owner[t] = u
    /\ tokens' = [tokens EXCEPT ![u].active = @ \ {t}]
    /\ UNCHANGED <<owner, registering, push, shared, overlapped, prefVars, emailVars, moves>>

\* revokeUserSessions silences every device of the account.
RevokeUserSessions(u) ==
    /\ Active(u) # {}
    /\ tokens' = [tokens EXCEPT ![u].active = {}]
    /\ UNCHANGED <<owner, registering, push, shared, overlapped, prefVars, emailVars, moves>>

\* Another account signs in on the device; nothing on the server notices.
ChangeHands(t, v) ==
    /\ owner[t] # v /\ moves < MaxMoves /\ moves' = moves + 1
    /\ owner' = [owner EXCEPT ![t] = v]
    /\ shared' = IF \/ t \in Active(owner[t])
                    \/ \E r \in Registrations : registering[r].token = t /\ registering[r].at \in {"counted", "trimmed"}
                    \/ \E p \in Pushes : t \in push[p].to /\ push[p].at = "read"
                 THEN shared \cup {t} ELSE shared
    /\ UNCHANGED <<tokens, registering, push, overlapped, prefVars, emailVars>>

\* sendPushNotification reads the active tokens, then hands all of them to FCM, which may say
\* that a token is dead: its rows of every account are made inactive.
ReadTokens(p) ==
    /\ push[p].at = "idle"
    /\ push' = [push EXCEPT ![p].at = "read", ![p].to = Active(push[p].user)]
    /\ UNCHANGED <<tokens, owner, registering, shared, overlapped, prefVars, emailVars, moves>>

Multicast(p) ==
    /\ push[p].at = "read"
    /\ push' = [push EXCEPT ![p].at = "done"]
    /\ \E dead \in SUBSET push[p].to :
          tokens' = [u \in Users |-> [tokens[u] EXCEPT !.active = @ \ dead]]
    /\ UNCHANGED <<owner, registering, shared, overlapped, prefVars, emailVars, moves>>

-----------------------------------------------------------------------------
\* updatePreferences: the row is looked for first. With a row the given fields are updated; without
\* one a row is inserted, which fails when another call was faster.
Given(s, v) == [f \in Fields |-> IF f = s THEN v ELSE "none"]

UpdateFields(s, f, v) ==
    /\ saving[s] = "idle" /\ prefs # NoRow /\ saving' = [saving EXCEPT ![s] = "done"]
    /\ prefs' = [prefs EXCEPT ![f] = v] /\ asked' = [asked EXCEPT ![f] = v]
    /\ UNCHANGED <<deviceVars, emailVars, moves>>

FindNoPreferences(s) ==
    /\ saving[s] = "idle" /\ prefs = NoRow /\ saving' = [saving EXCEPT ![s] = "insert"]
    /\ UNCHANGED <<deviceVars, prefs, asked, emailVars, moves>>

Default == [push |-> "on", email |-> "off"]
Inserted(f, v) == [Default EXCEPT ![f] = v]

InsertPreferences(s, f, v) ==
    /\ saving[s] = "insert"
    /\ IF prefs = NoRow
       THEN prefs' = Inserted(f, v) /\ asked' = Given(f, v) /\ saving' = [saving EXCEPT ![s] = "done"]
       ELSE saving' = [saving EXCEPT ![s] = "failed"] /\ UNCHANGED <<prefs, asked>>
    /\ UNCHANGED <<deviceVars, emailVars, moves>>
-----------------------------------------------------------------------------
ChangeAddress ==
    /\ Emailed /\ moves < MaxMoves /\ moves' = moves + 1 /\ address' = address + 1
    /\ UNCHANGED <<deviceVars, prefVars, email, note>>

\* queueEmailNotification: both rows have a key made of the address and the notification.
QueueEmail ==
    /\ Emailed /\ note \in {"fresh", "read"} /\ address \notin email.rows
    /\ email' = [rows |-> email.rows \cup {address}, events |-> email.events \cup {address}]
    /\ UNCHANGED <<deviceVars, prefVars, address, note, moves>>

MarkAsRead ==
    /\ Emailed /\ note = "fresh" /\ note' = "read"
    /\ UNCHANGED <<deviceVars, prefVars, address, email, moves>>

Expire ==
    /\ Emailed /\ note = "fresh" /\ note' = "expired"
    /\ UNCHANGED <<deviceVars, prefVars, address, email, moves>>

\* The maintenance job: read ones after 30 days, expired ones at once. What was queued stays.
CleanUp ==
    /\ note \in {"read", "expired"} /\ note' = "gone"
    /\ UNCHANGED <<deviceVars, prefVars, address, email, moves>>

Next ==
    \/ \E r \in Registrations : Count(r) \/ Trim(r) \/ Register(r)
    \/ \E u \in Users : RevokeUserSessions(u) \/ \E t \in Tokens : Unregister(u, t) \/ ChangeHands(t, u)
    \/ \E p \in Pushes : ReadTokens(p) \/ Multicast(p)
    \/ \E s \in Savers : FindNoPreferences(s)
          \/ \E f \in Fields, v \in Values : UpdateFields(s, f, v) \/ InsertPreferences(s, f, v)
    \/ ChangeAddress \/ QueueEmail \/ MarkAsRead \/ Expire \/ CleanUp

Spec == Init /\ [][Next]_vars

-----------------------------------------------------------------------------
\* nextQuietHoursEnd on a clock of Day hours, which goes back by one hour at jump.
Offset(i, jump) == IF jump >= 0 /\ i >= jump THEN -1 ELSE 0
Local(i, jump) == i + Offset(i, jump)
Clock(i, jump) == Local(i, jump) % Day

InQuiet(now, start, end) ==
    IF start > end THEN now >= start \/ now < end ELSE now >= start /\ now < end

\* zonedDateTimeToDate: four corrections of a first guess.
ZonedToInstant(target, jump) ==
    MapThenFoldSet(LAMBDA a, c : c + (target - Local(c, jump)), target, LAMBDA k : k,
                   LAMBDA S : CHOOSE k \in S : TRUE, 1..4)

NextQuietHoursEnd(now, start, end, jump) ==
    LET clock == Clock(now, jump)
        midnight == Local(now, jump) - clock
        day == IF start > end /\ clock >= start THEN Day ELSE 0
    IN IF start # end /\ InQuiet(clock, start, end)
       THEN ZonedToInstant(midnight + day + end, jump) ELSE -1

-----------------------------------------------------------------------------
\* More active devices than the cap only after registrations that overlapped.
CapNeedsARace ==
    \A u \in Users : u \notin overlapped => Cardinality(Active(u)) <= Cap

\* A push reaches a device of somebody else only where the device was handed on while active.
LeakNeedsSharing ==
    \A p \in Pushes : push[p].at = "read" =>
        \A t \in push[p].to : owner[t] = push[p].user \/ t \in shared

\* A field has the value that was last saved, or its default.
SavedIsKept ==
    \A f \in Fields : asked[f] # "none" => prefs[f] = asked[f]

\* A notification is emailed twice only to a user whose address changed in between.
TwoEmailsNeedAMove ==
    Cardinality(email.rows) > 1 => \E a \in email.rows : a < address /\ moves > 0

\* The end of the quiet hours is ahead, within a day, and not quiet itself.
QuietEnds ==
    \A now \in Day..(2 * Day - 1), start, end \in 0..(Day - 1), jump \in Jumps :
        LET until == NextQuietHoursEnd(now, start, end, jump) IN
        until # -1 => until > now /\ until <= now + Day + 1 /\ Clock(until, jump) = end

\* What the source says: a device has the pushes of the account that uses it; a cap of devices; one
\* email per notification.
NoForeignPush == \A p \in Pushes : \A t \in push[p].to : push[p].at = "read" => owner[t] = push[p].user
CapIsCap == \A u \in Users : Cardinality(Active(u)) <= Cap
OneEmail == Cardinality(email.rows) <= 1
=============================================================================
