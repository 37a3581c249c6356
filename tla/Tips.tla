--------------------------------- MODULE Tips ---------------------------------
(***************************************************************************)
(* The tip of a completed task (TippingService): a poster's calls look for *)
(* a tip, make a PaymentIntent outside of any transaction and insert the   *)
(* row; a call that cannot insert cancels what it made; the poster pays    *)
(* with the secret a call returned and asks to confirm.                    *)
(***************************************************************************)
EXTENDS Integers, FiniteSets

CONSTANTS
    Calls,      \* calls of createTip by the task's poster
    Confirmers, \* calls of confirmTip
    Amounts,    \* in cents
    Price,      \* tasks.price, in cents
    Faults,     \* what may fail: "stripe", "insert", "lose", "cancel", "book", "die"
    MaxDays,    \* how often Stripe forgets an idempotency key
    MaxBooked   \* bound on ledger entries

TipsAssumption ==
    /\ Amounts \subseteq Nat /\ Price \in Nat \ {0}
    /\ Faults \subseteq {"stripe", "insert", "lose", "cancel", "book", "die"}
    /\ MaxDays \in Nat \ {0} /\ MaxBooked \in Nat

VARIABLES
    tip,       \* the row of tips, unique by task and poster
    intents,   \* PaymentIntents at Stripe
    day,       \* the generation of each amount's idempotency key
    call,      \* where each call of createTip stands
    secrets,   \* intents whose client secret the poster was given
    confirm,   \* where each call of confirmTip stands
    booked,    \* "tip_received" entries of revenue_ledger
    crossed    \* history: amounts of which two calls overlapped or an insert failed

vars == <<tip, intents, day, call, secrets, confirm, booked, crossed>>

None == [status |-> "none"]
Free == [pc |-> "free"]
Intents == [amount : Amounts, day : 1..MaxDays]

Init ==
    /\ tip = None
    /\ intents = [i \in Intents |-> "none"]
    /\ day = [a \in Amounts |-> 1]
    /\ call = [c \in Calls |-> Free]
    /\ secrets = {}
    /\ confirm = [k \in Confirmers |-> "free"]
    /\ booked = 0 /\ crossed = {}

Rows == [amount : Amounts, intent : Intents, status : {"pending", "completed"}]

TypeOK ==
    /\ tip \in {None} \cup Rows
    /\ intents \in [Intents -> {"none", "open", "paid", "cancelled"}]
    /\ day \in [Amounts -> 1..MaxDays]
    /\ call \in [Calls -> {Free} \cup [pc : {"check", "create"}, amount : Amounts]
                               \cup [pc : {"insert", "undo"}, amount : Amounts, intent : Intents]]
    /\ secrets \subseteq Intents
    /\ confirm \in [Confirmers -> {"free", "update", "book"}]
    /\ booked \in Nat
    /\ crossed \subseteq Amounts

-----------------------------------------------------------------------------
\* createTip

\* The code takes the price, which is in cents, for dollars.
Cap == (Price * 100) \div 2
Allowed(a) == a >= 100 /\ a <= 50000 /\ a <= Cap

\* The task is completed and somebody else's work: neither changes any more.
CreateTip(c, a) ==
    /\ call[c] = Free /\ Allowed(a)
    /\ call' = [call EXCEPT ![c] = [pc |-> "check", amount |-> a]]
    /\ UNCHANGED <<tip, intents, day, secrets, confirm, booked, crossed>>

\* The calls that have found no tip and have not ended.
Creating(c) == call[c].pc \in {"create", "insert", "undo"}

\* The transaction under the advisory lock, which its commit gives back.
Check(c) ==
    /\ call[c].pc = "check"
    /\ IF tip = None
       THEN /\ call' = [call EXCEPT ![c] = [pc |-> "create", amount |-> call[c].amount]]
            /\ crossed' = IF \E d \in Calls : Creating(d) /\ call[d].amount = call[c].amount
                          THEN crossed \cup {call[c].amount} ELSE crossed
       ELSE call' = [call EXCEPT ![c] = Free] /\ UNCHANGED crossed
    /\ UNCHANGED <<tip, intents, day, secrets, confirm, booked>>

\* The key names task, poster and amount: within a day Stripe answers with the
\* intent that was made first, whatever became of it.
IntentOf(a) == [amount |-> a, day |-> day[a]]
Made(i) == [intents EXCEPT ![i] = IF @ = "none" THEN "open" ELSE @]

CreateIntent(c) ==
    /\ call[c].pc = "create"
    /\ LET i == IntentOf(call[c].amount)
       IN  \/ /\ intents' = Made(i)
              /\ call' = [call EXCEPT ![c] = [pc |-> "insert", amount |-> call[c].amount, intent |-> i]]
           \/ /\ "stripe" \in Faults
              /\ intents' \in {intents, Made(i)}
              /\ call' = [call EXCEPT ![c] = Free]
    /\ UNCHANGED <<tip, day, secrets, confirm, booked, crossed>>

KeyExpires(a) ==
    /\ day[a] < MaxDays
    /\ day' = [day EXCEPT ![a] = @ + 1]
    /\ UNCHANGED <<tip, intents, call, secrets, confirm, booked, crossed>>

\* The row, and the secret for the poster.
Inserted(c) == [amount |-> call[c].amount, intent |-> call[c].intent, status |-> "pending"]

Insert(c) ==
    /\ call[c].pc = "insert" /\ tip = None
    /\ tip' = Inserted(c)
    /\ secrets' = secrets \cup {call[c].intent}
    /\ call' = [call EXCEPT ![c] = Free]
    /\ UNCHANGED <<intents, day, confirm, booked, crossed>>

\* It fails on the row of another call, or for itself, perhaps after it was
\* committed.
InsertFails(c) ==
    /\ call[c].pc = "insert"
    /\ \/ tip # None /\ UNCHANGED <<tip, crossed>>
       \/ /\ "insert" \in Faults
          /\ crossed' = crossed \cup {call[c].amount} /\ UNCHANGED tip
       \/ /\ "lose" \in Faults /\ tip = None
          /\ crossed' = crossed \cup {call[c].amount} /\ tip' = Inserted(c)
    /\ call' = [call EXCEPT ![c] = [pc |-> "undo", amount |-> call[c].amount, intent |-> call[c].intent]]
    /\ UNCHANGED <<intents, day, secrets, confirm, booked>>

\* paymentIntents.cancel, of an intent that may be another call's as well.
Cancel(c) ==
    /\ call[c].pc = "undo"
    /\ \/ intents' = [intents EXCEPT ![call[c].intent] = IF @ = "open" THEN "cancelled" ELSE @]
       \/ "cancel" \in Faults /\ UNCHANGED intents
    /\ call' = [call EXCEPT ![c] = Free]
    /\ UNCHANGED <<tip, day, secrets, confirm, booked, crossed>>

-----------------------------------------------------------------------------
\* The poster pays with a secret: a destination charge, all of it the worker's.
Pay(i) ==
    /\ i \in secrets /\ intents[i] = "open"
    /\ intents' = [intents EXCEPT ![i] = "paid"]
    /\ UNCHANGED <<tip, day, call, secrets, confirm, booked, crossed>>

\* confirmTip: the router takes the row's own intent, the service asks Stripe for
\* its status and amount.
Confirmable == tip # None /\ tip.intent.amount = tip.amount

ConfirmTip(k) ==
    /\ confirm[k] = "free" /\ Confirmable /\ intents[tip.intent] = "paid"
    /\ confirm' = [confirm EXCEPT ![k] = "update"]
    /\ UNCHANGED <<tip, intents, day, call, secrets, booked, crossed>>

\* The UPDATE does not ask for the status.
Complete(k) ==
    /\ confirm[k] = "update" /\ tip # None
    /\ tip' = [tip EXCEPT !.status = "completed"]
    /\ confirm' = [confirm EXCEPT ![k] = "book"]
    /\ UNCHANGED <<intents, day, call, secrets, booked, crossed>>

\* RevenueService.logEvent, whose failure changes nothing.
Book(k) ==
    /\ confirm[k] = "book"
    /\ \/ booked < MaxBooked /\ booked' = booked + 1
       \/ "book" \in Faults /\ UNCHANGED booked
    /\ confirm' = [confirm EXCEPT ![k] = "free"]
    /\ UNCHANGED <<tip, intents, day, call, secrets, crossed>>

\* The process of a call ends.
Die ==
    /\ "die" \in Faults
    /\ \/ \E c \in Calls : call' = [call EXCEPT ![c] = Free] /\ UNCHANGED confirm
       \/ \E k \in Confirmers : confirm' = [confirm EXCEPT ![k] = "free"] /\ UNCHANGED call
    /\ UNCHANGED <<tip, intents, day, secrets, booked, crossed>>

Next ==
    \/ \E c \in Calls : \/ \E a \in Amounts : CreateTip(c, a)
                        \/ Check(c) \/ CreateIntent(c) \/ Insert(c) \/ InsertFails(c) \/ Cancel(c)
    \/ \E a \in Amounts : KeyExpires(a)
    \/ \E i \in Intents : Pay(i)
    \/ \E k \in Confirmers : ConfirmTip(k) \/ Complete(k) \/ Book(k)
    \/ Die

Spec == Init /\ [][Next]_vars

-----------------------------------------------------------------------------
\* However many calls overlap or fail, the poster pays one tip, the one on
\* record, and it is completed and booked only when it is paid.
PaidIsTheTip ==
    /\ \A i \in Intents : intents[i] = "paid" => tip # None /\ tip.intent = i
    /\ tip # None /\ tip.status = "completed" => intents[tip.intent] = "paid"
    /\ booked > 0 => tip # None /\ tip.status = "completed"

\* A tip that can never be paid, because the intent it names was cancelled, and
\* that keeps every other tip out, comes of two overlapping calls of one amount
\* or of an insert that failed.
DeadTipNeedsARace ==
    tip # None /\ intents[tip.intent] = "cancelled" => tip.amount \in crossed

\* Of a tip (TippingService: "Max tip: 50% of task price").
TipIsCapped == tip # None => 2 * tip.amount <= Price

\* Of confirmations: the ledger has one entry of a tip.
TipBookedOnce == booked <= 1

-----------------------------------------------------------------------------
(***************************************************************************)
(* Both invariants hold for any calls, amounts, prices and faults.  Money  *)
(* follows the secret: it is given out by the one insert that succeeds,    *)
(* and the row keeps its intent.  What the loser of a race cancels is its  *)
(* own amount's intent, and a call that is still creating is of the tip's  *)
(* amount only if the amount was crossed.                                  *)
(***************************************************************************)
MoneyFollowsSecret ==
    /\ \A i \in secrets : tip # None /\ tip.intent = i
    /\ \A i \in Intents : intents[i] = "paid" => i \in secrets
    /\ \A k \in Confirmers : confirm[k] # "free" => tip # None /\ intents[tip.intent] = "paid"
    /\ \A k \in Confirmers : confirm[k] = "book" => tip.status = "completed"
    /\ tip # None /\ tip.status = "completed" => intents[tip.intent] = "paid"
    /\ booked > 0 => tip # None /\ tip.status = "completed"

CancelledIsAnothers ==
    /\ \A c \in Calls : call[c].pc \in {"insert", "undo"} => call[c].intent.amount = call[c].amount
    /\ \A c, d \in Calls : c # d /\ Creating(c) /\ Creating(d) /\ call[c].amount = call[d].amount
                               => call[c].amount \in crossed
    /\ tip # None => tip.intent.amount = tip.amount
    /\ tip # None => \A c \in Calls : Creating(c) /\ call[c].amount = tip.amount => tip.amount \in crossed
    /\ \A c \in Calls : call[c].pc = "undo" =>
           call[c].amount \in crossed \/ (tip # None /\ tip.amount # call[c].amount)
    /\ \A i \in Intents : intents[i] = "cancelled" =>
           i.amount \in crossed \/ (tip # None /\ tip.amount # i.amount)
===============================================================================
