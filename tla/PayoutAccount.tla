----------------------------- MODULE PayoutAccount ----------------------------
(***************************************************************************)
(* A worker's Stripe Connect account and tax form (StripeConnectService,   *)
(* TaskPayoutDestinationService, handleAccountUpdated of                   *)
(* jobs/stripe-event-worker): onboarding makes the account at Stripe, then *)
(* writes its name to the user; what Stripe says of it later arrives as    *)
(* account.updated events and is what payouts are decided by.              *)
(***************************************************************************)
EXTENDS Naturals, Sequences, SequencesExt

CONSTANTS
    Accounts,   \* accounts that can be made at Stripe
    Callers,    \* concurrent requests of the worker
    Ordered,    \* whether events are handled one by one in Stripe's order
    Faults,     \* whether a request can fail or die between its steps
    MaxChanges  \* bound on the changes of status at Stripe

PayoutAccountAssumption == {Ordered, Faults} \subseteq BOOLEAN /\ MaxChanges \in Nat

VARIABLES
    linked,  \* users.stripe_connect_id
    enabled, \* users.payouts_enabled
    account, \* accounts at Stripe
    links,   \* accounts with an onboarding link
    call,    \* requests under way
    updates, \* account.updated events on their way
    changes, \* changes of status so far
    form,    \* the worker's current tax form (tax_forms, pending or verified)
    had      \* whether there has been one

vars == <<linked, enabled, account, links, call, updates, changes, form, had>>
userVars == <<linked, enabled>>
stripeVars == <<account, links, updates, changes>>
taxVars == <<form, had>>

Idle == [pc |-> "idle"]

TypeOK ==
    /\ linked \in {"none"} \cup Accounts /\ enabled \in BOOLEAN
    /\ account \in [Accounts -> {"none", "new", "enabled", "restricted"}]
    /\ links \subseteq Accounts
    /\ call \in [Callers -> {Idle} \cup [pc : {"create", "insert"}] \cup [pc : {"save", "link"}, of : Accounts]]
    /\ updates \in Seq([of : Accounts, on : BOOLEAN, matched : BOOLEAN])
    /\ changes \in 0..MaxChanges
    /\ form \in {"none", "pending", "verified"} /\ had \in BOOLEAN

Init ==
    /\ linked = "none" /\ enabled = FALSE
    /\ account = [a \in Accounts |-> "none"] /\ links = {}
    /\ call = [c \in Callers |-> Idle] /\ updates = <<>> /\ changes = 0
    /\ form = "none" /\ had = FALSE

At(c, pc) == call[c].pc = pc
Return(c) == call' = [call EXCEPT ![c] = Idle]

-----------------------------------------------------------------------------
\* getOrCreateConnectAccount: what the user row says first.
ReadUser(c) ==
    /\ call[c] = Idle
    /\ call' = [call EXCEPT ![c] = IF linked = "none" THEN [pc |-> "create"]
                                   ELSE [pc |-> "link", of |-> linked]]
    /\ UNCHANGED <<userVars, stripeVars, taxVars>>

\* stripe.accounts.create, under no idempotency key.
CreateAccount(c, a) ==
    /\ At(c, "create") /\ account[a] = "none"
    /\ account' = [account EXCEPT ![a] = "new"]
    /\ \/ call' = [call EXCEPT ![c] = [pc |-> "save", of |-> a]]
       \/ Faults /\ Return(c)
    /\ UNCHANGED <<userVars, links, updates, changes, taxVars>>

\* UPDATE users, whatever the row says by now.
SaveAccount(c) ==
    /\ At(c, "save")
    /\ \/ /\ linked' = call[c].of
          /\ call' = [call EXCEPT ![c].pc = "link"]
       \/ Faults /\ Return(c) /\ UNCHANGED linked
    /\ UNCHANGED <<enabled, stripeVars, taxVars>>

CreateOnboardingLink(c) ==
    /\ At(c, "link")
    /\ \/ links' = links \cup {call[c].of}
       \/ Faults /\ UNCHANGED links
    /\ Return(c)
    /\ UNCHANGED <<userVars, account, updates, changes, taxVars>>

-----------------------------------------------------------------------------
\* The worker onboards by a link; Stripe restricts and restores the account.
StatusChanges(a) ==
    /\ changes < MaxChanges /\ changes' = changes + 1
    /\ \/ account[a] = "new" /\ a \in links
       \/ account[a] \in {"enabled", "restricted"}
    /\ account' = [account EXCEPT ![a] = IF @ = "enabled" THEN "restricted" ELSE "enabled"]
    /\ updates' = Append(updates, [of |-> a, on |-> account[a] # "enabled", matched |-> FALSE])
    /\ UNCHANGED <<userVars, links, call, taxVars>>

Turn(i) == i \in DOMAIN updates /\ (Ordered => i = 1)

\* handleAccountUpdated finds the user of the account; an unknown one is dropped.
MatchUser(i) ==
    /\ Turn(i) /\ ~updates[i].matched
    /\ updates' = IF linked = updates[i].of THEN [updates EXCEPT ![i].matched = TRUE]
                                            ELSE RemoveAt(updates, i)
    /\ UNCHANGED <<userVars, account, links, call, changes, taxVars>>

\* ... and writes what this event says to that user.
WriteStatus(i) ==
    /\ Turn(i) /\ updates[i].matched
    /\ enabled' = updates[i].on
    /\ updates' = RemoveAt(updates, i)
    /\ UNCHANGED <<linked, account, links, call, changes, taxVars>>

-----------------------------------------------------------------------------
\* submitTaxInfo: the old form expires, then the new one is inserted.
ExpireForm(c) ==
    /\ call[c] = Idle /\ linked # "none"
    /\ form' = "none"
    /\ call' = [call EXCEPT ![c] = [pc |-> "insert"]]
    /\ UNCHANGED <<userVars, stripeVars, had>>

\* idx_tax_forms_active_per_user refuses a second one.
InsertForm(c) ==
    /\ At(c, "insert")
    /\ \/ form' = (IF form = "none" THEN "pending" ELSE form) /\ had' = TRUE
       \/ Faults /\ UNCHANGED taxVars
    /\ Return(c)
    /\ UNCHANGED <<userVars, stripeVars>>

VerifyForm == form = "pending" /\ form' = "verified" /\ UNCHANGED <<userVars, stripeVars, call, had>>

-----------------------------------------------------------------------------
HandleUpdate == \E i \in DOMAIN updates : MatchUser(i) \/ WriteStatus(i)
Proceed(c) ==
    \/ \E a \in Accounts : CreateAccount(c, a)
    \/ SaveAccount(c) \/ CreateOnboardingLink(c) \/ InsertForm(c)
Next ==
    \/ \E c \in Callers : ReadUser(c) \/ ExpireForm(c) \/ Proceed(c)
    \/ \E a \in Accounts : StatusChanges(a)
    \/ HandleUpdate \/ VerifyForm

\* The queue runs the job of every event; a request returns.
Fairness == WF_vars(HandleUpdate) /\ \A c \in Callers : WF_vars(Proceed(c))
Spec == Init /\ [][Next]_vars /\ Fairness

-----------------------------------------------------------------------------
\* loadCurrentTaskPayoutDestination, of a worker who is paid in person.
Ready == linked # "none" /\ enabled
\* getOnboardingStatus asks Stripe itself.
Onboarded == linked # "none" /\ account[linked] = "enabled"

(***************************************************************************)
(* ReadyIsOnboarded: once Stripe's events are handled, payouts are made to *)
(* the user's account exactly when Stripe says the account can have them.  *)
(***************************************************************************)
ReadyIsOnboarded == updates = <<>> => (Ready <=> Onboarded)

(***************************************************************************)
(* FormIsKept: a worker who has had a tax form has one whenever no         *)
(* submission is under way.                                                *)
(***************************************************************************)
FormIsKept == had /\ (\A c \in Callers : ~At(c, "insert")) => form # "none"

(***************************************************************************)
(* OnboardedBecomesReady: an account Stripe has enabled becomes payable.   *)
(***************************************************************************)
OnboardedBecomesReady == Onboarded ~> (Ready \/ ~Onboarded)

(***************************************************************************)
(* Claims the code does not keep. OneAccount: no account is left at Stripe *)
(* that no user has and no request will link. ReadyIsOnboarded fails as    *)
(* soon as events overtake one another or two requests onboard at once,    *)
(* FormIsKept when an insert fails.                                        *)
(***************************************************************************)
OneAccount ==
    \A a \in Accounts :
        account[a] # "none" => linked = a \/ \E c \in Callers : At(c, "save") /\ call[c].of = a
=============================================================================
