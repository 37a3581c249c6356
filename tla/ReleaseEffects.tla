---------------------------- MODULE ReleaseEffects -----------------------------
(***************************************************************************)
(* What follows a worker's released escrows: the insurance contribution,   *)
(* the earnings towards verification, the tax on offline payments and the  *)
(* XP.  The effects run after the release's commit, one transaction each,  *)
(* and the reconciliation that a webhook starts runs the same steps again. *)
(* XP also moves when the tax is paid and when it is forgiven, and a       *)
(* refund looks for XP to take back.  FUNDED stands for a disputed escrow, *)
(* too.                                                                    *)
(*                                                                         *)
(* Every task is worth Xp; all of it happens on one day.  The velocity     *)
(* limit and the account's status, which end an award like a reached cap,  *)
(* are left out.                                                           *)
(***************************************************************************)
EXTENDS Integers, Sequences, FiniteSets, SequencesExt, FiniteSetsExt

CONSTANTS
    Escrows,
    Offline,      \* those whose task was paid outside the platform
    Intents,      \* payment intents for the tax
    Refundable,   \* escrows that may be refunded instead of released
    DailyCap,     \* bound on the XP of a day, in units of Xp
    LevelStep,    \* XP of a level
    Redis,        \* "absent", "up", "failing" now and then, or "down"
    Errors        \* can a step fail, and the effects be lost in a crash

Xp == 2

EffectsAssumption ==
    /\ Offline \subseteq Escrows /\ Refundable \subseteq Escrows
    /\ DailyCap \in Nat /\ LevelStep \in Nat \ {0}
    /\ Redis \in {"absent", "up", "failing", "down"} /\ Errors \in BOOLEAN

Kinds == {"effects", "reconcile"}
Runs == Escrows \X Kinds
None == <<"none", "none">>
NoLock == [by |-> None, total |-> 0, released |-> FALSE]

VARIABLES
    state,    \* state of each escrow
    pc,       \* step of each run
    pool,     \* contributions: the tasks recorded and the deposits
    earned,   \* verification_earnings_ledger, and the tracked total
    taxes,    \* xp_tax_ledger in order of creation
    intents,  \* each payment intent: its amount, was it presented for unpaid rows
    ledger,   \* xp_ledger
    user,     \* xp_total, current_level
    lock,     \* the run that holds the user's row, with what its snapshot shows
    counter,  \* the day's XP in Redis
    claw      \* the clawback of each refund: "none", "due" or "done"

vars == <<state, pc, pool, earned, taxes, intents, ledger, user, lock, counter, claw>>

Sum(s) == FoldSeq(LAMBDA x, acc : x.xp + acc, 0, s)
Of(e) == SelectSeq(ledger, LAMBDA x : x.escrow = e)
Awarded(e) == \E i \in DOMAIN ledger : ledger[i].escrow = e /\ ledger[i].reason = "task_completion"
Taxed(e) == \E i \in DOMAIN taxes : taxes[i].escrow = e
Unpaid == {i \in DOMAIN taxes : ~taxes[i].paid}

\* A mutant: the first level is 0.
M_Level(total) == total \div LevelStep

\* calculateLevel.
Level(total) == total \div LevelStep + 1

TypeOK ==
    /\ state \in [Escrows -> {"FUNDED", "RELEASED", "REFUNDED"}]
    /\ pc \in [Runs -> {"idle", "insurance", "earnings", "tax", "award", "locked", "count", "uncount", "done"}]
    /\ pool \in [tasks : SUBSET Escrows, deposits : Nat]
    /\ earned \in [tasks : SUBSET Escrows, total : Nat]
    /\ taxes \in Seq([escrow : Offline, paid : BOOLEAN, intent : Intents \cup {"none"}])
    /\ intents \in [Intents -> [amount : Nat, tried : BOOLEAN]]
    /\ ledger \in Seq([escrow : Escrows, reason : {"task_completion", "task_refunded"}, xp : Int])
    /\ user \in [total : Nat, level : Nat \ {0}]
    /\ lock \in [by : Runs \cup {None}, total : Nat, released : BOOLEAN]
    /\ counter \in Nat
    /\ claw \in [Escrows -> {"none", "due", "done"}]

Init ==
    /\ state = [e \in Escrows |-> "FUNDED"]
    /\ pc = [r \in Runs |-> "idle"]
    /\ pool = [tasks |-> {}, deposits |-> 0] /\ earned = [tasks |-> {}, total |-> 0]
    /\ taxes = <<>> /\ intents = [p \in Intents |-> [amount |-> 0, tried |-> FALSE]]
    /\ ledger = <<>> /\ user = [total |-> 0, level |-> 1]
    /\ lock = NoLock
    /\ counter = 0 /\ claw = [e \in Escrows |-> "none"]

\* A mutant: a reconciliation goes on, too.
M_AfterFailure(r, next) == next

\* A step that fails: the effects go on, a reconciliation ends for now.
AfterFailure(r, next) == IF r[2] = "effects" THEN next ELSE "idle"

-----------------------------------------------------------------------------
\* The release commits; its effects are still to come.
Release(e) ==
    /\ state[e] = "FUNDED"
    /\ state' = [state EXCEPT ![e] = "RELEASED"]
    /\ pc' = [pc EXCEPT ![<<e, "effects">>] = "insurance"]
    /\ UNCHANGED <<pool, earned, taxes, intents, ledger, user, lock, counter, claw>>

\* The process dies, and the effects with it.
Crash(e) ==
    /\ Errors /\ pc[<<e, "effects">>] \in {"insurance", "earnings", "tax", "award"}
    /\ pc' = [pc EXCEPT ![<<e, "effects">>] = "done"]
    /\ UNCHANGED <<state, pool, earned, taxes, intents, ledger, user, lock, counter, claw>>

\* reconcile: only of a released escrow, and again until it has succeeded.
Reconcile(e) ==
    /\ state[e] = "RELEASED" /\ pc[<<e, "reconcile">>] = "idle"
    /\ pc' = [pc EXCEPT ![<<e, "reconcile">>] = "insurance"]
    /\ UNCHANGED <<state, pool, earned, taxes, intents, ledger, user, lock, counter, claw>>

\* A mutant: the deposit does not depend on the insertion.
M_RecordContribution(r) ==
    /\ pc[r] = "insurance"
    /\ pool' = [tasks |-> pool.tasks \cup {r[1]}, deposits |-> pool.deposits + 1]
    /\ pc' = [pc EXCEPT ![r] = "earnings"]
    /\ UNCHANGED <<state, earned, taxes, intents, ledger, user, lock, counter, claw>>

\* recordContribution: one per task and worker.
RecordContribution(r) ==
    /\ pc[r] = "insurance"
    /\ \/ /\ pool' = IF r[1] \in pool.tasks THEN pool
                     ELSE [tasks |-> pool.tasks \cup {r[1]}, deposits |-> pool.deposits + 1]
          /\ pc' = [pc EXCEPT ![r] = "earnings"]
       \/ /\ Errors
          /\ pc' = [pc EXCEPT ![r] = AfterFailure(r, "earnings")] /\ UNCHANGED pool
    /\ UNCHANGED <<state, earned, taxes, intents, ledger, user, lock, counter, claw>>

\* recordEarnings: one per escrow, and a trigger keeps the total.
RecordEarnings(r) ==
    /\ pc[r] = "earnings"
    /\ \/ /\ earned' = IF r[1] \in earned.tasks THEN earned
                       ELSE [tasks |-> earned.tasks \cup {r[1]}, total |-> earned.total + 1]
          /\ pc' = [pc EXCEPT ![r] = "tax"]
       \/ /\ Errors
          /\ pc' = [pc EXCEPT ![r] = AfterFailure(r, "tax")] /\ UNCHANGED earned
    /\ UNCHANGED <<state, pool, taxes, intents, ledger, user, lock, counter, claw>>

\* recordOfflinePayment: one per task and worker; nothing for the escrow's money.
RecordOfflineTax(r) ==
    /\ pc[r] = "tax"
    /\ \/ /\ taxes' = IF r[1] \notin Offline \/ Taxed(r[1]) THEN taxes
                      ELSE Append(taxes, [escrow |-> r[1], paid |-> FALSE, intent |-> "none"])
          /\ pc' = [pc EXCEPT ![r] = "award"]
       \/ /\ Errors /\ r[1] \in Offline
          /\ pc' = [pc EXCEPT ![r] = AfterFailure(r, "award")] /\ UNCHANGED taxes
    /\ UNCHANGED <<state, pool, earned, intents, ledger, user, lock, counter, claw>>

-----------------------------------------------------------------------------
\* The XP of the day an award may find: without Redis the ledger's sum, with it
\* the counter; a failing Redis reads as nothing earned.
Probe == IF Redis = "absent" THEN {Sum(ledger)}
         ELSE (IF Redis = "down" THEN {} ELSE {counter}) \cup (IF Redis = "up" THEN {} ELSE {0})

\* awardXP takes the user's row and probes the cap before it writes anything.  The
\* probe's 'allowed' is not looked at.
AwardLocks(r) ==
    /\ pc[r] = "award" /\ lock.by = None
    /\ \E earnedToday \in Probe :
         IF earnedToday + Xp > DailyCap
         THEN pc' = [pc EXCEPT ![r] = AfterFailure(r, "done")] /\ UNCHANGED lock
         ELSE pc' = [pc EXCEPT ![r] = "locked"] /\ 
              lock' = [by |-> r, total |-> user.total, released |-> state[r[1]] = "RELEASED"]
    /\ UNCHANGED <<state, pool, earned, taxes, intents, ledger, user, counter, claw>>

\* HX101, as the snapshot shows the escrow, and the unique (escrow_id, reason).
Awardable(e) == lock.released /\ ~Awarded(e)

\* The insertion, the total as it was read plus this award, and the commit.  Some of
\* those who wait for the row (blocked) began before, and fail to serialize.
AwardCommits(r) ==
    LET e == r[1]
        total == lock.total + Xp IN
    /\ pc[r] = "locked" /\ lock.by = r
    /\ lock' = NoLock
    /\ IF Awardable(e)
       THEN /\ ledger' = Append(ledger, [escrow |-> e, reason |-> "task_completion", xp |-> Xp])
            /\ user' = [total |-> total, level |-> Level(total)]
            /\ \E blocked \in SUBSET {q \in Runs : pc[q] = "award"} :
                 pc' = [q \in Runs |-> IF q = r THEN IF Redis = "absent" THEN "done" ELSE "count"
                                       ELSE IF q \in blocked THEN AfterFailure(q, "done") ELSE pc[q]]
       ELSE /\ pc' = [pc EXCEPT ![r] = IF Awarded(e) THEN "done" ELSE AfterFailure(r, "done")]
            /\ UNCHANGED <<ledger, user>>
    /\ UNCHANGED <<state, pool, earned, taxes, intents, counter, claw>>

\* After the commit: INCRBY, and DECRBY when that is more than the cap.
CountInRedis(r) ==
    /\ pc[r] = "count"
    /\ \/ /\ Redis # "down"
          /\ counter' = counter + Xp
          /\ pc' = [pc EXCEPT ![r] = IF counter + Xp > DailyCap THEN "uncount" ELSE "done"]
       \/ /\ Redis # "up"
          /\ pc' = [pc EXCEPT ![r] = "done"] /\ UNCHANGED counter
    /\ UNCHANGED <<state, pool, earned, taxes, intents, ledger, user, lock, claw>>

UncountInRedis(r) ==
    /\ pc[r] = "uncount"
    /\ counter' = counter - Xp
    /\ pc' = [pc EXCEPT ![r] = "done"]
    /\ UNCHANGED <<state, pool, earned, taxes, intents, ledger, user, lock, claw>>

-----------------------------------------------------------------------------
\* refundEscrow, of an escrow not released: a released one has a completed task,
\* which prepareRefund refuses, and the row refuses the change itself (HX002).  The
\* clawback is a transaction after it.
Refund(e) ==
    /\ e \in Refundable /\ state[e] = "FUNDED"
    /\ state' = [state EXCEPT ![e] = "REFUNDED"]
    /\ claw' = [claw EXCEPT ![e] = "due"]
    /\ UNCHANGED <<pc, pool, earned, taxes, intents, ledger, user, lock, counter>>

\* clawbackXP waits for the user's row, then looks for an award, and there is none;
\* a failure of it is logged only.
Clawback(e) ==
    /\ claw[e] = "due" /\ lock.by = None
    /\ claw' = [claw EXCEPT ![e] = "done"]
    /\ IF Awarded(e)
       THEN LET total == Max({0, user.total - Xp}) IN
            /\ ledger' = Append(ledger, [escrow |-> e, reason |-> "task_refunded", xp |-> 0 - Xp])
            /\ user' = [total |-> total, level |-> Level(total)]
       ELSE UNCHANGED <<ledger, user>>
    /\ UNCHANGED <<state, pc, pool, earned, taxes, intents, lock, counter>>

\* createPaymentIntent: over all that is unpaid; Stripe collects it.
CreateTaxIntent(p) ==
    /\ intents[p].amount = 0 /\ Unpaid # {}
    /\ intents' = [intents EXCEPT ![p].amount = Cardinality(Unpaid)]
    /\ UNCHANGED <<state, pc, pool, earned, taxes, ledger, user, lock, counter, claw>>

\* The rows an intent covers, oldest first.
Covered(p) == {i \in Unpaid : Cardinality({j \in Unpaid : j <= i}) <= intents[p].amount}

\* A mutant: paying does not wait for the user's row.
M_PayTax(p) ==
    /\ intents[p].amount > 0 /\ Cardinality(Covered(p)) = 1
    /\ UNCHANGED intents
    /\ taxes' = [i \in DOMAIN taxes |-> IF i \in Covered(p) THEN [taxes[i] EXCEPT !.paid = TRUE, !.intent = p]
                                        ELSE taxes[i]]
    /\ user' = [user EXCEPT !.total = @ + Xp]
    /\ UNCHANGED <<state, pc, pool, earned, ledger, lock, counter, claw>>

\* payTax: one transaction over every row, but a unique index lets an intent be on
\* one row only, and a second one undoes them all.  The level is not recomputed.
PayTax(p) ==
    /\ intents[p].amount > 0 /\ lock.by = None
    /\ intents' = [intents EXCEPT ![p].tried = @ \/ Covered(p) # {}]
    /\ IF Cardinality(Covered(p)) = 1 /\ \A i \in DOMAIN taxes : taxes[i].intent # p
       THEN /\ taxes' = [i \in DOMAIN taxes |->
                           IF i \in Covered(p) THEN [taxes[i] EXCEPT !.paid = TRUE, !.intent = p] ELSE taxes[i]]
            /\ user' = [user EXCEPT !.total = @ + Xp]
       ELSE UNCHANGED <<taxes, user>>
    /\ UNCHANGED <<state, pc, pool, earned, ledger, lock, counter, claw>>

\* adminForgiveTax: all of it at once.
ForgiveTax ==
    /\ Unpaid # {} /\ lock.by = None
    /\ taxes' = [i \in DOMAIN taxes |-> [taxes[i] EXCEPT !.paid = TRUE]]
    /\ user' = [user EXCEPT !.total = @ + Xp * Cardinality(Unpaid)]
    /\ UNCHANGED <<state, pc, pool, earned, intents, ledger, lock, counter, claw>>

Step(r) ==
    \/ RecordContribution(r) \/ RecordEarnings(r) \/ RecordOfflineTax(r)
    \/ AwardLocks(r) \/ AwardCommits(r) \/ CountInRedis(r) \/ UncountInRedis(r)

Next ==
    \/ \E e \in Escrows : Release(e) \/ Crash(e) \/ Reconcile(e) \/ Refund(e) \/ Clawback(e)
    \/ \E r \in Runs : Step(r)
    \/ \E p \in Intents : CreateTaxIntent(p) \/ PayTax(p)
    \/ ForgiveTax

Spec == Init /\ [][Next]_vars

-----------------------------------------------------------------------------
\* The effects and any number of reconciliations of a release, side by side and
\* after failures, count each thing once: the deposits are the contributions, and
\* an escrow has one award.
EffectsOnce ==
    /\ pool.deposits = Cardinality(pool.tasks) /\ earned.total = Cardinality(earned.tasks)
    /\ \A e \in Escrows : Len(SelectSeq(Of(e), LAMBDA x : x.xp > 0)) <= 1

\* A reconciliation that has succeeded leaves no effect behind, whatever the effects
\* of the release have failed to do.
ReconciledIsComplete ==
    \A e \in Escrows :
       pc[<<e, "reconcile">>] = "done" =>
          e \in pool.tasks /\ e \in earned.tasks /\ Awarded(e) /\ (e \in Offline => Taxed(e))

\* xp_total is what the ledger adds up to and the XP of the taxes settled: no award,
\* clawback or payment overwrites another.
TotalIsLedger ==
    user.total = Sum(ledger) + Xp * (Len(taxes) - Cardinality(Unpaid))

\* A refunded escrow has given nothing and gives nothing: no contribution, earnings,
\* tax or XP, neither of effects on their way nor of a later reconciliation, so the
\* clawback never finds an award.
RefundedHasNoXp ==
    \A e \in Escrows : state[e] = "REFUNDED" =>
       e \notin pool.tasks /\ e \notin earned.tasks /\ ~Taxed(e) /\ Of(e) = <<>>

\* The awards of a day stay within the cap.
CapIsKept == Sum(ledger) <= DailyCap

\* "Offline payments incur a 10% XP tax that must be paid before XP award."
HeldUntilPaid ==
    \A i \in DOMAIN taxes : ~taxes[i].paid => ~Awarded(taxes[i].escrow)

\* "Releases held XP after payment confirmed": a presented intent that covers what is
\* unpaid leaves nothing of it unpaid.
PaymentReleases ==
    \A p \in Intents : intents[p].tried => \E i \in DOMAIN taxes : taxes[i].intent = p

\* "Calculate level from total XP".
LevelFollowsTotal == user.level = Level(user.total)
=============================================================================
