----------------------------- MODULE InsurancePool -----------------------------
(***************************************************************************)
(* The self-insurance pool: claims reserve their covered amount when they  *)
(* are filed, get it back when they are denied, and are paid in two parts, *)
(* the claim's row first and the Stripe transfer after its commit.         *)
(***************************************************************************)
EXTENDS Integers, FiniteSets, FiniteSetsExt

CONSTANTS
    Tasks,
    MaxFilings,   \* bound on the claims of a task
    Amounts,      \* covered amounts, in units of the least a transfer may have
    MaxClaim,     \* max_claim_cents, in the same units
    MaxDeposits,  \* bound on the contributions
    Payers,       \* concurrent calls of payClaim
    Crashes,      \* can a call die between its steps
    KeysExpire    \* can a retry come after Stripe has forgotten the key

Claims == Tasks \X (1..MaxFilings)
PoolAssumption ==
    /\ MaxFilings \in Nat \ {0} /\ Amounts \subseteq Nat \ {0} /\ MaxClaim \in Nat
    /\ MaxDeposits \in Nat /\ Crashes \in BOOLEAN /\ KeysExpire \in BOOLEAN

VARIABLES
    pool,       \* total_deposits_cents, total_claims_cents
    claim,      \* insurance_claims
    call,       \* what each payClaim is doing
    transfers,  \* Stripe: transfers by claim
    keys        \* Stripe: idempotency keys it remembers

vars == <<pool, claim, call, transfers, keys>>

Idle == [pc |-> "idle"]
Active == {"pending", "approved", "paid"}
Reserved == {c \in Claims : claim[c].status \in Active}
Available == pool.deposits - pool.claims

TypeOK ==
    /\ pool \in [deposits : 0..MaxDeposits, claims : Nat]
    /\ claim \in [Claims -> [status : {"none", "denied"} \cup Active, covered : Amounts \cup {0},
                             transfer : BOOLEAN]]
    /\ call \in [Payers -> {Idle} \cup [pc : {"checked", "transfer", "record"}, claim : Claims]]
    /\ transfers \in [Claims -> Nat] /\ keys \subseteq Claims

Init ==
    /\ pool = [deposits |-> 0, claims |-> 0]
    /\ claim = [c \in Claims |-> [status |-> "none", covered |-> 0, transfer |-> FALSE]]
    /\ call = [p \in Payers |-> Idle]
    /\ transfers = [c \in Claims |-> 0] /\ keys = {}

-----------------------------------------------------------------------------
Deposit ==
    /\ pool.deposits < MaxDeposits
    /\ pool' = [pool EXCEPT !.deposits = @ + 1]
    /\ UNCHANGED <<claim, call, transfers, keys>>

\* fileClaim: one active claim per task and worker, by a unique index; the pool's row
\* is locked from the comparison to the reservation.
FileClaim(c) ==
    /\ claim[c].status = "none"
    /\ \A n \in 1..MaxFilings : IF n < c[2] THEN claim[<<c[1], n>>].status = "denied" ELSE TRUE
    /\ \E covered \in Amounts :
         /\ covered <= Available
         /\ pool' = [pool EXCEPT !.claims = @ + covered]
         /\ claim' = [claim EXCEPT ![c].status = "pending", ![c].covered = covered]
    /\ UNCHANGED <<call, transfers, keys>>

\* The update's own condition.
Reviewable(c) == claim[c].status = "pending"

\* reviewClaim: a denial returns the reservation.
ReviewClaim(c) ==
    /\ Reviewable(c)
    /\ \/ /\ claim' = [claim EXCEPT ![c].status = "approved"] /\ UNCHANGED pool
       \/ /\ claim' = [claim EXCEPT ![c].status = "denied"]
          /\ pool' = [pool EXCEPT !.claims = Max({0, @ - claim[c].covered})]
    /\ UNCHANGED <<call, transfers, keys>>

\* payClaim reads the claim: approved, or paid without its transfer.
PayChecks(p, c) ==
    /\ call[p] = Idle
    /\ claim[c].status \in {"approved", "paid"} /\ ~claim[c].transfer
    /\ call' = [call EXCEPT ![p] = [pc |-> "checked", claim |-> c]]
    /\ UNCHANGED <<pool, claim, transfers, keys>>

\* The pool is asked for the covered amount, which filing has taken from it already.
Payable(c) == claim[c].covered <= MaxClaim /\ claim[c].covered <= Available

\* The transaction: under the claim's lock, paid with a transfer ends the call, paid
\* without one goes on to Stripe, approved is marked paid.
PayCommits(p) ==
    LET c == call[p].claim IN
    /\ call[p].pc = "checked"
    /\ \/ /\ claim[c].status = "paid"
          /\ call' = [call EXCEPT ![p] = IF claim[c].transfer THEN Idle ELSE [@ EXCEPT !.pc = "transfer"]]
          /\ UNCHANGED claim
       \/ /\ claim[c].status = "approved" /\ Payable(c)
          /\ claim' = [claim EXCEPT ![c].status = "paid"]
          /\ call' = [call EXCEPT ![p].pc = "transfer"]
       \/ /\ claim[c].status = "approved" /\ ~Payable(c)
          /\ call' = [call EXCEPT ![p] = Idle] /\ UNCHANGED claim
    /\ UNCHANGED <<pool, transfers, keys>>

\* createTransfer under the claim's key, or its failure, which leaves the claim paid
\* without a transfer.
Transfer(p) ==
    LET c == call[p].claim IN
    /\ call[p].pc = "transfer"
    /\ \/ /\ transfers' = IF c \in keys THEN transfers ELSE [transfers EXCEPT ![c] = @ + 1]
          /\ keys' = keys \cup {c}
          /\ call' = [call EXCEPT ![p].pc = "record"]
       \/ call' = [call EXCEPT ![p] = Idle] /\ UNCHANGED <<transfers, keys>>
    /\ UNCHANGED <<pool, claim>>

Record(p) ==
    /\ call[p].pc = "record"
    /\ claim' = [claim EXCEPT ![call[p].claim].transfer = TRUE]
    /\ call' = [call EXCEPT ![p] = Idle]
    /\ UNCHANGED <<pool, transfers, keys>>

Crash(p) ==
    /\ Crashes /\ call[p] # Idle
    /\ call' = [call EXCEPT ![p] = Idle]
    /\ UNCHANGED <<pool, claim, transfers, keys>>

\* A bound on the transfers of a claim.
MaxTransfers == 2

\* A day passes between two calls.
Forget ==
    /\ KeysExpire /\ keys # {} /\ \A c \in Claims : transfers[c] < MaxTransfers
    /\ \A p \in Payers : call[p] = Idle
    /\ keys' = {}
    /\ UNCHANGED <<pool, claim, call, transfers>>

Next ==
    \/ Deposit \/ Forget
    \/ \E c \in Claims : FileClaim(c) \/ ReviewClaim(c)
    \/ \E p \in Payers : PayCommits(p) \/ Transfer(p) \/ Record(p) \/ Crash(p)
    \/ \E p \in Payers, c \in Claims : PayChecks(p, c)

Spec == Init /\ [][Next]_vars

-----------------------------------------------------------------------------
\* No more is claimed from the pool than was paid into it.
ClaimsAreCovered == pool.claims <= pool.deposits

\* What the pool counts as claimed is what its active claims cover, and never more
\* than was paid into it, however filings, denials and payments overlap.
PoolIsReserved ==
    pool.claims = MapThenSumSet(LAMBDA c : claim[c].covered, Reserved) /\ ClaimsAreCovered

\* A claim is transferred once, by however many calls, and only if it was approved.
TransferredOnce ==
    \A c \in Claims : transfers[c] <= 1 /\ (transfers[c] = 1 => claim[c].status = "paid")

\* "Reserve the covered amount in the pool at filing time": an approved claim within
\* the limit can be paid.
ApprovedIsPayable ==
    \A c \in Claims : claim[c].status = "approved" /\ claim[c].covered <= MaxClaim => Payable(c)

\* Filing "already returns CLAIM_EXCEEDS_MAX": no claim is over the limit.
FiledWithinMax == \A c \in Claims : claim[c].status # "none" => claim[c].covered <= MaxClaim

-----------------------------------------------------------------------------
\* What holds the proofs together: a claim that has a transfer, or a call about to make
\* one, is paid.
CallStates == {Idle} \cup [pc : {"checked", "transfer", "record"}, claim : Claims]
ClaimStates == [status : {"none", "denied"} \cup Active, covered : Amounts \cup {0}, transfer : BOOLEAN]

PoolInv ==
    /\ TypeOK /\ ClaimsAreCovered
    /\ ~KeysExpire => \A c \in Claims : transfers[c] = (IF c \in keys THEN 1 ELSE 0)
    /\ \A c \in keys : claim[c].status = "paid"
    /\ \A p \in Payers : call[p].pc \in {"transfer", "record"} => claim[call[p].claim].status = "paid"
================================================================================
