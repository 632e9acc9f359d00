--------------------------- MODULE EscrowContract ---------------------------
(***************************************************************************)
(* contracts/scholarship_escrow: donors fund a campaign up to the sum of   *)
(* its milestones, the arbiter releases milestones to the beneficiary, and *)
(* after the expiry ledger donors share what was not released.  An         *)
(* invocation is atomic: one that returns an error, or whose token         *)
(* transfer fails, changes nothing.                                        *)
(***************************************************************************)
EXTENDS Integers, Sequences, FiniteSets, Functions

CONSTANTS
    Donors,       \* addresses that fund
    Milestones,   \* indices of the milestone vector
    Amount,       \* the milestones' amounts
    Gifts,        \* amounts donors send
    None,         \* Option::None
    MaxDonors,    \* MAX_DONORS
    MaxCampaign,  \* MAX_CAMPAIGN_STROOPS
    MaxInt,       \* the largest i128
    Batch,        \* DONOR_TTL_BATCH_SIZE
    MaxLedger     \* bound: ledger sequence numbers explored

ASSUME DonorsAssumption == IsFiniteSet(Donors)
ASSUME AmountAssumption == Amount \in [Milestones -> Int]
ASSUME GiftAssumption == Gifts \subseteq Int
ASSUME LimitAssumption ==
    /\ MaxDonors \in Nat /\ MaxCampaign \in Nat /\ MaxInt \in Nat /\ MaxLedger \in Nat
    /\ Batch \in Nat \ {0}
    /\ MaxCampaign * MaxCampaign <= MaxInt
ASSUME NoneAssumption == None \notin Int

VARIABLES
    ledger,        \* the current ledger sequence number
    expiry,        \* State.expiry, None before init
    total,         \* State.milestone_total
    funded, releasedTotal, refunded,  \* the accounting totals of State
    pool,          \* State.refund_pool
    released,      \* milestones with released = true
    donors,        \* the Donors vector
    contribution,  \* DonorContribution
    refundOf,      \* DonorRefund, None before the claim: RefundClaimed
    held,          \* the contract's balance at the token contract
    cursor, fresh  \* the maintenance pass: next index, donors it refreshed

vars == <<ledger, expiry, total, funded, releasedTotal, refunded, pool, released,
          donors, contribution, refundOf, held, cursor, fresh>>
books == <<total, funded, releasedTotal, refunded, pool, released, donors,
           contribution, refundOf, held>>

TypeOK ==
    /\ ledger \in 0..MaxLedger
    /\ expiry \in Nat \cup {None}
    /\ total \in 0..MaxCampaign
    /\ funded \in Nat /\ releasedTotal \in Nat /\ refunded \in Nat /\ held \in Nat
    /\ pool \in Nat \cup {None}
    /\ released \subseteq Milestones
    /\ donors \in Seq(Donors)
    /\ contribution \in [Donors -> Nat]
    /\ refundOf \in [Donors -> Nat \cup {None}]
    /\ cursor \in Nat
    /\ fresh \subseteq Donors

Init ==
    /\ ledger = 0
    /\ expiry = None
    /\ total = 0 /\ funded = 0 /\ releasedTotal = 0 /\ refunded = 0 /\ held = 0
    /\ pool = None
    /\ released = {}
    /\ donors = << >>
    /\ contribution = [d \in Donors |-> 0]
    /\ refundOf = [d \in Donors |-> None]
    /\ cursor = 0
    /\ fresh = {}

Known == {donors[i] : i \in 1..Len(donors)}
Unclaimed == {d \in Known : refundOf[d] = None}
Active == expiry # None /\ ledger < expiry
Expired == expiry # None /\ ledger >= expiry
Available == funded - releasedTotal - refunded

-----------------------------------------------------------------------------
(* The entry points *)

Initialize(e) ==
    /\ expiry = None
    /\ Milestones # {}
    /\ e > ledger
    /\ \A m \in Milestones : Amount[m] > 0
    /\ SumFunction(Amount) \in 0..MaxCampaign
    /\ expiry' = e
    /\ total' = SumFunction(Amount)
    /\ UNCHANGED <<ledger, funded, releasedTotal, refunded, pool, released, donors,
                   contribution, refundOf, held, cursor, fresh>>

\* New donors are listed behind the others, up to MAX_DONORS.
Deposit(d, amount, newDonors) ==
    /\ amount > 0
    /\ d \in Known \/ Len(donors) < MaxDonors
    /\ donors' = IF d \in Known THEN donors ELSE newDonors
    /\ contribution' = [contribution EXCEPT ![d] = @ + amount]
    /\ funded' = funded + amount
    /\ held' = held + amount
    /\ UNCHANGED <<ledger, expiry, total, releasedTotal, refunded, pool, released,
                   refundOf, cursor, fresh>>

\* Mutant: new donors go in front.
MutFundInFront(d, amount) ==
    Active /\ funded + amount <= total /\ Deposit(d, amount, <<d>> \o donors)

Fund(d, amount) ==
    /\ Active
    /\ funded + amount <= total
    /\ Deposit(d, amount, Append(donors, d))

Release(m, paid) ==
    /\ Available >= Amount[m]
    /\ held >= paid
    /\ held' = held - paid
    /\ released' = released \cup {m}
    /\ releasedTotal' = releasedTotal + Amount[m]
    /\ UNCHANGED <<ledger, expiry, total, funded, refunded, pool, donors, contribution,
                   refundOf, cursor, fresh>>

\* Mutant: the transfer is forgotten.
MutApproveUnpaid(m) == Active /\ m \notin released /\ Release(m, 0)

ApproveMilestone(m) ==
    /\ Active
    /\ m \notin released
    /\ Release(m, Amount[m])

\* What the first refund freezes: refund_pool or, before it is set, the
\* unreleased balance.
Pool == IF pool = None THEN Available ELSE pool

\* Mutants: the last donor gets its share like everybody else; shares round up.
MutShare(d) == (contribution[d] * Pool) \div funded
MutShareUp(d) == (contribution[d] * Pool + funded - 1) \div funded

\* A donor's share rounds down; the last one takes what is left.
Share(d) ==
    IF Unclaimed = {d} THEN Pool - refunded
                       ELSE (contribution[d] * Pool) \div funded

Pay(d, p, amount) ==
    /\ held' = held - amount
    /\ refunded' = refunded + amount
    /\ refundOf' = [refundOf EXCEPT ![d] = amount]
    /\ pool' = p
    /\ UNCHANGED <<ledger, expiry, total, funded, releasedTotal, released, donors,
                   contribution, cursor, fresh>>

\* Mutant: the pool is computed anew for every refund.
MutRefundAnew(d) ==
    /\ Expired /\ d \in Known /\ refundOf[d] = None /\ Available > 0
    /\ Pay(d, Available, (contribution[d] * Available) \div funded)

Refund(d) ==
    /\ Expired
    /\ d \in Known
    /\ refundOf[d] = None
    /\ Pool > 0
    /\ contribution[d] * Pool <= MaxInt
    /\ held >= Share(d)
    /\ Pay(d, Pool, Share(d))

\* One call of maintain_ttl with the cursor the previous call returned.
MaintainTtl ==
    /\ expiry # None
    /\ LET end == IF cursor + Batch < Len(donors) THEN cursor + Batch ELSE Len(donors) IN
         /\ fresh' = (IF cursor = 0 THEN {} ELSE fresh)
                       \cup {donors[i] : i \in cursor + 1..end}
         /\ cursor' = IF end >= Len(donors) THEN 0 ELSE end
    /\ UNCHANGED <<ledger, expiry, books>>

\* The network closes a ledger.
Tick ==
    /\ ledger < MaxLedger
    /\ ledger' = ledger + 1
    /\ UNCHANGED <<expiry, books, cursor, fresh>>

Next ==
    \/ \E e \in 1..MaxLedger + 1 : Initialize(e)
    \/ \E d \in Donors : Refund(d) \/ \E g \in Gifts : Fund(d, g)
    \/ \E m \in Milestones : ApproveMilestone(m)
    \/ MaintainTtl \/ Tick

Spec == Init /\ [][Next]_vars

-----------------------------------------------------------------------------
(* Properties; the numbers are those of the list in docs/soroban-escrow-design.md *)

\* 1. A campaign is never funded beyond its milestones.
CapKept == funded <= total

\* 2 and 7. The tokens the contract holds are exactly what was funded and
\* neither released nor refunded, and never negative.
Conserved == held = funded - releasedTotal - refunded /\ held >= 0

\* 5. The refund pool is the balance unreleased at expiry, for good: nobody
\* funds or releases any more once donors share it.
PoolFrozen == pool # None => Expired /\ pool = funded - releasedTotal

\* 6. A claim happens once: what a donor was refunded never changes.
ClaimedOnce ==
    [][\A d \in Donors : refundOf[d] # None => refundOf'[d] = refundOf[d]]_vars

\* No donor is locked out of its share: whatever order the others claimed in,
\* the checked product fits an i128 and the balance covers the share.
Claimable ==
    Expired /\ Pool > 0 => \A d \in Unclaimed :
        /\ contribution[d] * Pool <= MaxInt
        /\ Share(d) \in 0..held

\* When every donor has claimed nothing is left in the contract.
FullyShared ==
    pool # None /\ Unclaimed = {} => refunded = pool /\ held = 0

\* Rounding favours only the last donor, by less than a unit per other donor.
SharedFairly == \A d \in Known : refundOf[d] # None =>
    refundOf[d] * funded < contribution[d] * pool + funded * Len(donors)

\* What a donor is owed it can have, now and in any order, and no more.
SharesHold == Claimable /\ FullyShared /\ SharedFairly

\* A maintenance pass that reports it is finished refreshed every donor,
\* those who joined during the pass included.
PassComplete ==
    [][MaintainTtl /\ cursor' = 0 => Known \subseteq fresh']_vars
=============================================================================
