---------------------------- MODULE MCServices ----------------------------
(***************************************************************************)
(* Six parts that share no state, in one run of TLC: a behaviour follows     *)
(* the scholarship escrow, the loyalty points, the revenue sharing contract, *)
(* a scholarship round, the requests of one idempotency key or the catalogue. *)
(*                                                                         *)
(* The escrow has an uneven campaign and gifts that do not divide it.  The   *)
(* round has two applications, admins p1..p3 who review, of whom p1 applies  *)
(* as well, and totals of 8 and 16: means below, at and above 3.  The key    *)
(* has three retries of one body and a request with another.  The catalogue  *)
(* has a course of three lessons in two sections, out of order, and five     *)
(* books in three categories, of which two cost nothing.                    *)
(***************************************************************************)
EXTENDS EscrowContract, Sums, SequenceTheorems, TLC

CONSTANTS x1, x2, x3, m1, m2,
          Holders, Rates, Spends, Points, Precision, MaxPoints, MaxBuilt,
          Recipients, TotalBps, MaxRecipients, Deposits, MaxDeposited,
          p1, p2, p3, p4, People, Admins, Applications, Scores, MinReviewers, Decisions,
          q4, body, other, Requests, BodyOf, Disconnects, WritesFail, HandlersFail, KeysExpire,
          Visits, Learners, Author, Reviews, Taxonomy, Unknown, Prices, MaxVisits, LastDay

VARIABLES rates, points, issued, burned, programme, built, builds,
          splits, holding, paidTo, distributed, received, deposited,
          application, request,
          record, pc, captured, writing, executed, answer, dropped,
          topic, courseDoc, progressDoc, bookDoc, shelf, visit, begun, day, counted,
          stored, served,
          part    \* the part this behaviour follows

MCAmount == m1 :> 2 @@ m2 :> 5
MCDonors == {x1, x2, x3}
MCGifts == {1, 2, 3}
MCPeople == {p1, p2, p3, p4}
MCAdmins == {p1, p2, p3}
MCRequests == {x1, x2, x3, q4}
MCBodyOf == [q \in MCRequests |-> IF q = q4 THEN other ELSE body]
MCLessons == [lesson \in {"first", "second", "intro"} |->
                 IF lesson = "intro" THEN [section |-> 0, order |-> 3]
                 ELSE [section |-> 1, order |-> IF lesson = "first" THEN 1 ELSE 2]]
Volume(writer, category, ref, price, rating, reads, file, created) ==
    [author |-> writer, category |-> category, ref |-> ref, price |-> price,
     rating |-> rating, reads |-> reads, file |-> file, created |-> created]
MCStock == <<Volume("a1", "fiqh", "r1", 0, 3, 4, TRUE, 1),
             Volume("a1", "hadith", "r2", 5, 4, 9, TRUE, 2),
             Volume("a2", "fiqh", "r1", 2, 5, 4, FALSE, 3),
             Volume("a2", "seerah", "r3", 0, 0, 1, TRUE, 4),
             Volume("a1", "fiqh", "r1", 0, 0, 7, FALSE, 5)>>

\* Answers and records are told from "no request".
ASSUME KeyAssumption ==
    /\ None \notin Requests
    /\ None \notin [by : Requests, status : {"in_progress", "completed"}]

\* A ledger has finitely many addresses, and the contracts count in integers.
ASSUME PointsAssumption ==
    /\ IsFiniteSet(Holders) /\ Rates \subseteq Int /\ Spends \subseteq Int /\ Points \subseteq Int
    /\ Precision \in Nat \ {0} /\ MaxPoints \in Nat
ASSUME RevenueAssumption ==
    /\ IsFiniteSet(Recipients) /\ Deposits \subseteq Nat
    /\ TotalBps \in Nat \ {0} /\ MaxRecipients \in Nat /\ MaxDeposited \in Nat
\* Learners are finitely many accounts, and a book costs nothing or something.
ASSUME CatalogueAssumption == IsFiniteSet(Learners) /\ Prices \subseteq Nat

L == INSTANCE Loyalty
R == INSTANCE RevenueSharing
Round == INSTANCE ScholarshipRound
Key == INSTANCE Idempotency WITH released <- dropped
Cat == INSTANCE Catalogue WITH Lessons <- MCLessons, Stock <- MCStock

loyaltyVars == <<rates, points, issued, burned, programme, built, builds>>
revenueVars == <<splits, holding, paidTo, distributed, received, deposited>>
roundVars == <<application, request>>
keyVars == <<record, pc, captured, writing, executed, answer, dropped>>
catalogueVars == <<topic, courseDoc, progressDoc, bookDoc, shelf, visit, begun, day,
                   counted, stored, served>>

\* The same values stand for the donors and the retries, and for the holders of points
\* the applications and the learners, and for the decisions and the visits.
Symmetric == Permutations(MCDonors) \cup Permutations({p2, p3})
             \cup Permutations(Applications) \cup Permutations(Decisions)

-----------------------------------------------------------------------------
ServicesInit ==
    /\ part \in {"escrow", "loyalty", "revenue", "round", "key", "catalogue"}
    /\ Init /\ L!Init /\ R!Init /\ Round!Init /\ Key!Init /\ Cat!Init
    /\ part # "catalogue" => topic = "lists"

ServicesNext ==
    /\ UNCHANGED part
    /\ \/ /\ part = "escrow" /\ Next
          /\ UNCHANGED <<loyaltyVars, revenueVars, roundVars, keyVars, catalogueVars>>
       \/ /\ part = "loyalty" /\ L!Next
          /\ UNCHANGED <<vars, revenueVars, roundVars, keyVars, catalogueVars>>
       \/ /\ part = "revenue" /\ R!Next
          /\ UNCHANGED <<vars, loyaltyVars, roundVars, keyVars, catalogueVars>>
       \/ /\ part = "round" /\ Round!Next
          /\ UNCHANGED <<vars, loyaltyVars, revenueVars, keyVars, catalogueVars>>
       \/ /\ part = "key" /\ Key!Next
          /\ UNCHANGED <<vars, loyaltyVars, revenueVars, roundVars, catalogueVars>>
       \/ /\ part = "catalogue" /\ Cat!Next
          /\ UNCHANGED <<vars, loyaltyVars, revenueVars, roundVars, keyVars>>

ServicesSpec ==
    ServicesInit
    /\ [][ServicesNext]_<<vars, loyaltyVars, revenueVars, roundVars, keyVars, catalogueVars, part>>

-----------------------------------------------------------------------------
\* The points users hold are those issued and not redeemed, and what the revenue
\* contract took in is with the recipients, in fair shares, or still held.
PointsAndRevenue ==
    /\ part = "loyalty" => L!PointsConserved
    /\ part = "revenue" => R!RevenueSound

\* A round selects one recipient, on reviews that qualify it.
SelectionSound == part = "round" => Round!SelectionSound

\* Retries of a request: no two handlers run at once unless the earlier one lost
\* its client, and a replay tells what a request with the same body was answered.
RetriesSound == part = "key" => Key!OneHandler /\ Key!ReplayIsAnswer

\* Views are kept, the reports agree, what is listed is whole, and lists list everything.
CatalogueSound == part = "catalogue" => Cat!CatalogueSound

-----------------------------------------------------------------------------
(***************************************************************************)
(* Proofs, for any campaign, any donors and any gifts.                     *)
(***************************************************************************)
\* Initialization vouched for the milestones; before it there is nothing.
Vetted == IF expiry = None THEN funded = 0 /\ releasedTotal = 0 /\ pool = None
                           ELSE \A m \in Milestones : Amount[m] > 0

\* The pool is created by the first refund.
PoolFirst == pool = None => refunded = 0

\* A contribution is part of what was funded.
PartOfFunded == \A d \in Donors : contribution[d] <= funded

\* The maintenance pass has refreshed the donors before its cursor.
PassSoFar == cursor <= Len(donors) /\ \A i \in 1..cursor : donors[i] \in fresh

IInv ==
    TypeOK /\ CapKept /\ Conserved /\ PoolFrozen /\ Vetted /\ PoolFirst
    /\ PartOfFunded /\ PassSoFar

LEMMA MulMono ==
  ASSUME NEW a \in Nat, NEW b \in Nat, NEW c \in Nat, a <= c, b <= c
  PROVE  a * b <= c * c
<1>1. a * b <= a * c OBVIOUS
<1>2. a * c <= c * c OBVIOUS
<1>3. a * b \in Nat /\ a * c \in Nat /\ c * c \in Nat OBVIOUS
<1> QED BY <1>1, <1>2, <1>3

LEMMA DivNat ==
  ASSUME NEW a \in Nat, NEW b \in Nat, b > 0
  PROVE  a \div b \in Nat
  OBVIOUS

LEMMA ShareNat ==
  ASSUME IInv, NEW d \in Donors, Pool > 0
  PROVE  Share(d) \in Nat
<1> USE NoneAssumption DEF IInv, TypeOK, Conserved, PoolFrozen, PoolFirst
<1>1. Pool \in Nat /\ Pool >= refunded /\ funded > 0 BY DEF Pool, Available
<1>2. contribution[d] * Pool \in Nat BY <1>1
<1>3. funded \in Nat OBVIOUS
<1>4. (contribution[d] * Pool) \div funded \in Nat BY <1>1, <1>2, <1>3, DivNat
<1>5. Pool - refunded \in Nat BY <1>1
<1> QED BY <1>4, <1>5 DEF Share

LEMMA InitIInv == Init => IInv
  BY LimitAssumption, NoneAssumption DEF Init, IInv, TypeOK, CapKept, Conserved, PoolFrozen,
     Vetted, PoolFirst, PartOfFunded, PassSoFar

LEMMA FundIInv ==
  ASSUME IInv, NEW d \in Donors, NEW g \in Gifts, Fund(d, g)
  PROVE  IInv'
<1> USE GiftAssumption, NoneAssumption DEF IInv, TypeOK
<1>1. g \in Nat BY DEF Fund, Deposit
<1>2. /\ funded' = funded + g /\ held' = held + g
      /\ contribution' = [contribution EXCEPT ![d] = @ + g]
      /\ funded + g <= total
  BY DEF Fund, Deposit
<1>3. Len(donors') >= Len(donors) /\ \A i \in 1..Len(donors) : donors'[i] = donors[i]
  BY DEF Fund, Deposit
<1>4. donors' \in Seq(Donors) BY DEF Fund, Deposit
<1>5. TypeOK' BY <1>1, <1>2, <1>4 DEF Fund, Deposit
<1>6. CapKept' /\ Conserved' BY <1>1, <1>2 DEF Fund, Deposit, CapKept, Conserved
<1>7. Vetted' /\ PoolFirst' BY DEF Fund, Deposit, Vetted, PoolFirst, Active
<1>8. PoolFrozen'
  <2>1. pool = None BY DEF Fund, Active, PoolFrozen, Expired
  <2> QED BY <2>1 DEF Fund, Deposit, PoolFrozen
<1>9. PartOfFunded' BY <1>1, <1>2 DEF PartOfFunded
<1>10. PassSoFar' BY <1>3, <1>4 DEF Fund, Deposit, PassSoFar
<1> QED BY <1>5, <1>6, <1>7, <1>8, <1>9, <1>10

LEMMA ApproveIInv ==
  ASSUME IInv, NEW m \in Milestones, ApproveMilestone(m)
  PROVE  IInv'
<1> USE AmountAssumption, NoneAssumption DEF IInv, TypeOK, ApproveMilestone, Release
<1>1. Amount[m] \in Nat BY DEF Vetted, Active
<1>2. TypeOK' BY <1>1
<1>3. CapKept' /\ Conserved' BY <1>1 DEF CapKept, Conserved
<1>4. pool = None BY DEF Active, PoolFrozen, Expired
<1>5. PoolFrozen' /\ PoolFirst' BY <1>4 DEF PoolFrozen, PoolFirst
<1>6. Vetted' BY DEF Vetted, Active
<1>7. PartOfFunded' /\ PassSoFar' BY DEF PartOfFunded, PassSoFar
<1> QED BY <1>2, <1>3, <1>5, <1>6, <1>7

LEMMA RefundIInv ==
  ASSUME IInv, NEW d \in Donors, Refund(d)
  PROVE  IInv'
<1> USE NoneAssumption DEF IInv, TypeOK, Refund, Pay
<1>1. Share(d) \in Nat BY ShareNat
<1>2. Pool \in Nat BY DEF Pool, Available, Conserved
<1>3. TypeOK' BY <1>1, <1>2
<1>4. CapKept' /\ Conserved' BY <1>1 DEF CapKept, Conserved
<1>5. Pool = funded - releasedTotal
  BY DEF Pool, Available, PoolFrozen, PoolFirst
<1>6. PoolFrozen' /\ PoolFirst' BY <1>2, <1>5 DEF PoolFrozen, PoolFirst, Expired
<1>7. Vetted' BY DEF Vetted, Expired
<1>8. PartOfFunded' /\ PassSoFar' BY DEF PartOfFunded, PassSoFar
<1> QED BY <1>3, <1>4, <1>6, <1>7, <1>8

LEMMA MaintainKnows ==
  ASSUME IInv, MaintainTtl
  PROVE  PassSoFar' /\ (cursor' = 0 => Known \subseteq fresh')
                    /\ cursor' \in Nat /\ fresh' \subseteq Donors
<1> USE LimitAssumption DEF IInv, TypeOK, PassSoFar, Known
<1> DEFINE end == IF cursor + Batch < Len(donors) THEN cursor + Batch ELSE Len(donors)
<1>1. end \in Nat /\ end <= Len(donors) /\ cursor <= end OBVIOUS
<1>2. /\ fresh' = (IF cursor = 0 THEN {} ELSE fresh) \cup {donors[i] : i \in cursor + 1..end}
      /\ cursor' = IF end >= Len(donors) THEN 0 ELSE end
      /\ donors' = donors
  BY DEF MaintainTtl, books
<1>3. \A i \in 1..end : donors[i] \in fresh' BY <1>1, <1>2
<1>4. cursor' \in Nat BY <1>1, <1>2
<1>5. fresh' \subseteq Donors BY <1>1, <1>2
<1>6. PassSoFar' BY <1>1, <1>2, <1>3
<1>7. cursor' = 0 => Known \subseteq fresh' BY <1>1, <1>2, <1>3
<1> QED BY <1>4, <1>5, <1>6, <1>7

LEMMA StepIInv == IInv /\ [Next]_vars => IInv'
<1> SUFFICES ASSUME IInv, [Next]_vars PROVE IInv' OBVIOUS
<1> USE LimitAssumption, NoneAssumption DEF IInv, TypeOK
<1>1. CASE \E e \in 1..MaxLedger + 1 : Initialize(e)
  <2>1. PICK e \in 1..MaxLedger + 1 : Initialize(e) BY <1>1
  <2>2. funded = 0 /\ pool = None BY <2>1 DEF Initialize, Vetted
  <2>3. total' \in 0..MaxCampaign /\ expiry' = e BY <2>1 DEF Initialize
  <2> QED BY <2>1, <2>2, <2>3 DEF Initialize, CapKept, Conserved, PoolFrozen, Vetted,
             PoolFirst, PartOfFunded, PassSoFar
<1>2. CASE \E d \in Donors : Refund(d) BY <1>2, RefundIInv
<1>3. CASE \E d \in Donors : \E g \in Gifts : Fund(d, g) BY <1>3, FundIInv
<1>4. CASE \E m \in Milestones : ApproveMilestone(m) BY <1>4, ApproveIInv
<1>5. CASE MaintainTtl
  <2>1. PassSoFar' /\ cursor' \in Nat /\ fresh' \subseteq Donors BY <1>5, MaintainKnows
  <2> QED BY <1>5, <2>1 DEF MaintainTtl, books, CapKept, Conserved, PoolFrozen, Vetted,
             PoolFirst, PartOfFunded, Expired
<1>6. CASE Tick
  BY <1>6 DEF Tick, books, CapKept, Conserved, PoolFrozen, Vetted, PoolFirst,
     PartOfFunded, PassSoFar, Expired
<1>7. CASE UNCHANGED vars
  BY <1>7 DEF vars, CapKept, Conserved, PoolFrozen, Vetted, PoolFirst, PartOfFunded,
     PassSoFar, Expired
<1> QED BY <1>1, <1>2, <1>3, <1>4, <1>5, <1>6, <1>7 DEF Next

THEOREM InvariantHolds == Spec => []IInv
  BY InitIInv, StepIInv, PTL DEF Spec

\* Every variable keeps its type: no total and no balance is ever negative.
THEOREM TypeCorrect == Spec => []TypeOK
<1>1. IInv => TypeOK BY DEF IInv
<1> QED BY <1>1, InvariantHolds, PTL

\* A campaign is never funded beyond its milestones.
THEOREM CapIsKept == Spec => []CapKept
<1>1. IInv => CapKept BY DEF IInv
<1> QED BY <1>1, InvariantHolds, PTL

\* The contract holds what was funded less what was released and refunded.
THEOREM MoneyConserved == Spec => []Conserved
<1>1. IInv => Conserved BY DEF IInv
<1> QED BY <1>1, InvariantHolds, PTL

\* The refund pool is frozen at the balance unreleased at expiry.
THEOREM PoolIsFrozen == Spec => []PoolFrozen
<1>1. IInv => PoolFrozen BY DEF IInv
<1> QED BY <1>1, InvariantHolds, PTL

\* The checked product of a refund never overflows, for any campaign the
\* limits of init admit.
NoOverflow == Expired /\ Pool > 0 => \A d \in Donors : contribution[d] * Pool <= MaxInt

THEOREM ProductsFit == Spec => []NoOverflow
<1>1. ASSUME IInv PROVE NoOverflow
  <2> DEFINE M == MaxCampaign
  <2>0. M \in Nat /\ MaxInt \in Nat /\ M * M <= MaxInt BY LimitAssumption
  <2> HIDE DEF M
  <2> SUFFICES ASSUME NEW d \in Donors PROVE contribution[d] * Pool <= MaxInt
    BY DEF NoOverflow
  <2>1. funded \in Nat /\ funded <= M
    <3>1. funded <= total /\ total \in 0..M BY <1>1 DEF IInv, CapKept, TypeOK, M
    <3> QED BY <1>1, <2>0, <3>1 DEF IInv, TypeOK
  <2>2. Pool \in Nat /\ Pool <= funded
    BY <1>1, NoneAssumption DEF Pool, Available, IInv, TypeOK, PoolFrozen, Conserved
  <2>3. contribution[d] \in Nat /\ contribution[d] <= funded
    BY <1>1 DEF PartOfFunded, IInv, TypeOK
  <2>4. Pool <= M /\ contribution[d] <= M BY <2>0, <2>1, <2>2, <2>3
  <2>5. contribution[d] * Pool <= M * M BY <2>0, <2>2, <2>3, <2>4, MulMono
  <2>6. contribution[d] * Pool \in Nat /\ M * M \in Nat BY <2>0, <2>2, <2>3
  <2> QED BY <2>0, <2>5, <2>6
<1> QED BY <1>1, InvariantHolds, PTL

\* A donor's claim is executed at most once.
THEOREM ClaimsOnce == Spec => ClaimedOnce
<1>1. IInv /\ [Next]_vars =>
        [\A d \in Donors : refundOf[d] # None => refundOf'[d] = refundOf[d]]_vars
  <2> SUFFICES ASSUME IInv, [Next]_vars, NEW d \in Donors, refundOf[d] # None
               PROVE  refundOf'[d] = refundOf[d]
    OBVIOUS
  <2>1. ASSUME NEW c \in Donors, Refund(c) PROVE refundOf'[d] = refundOf[d]
    BY <2>1 DEF Refund, Pay, IInv, TypeOK
  <2> QED BY <2>1 DEF Next, Initialize, Fund, Deposit, ApproveMilestone, Release,
             MaintainTtl, Tick, books, vars
<1> QED BY <1>1, InvariantHolds, PTL DEF Spec, ClaimedOnce

-----------------------------------------------------------------------------
(***************************************************************************)
(* Shares of a pool.  The weight of donors is what they gave together; what *)
(* was paid out of the pool follows the weight of those who claimed, less  *)
(* what the divisions cut off: under a unit per claim.                     *)
(***************************************************************************)
Owed == {d \in Donors : refundOf[d] = None}
Claims == Cardinality(Donors \ Owed)
Weight(S) == SumOn(contribution, S)

\* Of a pool of p, at most the weight of the claims is paid, and at least that
\* less a unit per claim.
PaidByWeight(p) ==
    /\ refunded * funded + p * Weight(Owed) <= p * funded
    /\ p * funded <= p * Weight(Owed) + refunded * funded + funded * Claims

SharesInv ==
    /\ \A d \in Donors \ Known : contribution[d] = 0 /\ refundOf[d] = None
    /\ Cardinality(Known) <= Len(donors)
    /\ Weight(Donors) = funded
    /\ pool = None => Owed = Donors
    /\ pool # None => PaidByWeight(pool)
    /\ pool # None /\ Unclaimed = {} => refunded = pool
    /\ SharedFairly

LEMMA Floors ==
  ASSUME NEW a \in Nat, NEW n \in Nat, n > 0
  PROVE  /\ a \div n \in Nat
         /\ (a \div n) * n <= a /\ a < (a \div n) * n + n
OBVIOUS

LEMMA Cancel ==
  ASSUME NEW a \in Int, NEW b \in Int, NEW n \in Nat, n > 0, a * n <= b * n
  PROVE  a <= b
<1> SUFFICES ASSUME b + 1 <= a PROVE FALSE OBVIOUS
<1>1. (b + 1) * n <= a * n OBVIOUS
<1>2. (b + 1) * n = b * n + n OBVIOUS
<1>3. a * n \in Int /\ b * n \in Int OBVIOUS
<1> QED BY <1>1, <1>2, <1>3

\* A share that is rounded down.
LEMMA ShareStep ==
  ASSUME NEW F \in Nat, F > 0, NEW P \in Nat, NEW paid \in Nat, NEW U \in Nat, NEW k \in Nat,
         NEW c \in Nat, c <= U, NEW s, s = (c * P) \div F,
         paid * F + P * U <= P * F, P * F <= P * U + paid * F + F * k
  PROVE  /\ (paid + s) * F + P * (U - c) <= P * F
         /\ P * F <= P * (U - c) + (paid + s) * F + F * (k + 1)
         /\ s \in Nat /\ paid + s <= P /\ s * F <= c * P
<1>1. c * P \in Nat OBVIOUS
<1>2. s \in Nat /\ s * F <= c * P /\ c * P < s * F + F BY <1>1, Floors
<1>3. (paid + s) * F = paid * F + s * F BY <1>2
<1>4. P * (U - c) = P * U - c * P OBVIOUS
<1>5. F * (k + 1) = F * k + F OBVIOUS
<1>6. /\ paid * F \in Int /\ s * F \in Int /\ P * U \in Int /\ P * F \in Int /\ F * k \in Int
      /\ (paid + s) * F \in Int /\ P * (U - c) \in Nat /\ F * (k + 1) \in Int
  <2>1. U - c \in Nat OBVIOUS
  <2> QED BY <1>2, <2>1
<1>7. (paid + s) * F + P * (U - c) <= P * F BY <1>1, <1>2, <1>3, <1>4, <1>6
<1>8. P * F <= P * (U - c) + (paid + s) * F + F * (k + 1) BY <1>1, <1>2, <1>3, <1>4, <1>5, <1>6
<1>9. (paid + s) * F <= P * F BY <1>6, <1>7
<1>10. paid + s <= P BY <1>2, <1>9, Cancel
<1> QED BY <1>2, <1>7, <1>8, <1>10

\* The last share.
LEMMA LastStep ==
  ASSUME NEW F \in Nat, F > 0, NEW P \in Nat, NEW paid \in Nat, paid <= P, NEW c \in Nat, NEW k \in Nat,
         P * F <= P * c + paid * F + F * k
  PROVE  (P - paid) * F <= c * P + F * k
<1>1. (P - paid) * F = P * F - paid * F OBVIOUS
<1>2. P * c = c * P OBVIOUS
<1>3. P * F \in Int /\ paid * F \in Int /\ P * c \in Int /\ F * k \in Int OBVIOUS
<1> QED BY <1>1, <1>2, <1>3

LEMMA Weights ==
  ASSUME TypeOK, NEW D, D \subseteq Donors
  PROVE  /\ IsFiniteSet(D) /\ Weight(D) \in Nat
         /\ \A d \in D : /\ Weight(D) = contribution[d] + Weight(D \ {d})
                         /\ contribution[d] \in Nat /\ contribution[d] <= Weight(D)
                         /\ Weight(D \ {d}) \in Nat
<1>1. IsFiniteSet(D) /\ \A d \in D : IsFiniteSet(D \ {d}) BY DonorsAssumption, FS_Subset
<1>2. \A d \in D : contribution[d] \in Nat /\ contribution[d] \in Int BY DEF TypeOK
<1>3. Weight(D) \in Nat /\ \A d \in D : contribution[d] <= Weight(D)
  BY <1>1, <1>2, SumNat DEF Weight
<1>4. ASSUME NEW d \in D
      PROVE  Weight(D) = contribution[d] + Weight(D \ {d}) /\ Weight(D \ {d}) \in Nat
  <2>1. \A e \in D \ {d} : contribution[e] \in Nat BY <1>2
  <2>2. Weight(D \ {d}) \in Nat BY <1>1, <2>1, SumNat DEF Weight
  <2>3. Weight(D) = contribution[d] + Weight(D \ {d}) BY <1>1, <1>2, SumRemove DEF Weight
  <2> QED BY <2>2, <2>3
<1> QED BY <1>1, <1>2, <1>3, <1>4

LEMMA KnownDonors ==
  ASSUME TypeOK
  PROVE  /\ Known \subseteq Donors /\ IsFiniteSet(Known) /\ Cardinality(Known) \in Nat
         /\ Owed \subseteq Donors /\ IsFiniteSet(Owed)
         /\ IsFiniteSet(Donors \ Owed) /\ Claims \in Nat
         /\ Len(donors) \in Nat
<1>1. Known \subseteq Donors BY DEF TypeOK, Known
<1>2. IsFiniteSet(Known) BY <1>1, DonorsAssumption, FS_Subset
<1>3. IsFiniteSet(Owed) /\ IsFiniteSet(Donors \ Owed) BY DonorsAssumption, FS_Subset DEF Owed
<1> QED BY <1>1, <1>2, <1>3, FS_CardinalityType DEF Owed, Claims, TypeOK

\* When one donor is left to claim, the weight owed is its contribution, and it is
\* one of the donors that the claims do not count.
LEMMA LastOwed ==
  ASSUME TypeOK, SharesInv, NEW d \in Donors, d \in Known, refundOf[d] = None
  PROVE  /\ contribution[d] <= Weight(Owed)
         /\ Claims + 1 <= Len(donors)
         /\ Unclaimed = {d} => Weight(Owed) = contribution[d] /\ Weight(Owed \ {d}) = 0
<1>1. d \in Owed BY DEF Owed
<1>2. Donors \ Owed \subseteq Known BY DEF SharesInv, Owed
<1>3. Cardinality((Donors \ Owed) \cup {d}) = Claims + 1
  BY <1>1, KnownDonors, FS_AddElement DEF Claims
<1>4. Cardinality((Donors \ Owed) \cup {d}) <= Cardinality(Known)
  BY <1>2, KnownDonors, FS_Subset
<1>5. Claims + 1 <= Len(donors) BY <1>3, <1>4, KnownDonors DEF SharesInv
<1>6. ASSUME Unclaimed = {d} PROVE Weight(Owed) = contribution[d] /\ Weight(Owed \ {d}) = 0
  <2>1. \A e \in Owed \ {d} : contribution[e] = 0 BY <1>6 DEF Owed, Unclaimed, SharesInv
  <2>2. IsFiniteSet(Owed \ {d}) BY KnownDonors, FS_Subset
  <2>3. Weight(Owed \ {d}) = 0 BY <2>1, <2>2, SumZero DEF Weight
  <2>4. Weight(Owed) = contribution[d] + Weight(Owed \ {d}) /\ contribution[d] \in Nat
    BY <1>1, KnownDonors, Weights
  <2> QED BY <2>3, <2>4
<1> QED BY <1>1, <1>5, <1>6, KnownDonors, Weights

\* While the pool is not yet frozen the bounds hold for what it would be frozen at.
LEMMA PoolBounds ==
  ASSUME IInv, SharesInv, Pool > 0
  PROVE  /\ PaidByWeight(Pool) /\ Pool \in Nat /\ refunded <= Pool
         /\ funded \in Nat /\ funded > 0 /\ refunded \in Nat
<1> USE NoneAssumption DEF IInv, TypeOK, Conserved, PoolFrozen, PoolFirst
<1>1. /\ Pool \in Nat /\ Pool >= refunded /\ funded > 0 /\ funded \in Nat /\ refunded \in Nat
      /\ pool # None => Pool = pool
  BY DEF Pool, Available
<1>2. ASSUME pool = None PROVE PaidByWeight(Pool)
  <2>1. refunded = 0 /\ Owed = Donors /\ Weight(Owed) = funded BY <1>2 DEF SharesInv
  <2>2. Claims = 0
    <3>1. Donors \ Owed = {} BY <2>1
    <3> QED BY <3>1, FS_EmptySet DEF Claims
  <2>3. refunded * funded = 0 /\ funded * Claims = 0 /\ Pool * funded \in Nat
    BY <1>1, <2>1, <2>2
  <2>4. Weight(Owed) = funded BY <2>1
  <2> HIDE DEF IInv, TypeOK, Conserved, PoolFrozen, PoolFirst
  <2> QED BY <2>3, <2>4 DEF PaidByWeight
<1>3. ASSUME pool # None PROVE PaidByWeight(Pool) BY <1>1, <1>3 DEF SharesInv
<1> QED BY <1>1, <1>2, <1>3

LEMMA InitShares == Init => SharesInv
<1> SUFFICES ASSUME Init PROVE SharesInv OBVIOUS
<1>1. Known = {} /\ Len(donors) = 0 BY DEF Init, Known
<1>2. \A d \in Donors : contribution[d] = 0 /\ refundOf[d] = None BY DEF Init
<1>3. Weight(Donors) = 0 BY <1>2, DonorsAssumption, SumZero DEF Weight
<1> QED BY <1>1, <1>2, <1>3, FS_EmptySet DEF Init, SharesInv, Owed, SharedFairly

LEMMA FundShares ==
  ASSUME IInv, IInv', SharesInv, NEW d \in Donors, NEW g \in Gifts, Fund(d, g)
  PROVE  SharesInv'
<1>1. TypeOK /\ TypeOK' /\ pool = None /\ pool' = None
  <2>1. TypeOK /\ TypeOK' /\ pool' = pool BY DEF IInv, Fund, Deposit
  <2>2. pool = None BY <2>1, NoneAssumption DEF IInv, Fund, Active, PoolFrozen, Expired, TypeOK
  <2> QED BY <2>1, <2>2
<1>2. /\ contribution' = [contribution EXCEPT ![d] = @ + g] /\ funded' = funded + g
      /\ refundOf' = refundOf /\ g \in Nat
      /\ donors' = IF d \in Known THEN donors ELSE Append(donors, d)
  BY GiftAssumption DEF Fund, Deposit
<1>3. Known' = Known \cup {d} /\ Len(donors') = IF d \in Known THEN Len(donors) ELSE Len(donors) + 1
  <2>1. CASE d \in Known BY <1>2, <2>1 DEF Known
  <2>2. CASE d \notin Known
    <3>1. donors \in Seq(Donors) /\ donors' = Append(donors, d) BY <1>1, <1>2, <2>2 DEF TypeOK
    <3>2. /\ Len(donors) \in Nat /\ Len(donors') = Len(donors) + 1 /\ donors'[Len(donors) + 1] = d
          /\ \A i \in 1..Len(donors) : donors'[i] = donors[i]
      BY <3>1
    <3>3. 1..Len(donors') = (1..Len(donors)) \cup {Len(donors) + 1} BY <3>2
    <3> QED BY <2>2, <3>2, <3>3 DEF Known
  <2> QED BY <2>1, <2>2
<1>4. Cardinality(Known') <= Len(donors')
  <2>1. Cardinality(Known') = IF d \in Known THEN Cardinality(Known) ELSE Cardinality(Known) + 1
    BY <1>1, <1>3, KnownDonors, FS_AddElement
  <2> QED BY <1>1, <1>3, <2>1, KnownDonors DEF SharesInv
<1>5. \A e \in Donors \ Known' : contribution'[e] = 0 /\ refundOf'[e] = None
  BY <1>1, <1>2, <1>3 DEF SharesInv, TypeOK
<1>6. Weight(Donors)' = funded'
  <2>1. \A e \in Donors : contribution[e] \in Int /\ contribution'[e] \in Int BY <1>1 DEF TypeOK
  <2>2. contribution'[d] = contribution[d] + g /\ \A e \in Donors \ {d} : contribution'[e] = contribution[e]
    BY <1>1, <1>2 DEF TypeOK
  <2>3. SumOn(contribution', Donors) = SumOn(contribution, Donors) - contribution[d] + contribution'[d]
    BY <2>1, <2>2, DonorsAssumption, SumChanges
  <2>4. SumOn(contribution, Donors) = funded /\ funded \in Nat BY <1>1 DEF SharesInv, Weight, TypeOK
  <2>5. SumOn(contribution', Donors) = funded + g BY <1>2, <2>1, <2>2, <2>3, <2>4
  <2> QED BY <1>2, <2>5 DEF Weight
<1>7. Owed = Donors /\ Owed' = Donors BY <1>1, <1>2 DEF SharesInv, Owed
<1>8. SharedFairly' BY <1>2, <1>7, <1>3, <1>1, KnownDonors DEF SharedFairly, Owed
<1> QED BY <1>1, <1>4, <1>5, <1>6, <1>7, <1>8 DEF SharesInv

\* A claim: what is paid stays in its bounds, and the share within a unit per donor.
LEMMA RefundBounds ==
  ASSUME IInv, SharesInv, NEW d \in Donors, Refund(d)
  PROVE  /\ refunded' * funded + Pool * Weight(Owed \ {d}) <= Pool * funded
         /\ Pool * funded <= Pool * Weight(Owed \ {d}) + refunded' * funded + funded * (Claims + 1)
         /\ Share(d) * funded < contribution[d] * Pool + funded * Len(donors)
         /\ Unclaimed = {d} => refunded' = Pool
<1> DEFINE F == funded   P == Pool   c == contribution[d]   U == Weight(Owed)   k == Claims
           paid == refunded   s == Share(d)   W == Weight(Owed \ {d})   l == Len(donors)
<1>1. TypeOK /\ d \in Known /\ refundOf[d] = None /\ P > 0 BY DEF Refund, IInv
<1>2. /\ PaidByWeight(P) /\ P \in Nat /\ paid <= P /\ F \in Nat /\ F > 0 /\ paid \in Nat
  BY <1>1, PoolBounds
<1>3. /\ c <= U /\ k + 1 <= l /\ (Unclaimed = {d} => U = c /\ W = 0)
      /\ c \in Nat /\ U \in Nat /\ W \in Nat /\ U = c + W
      /\ k \in Nat /\ l \in Nat
  <2>1. d \in Owed BY <1>1 DEF Owed
  <2> QED BY <1>1, <2>1, LastOwed, Weights, KnownDonors
<1>4. paid * F + P * U <= P * F /\ P * F <= P * U + paid * F + F * k
  BY <1>2 DEF PaidByWeight
<1>5. refunded' = paid + s BY DEF Refund, Pay
<1>6. s = IF Unclaimed = {d} THEN P - paid ELSE (c * P) \div F BY DEF Share
<1> HIDE DEF F, P, c, U, k, paid, s, W, l
<1>7. CASE Unclaimed = {d}
  <2>1. s = P - paid /\ U = c /\ W = 0 BY <1>3, <1>6, <1>7
  <2>2. P * F <= P * c + paid * F + F * k BY <1>4, <2>1
  <2>3. s * F <= c * P + F * k BY <1>2, <1>3, <2>1, <2>2, LastStep
  <2>4. F * (k + 1) <= F * l /\ F * (k + 1) = F * k + F /\ F * k \in Nat /\ F * l \in Nat
    BY <1>2, <1>3
  <2>5. s \in Nat /\ paid + s = P BY <1>2, <2>1
  <2>6. s * F \in Nat /\ c * P \in Nat /\ P * F \in Nat /\ P * W = 0 BY <1>2, <1>3, <2>1, <2>5
  <2>7. s * F < c * P + F * l BY <1>2, <2>3, <2>4, <2>6
  <2>8. refunded' = P BY <1>5, <2>5
  <2>9. P * F + P * W <= P * F /\ P * F <= P * W + P * F + F * (k + 1) BY <2>4, <2>6, <1>2
  <2> QED BY <2>7, <2>8, <2>9 DEF F, P, c, U, k, paid, s, W, l
<1>8. CASE Unclaimed # {d}
  <2>1. s = (c * P) \div F BY <1>6, <1>8
  <2>2. /\ (paid + s) * F + P * (U - c) <= P * F
        /\ P * F <= P * (U - c) + (paid + s) * F + F * (k + 1)
        /\ s \in Nat /\ s * F <= c * P
    BY <1>2, <1>3, <1>4, <2>1, ShareStep
  <2>3. U - c = W BY <1>3
  <2>4. s * F \in Nat /\ c * P \in Nat /\ F * l \in Nat /\ F * l > 0
    <3>1. l >= 1 BY <1>3
    <3>2. F * l >= F * 1 BY <1>2, <1>3, <3>1
    <3> QED BY <1>2, <1>3, <2>2, <3>2
  <2>5. s * F < c * P + F * l BY <2>2, <2>4
  <2> QED BY <1>5, <1>8, <2>2, <2>3, <2>5 DEF F, P, c, U, k, paid, s, W, l
<1> QED BY <1>7, <1>8

LEMMA RefundShares ==
  ASSUME IInv, IInv', SharesInv, NEW d \in Donors, Refund(d)
  PROVE  SharesInv'
<1>1. TypeOK /\ TypeOK' /\ d \in Known /\ refundOf[d] = None BY DEF IInv, Refund
<1>2. /\ refundOf' = [refundOf EXCEPT ![d] = Share(d)] /\ pool' = Pool
      /\ UNCHANGED <<funded, donors, contribution>>
  BY DEF Refund, Pay
<1>3. refundOf'[d] = Share(d) /\ \A e \in Donors \ {d} : refundOf'[e] = refundOf[e]
  BY <1>1, <1>2 DEF TypeOK
<1>4. refundOf'[d] # None /\ pool' # None
  BY <1>1, <1>2, <1>3, NoneAssumption, ShareNat, PoolBounds DEF Refund
<1>5. Known' = Known /\ Len(donors') = Len(donors) BY <1>2 DEF Known
<1>6. Owed' = Owed \ {d} /\ Unclaimed' = Unclaimed \ {d} BY <1>1, <1>3, <1>4, <1>5, KnownDonors DEF Owed, Unclaimed
<1>7. Claims' = Claims + 1
  <2>1. d \in Owed BY <1>1 DEF Owed
  <2>2. Donors \ Owed' = (Donors \ Owed) \cup {d} BY <1>6
  <2>3. Cardinality((Donors \ Owed) \cup {d}) = Claims + 1
    BY <1>1, <2>1, KnownDonors, FS_AddElement DEF Claims
  <2> QED BY <2>2, <2>3 DEF Claims
<1>8. PaidByWeight(pool)'
  <2>1. Weight(Owed)' = Weight(Owed \ {d}) BY <1>2, <1>6 DEF Weight
  <2> QED BY <1>2, <1>7, <2>1, RefundBounds DEF PaidByWeight
<1>9. Unclaimed' = {} => refunded' = pool'
  <2>1. d \in Unclaimed BY <1>1 DEF Unclaimed
  <2>2. Unclaimed' = {} => Unclaimed = {d} BY <1>6, <2>1
  <2> QED BY <1>2, <2>2, RefundBounds
<1>10. SharedFairly'
  <2> SUFFICES ASSUME NEW e \in Known, refundOf'[e] # None
               PROVE  refundOf'[e] * funded < contribution[e] * Pool + funded * Len(donors)
    BY <1>2, <1>5 DEF SharedFairly
  <2>1. CASE e = d BY <1>3, <2>1, RefundBounds
  <2>2. CASE e # d
    <3>1. e \in Donors /\ refundOf'[e] = refundOf[e] /\ refundOf[e] # None
      BY <1>1, <1>3, <2>2, KnownDonors
    <3>2. pool # None BY <3>1 DEF SharesInv, Owed
    <3> QED BY <3>1, <3>2 DEF SharesInv, SharedFairly, Pool
  <2> QED BY <2>1, <2>2
<1>11. \A e \in Donors \ Known' : contribution'[e] = 0 /\ refundOf'[e] = None
  BY <1>1, <1>2, <1>3, <1>5 DEF SharesInv
<1>12. Cardinality(Known') <= Len(donors') /\ Weight(Donors)' = funded'
  BY <1>2, <1>5 DEF SharesInv, Weight
<1> QED BY <1>4, <1>8, <1>9, <1>10, <1>11, <1>12 DEF SharesInv

LEMMA StepShares == IInv /\ IInv' /\ SharesInv /\ [Next]_vars => SharesInv'
<1> SUFFICES ASSUME IInv, IInv', SharesInv, [Next]_vars PROVE SharesInv' OBVIOUS
<1>1. ASSUME UNCHANGED <<funded, refunded, pool, donors, contribution, refundOf>>
      PROVE  SharesInv'
  BY <1>1 DEF SharesInv, Known, Owed, Claims, Weight, Unclaimed, SharedFairly, PaidByWeight
<1>2. CASE \E d \in Donors : Refund(d) BY <1>2, RefundShares
<1>3. CASE \E d \in Donors : \E g \in Gifts : Fund(d, g) BY <1>3, FundShares
<1>4. CASE \/ \E e \in 1..MaxLedger + 1 : Initialize(e)
           \/ \E m \in Milestones : ApproveMilestone(m)
           \/ MaintainTtl \/ Tick \/ UNCHANGED vars
  BY <1>1, <1>4 DEF Initialize, ApproveMilestone, Release, MaintainTtl, Tick, books, vars
<1> QED BY <1>2, <1>3, <1>4 DEF Next

\* What a donor is owed it can have, now and in any order, and no more.
THEOREM SharesKept == Spec => []SharesHold
<1>1. Spec => [](IInv /\ SharesInv)
  <2>1. Init => IInv /\ SharesInv BY InitIInv, InitShares
  <2>2. IInv /\ SharesInv /\ [Next]_vars => (IInv /\ SharesInv)' BY StepIInv, StepShares
  <2> QED BY <2>1, <2>2, PTL DEF Spec
<1>2. ASSUME IInv, SharesInv, NoOverflow PROVE SharesHold
  <2>1. TypeOK BY <1>2 DEF IInv
  <2>2. ASSUME Expired, Pool > 0, NEW d \in Unclaimed
        PROVE  contribution[d] * Pool <= MaxInt /\ Share(d) \in 0..held
    <3>1. d \in Known /\ d \in Donors /\ refundOf[d] = None BY <2>1, KnownDonors DEF Unclaimed
    <3>2. contribution[d] * Pool <= MaxInt BY <1>2, <2>2, <3>1 DEF NoOverflow
    <3>3. held = Pool - refunded /\ refunded <= Pool /\ Pool \in Nat /\ refunded \in Nat
      BY <1>2, <2>1, <2>2, PoolBounds, NoneAssumption
         DEF Pool, Available, IInv, Conserved, PoolFrozen, PoolFirst
    <3>4. Share(d) \in Nat BY <1>2, <2>2, <3>1, ShareNat
    <3>5. refunded + Share(d) <= Pool
      <4>1. CASE Unclaimed = {d} BY <3>3, <4>1 DEF Share
      <4>2. CASE Unclaimed # {d}
        <5> DEFINE F == funded   P == Pool   c == contribution[d]   U == Weight(Owed)
                   k == Claims   paid == refunded   s == Share(d)
        <5>1. /\ F \in Nat /\ F > 0 /\ P \in Nat /\ paid \in Nat /\ U \in Nat /\ k \in Nat
              /\ c \in Nat /\ c <= U /\ s = (c * P) \div F
              /\ paid * F + P * U <= P * F /\ P * F <= P * U + paid * F + F * k
          <6>1. d \in Owed BY <3>1 DEF Owed
          <6> QED BY <1>2, <2>1, <2>2, <4>2, <6>1, PoolBounds, Weights, KnownDonors
                  DEF PaidByWeight, Share
        <5> HIDE DEF F, P, c, U, k, paid, s
        <5>2. paid + s <= P BY <5>1, ShareStep
        <5> QED BY <5>2 DEF P, paid, s
      <4> QED BY <4>1, <4>2
    <3> QED BY <3>2, <3>3, <3>4, <3>5
  <2>3. FullyShared
    <3> SUFFICES ASSUME pool # None, Unclaimed = {} PROVE refunded = pool /\ held = 0
      BY DEF FullyShared
    <3>1. refunded = pool BY <1>2 DEF SharesInv
    <3> QED BY <1>2, <2>1, <3>1, NoneAssumption DEF IInv, Conserved, PoolFrozen, TypeOK
  <2>4. SharedFairly BY <1>2 DEF SharesInv
  <2> QED BY <2>2, <2>3, <2>4 DEF SharesHold, Claimable
<1> QED BY <1>1, <1>2, ProductsFit, PTL

\* A finished maintenance pass has refreshed every donor.
THEOREM PassesComplete == Spec => PassComplete
<1>1. IInv => [MaintainTtl /\ cursor' = 0 => Known \subseteq fresh']_vars
  BY MaintainKnows
<1> QED BY <1>1, InvariantHolds, PTL DEF Spec, PassComplete

-----------------------------------------------------------------------------
(***************************************************************************)
(* Proof, for any number of requests with one key, of which bodies differ: *)
(* two handlers run at once only after the first one's record was deleted  *)
(* or had expired, and a replay repeats an answer to the same body.        *)
(***************************************************************************)
KeyRecord == [by : Requests, status : {"in_progress", "completed"}]
KeyStep == Key!Handling \cup {"new", "collided", "done", "dead"}
KeyAnswer == [kind : {"none", "error", "mismatch", "busy", "replayed", "answered", "failed"},
              by : Requests \cup {None}]

\* A handler that runs has the record, unless it was released.
HandlersHold == \A q \in Requests : pc[q] \in Key!Handling =>
    q \in dropped \/ (record # None /\ record.by = q)

\* What is stored, or about to be, was answered, and an answer is given once.
StoredIsAnswered ==
    /\ \A q \in Requests : <<"complete", q>> \in writing => answer[q].kind = "answered"
    /\ record # None /\ record.status = "completed" => answer[record.by].kind = "answered"
    /\ \A q \in Requests : answer[q].kind # "none" => pc[q] = "done"

KeyInv ==
    /\ record \in KeyRecord \cup {None}
    /\ pc \in [Requests -> KeyStep] /\ answer \in [Requests -> KeyAnswer]
    /\ HandlersHold /\ StoredIsAnswered
    /\ \A q \in Requests : answer[q].kind = "replayed" => answer[q].by \in Requests
    /\ Key!ReplayIsAnswer

\* A request is answered.
LEMMA KeyReplies ==
  ASSUME KeyInv, NEW r \in Requests, NEW kind, NEW by,
         [kind |-> kind, by |-> by] \in KeyAnswer,
         Key!Reply(r, kind, by), pc[r] # "done", UNCHANGED <<record, dropped>>,
         writing' \subseteq writing \cup
             (IF kind = "answered" THEN {<<"complete", r>>} ELSE {<<"delete", r>>}),
         kind = "replayed" => /\ by \in Requests /\ answer[by].kind = "answered"
                              /\ BodyOf[by] = BodyOf[r]
  PROVE  KeyInv'
<1> DEFINE now == [kind |-> kind, by |-> by]
<1>1. now \in KeyAnswer /\ now.kind = kind /\ now.by = by OBVIOUS
<1>2. answer' = [answer EXCEPT ![r] = now] /\ pc' = [pc EXCEPT ![r] = "done"] BY DEF Key!Reply
<1> HIDE DEF now
<1>3. /\ answer' \in [Requests -> KeyAnswer] /\ answer'[r] = now
      /\ \A q \in Requests \ {r} : answer'[q] = answer[q]
      /\ pc' \in [Requests -> KeyStep] /\ pc'[r] = "done"
      /\ \A q \in Requests \ {r} : pc'[q] = pc[q]
  BY <1>1, <1>2 DEF KeyInv, KeyStep
<1>4. answer[r].kind = "none" BY DEF KeyInv, StoredIsAnswered
<1>5. HandlersHold' BY <1>3 DEF KeyInv, HandlersHold, Key!Handling
<1>6. StoredIsAnswered'
  <2>1. \A q \in Requests : <<"complete", q>> \in writing' =>
          <<"complete", q>> \in writing \/ (q = r /\ kind = "answered")
    OBVIOUS
  <2>2. record \in KeyRecord => record.by \in Requests BY DEF KeyRecord
  <2> QED BY <1>1, <1>3, <1>4, <2>1, <2>2 DEF KeyInv, StoredIsAnswered
<1>7. \A q \in Requests : answer'[q].kind = "replayed" =>
        answer'[q].by \in Requests /\ answer'[answer'[q].by].kind = "answered"
        /\ BodyOf[answer'[q].by] = BodyOf[q]
  BY <1>1, <1>3, <1>4 DEF KeyInv, Key!ReplayIsAnswer
<1> QED BY <1>3, <1>5, <1>6, <1>7 DEF KeyInv, Key!ReplayIsAnswer

LEMMA KeyAnswers ==
  ASSUME KeyInv, NEW r \in Requests,
         Key!Lookup(r) \/ Key!Respond(r) \/ Key!RespondFailed(r)
  PROVE  KeyInv'
<1> USE DEF KeyAnswer
<1>1. pc[r] # "done" BY DEF Key!Lookup, Key!Respond, Key!RespondFailed, Key!Handling
<1>2. CASE Key!Lookup(r)
  <2>0. UNCHANGED <<record, writing, dropped>> BY <1>2 DEF Key!Lookup
  <2>1. ASSUME NEW kind \in {"error", "mismatch", "busy"}, Key!Reply(r, kind, None)
        PROVE  KeyInv'
    BY <1>1, <2>0, <2>1, KeyReplies
  <2>2. CASE record # None /\ Key!Matches(r) /\ record.status = "completed"
             /\ Key!Reply(r, "replayed", record.by)
    <3>1. record.by \in Requests BY <2>2 DEF KeyInv, KeyRecord
    <3>2. answer[record.by].kind = "answered" BY <2>2 DEF KeyInv, StoredIsAnswered
    <3>3. BodyOf[record.by] = BodyOf[r] BY <2>2 DEF Key!Matches
    <3> QED BY <1>1, <2>0, <2>2, <3>1, <3>2, <3>3, KeyReplies
  <2> QED BY <1>2, <2>1, <2>2 DEF Key!Lookup
<1>3. CASE Key!Respond(r) BY <1>1, <1>3, KeyReplies DEF Key!Respond
<1>4. CASE Key!RespondFailed(r) BY <1>1, <1>4, KeyReplies DEF Key!RespondFailed
<1> QED BY <1>2, <1>3, <1>4

\* A request takes its next step before it is answered.
LEMMA KeySteps ==
  ASSUME KeyInv, NEW r \in Requests,
         Key!Insert(r) \/ Key!Collide(r) \/ Key!Mutate(r) \/ Key!Crash(r)
  PROVE  KeyInv'
<1>1. UNCHANGED <<answer, writing, dropped>>
  BY DEF Key!Insert, Key!Collide, Key!Mutate, Key!Crash
<1>2. PICK s \in KeyStep : pc' = [pc EXCEPT ![r] = s]
  BY DEF Key!Insert, Key!Collide, Key!Mutate, Key!Crash, KeyStep, Key!Handling
<1>3. pc' \in [Requests -> KeyStep] /\ \A q \in Requests \ {r} : pc'[q] = pc[q]
  BY <1>2 DEF KeyInv
<1>4. pc[r] # "done" BY DEF Key!Insert, Key!Collide, Key!Mutate, Key!Crash, Key!Handling
<1>5. answer[r].kind = "none" BY <1>4 DEF KeyInv, StoredIsAnswered
<1>6. Key!ReplayIsAnswer' BY <1>1 DEF KeyInv, Key!ReplayIsAnswer
<1>7. CASE Key!Insert(r)
  <2> DEFINE new == [by |-> r, status |-> "in_progress"]
  <2>1. new \in KeyRecord /\ new.by = r /\ new.status = "in_progress" BY DEF KeyRecord
  <2>2. record = None /\ record' = new BY <1>7 DEF Key!Insert
  <2> HIDE DEF new
  <2>3. new # None BY <2>1, KeyAssumption DEF KeyRecord
  <2>4. HandlersHold' BY <1>1, <1>3, <2>1, <2>2, <2>3 DEF KeyInv, HandlersHold
  <2>5. StoredIsAnswered' BY <1>1, <1>3, <1>5, <2>1, <2>2 DEF KeyInv, StoredIsAnswered
  <2> QED BY <1>1, <1>3, <1>6, <2>1, <2>2, <2>4, <2>5 DEF KeyInv
<1>8. CASE Key!Collide(r) \/ Key!Mutate(r) \/ Key!Crash(r)
  <2>1. record' = record BY <1>8 DEF Key!Collide, Key!Mutate, Key!Crash
  <2>2. pc'[r] \in Key!Handling => pc[r] \in Key!Handling
    BY <1>8 DEF KeyInv, Key!Collide, Key!Mutate, Key!Crash, Key!Handling
  <2>3. HandlersHold' BY <1>1, <1>3, <2>1, <2>2 DEF KeyInv, HandlersHold
  <2>4. StoredIsAnswered' BY <1>1, <1>3, <1>5, <2>1 DEF KeyInv, StoredIsAnswered
  <2> QED BY <1>1, <1>3, <1>6, <2>1, <2>3, <2>4 DEF KeyInv
<1> QED BY <1>7, <1>8

\* The writes behind the answers, and the time to live.
LEMMA KeyWrites ==
  ASSUME KeyInv,
         \/ \E r \in Requests : \/ Key!Close(r) \/ Key!CompleteRecord(r)
                                \/ Key!DeleteRecord(r) \/ Key!LoseWrite(r)
         \/ Key!ExpireKey
  PROVE  KeyInv'
<1>1. UNCHANGED <<pc, answer>>
  BY DEF Key!Close, Key!CompleteRecord, Key!DeleteRecord, Key!LoseWrite, Key!ExpireKey
<1>2. \A q \in Requests : <<"complete", q>> \in writing' => <<"complete", q>> \in writing
  <2>1. \/ writing' \subseteq writing
        \/ \E r \in Requests : writing' = writing \cup {<<"delete", r>>}
    BY DEF Key!Close, Key!CompleteRecord, Key!DeleteRecord, Key!LoseWrite, Key!ExpireKey
  <2> QED BY <2>1
<1>3. Key!ReplayIsAnswer' BY <1>1 DEF KeyInv, Key!ReplayIsAnswer
<1>4. CASE record' = record /\ dropped \subseteq dropped'
  <2>1. HandlersHold' BY <1>1, <1>4 DEF KeyInv, HandlersHold
  <2>2. StoredIsAnswered' BY <1>1, <1>2, <1>4 DEF KeyInv, StoredIsAnswered
  <2> QED BY <1>1, <1>3, <1>4, <2>1, <2>2 DEF KeyInv
<1>5. CASE record # None /\ record' = None /\ dropped' = dropped \cup {record.by}
  <2>1. HandlersHold' BY <1>1, <1>5 DEF KeyInv, HandlersHold
  <2>2. StoredIsAnswered' BY <1>1, <1>2, <1>5 DEF KeyInv, StoredIsAnswered
  <2> QED BY <1>1, <1>3, <1>5, <2>1, <2>2 DEF KeyInv
<1>6. ASSUME NEW r \in Requests, <<"complete", r>> \in writing, record # None, record.by = r,
             record' = [record EXCEPT !.status = "completed"], dropped' = dropped
      PROVE  KeyInv'
  <2>1. record \in KeyRecord BY <1>6 DEF KeyInv
  <2>2. record' \in KeyRecord /\ record'.by = r BY <1>6, <2>1 DEF KeyRecord
  <2>3. record' # None BY <2>2, KeyAssumption DEF KeyRecord
  <2>4. HandlersHold' BY <1>1, <1>6, <2>2, <2>3 DEF KeyInv, HandlersHold
  <2>5. StoredIsAnswered' BY <1>1, <1>2, <1>6, <2>2 DEF KeyInv, StoredIsAnswered
  <2> QED BY <1>1, <1>3, <2>2, <2>4, <2>5 DEF KeyInv
<1>7. CASE \E r \in Requests : Key!Close(r) \/ Key!LoseWrite(r)
  BY <1>4, <1>7 DEF Key!Close, Key!LoseWrite
<1>8. CASE \E r \in Requests : Key!CompleteRecord(r)
  BY <1>4, <1>6, <1>8 DEF Key!CompleteRecord
<1>9. CASE \E r \in Requests : Key!DeleteRecord(r)
  BY <1>4, <1>5, <1>9 DEF Key!DeleteRecord
<1>10. CASE Key!ExpireKey BY <1>5, <1>10 DEF Key!ExpireKey
<1> QED BY <1>7, <1>8, <1>9, <1>10

LEMMA KeyNext == KeyInv /\ (Key!Next \/ UNCHANGED keyVars) => KeyInv'
<1>1. KeyInv /\ UNCHANGED keyVars => KeyInv'
  BY DEF KeyInv, keyVars, HandlersHold, StoredIsAnswered, Key!ReplayIsAnswer
<1> QED BY <1>1, KeyAnswers, KeySteps, KeyWrites DEF Key!Next, Key!Step

LEMMA KeyInit == Key!Init => KeyInv
<1> SUFFICES ASSUME Key!Init PROVE KeyInv OBVIOUS
<1>1. Key!NoAnswer \in KeyAnswer /\ Key!NoAnswer.kind = "none" BY DEF Key!NoAnswer, KeyAnswer
<1> QED BY <1>1 DEF Key!Init, KeyInv, KeyStep, HandlersHold, StoredIsAnswered,
              Key!ReplayIsAnswer, Key!Handling

\* No two handlers of a key run at once unless the record of one was released, and a replay
\* is what a request with the same body was answered: for any number of requests, whatever
\* clients hang up, writes are lost, handlers fail and keys expire.
THEOREM RetriesKept == ServicesSpec => []RetriesSound
<1>1. ServicesInit => KeyInv BY KeyInit DEF ServicesInit
<1>2. KeyInv /\ [ServicesNext]_<<vars, loyaltyVars, revenueVars, roundVars, keyVars,
                                catalogueVars, part>> => KeyInv'
  BY KeyNext DEF ServicesNext
<1>3. KeyInv => RetriesSound
  BY DEF KeyInv, HandlersHold, RetriesSound, Key!OneHandler
<1> QED BY <1>1, <1>2, <1>3, PTL DEF ServicesSpec

-----------------------------------------------------------------------------
(***************************************************************************)
(* Proof, for any applications, reviews and decisions that overlap: the    *)
(* recipient is one, and was judged on reviews that qualify it and are     *)
(* still there.  Whatever the rule is, it is asked of what was loaded.      *)
(***************************************************************************)
Filed == [status : {"none", "submitted"} \cup Round!Verdicts, applicant : People \cup {None},
          reviews : SUBSET Round!Review]
Deciding == [pc : {"idle", "judged", "done"}, on : Applications \cup {None},
             verdict : Round!Verdicts \cup {None}, loaded : SUBSET Round!Review]

\* What a decision judged is of an application, whose reviews include what it loaded.
Judged(k, ap) == k.pc \in {"judged", "done"} =>
    /\ k.on \in Applications /\ k.verdict \in Round!Verdicts
    /\ k.loaded \subseteq ap[k.on].reviews
    /\ k.verdict = "selected" => Round!Qualified(k.loaded)

RoundInv ==
    /\ application \in [Applications -> Filed] /\ request \in [Decisions -> Deciding]
    /\ \A d \in Decisions : Judged(request[d], application)
    /\ Round!OneRecipient
    /\ \A a \in Applications : application[a].status = "selected" =>
         \E d \in Decisions : request[d].pc = "done" /\ request[d].on = a
                              /\ request[d].verdict = "selected"

\* An application is filed or reviewed.
LEMMA RoundFiles ==
  ASSUME RoundInv, NEW a \in Applications, NEW f \in Filed,
         application' = [application EXCEPT ![a] = f], request' = request,
         application[a].reviews \subseteq f.reviews, f.status = "submitted"
  PROVE  RoundInv'
<1>1. /\ application' \in [Applications -> Filed] /\ application'[a] = f
      /\ \A o \in Applications \ {a} : application'[o] = application[o]
  BY DEF RoundInv
<1>2. \A d \in Decisions : Judged(request'[d], application') BY <1>1 DEF RoundInv, Judged
<1>3. Round!OneRecipient' BY <1>1 DEF RoundInv, Round!OneRecipient
<1> QED BY <1>1, <1>2, <1>3 DEF RoundInv

LEMMA RoundDocuments ==
  ASSUME RoundInv, NEW a \in Applications,
         \/ \E p \in People : Round!Submit(a, p)
         \/ \E v \in Round!Review : Round!AddReview(a, v)
  PROVE  RoundInv'
<1>0. application \in [Applications -> Filed] BY DEF RoundInv
<1>1. ASSUME NEW p \in People, Round!Submit(a, p) PROVE RoundInv'
  <2> DEFINE S == {"none", "submitted"} \cup Round!Verdicts
             O == People \cup {None}
             V == SUBSET Round!Review
             f == [Round!NoApplication EXCEPT !.status = "submitted", !.applicant = p]
  <2>1. Round!NoApplication \in [status : S, applicant : O, reviews : V]
        /\ Round!NoApplication.reviews = {} /\ "submitted" \in S /\ p \in O
    BY DEF Round!NoApplication
  <2> HIDE DEF S, O, V
  <2>2. f \in [status : S, applicant : O, reviews : V] /\ f.status = "submitted"
    BY <2>1, Zenon
  <2>3. application[a].reviews = {} BY <1>1, <2>1 DEF Round!Submit
  <2>4. application' = [application EXCEPT ![a] = f] /\ request' = request
    BY <1>1, Zenon DEF Round!Submit
  <2> HIDE DEF f
  <2>5. f \in Filed BY <2>2 DEF Filed, S, O, V
  <2> QED BY <2>2, <2>3, <2>4, <2>5, RoundFiles
<1>2. ASSUME NEW v \in Round!Review, Round!AddReview(a, v) PROVE RoundInv'
  <2> DEFINE f == [application[a] EXCEPT !.reviews = @ \cup {v}]
  <2>1. application[a].status = "submitted" /\ request' = request
    BY <1>2 DEF Round!AddReview, Round!OpenTo
  <2>2. /\ f \in Filed /\ f.status = "submitted" /\ f.reviews = application[a].reviews \cup {v}
    BY <1>0, <2>1 DEF Filed
  <2>3. application' = [application EXCEPT ![a] = f] BY <1>0, <1>2 DEF Round!AddReview
  <2> HIDE DEF f
  <2> QED BY <2>1, <2>2, <2>3, RoundFiles
<1> QED BY <1>1, <1>2

\* A decision moves on from what it was, and is about the same application.
LEMMA RoundDecisions ==
  ASSUME RoundInv, NEW d \in Decisions, NEW k \in Deciding,
         request' = [request EXCEPT ![d] = k], application' = application,
         Judged(k, application), request[d].pc # "done"
  PROVE  RoundInv'
<1>1. /\ request' \in [Decisions -> Deciding] /\ request'[d] = k
      /\ \A e \in Decisions \ {d} : request'[e] = request[e]
  BY DEF RoundInv
<1>2. \A e \in Decisions : Judged(request'[e], application') BY <1>1 DEF RoundInv
<1>3. \A e \in Decisions : request[e].pc = "done" => request'[e] = request[e] BY <1>1
<1>4. Round!OneRecipient' BY DEF RoundInv, Round!OneRecipient
<1> QED BY <1>1, <1>2, <1>3, <1>4 DEF RoundInv

Done(k) == [k EXCEPT !.pc = "done"]

LEMMA RoundDecides ==
  ASSUME RoundInv, NEW d \in Decisions,
         \/ \E a \in Applications, verdict \in Round!Verdicts : Round!Load(d, a, verdict)
         \/ Round!Save(d) \/ Round!SaveRefused(d) \/ Round!Lose(d)
  PROVE  RoundInv'
<1>0. /\ application \in [Applications -> Filed] /\ request \in [Decisions -> Deciding]
      /\ request[d] \in Deciding /\ Judged(request[d], application)
  BY DEF RoundInv
<1>1. ASSUME NEW a \in Applications, NEW verdict \in Round!Verdicts, Round!Load(d, a, verdict)
      PROVE  RoundInv'
  <2> DEFINE k == [pc |-> "judged", on |-> a, verdict |-> verdict,
                   loaded |-> application[a].reviews]
  <2>1. /\ request' = [request EXCEPT ![d] = k] /\ application' = application
        /\ verdict = "selected" => Round!Qualified(application[a].reviews)
        /\ request[d] = Round!NoDecision
    BY <1>1 DEF Round!Load
  <2>2. k \in Deciding BY <1>0 DEF Deciding, Filed
  <2>3. Judged(k, application) BY <2>1 DEF Judged
  <2>4. request[d].pc # "done" BY <2>1 DEF Round!NoDecision
  <2> HIDE DEF k
  <2> QED BY <2>1, <2>2, <2>3, <2>4, RoundDecisions
<1>2. Done(request[d]) \in Deciding /\ Done(request[d]).pc = "done"
      /\ Done(request[d]).on = request[d].on /\ Done(request[d]).verdict = request[d].verdict
      /\ Done(request[d]).loaded = request[d].loaded
  BY <1>0 DEF Done, Deciding
<1>3. CASE Round!SaveRefused(d) \/ Round!Lose(d)
  <2>1. request' = [request EXCEPT ![d] = Done(request[d])] /\ application' = application
        /\ request[d].pc = "judged"
    BY <1>0, <1>3 DEF Round!SaveRefused, Round!Lose, Done
  <2>2. Judged(Done(request[d]), application) BY <1>0, <1>2, <2>1 DEF Judged
  <2> QED BY <1>2, <2>1, <2>2, RoundDecisions
<1>4. CASE Round!Save(d)
  <2> DEFINE a == request[d].on
             verdict == request[d].verdict
             f == [application[a] EXCEPT !.status = verdict]
  <2>1. /\ request[d].pc = "judged" /\ request' = [request EXCEPT ![d] = Done(request[d])]
        /\ verdict = "selected" => Round!MaySelect(a)
    BY <1>0, <1>4 DEF Round!Save, Done
  <2>2. application' = [application EXCEPT ![a] = f] BY <1>0, <1>4 DEF Round!Save
  <2>3. a \in Applications /\ verdict \in Round!Verdicts BY <1>0, <2>1 DEF Judged
  <2>4. f \in Filed /\ f.status = verdict /\ f.reviews = application[a].reviews
    BY <1>0, <2>3 DEF Filed
  <2> HIDE DEF f
  <2>5. /\ application' \in [Applications -> Filed] /\ application'[a] = f
        /\ \A o \in Applications \ {a} : application'[o] = application[o]
    BY <1>0, <2>2, <2>3, <2>4
  <2>6. /\ request' \in [Decisions -> Deciding] /\ request'[d] = Done(request[d])
        /\ \A e \in Decisions \ {d} : request'[e] = request[e]
    BY <1>0, <1>2, <2>1
  <2>7. \A o \in Applications : application'[o].reviews = application[o].reviews
    BY <2>4, <2>5
  <2>8. \A e \in Decisions : Judged(request'[e], application')
    <3>1. \A e \in Decisions : Judged(request[e], application) BY DEF RoundInv
    <3>2. Judged(Done(request[d]), application) BY <1>0, <1>2, <2>1 DEF Judged
    <3> QED BY <2>6, <2>7, <3>1, <3>2 DEF Judged
  <2>9. Round!OneRecipient'
    BY <2>1, <2>3, <2>4, <2>5 DEF RoundInv, Round!OneRecipient, Round!MaySelect
  <2>10. ASSUME NEW o \in Applications, application'[o].status = "selected"
         PROVE  \E e \in Decisions : request'[e].pc = "done" /\ request'[e].on = o
                                     /\ request'[e].verdict = "selected"
    <3>1. CASE o = a BY <1>2, <2>4, <2>5, <2>6, <2>10, <3>1
    <3>2. CASE o # a
      <4>1. PICK e \in Decisions : request[e].pc = "done" /\ request[e].on = o
                                   /\ request[e].verdict = "selected"
        BY <2>5, <2>10, <3>2 DEF RoundInv
      <4> QED BY <2>1, <2>6, <4>1
    <3> QED BY <3>1, <3>2
  <2> QED BY <2>5, <2>6, <2>8, <2>9, <2>10 DEF RoundInv
<1> QED BY <1>1, <1>3, <1>4

LEMMA RoundNext == RoundInv /\ (Round!Next \/ UNCHANGED roundVars) => RoundInv'
<1>1. RoundInv /\ UNCHANGED roundVars => RoundInv'
  BY DEF RoundInv, roundVars, Round!OneRecipient
<1> QED BY <1>1, RoundDocuments, RoundDecides DEF Round!Next

LEMMA RoundInit == Round!Init => RoundInv
<1> SUFFICES ASSUME Round!Init PROVE RoundInv OBVIOUS
<1>1. Round!NoApplication \in Filed /\ Round!NoApplication.status = "none"
  BY DEF Round!NoApplication, Filed
<1>2. Round!NoDecision \in Deciding /\ Round!NoDecision.pc = "idle"
  BY DEF Round!NoDecision, Deciding
<1> QED BY <1>1, <1>2 DEF Round!Init, RoundInv, Judged, Round!OneRecipient

\* A round has one recipient, judged on reviews that qualify it: for any number of
\* applications, reviewers and decisions between whose load and save anything happens.
THEOREM SelectionKept == ServicesSpec => []SelectionSound
<1>1. ServicesInit => RoundInv BY RoundInit DEF ServicesInit
<1>2. RoundInv /\ [ServicesNext]_<<vars, loyaltyVars, revenueVars, roundVars, keyVars,
                                  catalogueVars, part>> => RoundInv'
  BY RoundNext DEF ServicesNext
<1>3. RoundInv => SelectionSound
  BY DEF RoundInv, Judged, SelectionSound, Round!SelectionSound, Round!SelectedWasQualified
<1> QED BY <1>1, <1>2, <1>3, PTL DEF ServicesSpec

-----------------------------------------------------------------------------
(***************************************************************************)
(* Proof, for any holders, rates, spends and amounts: the points that      *)
(* users hold are those issued and not redeemed.                           *)
(***************************************************************************)
PointsInv ==
    /\ points \in [Holders -> 0..MaxPoints] /\ rates \in [L!Activities -> Int]
    /\ issued \in 0..MaxPoints /\ burned \in 0..issued
    /\ built \subseteq L!Invocations
    /\ SumOn(points, Holders) = issued - burned

LEMMA PointsAddUp ==
  ASSUME NEW f, DOMAIN f = Holders
  PROVE  L!SumFunction(f) = SumOn(f, Holders)
BY DEF L!SumFunction, L!SumFunctionOnSet, L!FoldFunctionOnSet, L!MapThenFoldSet,
       SumOn, SumFunctionOnSet, FoldFunctionOnSet, MapThenFoldSet

\* One user's points change.
PointsWith(f, u, n) == [f EXCEPT ![u] = n]

LEMMA PointsChange ==
  ASSUME NEW f \in [Holders -> 0..MaxPoints], NEW u \in Holders, NEW n \in 0..MaxPoints
  PROVE  /\ PointsWith(f, u, n) \in [Holders -> 0..MaxPoints]
         /\ SumOn(PointsWith(f, u, n), Holders) = SumOn(f, Holders) - f[u] + n
         /\ SumOn(f, Holders) \in Nat /\ f[u] <= SumOn(f, Holders) /\ f[u] \in Nat
         /\ \A v \in Holders \ {u} : PointsWith(f, u, n)[v] = f[v]
<1> DEFINE g == PointsWith(f, u, n)
<1>1. /\ g \in [Holders -> 0..MaxPoints] /\ g[u] = n /\ \A v \in Holders \ {u} : g[v] = f[v]
      /\ \A v \in Holders : f[v] \in Nat /\ f[v] \in Int /\ g[v] \in Int
  BY PointsAssumption DEF PointsWith
<1> HIDE DEF g
<1>2. SumOn(g, Holders) = SumOn(f, Holders) - f[u] + g[u] BY <1>1, PointsAssumption, SumChanges
<1>3. SumOn(f, Holders) \in Nat /\ f[u] <= SumOn(f, Holders) BY <1>1, PointsAssumption, SumNat
<1> QED BY <1>1, <1>2, <1>3 DEF g

LEMMA IssuePoints ==
  ASSUME PointsInv, NEW u \in Holders, NEW n \in Nat, L!Issue(u, n), built' \subseteq L!Invocations
  PROVE  PointsInv'
<1>1. /\ points[u] + n <= MaxPoints /\ issued + n <= MaxPoints
      /\ points' = PointsWith(points, u, points[u] + n) /\ issued' = issued + n
      /\ rates' = rates /\ burned' = burned
  BY DEF L!Issue, PointsInv, PointsWith
<1>2. points[u] + n \in 0..MaxPoints BY <1>1, PointsAssumption DEF PointsInv
<1>3. /\ points' \in [Holders -> 0..MaxPoints]
      /\ SumOn(points', Holders) = SumOn(points, Holders) - points[u] + (points[u] + n)
      /\ SumOn(points, Holders) \in Nat /\ points[u] \in Nat
  BY <1>1, <1>2, PointsChange DEF PointsInv
<1>4. SumOn(points', Holders) = issued' - burned' BY <1>1, <1>3 DEF PointsInv
<1> QED BY <1>1, <1>3, <1>4, PointsAssumption DEF PointsInv

LEMMA RedeemPoints ==
  ASSUME PointsInv, NEW u \in Holders, NEW n \in Int, L!Redeem(u, n), built' \subseteq L!Invocations
  PROVE  PointsInv'
<1>1. /\ n > 0 /\ points[u] >= n
      /\ points' = PointsWith(points, u, points[u] - n) /\ burned' = burned + n
      /\ rates' = rates /\ issued' = issued
  BY DEF L!Redeem, PointsInv, PointsWith
<1>2. points[u] - n \in 0..MaxPoints BY <1>1, PointsAssumption DEF PointsInv
<1>3. /\ points' \in [Holders -> 0..MaxPoints]
      /\ SumOn(points', Holders) = SumOn(points, Holders) - points[u] + (points[u] - n)
      /\ SumOn(points, Holders) \in Nat /\ points[u] \in Nat /\ points[u] <= SumOn(points, Holders)
  BY <1>1, <1>2, PointsChange DEF PointsInv
<1>4. SumOn(points', Holders) = issued' - burned' /\ burned' \in 0..issued'
  BY <1>1, <1>3 DEF PointsInv
<1> QED BY <1>1, <1>3, <1>4 DEF PointsInv

LEMMA MovePoints ==
  ASSUME PointsInv, NEW u \in Holders, NEW v \in Holders, NEW n \in Int, L!Move(u, v, n),
         built' \subseteq L!Invocations
  PROVE  PointsInv'
<1> DEFINE less == PointsWith(points, u, points[u] - n)
<1>1. /\ n > 0 /\ u # v /\ points[u] >= n /\ points[v] + n <= MaxPoints
      /\ points' = PointsWith(less, v, points[v] + n) /\ burned' = burned
      /\ rates' = rates /\ issued' = issued
  BY DEF L!Move, L!CanMove, PointsInv, PointsWith
<1>2. points[u] - n \in 0..MaxPoints /\ points[v] + n \in 0..MaxPoints
  BY <1>1, PointsAssumption DEF PointsInv
<1>3. /\ less \in [Holders -> 0..MaxPoints]
      /\ SumOn(less, Holders) = SumOn(points, Holders) - points[u] + (points[u] - n)
      /\ SumOn(points, Holders) \in Nat /\ points[u] \in Nat /\ points[v] \in Nat
      /\ less[v] = points[v]
  BY <1>1, <1>2, PointsChange DEF PointsInv
<1> HIDE DEF less
<1>4. /\ points' \in [Holders -> 0..MaxPoints]
      /\ SumOn(points', Holders) = SumOn(less, Holders) - less[v] + (points[v] + n)
      /\ SumOn(less, Holders) \in Nat
  BY <1>1, <1>2, <1>3, PointsChange
<1>5. SumOn(points', Holders) = SumOn(points, Holders) BY <1>3, <1>4
<1> QED BY <1>1, <1>4, <1>5 DEF PointsInv

LEMMA PointsSteps == PointsInv /\ L!Next => PointsInv'
<1> SUFFICES ASSUME PointsInv, L!Next PROVE PointsInv' OBVIOUS
<1>1. CASE L!Initialize BY <1>1 DEF L!Initialize, PointsInv
<1>2. ASSUME NEW a \in L!Activities, NEW rate \in Rates, L!SetRate(a, rate) PROVE PointsInv'
  BY <1>2, PointsAssumption DEF L!SetRate, PointsInv
<1>3. ASSUME NEW u \in Holders, NEW n \in Points, L!Mint(u, n) PROVE PointsInv'
  <2>1. n \in Nat /\ L!Issue(u, n) /\ built' = built BY <1>3, PointsAssumption DEF L!Mint
  <2> QED BY <2>1, IssuePoints DEF PointsInv
<1>4. ASSUME NEW call \in L!Invocations, L!Build(call) PROVE PointsInv'
  BY <1>4 DEF L!Build, PointsInv
<1>5. ASSUME NEW call \in built, L!Run(call) PROVE PointsInv'
  <2>1. built' \subseteq L!Invocations /\ call \in L!Invocations BY <1>5 DEF L!Run, PointsInv
  <2>2. CASE call.method = "earn"
    <3>1. L!Earn(call.user, call.activity, call.amount) BY <1>5, <2>2 DEF L!Run
    <3>2. call.user \in Holders /\ call.activity \in L!Activities /\ call.amount \in Int
      BY <2>1, <2>2, PointsAssumption DEF L!Invocations
    <3> DEFINE r == rates[call.activity]   n == L!Earned(call.activity, call.amount)
    <3>3. r \in Nat /\ r > 0 BY <3>1, <3>2 DEF L!Earn, PointsInv
    <3>4. call.activity = "Purchase" => call.amount \in Nat BY <3>1, <3>2 DEF L!Earn
    <3>5. n = IF call.activity = "Purchase" THEN (call.amount * r) \div Precision ELSE r
      BY DEF L!Earned
    <3> HIDE DEF r, n
    <3>6. n \in Nat
      <4>1. CASE call.activity = "Purchase"
        <5>1. call.amount * r \in Nat BY <3>3, <3>4, <4>1
        <5> QED BY <3>5, <4>1, <5>1, PointsAssumption, DivNat
      <4>2. CASE call.activity # "Purchase" BY <3>3, <3>5, <4>2
      <4> QED BY <4>1, <4>2
    <3>7. L!Issue(call.user, n) BY <3>1 DEF L!Earn, n
    <3> QED BY <2>1, <3>2, <3>6, <3>7, IssuePoints
  <2>3. CASE call.method = "redeem"
    <3>1. L!Redeem(call.user, call.amount) BY <1>5, <2>3 DEF L!Run
    <3>2. call.user \in Holders /\ call.amount \in Int
      BY <2>1, <2>3, PointsAssumption DEF L!Invocations
    <3> QED BY <2>1, <3>1, <3>2, RedeemPoints
  <2>4. CASE call.method \notin {"earn", "redeem"}
    <3>1. L!Move(call.user, call.to, call.amount) BY <1>5, <2>4 DEF L!Run
    <3>2. call.user \in Holders /\ call.to \in Holders /\ call.amount \in Int
      BY <2>1, <2>4, PointsAssumption DEF L!Invocations
    <3> QED BY <2>1, <3>1, <3>2, MovePoints
  <2> QED BY <2>2, <2>3, <2>4
<1>6. ASSUME NEW call \in built, L!Drop(call) PROVE PointsInv' BY <1>6 DEF L!Drop, PointsInv
<1> QED BY <1>1, <1>2, <1>3, <1>4, <1>5, <1>6 DEF L!Next

LEMMA PointsStart == L!Init => PointsInv
<1> SUFFICES ASSUME L!Init PROVE PointsInv OBVIOUS
<1>1. \A u \in Holders : points[u] = 0 BY DEF L!Init
<1>2. SumOn(points, Holders) = 0 BY <1>1, PointsAssumption, SumZero
<1> QED BY <1>2, PointsAssumption DEF L!Init, PointsInv, L!NotSet

-----------------------------------------------------------------------------
(***************************************************************************)
(* Proof, for any recipients, tables of shares and deposits: what came in  *)
(* is held or was distributed, and each share is fair.  A distribution is  *)
(* a sum over the list of recipients, and a sum over the addresses.        *)
(***************************************************************************)
RevenueInv ==
    /\ splits = <<>> \/ (splits \in R!Tables /\ R!Valid(splits))
    /\ holding \in Nat /\ distributed \in Nat /\ deposited \in Nat
    /\ received \in [Recipients -> Int] /\ paidTo = received
    /\ SumOn(received, Recipients) = distributed
    /\ holding + distributed = deposited

LEMMA GreatestIs == \A s : R!Max(s) = Max(s)
BY DEF R!Max, Max

LEMMA RevenueFolds ==
  ASSUME NEW seq, DOMAIN seq = 1..Len(seq), Len(seq) \in Nat
  PROVE  /\ (\A i \in DOMAIN seq : seq[i] \in Int)
              => R!FoldLeft(LAMBDA m, a : m + a, 0, seq) = SumOn(seq, DOMAIN seq)
         /\ (\A i \in DOMAIN seq : seq[i].bps \in Int)
              => R!FoldLeft(LAMBDA m, a : m + a.bps, 0, seq)
                   = SumOn([i \in DOMAIN seq |-> seq[i].bps], DOMAIN seq)
<1>1. R!FoldLeft(LAMBDA m, a : m + a, 0, seq) = (CHOOSE g : IsSeqFold(g, seq, DOMAIN seq))[DOMAIN seq]
  BY GreatestIs DEF R!FoldLeft, R!MapThenFoldSet, IsSeqFold
<1>2. ASSUME \A i \in DOMAIN seq : seq[i].bps \in Int
      PROVE  R!FoldLeft(LAMBDA m, a : m + a.bps, 0, seq)
               = SumOn([i \in DOMAIN seq |-> seq[i].bps], DOMAIN seq)
  <2> DEFINE f == [i \in DOMAIN seq |-> seq[i].bps]
             T == DOMAIN seq
             Is(g) == g = [s \in SUBSET T |-> IF s = {} THEN 0 ELSE g[s \ {Max(s)}] + seq[Max(s)].bps]
             g == CHOOSE g : Is(g)
             w == [s \in SUBSET T |-> SumOn(f, s)]
  <2>1. R!FoldLeft(LAMBDA m, a : m + a.bps, 0, seq) = g[T]
    BY GreatestIs DEF R!FoldLeft, R!MapThenFoldSet
  <2>2. \A s \in SUBSET T : s # {} => Max(s) \in s BY LastIn
  <2>3. \A i \in T : f[i] \in Int /\ f[i] = seq[i].bps BY <1>2
  <2>4. \A s \in SUBSET T : SumOn(f, s) = IF s = {} THEN 0 ELSE SumOn(f, s \ {Max(s)}) + f[Max(s)]
    <3> HIDE DEF f
    <3> QED BY <2>3, SeqSum
  <2>5. Is(w)
    <3>1. \A s \in SUBSET T : SumOn(f, s) = IF s = {} THEN 0 ELSE w[s \ {Max(s)}] + seq[Max(s)].bps
      <4> HIDE DEF f
      <4> QED BY <2>2, <2>3, <2>4
    <3> HIDE DEF f
    <3> QED BY <3>1
  <2>6. Is(g) BY <2>5
  <2>7. g[T] = SumOn(f, T)
    <3>1. \A s \in SUBSET T : g[s] = IF s = {} THEN 0 ELSE g[s \ {Max(s)}] + f[Max(s)]
      <4> HIDE DEF f, g
      <4> QED BY <2>2, <2>3, <2>6
    <3> HIDE DEF f, g
    <3> QED BY <2>3, <3>1, SeqFoldIs
  <2> QED BY <2>1, <2>7
<1> QED BY <1>1, <1>2, SeqFold

\* The parts that distribute cuts, in the order of the list.
Cuts(b) == [i \in DOMAIN splits |-> R!Floor(b, i)]

LEMMA CutsFold ==
  ASSUME NEW b, NEW seq, DOMAIN seq = DOMAIN splits, \A i \in DOMAIN splits : seq[i] = i,
         DOMAIN splits = 1..Len(splits), Len(splits) \in Nat,
         \A i \in DOMAIN splits : R!Floor(b, i) \in Int
  PROVE  R!FoldLeft(LAMBDA n, i : n + R!Floor(b, i), 0, seq) = SumOn(Cuts(b), DOMAIN splits)
<1> DEFINE f == Cuts(b)
           T == DOMAIN seq
           Is(h) == h = [s \in SUBSET T |-> IF s = {} THEN 0
                                   ELSE h[s \ {R!Max(s)}] + R!Floor(b, seq[R!Max(s)])]
           g == CHOOSE h : Is(h)
           w == [s \in SUBSET T |-> SumOn(f, s)]
<1>1. R!FoldLeft(LAMBDA n, i : n + R!Floor(b, i), 0, seq) = g[T]
  BY DEF R!FoldLeft, R!MapThenFoldSet
<1>2. \A s \in SUBSET T : s # {} => Max(s) \in s BY LastIn
<1>3. \A i \in T : f[i] \in Int /\ f[i] = R!Floor(b, seq[i]) BY DEF Cuts
<1>4. \A s \in SUBSET T : SumOn(f, s) = IF s = {} THEN 0 ELSE SumOn(f, s \ {Max(s)}) + f[Max(s)]
  <2> HIDE DEF f
  <2> QED BY <1>3, SeqSum
<1>5. Is(w)
  <2>1. \A s \in SUBSET T : SumOn(f, s) = IF s = {} THEN 0
                                          ELSE w[s \ {Max(s)}] + R!Floor(b, seq[Max(s)])
    <3> HIDE DEF f
    <3> QED BY <1>2, <1>3, <1>4
  <2> HIDE DEF f
  <2>2. w = [s \in SUBSET T |-> IF s = {} THEN 0
                                ELSE w[s \ {Max(s)}] + R!Floor(b, seq[Max(s)])]
    BY <2>1
  <2> HIDE DEF w
  <2> QED BY <2>2, GreatestIs
<1>6. Is(g) BY <1>5
<1>7. g[T] = SumOn(f, T)
  <2>1. \A s \in SUBSET T : g[s] = IF s = {} THEN 0 ELSE g[s \ {Max(s)}] + f[Max(s)]
    <3> HIDE DEF f, g
    <3>1. \A s \in SUBSET T : g[s] = IF s = {} THEN 0 ELSE g[s \ {Max(s)}] + R!Floor(b, seq[Max(s)])
      BY <1>6, GreatestIs
    <3>2. \A s \in SUBSET T : s # {} => R!Floor(b, seq[Max(s)]) = f[Max(s)] BY <1>2, <1>3
    <3> QED BY <3>1, <3>2
  <2> HIDE DEF f, g
  <2> QED BY <1>3, <2>1, SeqFoldIs
<1> QED BY <1>1, <1>7

LEMMA CutsAddUp ==
  ASSUME NEW b, DOMAIN splits = 1..Len(splits), Len(splits) \in Nat,
         \A i \in DOMAIN splits : R!Floor(b, i) \in Int
  PROVE  R!Dust(b) = b - SumOn(Cuts(b), DOMAIN splits)
<1> DEFINE seq == [i \in DOMAIN splits |-> i]
<1>1. R!Dust(b) = b - R!FoldLeft(LAMBDA n, i : n + R!Floor(b, i), 0, seq) BY DEF R!Dust
<1>2. DOMAIN seq = DOMAIN splits /\ \A i \in DOMAIN splits : seq[i] = i OBVIOUS
<1> HIDE DEF seq
<1>3. R!FoldLeft(LAMBDA n, i : n + R!Floor(b, i), 0, seq) = SumOn(Cuts(b), DOMAIN splits)
  BY <1>2, CutsFold
<1> QED BY <1>1, <1>3

\* What a recipient gets of the amounts a.
Taken(r, a) == [i \in DOMAIN splits |-> IF splits[i].to = r THEN a[i] ELSE 0]

LEMMA SharesFold ==
  ASSUME NEW b, NEW r, NEW seq, DOMAIN seq = DOMAIN splits, \A i \in DOMAIN splits : seq[i] = i,
          DOMAIN splits = 1..Len(splits), Len(splits) \in Nat,
         \A i \in DOMAIN splits : R!Amounts(b)[i] \in Int
  PROVE  R!FoldLeft(LAMBDA n, i : IF splits[i].to = r THEN n + R!Amounts(b)[i] ELSE n, 0, seq)
         = SumOn(Taken(r, R!Amounts(b)), DOMAIN splits)
<1> DEFINE A == R!Amounts(b)
           f == Taken(r, A)
           T == DOMAIN splits
           Is(h) == h = [s \in SUBSET DOMAIN seq |-> IF s = {} THEN 0
                           ELSE IF splits[seq[R!Max(s)]].to = r THEN h[s \ {R!Max(s)}] + A[seq[R!Max(s)]]
                                ELSE h[s \ {R!Max(s)}]]
           g == CHOOSE h : Is(h)
           w == [s \in SUBSET DOMAIN seq |-> SumOn(f, s)]
<1>1. R!FoldLeft(LAMBDA n, i : IF splits[i].to = r THEN n + R!Amounts(b)[i] ELSE n, 0, seq)
        = g[DOMAIN seq]
  BY DEF R!FoldLeft, R!MapThenFoldSet
<1> HIDE DEF A
<1>2. DOMAIN seq = T /\ \A i \in T : seq[i] = i OBVIOUS
<1>3. \A s \in SUBSET T : s # {} => Max(s) \in s BY LastIn
<1>4. \A i \in T : f[i] \in Int /\ f[i] = IF splits[i].to = r THEN A[i] ELSE 0 BY DEF Taken, A
<1>5. \A s \in SUBSET T : /\ SumOn(f, s) \in Int
                          /\ SumOn(f, s) = IF s = {} THEN 0 ELSE SumOn(f, s \ {Max(s)}) + f[Max(s)]
  <2> HIDE DEF f
  <2> QED BY <1>4, SeqSum
<1>6. \A s \in SUBSET T :
         SumOn(f, s) = IF s = {} THEN 0
                       ELSE IF splits[Max(s)].to = r THEN SumOn(f, s \ {Max(s)}) + A[Max(s)]
                            ELSE SumOn(f, s \ {Max(s)})
  <2> HIDE DEF f
  <2> SUFFICES ASSUME NEW s \in SUBSET T, s # {}
               PROVE  SumOn(f, s) = IF splits[Max(s)].to = r THEN SumOn(f, s \ {Max(s)}) + A[Max(s)]
                                    ELSE SumOn(f, s \ {Max(s)})
    BY <1>5
  <2>1. Max(s) \in T /\ SumOn(f, s) = SumOn(f, s \ {Max(s)}) + f[Max(s)] BY <1>3, <1>5
  <2>2. SumOn(f, s \ {Max(s)}) \in Int
    <3>1. s \ {Max(s)} \in SUBSET T OBVIOUS
    <3> QED BY <1>5, <3>1
  <2> QED BY <1>4, <2>1, <2>2
<1>7. Is(w)
  <2>1. \A s \in SUBSET T :
         SumOn(f, s) = IF s = {} THEN 0
                       ELSE IF splits[seq[Max(s)]].to = r THEN w[s \ {Max(s)}] + A[seq[Max(s)]]
                            ELSE w[s \ {Max(s)}]
    <3> HIDE DEF f
    <3> QED BY <1>2, <1>3, <1>6
  <2> HIDE DEF f
  <2>2. w = [s \in SUBSET T |->
               IF s = {} THEN 0
               ELSE IF splits[seq[Max(s)]].to = r THEN w[s \ {Max(s)}] + A[seq[Max(s)]]
                    ELSE w[s \ {Max(s)}]]
    BY <1>2, <2>1
  <2> HIDE DEF w
  <2> QED BY <2>2, GreatestIs
<1>8. Is(g) BY <1>7
<1>9. \A s \in SUBSET T : g[s] = SumOn(f, s)
  <2> DEFINE Bad == {n \in Nat : \E s \in SUBSET T : Cardinality(s) = n /\ g[s] # SumOn(f, s)}
  <2> HIDE DEF f, g
  <2>1. \A s \in SUBSET T : IsFiniteSet(s) /\ Cardinality(s) \in Nat
    <3>1. IsFiniteSet(T) BY FS_Interval
    <3> QED BY <3>1, FS_Subset, FS_CardinalityType
  <2>2. ASSUME NEW n \in Bad PROVE \E m \in Bad : m < n
    <3>1. PICK s \in SUBSET T : Cardinality(s) = n /\ g[s] # SumOn(f, s) BY <2>2
    <3> DEFINE x == Max(s)   q == s \ {x}
    <3>2. s # {} BY <1>2, <1>8, <3>1, <1>6, GreatestIs
    <3>3. x \in s /\ x \in T BY <1>3, <3>2
    <3>4. Cardinality(q) = n - 1 /\ q \in SUBSET T /\ Cardinality(q) \in Nat /\ n \in Nat
      BY <2>1, <3>1, <3>3, FS_RemoveElement
    <3>5. g[s] = IF splits[x].to = r THEN g[q] + A[x] ELSE g[q]
      <4>1. g[s] = IF splits[seq[R!Max(s)]].to = r THEN g[s \ {R!Max(s)}] + A[seq[R!Max(s)]]
                   ELSE g[s \ {R!Max(s)}]
        <5>1. s \in SUBSET DOMAIN seq BY <1>2
        <5> QED BY <1>8, <3>2, <5>1
      <4>2. R!Max(s) = x BY GreatestIs
      <4>3. seq[x] = x BY <1>2, <3>3
      <4> HIDE DEF x
      <4> QED BY <4>1, <4>2, <4>3 DEF q
    <3>6. SumOn(f, s) = IF splits[x].to = r THEN SumOn(f, q) + A[x] ELSE SumOn(f, q)
      BY <1>6, <3>2
    <3>7. g[q] # SumOn(f, q) BY <3>1, <3>5, <3>6
    <3>8. Cardinality(q) \in Bad BY <3>4, <3>7
    <3>9. Cardinality(q) < n
      <4> HIDE DEF q
      <4> QED BY <3>4
    <3> QED BY <3>8, <3>9
  <2>3. Bad = {}
    <3>1. Bad \subseteq Nat OBVIOUS
    <3> HIDE DEF Bad
    <3> QED BY <2>2, <3>1, Descent
  <2> QED BY <2>1, <2>3
<1> QED BY <1>1, <1>2, <1>9 DEF A

LEMMA SharesAddUp ==
  ASSUME NEW b, NEW r, DOMAIN splits = 1..Len(splits), Len(splits) \in Nat,
         \A i \in DOMAIN splits : R!Amounts(b)[i] \in Int
  PROVE  R!ShareOf(r, b) = SumOn(Taken(r, R!Amounts(b)), DOMAIN splits)
<1> DEFINE seq == [i \in DOMAIN splits |-> i]
<1>1. R!ShareOf(r, b)
        = R!FoldLeft(LAMBDA n, i : IF splits[i].to = r THEN n + R!Amounts(b)[i] ELSE n, 0, seq)
  BY DEF R!ShareOf
<1>2. DOMAIN seq = DOMAIN splits /\ \A i \in DOMAIN splits : seq[i] = i OBVIOUS
<1> HIDE DEF seq
<1> QED BY <1>1, <1>2, SharesFold

Weighted == [i \in DOMAIN splits |-> splits[i].bps]

LEMMA SplitFacts ==
  ASSUME RevenueInv, splits # <<>>
  PROVE  /\ DOMAIN splits = 1..Len(splits) /\ Len(splits) \in Nat /\ 1 \in DOMAIN splits
         /\ IsFiniteSet(DOMAIN splits) /\ Cardinality(DOMAIN splits) = Len(splits)
         /\ \A i \in DOMAIN splits : splits[i].bps \in Nat /\ splits[i].to \in Recipients
         /\ SumOn(Weighted, DOMAIN splits) = TotalBps
<1>1. PICK n \in 0..MaxRecipients : splits \in [1..n -> [to : Recipients, bps : 0..TotalBps]]
  BY DEF RevenueInv, R!Tables
<1>2. n \in Nat /\ TotalBps \in Nat BY RevenueAssumption
<1> DEFINE Row == [to : Recipients, bps : 0..TotalBps]
<1>3. splits \in Seq(Row)
  <2>1. splits \in [1..n -> Row] /\ n \in Nat BY <1>1, <1>2
  <2> HIDE DEF Row
  <2> QED BY <2>1, SeqDef
<1>4. DOMAIN splits = 1..Len(splits) /\ Len(splits) \in Nat /\ Len(splits) # 0
  <2> HIDE DEF Row
  <2> QED BY <1>3, LenProperties, EmptySeq
<1>5. \A i \in DOMAIN splits : splits[i].bps \in Nat /\ splits[i].to \in Recipients BY <1>1, <1>2
<1>6. IsFiniteSet(DOMAIN splits) /\ Cardinality(DOMAIN splits) = Len(splits) BY <1>4, FS_Interval
<1>7. R!FoldLeft(LAMBDA m, a : m + a.bps, 0, splits) = TotalBps BY DEF RevenueInv, R!Valid
<1>8. R!FoldLeft(LAMBDA m, a : m + a.bps, 0, splits) = SumOn(Weighted, DOMAIN splits)
  <2>1. \A i \in DOMAIN splits : splits[i].bps \in Int BY <1>5
  <2>2. R!FoldLeft(LAMBDA m, a : m + a.bps, 0, splits)
          = SumOn([i \in DOMAIN splits |-> splits[i].bps], DOMAIN splits)
    BY <1>4, <2>1, RevenueFolds
  <2> QED BY <2>2 DEF Weighted
<1>9. 1 \in DOMAIN splits BY <1>4
<1> QED BY <1>4, <1>5, <1>6, <1>7, <1>8, <1>9

\* What distribute hands out of a balance b: together all of it, to each at least its share
\* rounded down, and to nobody but the first more.
LEMMA AmountsFacts ==
  ASSUME RevenueInv, splits # <<>>, NEW b \in Nat
  PROVE  /\ \A i \in DOMAIN splits :
              /\ R!Floor(b, i) \in Nat
              /\ R!Floor(b, i) * TotalBps <= b * splits[i].bps
              /\ b * splits[i].bps < R!Floor(b, i) * TotalBps + TotalBps
              /\ R!Amounts(b)[i] = R!Floor(b, i) + (IF i = 1 THEN R!Dust(b) ELSE 0)
              /\ R!Amounts(b)[i] \in Nat
         /\ R!Dust(b) \in Nat /\ R!Dust(b) < Len(splits)
         /\ SumOn(R!Amounts(b), DOMAIN splits) = b
<1> DEFINE T == DOMAIN splits
           q == Cuts(b)
           e == [i \in T |-> b * splits[i].bps]
           s == SumOn(q, T)
           d == R!Dust(b)
           A == R!Amounts(b)
<1>1. /\ T = 1..Len(splits) /\ Len(splits) \in Nat /\ 1 \in T /\ IsFiniteSet(T)
      /\ Cardinality(T) = Len(splits)
      /\ \A i \in T : splits[i].bps \in Nat
      /\ SumOn(Weighted, T) = TotalBps
  BY SplitFacts
<1>2. TotalBps \in Nat /\ TotalBps > 0 BY RevenueAssumption
<1>3. ASSUME NEW i \in T
      PROVE  /\ e[i] = b * splits[i].bps /\ e[i] \in Nat
             /\ q[i] = R!Floor(b, i) /\ q[i] \in Nat
             /\ q[i] * TotalBps <= e[i] /\ e[i] < q[i] * TotalBps + TotalBps
  <2>1. b * splits[i].bps \in Nat BY <1>1
  <2>2. e[i] = b * splits[i].bps OBVIOUS
  <2>3. q[i] = (b * splits[i].bps) \div TotalBps BY DEF Cuts, R!Floor
  <2>4. R!Floor(b, i) = (b * splits[i].bps) \div TotalBps BY DEF R!Floor
  <2> DEFINE x == b * splits[i].bps
  <2> HIDE DEF x, e, q
  <2>5. /\ x \div TotalBps \in Nat
        /\ (x \div TotalBps) * TotalBps <= x /\ x < (x \div TotalBps) * TotalBps + TotalBps
    BY <1>2, <2>1, Floors DEF x
  <2> QED BY <2>1, <2>2, <2>3, <2>4, <2>5 DEF x
<1>4. d = b - s
  <2>1. \A i \in T : R!Floor(b, i) \in Int BY <1>3
  <2> QED BY <1>1, <2>1, CutsAddUp
<1>5. SumOn(e, T) = b * TotalBps
  <2>1. \A i \in T : Weighted[i] \in Int /\ e[i] = b * Weighted[i] BY <1>1 DEF Weighted
  <2>2. b \in Int /\ IsFiniteSet(T) BY <1>1
  <2> HIDE DEF e, T
  <2>3. SumOn(e, T) = b * SumOn(Weighted, T) BY <2>1, <2>2, SumScales
  <2> QED BY <1>1, <2>3
<1>6. s * TotalBps <= b * TotalBps /\ b * TotalBps < s * TotalBps + TotalBps * Len(splits)
  <2>1. \A i \in T : /\ e[i] \in Nat /\ q[i] \in Nat
                     /\ q[i] * TotalBps <= e[i] /\ e[i] < q[i] * TotalBps + TotalBps
    BY <1>3
  <2>2. T # {} BY <1>1
  <2> HIDE DEF e, q, T
  <2> QED BY <1>1, <1>2, <1>5, <2>1, <2>2, SumOfFloors
<1>7. s \in Nat
  <2>1. \A i \in T : q[i] \in Nat BY <1>3
  <2> HIDE DEF q, T
  <2> QED BY <1>1, <2>1, SumNat
<1> DEFINE n == Len(splits)
<1>8. d \in Nat /\ d < n
  <2> HIDE DEF s, d, n
  <2>0. n \in Nat BY <1>1 DEF n
  <2>1. s <= b
    <3>1. CASE s > b
      <4>1. s >= b + 1 BY <1>7, <3>1
      <4>2. s * TotalBps >= (b + 1) * TotalBps BY <1>2, <1>7, <4>1
      <4>3. (b + 1) * TotalBps = b * TotalBps + TotalBps BY <1>2
      <4>4. b * TotalBps \in Int /\ s * TotalBps \in Int BY <1>2, <1>7
      <4> QED BY <1>2, <1>6, <4>2, <4>3, <4>4
    <3> QED BY <1>7, <3>1
  <2>2. d \in Nat /\ b = s + d BY <1>4, <1>7, <2>1
  <2>3. (s + d) * TotalBps = s * TotalBps + d * TotalBps BY <1>2, <1>7, <2>2
  <2>4. s * TotalBps \in Int /\ d * TotalBps \in Int /\ TotalBps * n \in Int BY <2>0, <1>2, <1>7, <2>2
  <2>5. b * TotalBps < s * TotalBps + TotalBps * n BY <1>6 DEF n
  <2>6. d * TotalBps < TotalBps * n BY <2>2, <2>3, <2>4, <2>5
  <2>7. CASE d >= n
    <3>1. d * TotalBps >= n * TotalBps BY <1>2, <2>0, <2>2, <2>7
    <3>2. n * TotalBps = TotalBps * n BY <1>2, <2>0
    <3> QED BY <2>4, <2>6, <3>1, <3>2
  <2> QED BY <2>0, <2>2, <2>7
<1>9. ASSUME NEW i \in T
      PROVE  A[i] = R!Floor(b, i) + (IF i = 1 THEN d ELSE 0)
  BY DEF R!Amounts
<1>10. ASSUME NEW i \in T
       PROVE  A[i] = q[i] + (IF i = 1 THEN d ELSE 0) /\ A[i] \in Nat
  <2>1. q[i] = R!Floor(b, i) /\ q[i] \in Nat /\ d \in Nat BY <1>3, <1>8
  <2>2. A[i] = R!Floor(b, i) + (IF i = 1 THEN d ELSE 0) BY <1>9
  <2> HIDE DEF A, q, d, T
  <2> QED BY <2>1, <2>2
<1>11. SumOn(A, T) = b
  <2>1. \A i \in T : q[i] \in Int /\ A[i] \in Int BY <1>3, <1>10
  <2>2. \A i \in T \ {1} : A[i] = q[i]
    <3>1. ASSUME NEW i \in T \ {1} PROVE A[i] = q[i]
      <4>1. A[i] = q[i] + 0 /\ q[i] \in Nat BY <1>3, <1>10
      <4> HIDE DEF A, q, T
      <4> QED BY <4>1
    <3> QED BY <3>1
  <2>3. A[1] = q[1] + d /\ q[1] \in Nat BY <1>1, <1>3, <1>10
  <2>4. SumOn(A, T) = s - q[1] + A[1]
    <3> HIDE DEF A, q, T
    <3>1. SumOn(A, T) = SumOn(q, T) - q[1] + A[1] BY <1>1, <2>1, <2>2, SumChanges
    <3> QED BY <3>1
  <2> HIDE DEF A, q, T, s, d
  <2> QED BY <1>4, <1>7, <1>8, <2>3, <2>4
<1> QED BY <1>3, <1>8, <1>9, <1>10, <1>11

LEMMA SharesSplit ==
  ASSUME RevenueInv, splits # <<>>, NEW b \in Nat
  PROVE  /\ \A r \in Recipients : R!ShareOf(r, b) \in Int
         /\ SumOn([r \in Recipients |-> R!ShareOf(r, b)], Recipients) = b
         /\ R!FoldLeft(LAMBDA n, a : n + a, 0, R!Amounts(b)) = b
<1> DEFINE T == DOMAIN splits
           A == R!Amounts(b)
           key == [i \in T |-> splits[i].to]
           taken == [r \in Recipients |-> Taken(r, A)]
           parts == [r \in Recipients |-> R!ShareOf(r, b)]
<1>1. /\ T = 1..Len(splits) /\ Len(splits) \in Nat /\ IsFiniteSet(T)
      /\ \A i \in T : splits[i].to \in Recipients
  BY SplitFacts
<1>2. \A i \in T : A[i] \in Int
  <2>1. \A i \in T : A[i] \in Nat BY AmountsFacts
  <2> HIDE DEF A, T
  <2> QED BY <2>1
<1>3. SumOn(A, T) = b BY AmountsFacts
<1>4. \A r \in Recipients, i \in T : taken[r][i] = IF key[i] = r THEN A[i] ELSE 0 BY DEF Taken
<1>5. ASSUME NEW r \in Recipients PROVE R!ShareOf(r, b) = SumOn(taken[r], T)
  <2>1. R!ShareOf(r, b) = SumOn(Taken(r, A), T) BY <1>1, <1>2, SharesAddUp
  <2> QED BY <2>1
<1>6. ASSUME NEW r \in Recipients PROVE R!ShareOf(r, b) \in Int
  <2>1. \A i \in T : taken[r][i] \in Int
    <3> HIDE DEF taken, key, A, T
    <3> QED BY <1>2, <1>4
  <2> HIDE DEF taken, key, A, T
  <2> QED BY <1>1, <1>5, <2>1, SumInt
<1>7. SumOn(parts, Recipients) = SumOn(A, T)
  <2>1. \A i \in T : key[i] \in Recipients /\ A[i] \in Int BY <1>1, <1>2
  <2>2. \A r \in Recipients : parts[r] = SumOn(taken[r], T) BY <1>5
  <2>3. IsFiniteSet(Recipients) /\ IsFiniteSet(T) BY <1>1, RevenueAssumption
  <2>4. \A r \in Recipients, i \in T : taken[r][i] = IF key[i] = r THEN A[i] ELSE 0 BY <1>4
  <2> HIDE DEF parts, taken, key, A, T
  <2> QED BY <2>1, <2>2, <2>3, <2>4, SumByKey
<1>8. R!FoldLeft(LAMBDA n, a : n + a, 0, A) = b
  <2>1. DOMAIN A = T BY DEF R!Amounts
  <2>2. Len(A) = Len(splits)
    <3>1. A \in [1..Len(splits) -> Int] BY <1>1, <1>2, <2>1 DEF R!Amounts
    <3> HIDE DEF A
    <3> QED BY <1>1, <3>1
  <2> HIDE DEF A
  <2> QED BY <1>1, <1>2, <1>3, <2>1, <2>2, RevenueFolds
<1> QED BY <1>3, <1>6, <1>7, <1>8

LEMMA DistributeAdds ==
  ASSUME RevenueInv, R!Distribute
  PROVE  RevenueInv'
<1>0. splits # <<>> /\ holding \in Nat /\ splits' = splits /\ deposited' = deposited BY DEF RevenueInv, R!Distribute
<1> DEFINE g == [r \in Recipients |-> R!ShareOf(r, holding)]
           h == [r \in Recipients |-> received[r] + R!ShareOf(r, holding)]
      moved == R!FoldLeft(LAMBDA n, a : n + a, 0, R!Amounts(holding))
<1>1. \A r \in Recipients : R!ShareOf(r, holding) \in Int BY <1>0, SharesSplit
<1>2. SumOn(g, Recipients) = holding BY <1>0, SharesSplit
<1>3. moved = holding BY <1>0, SharesSplit
<1>4. holding' = 0 /\ distributed' = distributed + holding
  <2>1. holding' = holding - moved /\ distributed' = distributed + holding BY DEF R!Distribute
  <2> HIDE DEF moved
  <2> QED BY <1>0, <1>3, <2>1
<1> HIDE DEF moved
<1>5. received' = h /\ paidTo' = h /\ h \in [Recipients -> Int]
  <2>1. received' = h BY DEF R!Distribute
  <2>2. paidTo' = [r \in Recipients |-> paidTo[r] + R!ShareOf(r, holding)] /\ paidTo = received
    BY DEF R!Distribute, RevenueInv
  <2>3. paidTo' = h BY <2>2
  <2>4. \A r \in Recipients : received[r] + R!ShareOf(r, holding) \in Int
    <3>1. received \in [Recipients -> Int] BY DEF RevenueInv
    <3> QED BY <1>1, <3>1
  <2> QED BY <2>1, <2>3, <2>4
<1>6. SumOn(h, Recipients) = SumOn(received, Recipients) + holding
  <2>1. \A r \in Recipients : received[r] \in Int /\ g[r] \in Int /\ h[r] = received[r] + g[r]
    BY <1>1 DEF RevenueInv
  <2>2. IsFiniteSet(Recipients) BY RevenueAssumption
  <2> HIDE DEF g, h
  <2>3. SumOn(h, Recipients) = SumOn(received, Recipients) + SumOn(g, Recipients)
    BY <2>1, <2>2, SumsAdd
  <2> QED BY <1>2, <2>3
<1> HIDE DEF g, h
<1>7. splits' = <<>> \/ (splits' \in R!Tables /\ R!Valid(splits')) BY <1>0 DEF RevenueInv
<1>8. /\ holding' \in Nat /\ distributed' \in Nat /\ deposited' \in Nat
      /\ holding' + distributed' = deposited'
  BY <1>0, <1>4 DEF RevenueInv
<1>9. SumOn(received', Recipients) = distributed'
  BY <1>4, <1>5, <1>6 DEF RevenueInv
<1> QED BY <1>5, <1>7, <1>8, <1>9 DEF RevenueInv

LEMMA RevenueSteps == RevenueInv /\ R!Next => RevenueInv'
<1> SUFFICES ASSUME RevenueInv, R!Next PROVE RevenueInv' OBVIOUS
<1>1. CASE \E table \in R!Tables : R!Initialize(table) \/ R!UpdateSplits(table)
  BY <1>1 DEF R!Initialize, R!UpdateSplits, RevenueInv
<1>2. CASE \E amount \in Deposits : R!Deposit(amount)
  <2>1. PICK amount \in Deposits : R!Deposit(amount) BY <1>2
  <2>2. amount \in Nat BY RevenueAssumption
  <2> QED BY <2>1, <2>2 DEF R!Deposit, RevenueInv
<1>3. CASE R!Distribute BY <1>3, DistributeAdds
<1> QED BY <1>1, <1>2, <1>3 DEF R!Next

LEMMA RevenueStart == R!Init => RevenueInv
<1> SUFFICES ASSUME R!Init PROVE RevenueInv OBVIOUS
<1>1. \A r \in Recipients : received[r] = 0 BY DEF R!Init
<1>2. SumOn(received, Recipients) = 0 BY <1>1, SumZero, RevenueAssumption
<1> QED BY <1>2 DEF R!Init, RevenueInv

LEMMA RevenueIsSound == RevenueInv => R!RevenueSound
<1> SUFFICES ASSUME RevenueInv PROVE R!RevenueSound OBVIOUS
<1>1. R!SumFunction(received) = SumOn(received, Recipients)
  <2>1. DOMAIN received = Recipients BY DEF RevenueInv
  <2> QED BY <2>1 DEF R!SumFunction, R!SumFunctionOnSet, R!FoldFunctionOnSet, R!MapThenFoldSet,
                      SumOn, SumFunctionOnSet, FoldFunctionOnSet, MapThenFoldSet
<1>2. R!NothingStranded BY <1>1 DEF RevenueInv, R!NothingStranded
<1>3. ASSUME splits # <<>>, NEW b \in 1..MaxDeposited, NEW i \in DOMAIN splits
      PROVE  /\ R!Amounts(b)[i] * TotalBps > b * splits[i].bps - TotalBps
             /\ R!Amounts(b)[i] * TotalBps
                  < b * splits[i].bps + (IF i = 1 THEN TotalBps * Len(splits) ELSE 1)
  <2>0. b \in Nat /\ TotalBps \in Nat /\ TotalBps > 0 BY RevenueAssumption
  <2> DEFINE q == R!Floor(b, i)   d == R!Dust(b)   n == Len(splits)   e == b * splits[i].bps
             a == R!Amounts(b)[i]
  <2>1. /\ q \in Nat /\ d \in Nat /\ d < n
        /\ q * TotalBps <= e /\ e < q * TotalBps + TotalBps
        /\ a = q + (IF i = 1 THEN d ELSE 0)
    BY <1>3, <2>0, AmountsFacts
  <2>2. n \in Nat /\ e \in Nat
    <3>1. splits[i].bps \in Nat /\ n \in Nat BY <1>3, SplitFacts
    <3> QED BY <2>0, <3>1
  <2> HIDE DEF q, d, n, e, a
  <2>3. q * TotalBps \in Nat /\ d * TotalBps \in Nat /\ TotalBps * n \in Nat BY <2>0, <2>1, <2>2
  <2>4. CASE i = 1
    <3>1. a = q + d BY <2>1, <2>4
    <3>2. (q + d) * TotalBps = q * TotalBps + d * TotalBps BY <2>0, <2>1
    <3>3. d * TotalBps < TotalBps * n
      <4>1. n = d + (n - d) /\ n - d \in Nat /\ n - d >= 1 BY <2>1, <2>2
      <4> DEFINE m == n - d
      <4> HIDE DEF m
      <4>2. n = d + m /\ m \in Nat /\ m >= 1 BY <4>1 DEF m
      <4>3. TotalBps * (d + m) = d * TotalBps + m * TotalBps BY <2>0, <2>1, <4>2
      <4>4. m * TotalBps >= TotalBps BY <2>0, <4>2
      <4>5. m * TotalBps \in Nat BY <2>0, <4>2
      <4> QED BY <2>0, <2>3, <4>2, <4>3, <4>4, <4>5
    <3>4. a * TotalBps > e - TotalBps /\ a * TotalBps < e + TotalBps * n
      BY <2>0, <2>1, <2>2, <2>3, <3>1, <3>2, <3>3
    <3> QED BY <2>4, <3>4 DEF a, e, n
  <2>5. CASE i # 1
    <3>1. a = q BY <2>1, <2>5
    <3>2. a * TotalBps > e - TotalBps /\ a * TotalBps < e + 1
      BY <2>0, <2>1, <2>2, <2>3, <3>1
    <3> QED BY <2>5, <3>2 DEF a, e
  <2> QED BY <2>4, <2>5
<1>4. R!SharesFair BY <1>3 DEF R!SharesFair
<1> QED BY <1>2, <1>4 DEF R!RevenueSound

-----------------------------------------------------------------------------
\* The points users hold are those issued and not redeemed, and what the revenue contract
\* took in is with the recipients, in fair shares, or still held: for any number of holders
\* and recipients, any rates, any tables and any amounts.
THEOREM PointsKept == ServicesSpec => []PointsAndRevenue
<1>1. ServicesInit => PointsInv /\ RevenueInv BY PointsStart, RevenueStart DEF ServicesInit
<1>2. PointsInv /\ UNCHANGED loyaltyVars => PointsInv' BY DEF PointsInv, loyaltyVars
<1>3. RevenueInv /\ UNCHANGED revenueVars => RevenueInv'
  BY DEF RevenueInv, revenueVars
<1>4. /\ PointsInv /\ RevenueInv
      /\ [ServicesNext]_<<vars, loyaltyVars, revenueVars, roundVars, keyVars, catalogueVars, part>>
      => PointsInv' /\ RevenueInv'
  <2> SUFFICES ASSUME PointsInv, RevenueInv,
                      [ServicesNext]_<<vars, loyaltyVars, revenueVars, roundVars, keyVars,
                                       catalogueVars, part>>
               PROVE  PointsInv' /\ RevenueInv'
    OBVIOUS
  <2>1. (L!Next \/ UNCHANGED loyaltyVars) /\ (R!Next \/ UNCHANGED revenueVars) BY DEF ServicesNext
  <2> QED BY <1>2, <1>3, <2>1, PointsSteps, RevenueSteps
<1>5. PointsInv /\ RevenueInv => PointsAndRevenue
  <2>1. PointsInv => L!SumFunction(points) = SumOn(points, Holders) BY PointsAddUp DEF PointsInv
  <2> QED BY <2>1, RevenueIsSound DEF PointsInv, L!PointsConserved, PointsAndRevenue
<1> QED BY <1>1, <1>4, <1>5, PTL DEF ServicesSpec

-----------------------------------------------------------------------------
(***************************************************************************)
(* Proof, for any learners, requests, prices and days: whatever requests   *)
(* overlap on a course or a book, its views are all counted, what is        *)
(* published is dated, the learners' lists are part of the course's, and a  *)
(* listed book is whole.  What a request holds between its two steps is     *)
(* what the invariant has to say of it.                                     *)
(***************************************************************************)
\* Two parts of a finite set that have nothing in common.
LEMMA PartsOf ==
  ASSUME NEW S, NEW A, NEW B, IsFiniteSet(S), A \subseteq S, B \subseteq S, A \cap B = {}
  PROVE  /\ Cardinality(A) \in Nat /\ Cardinality(B) \in Nat /\ Cardinality(S) \in Nat
         /\ Cardinality(A) + Cardinality(B) <= Cardinality(S)
         /\ A \cup B = S => Cardinality(A) + Cardinality(B) = Cardinality(S)
<1>1. IsFiniteSet(A) /\ IsFiniteSet(B) BY FS_Subset
<1>2. Cardinality(A \cup B) = Cardinality(A) + Cardinality(B) - Cardinality({})
  BY <1>1, FS_Union
<1>3. Cardinality({}) = 0 BY FS_EmptySet
<1>4. Cardinality(A \cup B) <= Cardinality(S) BY FS_Subset
<1>5. Cardinality(A) \in Nat /\ Cardinality(B) \in Nat /\ Cardinality(S) \in Nat
  BY <1>1, FS_CardinalityType
<1>6. A \cup B = S => Cardinality(A \cup B) = Cardinality(S) OBVIOUS
<1> QED BY <1>2, <1>3, <1>4, <1>5, <1>6

\* The catalogue counts as the library does.
LEMMA SizesAgree == ASSUME NEW S PROVE Cat!Cardinality(S) = Cardinality(S)
BY DEF Cat!Cardinality, Cardinality

CourseTypes == [price : Prices \cup {0}, category : {Unknown} \cup Taxonomy,
                status : {"draft", "published"}, dated : BOOLEAN, views : Nat,
                enrolled : SUBSET Learners]
Learning == [done : SUBSET DOMAIN MCLessons, percent : Int, completed : Nat]
Shelved == [course : Nat, book : Nat]

\* What a request on the course will write.
CourseWork(x) ==
    /\ x.at \in {"idle", "save", "count", "shelve"}
    /\ x.at = "save" =>
         /\ x.op \in {"publish", "unpublish", "update"}
         /\ x.op = "update" => x.work \in [price : Prices, category : {Unknown} \cup Taxonomy]
    /\ x.at = "shelve" => x.by \in courseDoc.enrolled

CourseInv ==
    /\ courseDoc \in CourseTypes /\ (courseDoc.dated <=> courseDoc.status = "published")
    /\ courseDoc.views = counted
    /\ DOMAIN visit = Visits /\ \A v \in Visits : CourseWork(visit[v])
    /\ progressDoc \in [Learners -> Learning]
    /\ \A u \in Learners : progressDoc[u].completed # 0 <=> progressDoc[u].percent >= 100
    /\ shelf \in [Learners -> Shelved]
    /\ \A u \in Learners : shelf[u].course # 0 => u \in courseDoc.enrolled
    /\ day \in Nat \ {0}

\* A request starts or is over; the course may change with it, its learners stay.
LEMMA CourseGoesOn ==
  ASSUME CourseInv, NEW v \in Visits, visit' = [visit EXCEPT ![v] = visit'[v]],
         courseDoc' \in CourseTypes, courseDoc'.dated <=> courseDoc'.status = "published",
         courseDoc.enrolled \subseteq courseDoc'.enrolled, courseDoc'.views = counted',
         CourseWork(visit[v])', progressDoc' = progressDoc, shelf' = shelf, day' = day
  PROVE  CourseInv'
<1>1. DOMAIN visit' = Visits /\ \A w \in Visits \ {v} : visit'[w] = visit[w]
  BY DEF CourseInv
<1>2. \A w \in Visits \ {v} : CourseWork(visit[w])' BY <1>1 DEF CourseInv, CourseWork
<1>3. \A w \in Visits : CourseWork(visit[w])' BY <1>1, <1>2
<1> QED BY <1>1, <1>3 DEF CourseInv

LEMMA CourseIdle == CourseWork(Cat!Idle) /\ CourseWork(Cat!Idle)'
BY DEF CourseWork, Cat!Idle

LEMMA CourseOver ==
  ASSUME CourseInv, NEW v \in Visits, visit' = [visit EXCEPT ![v] = Cat!Idle],
         courseDoc' \in CourseTypes, courseDoc'.dated <=> courseDoc'.status = "published",
         courseDoc.enrolled \subseteq courseDoc'.enrolled, courseDoc'.views = counted',
         progressDoc' = progressDoc, shelf' = shelf, day' = day
  PROVE  CourseInv'
<1>1. visit'[v] = Cat!Idle /\ visit' = [visit EXCEPT ![v] = visit'[v]] BY DEF CourseInv
<1>2. CourseWork(visit[v])' BY <1>1 DEF CourseWork, Cat!Idle
<1> QED BY <1>1, <1>2, CourseGoesOn

LEMMA CourseEdited ==
  ASSUME CourseInv, NEW v \in Visits, Cat!EditCourse(v) \/ Cat!SaveEdit(v)
  PROVE  CourseInv'
<1>0. courseDoc \in CourseTypes /\ CourseWork(visit[v]) BY DEF CourseInv
<1>1. CASE Cat!EditCourse(v)
  <2>1. UNCHANGED <<courseDoc, counted, progressDoc, shelf, day>>
    BY <1>1 DEF Cat!EditCourse
  <2>2. ASSUME NEW op, NEW work,
               visit' = [visit EXCEPT ![v] = [op |-> op, at |-> "save", by |-> Author,
                                              read |-> courseDoc, work |-> work]],
               op \in {"publish", "unpublish", "update"},
               op = "update" => work \in [price : Prices, category : {Unknown} \cup Taxonomy]
        PROVE  CourseInv'
    <3>1. /\ visit'[v].at = "save" /\ visit'[v].op = op /\ visit'[v].work = work
          /\ visit' = [visit EXCEPT ![v] = visit'[v]]
      BY <2>2 DEF CourseInv
    <3>2. CourseWork(visit[v])' BY <2>2, <3>1 DEF CourseWork
    <3> QED BY <2>1, <3>1, <3>2, CourseGoesOn DEF CourseInv
  <2>3. CASE Cat!Starts(v, "publish", "save", Author, courseDoc, None)
    BY <2>2, <2>3 DEF Cat!Starts
  <2>4. CASE Cat!Starts(v, "unpublish", "save", Author, courseDoc, None)
    BY <2>2, <2>4 DEF Cat!Starts
  <2>5. ASSUME NEW price \in Prices, NEW category \in {Unknown} \cup Taxonomy,
               Cat!Starts(v, "update", "save", Author, courseDoc,
                          [price |-> price, category |-> category])
        PROVE  CourseInv'
    <3> DEFINE work == [price |-> price, category |-> category]
    <3>1. work \in [price : Prices, category : {Unknown} \cup Taxonomy] OBVIOUS
    <3>2. Cat!Starts(v, "update", "save", Author, courseDoc, work) BY <2>5
    <3> HIDE DEF work
    <3> QED BY <2>2, <3>1, <3>2 DEF Cat!Starts
  <2> QED BY <1>1, <2>3, <2>4, <2>5 DEF Cat!EditCourse
<1>2. CASE Cat!SaveEdit(v)
  <2>1. /\ UNCHANGED <<counted, progressDoc, shelf, day>>
        /\ visit' = [visit EXCEPT ![v] = Cat!Idle]
        /\ visit[v].op \in {"publish", "unpublish", "update"}
    BY <1>0, <1>2 DEF Cat!SaveEdit, Cat!Answers, CourseWork
  <2>2. ASSUME courseDoc' \in CourseTypes, courseDoc'.dated <=> courseDoc'.status = "published",
               courseDoc'.enrolled = courseDoc.enrolled, courseDoc'.views = courseDoc.views
        PROVE  CourseInv'
    <3>1. courseDoc'.views = counted' BY <2>1, <2>2 DEF CourseInv
    <3> QED BY <2>1, <2>2, <3>1, CourseOver
  <2>3. CASE visit[v].op = "publish"
    <3>1. courseDoc' = [courseDoc EXCEPT !.status = "published", !.dated = TRUE]
      BY <1>2, <2>3 DEF Cat!SaveEdit
    <3> QED BY <1>0, <2>2, <3>1 DEF CourseTypes
  <2>4. CASE visit[v].op = "unpublish"
    <3>1. courseDoc' = [courseDoc EXCEPT !.status = "draft", !.dated = FALSE]
      BY <1>2, <2>4 DEF Cat!SaveEdit
    <3> QED BY <1>0, <2>2, <3>1 DEF CourseTypes
  <2>5. CASE visit[v].op = "update"
    <3>1. courseDoc' = [courseDoc EXCEPT !.price = Cat!Saved(v, @, "price"),
                                         !.category = Cat!Saved(v, @, "category")]
      BY <1>2, <2>5 DEF Cat!SaveEdit
    <3>2. visit[v].work \in [price : Prices, category : {Unknown} \cup Taxonomy]
      BY <1>0, <1>2, <2>5 DEF CourseWork, Cat!SaveEdit
    <3>3. /\ Cat!Saved(v, courseDoc.price, "price") \in Prices \cup {0}
          /\ Cat!Saved(v, courseDoc.category, "category") \in {Unknown} \cup Taxonomy
      BY <1>0, <3>2 DEF Cat!Saved, CourseTypes
    <3>4. courseDoc.dated <=> courseDoc.status = "published" BY DEF CourseInv
    <3> QED BY <1>0, <2>2, <3>1, <3>3, <3>4 DEF CourseTypes
  <2> QED BY <2>1, <2>3, <2>4, <2>5
<1> QED BY <1>1, <1>2

LEMMA CourseCounted ==
  ASSUME CourseInv, NEW v \in Visits,
         Cat!GetCourseById(v) \/ Cat!RecordCourseView(v) \/ Cat!WriteFails(v)
  PROVE  CourseInv'
<1>0. /\ courseDoc \in CourseTypes /\ courseDoc.views = counted
      /\ (courseDoc.dated <=> courseDoc.status = "published")
  BY DEF CourseInv
<1>1. CASE Cat!GetCourseById(v)
  <2>1. /\ visit' = [visit EXCEPT ![v] = visit'[v]] /\ visit'[v].at = "count"
        /\ UNCHANGED <<courseDoc, counted, progressDoc, shelf, day>>
    BY <1>1 DEF Cat!GetCourseById, Cat!Starts, CourseInv
  <2>2. CourseWork(visit[v])' BY <2>1 DEF CourseWork
  <2> QED BY <1>0, <2>1, <2>2, CourseGoesOn
<1>2. CASE Cat!RecordCourseView(v)
  <2>1. /\ visit' = [visit EXCEPT ![v] = Cat!Idle] /\ UNCHANGED <<progressDoc, shelf, day>>
        /\ courseDoc' = [courseDoc EXCEPT !.views = @ + 1] /\ counted' = counted + 1
    BY <1>2 DEF Cat!RecordCourseView, Cat!Answers
  <2>2. /\ courseDoc' \in CourseTypes /\ courseDoc'.views = courseDoc.views + 1
        /\ courseDoc'.enrolled = courseDoc.enrolled /\ courseDoc'.dated = courseDoc.dated
        /\ courseDoc'.status = courseDoc.status
    BY <1>0, <2>1 DEF CourseTypes
  <2> QED BY <1>0, <2>1, <2>2, CourseOver
<1>3. CASE Cat!WriteFails(v)
  <2>1. /\ visit' = [visit EXCEPT ![v] = Cat!Idle]
        /\ UNCHANGED <<courseDoc, counted, progressDoc, shelf, day>>
    BY <1>3 DEF Cat!WriteFails, Cat!Answers
  <2> QED BY <1>0, <2>1, CourseOver
<1> QED BY <1>1, <1>2, <1>3

LEMMA CourseEnrolled ==
  ASSUME CourseInv, NEW v \in Visits, Cat!Shelve(v) \/ \E u \in Learners : Cat!Enroll(v, u)
  PROVE  CourseInv'
<1>0. /\ courseDoc \in CourseTypes /\ courseDoc.views = counted
      /\ (courseDoc.dated <=> courseDoc.status = "published")
  BY DEF CourseInv
<1>1. ASSUME NEW u \in Learners, Cat!Enroll(v, u) PROVE CourseInv'
  <2>1. /\ visit' = [visit EXCEPT ![v] = visit'[v]] /\ UNCHANGED <<progressDoc, shelf, day, counted>>
        /\ visit'[v].at = "shelve" /\ visit'[v].by = u
        /\ courseDoc' = [courseDoc EXCEPT !.enrolled = @ \cup {u}]
    BY <1>1 DEF Cat!Enroll, Cat!Starts, CourseInv
  <2>2. /\ courseDoc' \in CourseTypes /\ courseDoc'.enrolled = courseDoc.enrolled \cup {u}
        /\ courseDoc'.views = courseDoc.views
        /\ courseDoc'.dated = courseDoc.dated /\ courseDoc'.status = courseDoc.status
    BY <1>0, <2>1 DEF CourseTypes
  <2>3. CourseWork(visit[v])' BY <2>1, <2>2 DEF CourseWork
  <2> QED BY <1>0, <2>1, <2>2, <2>3, CourseGoesOn
<1>2. CASE Cat!Shelve(v)
  <2> DEFINE u == visit[v].by
  <2>1. u \in courseDoc.enrolled /\ u \in Learners
    BY <1>0, <1>2 DEF Cat!Shelve, Cat!At, CourseInv, CourseWork, CourseTypes
  <2>2. /\ visit' = [visit EXCEPT ![v] = Cat!Idle]
        /\ UNCHANGED <<courseDoc, counted, progressDoc, day>>
        /\ shelf' = IF shelf[u].course = 0 THEN [shelf EXCEPT ![u].course = day] ELSE shelf
    BY <1>2 DEF Cat!Shelve, Cat!Answers
  <2>3. shelf \in [Learners -> Shelved] /\ day \in Nat BY DEF CourseInv
  <2>4. /\ shelf' \in [Learners -> Shelved]
        /\ \A w \in Learners : shelf'[w].course # 0 => shelf[w].course # 0 \/ w = u
    BY <2>1, <2>2, <2>3 DEF Shelved
  <2>5. \A w \in Learners : shelf'[w].course # 0 => w \in courseDoc.enrolled
    BY <2>1, <2>4 DEF CourseInv
  <2>6. DOMAIN visit' = Visits /\ \A w \in Visits : visit'[w] = Cat!Idle \/ visit'[w] = visit[w]
    BY <2>2 DEF CourseInv
  <2>7. \A w \in Visits : CourseWork(visit[w])'
    BY <2>2, <2>6, CourseIdle DEF CourseInv, CourseWork
  <2> QED BY <2>2, <2>4, <2>5, <2>6, <2>7 DEF CourseInv
<1> QED BY <1>1, <1>2

\* Rounded percentages are whole numbers.
LEMMA PercentIs == ASSUME NEW part1 \in Nat, NEW whole \in Nat, whole > 0
                   PROVE  Cat!Percent(part1, whole) \in Int
BY DEF Cat!Percent

LEMMA LessonsFinite ==
  /\ IsFiniteSet(DOMAIN MCLessons) /\ Cardinality(DOMAIN MCLessons) \in Nat
  /\ Cardinality(DOMAIN MCLessons) > 0
<1>1. DOMAIN MCLessons = {"first", "second", "intro"} BY DEF MCLessons
<1>2. {"first", "second", "intro"} = ({"first"} \cup {"second"}) \cup {"intro"} OBVIOUS
<1>3. IsFiniteSet({"first"}) /\ IsFiniteSet({"second"}) /\ IsFiniteSet({"intro"}) BY FS_Singleton
<1>4. IsFiniteSet({"first"} \cup {"second"}) BY <1>3, FS_Union
<1>5. IsFiniteSet(DOMAIN MCLessons)
  <2>1. IsFiniteSet(({"first"} \cup {"second"}) \cup {"intro"}) BY <1>3, <1>4, FS_Union
  <2> QED BY <1>1, <1>2, <2>1
<1>6. Cardinality(DOMAIN MCLessons) # 0 BY <1>1, <1>5, FS_EmptySet
<1> QED BY <1>5, <1>6, FS_CardinalityType

LEMMA CourseLearned ==
  ASSUME CourseInv, NEW u \in Learners, NEW lesson \in DOMAIN MCLessons, Cat!Learn(u, lesson)
  PROVE  CourseInv'
<1> DEFINE done == progressDoc[u].done \cup {lesson}
           percent == Cat!Percent(Cardinality(done), Cardinality(DOMAIN MCLessons))
           p == [done |-> done, percent |-> percent,
                 completed |-> IF percent >= 100 THEN day ELSE 0]
<1>1. progressDoc \in [Learners -> Learning] /\ day \in Nat \ {0} BY DEF CourseInv
<1>2. done \subseteq DOMAIN MCLessons BY <1>1 DEF Learning
<1>3. Cardinality(done) \in Nat BY <1>2, LessonsFinite, FS_Subset, FS_CardinalityType
<1>4. percent \in Int BY <1>3, PercentIs, LessonsFinite
<1>5. progressDoc' = [progressDoc EXCEPT ![u] = p]
  BY Zenon DEF Cat!Learn, Cat!Cardinality, Cardinality
<1>05. UNCHANGED <<courseDoc, counted, visit, shelf, day>> BY DEF Cat!Learn
<1> HIDE DEF done, percent
<1>6. p \in Learning /\ (p.completed # 0 <=> p.percent >= 100)
  BY <1>1, <1>2, <1>4 DEF Learning
<1> HIDE DEF p
<1>7. /\ progressDoc' \in [Learners -> Learning] /\ progressDoc'[u] = p
      /\ \A w \in Learners \ {u} : progressDoc'[w] = progressDoc[w]
  BY <1>1, <1>5, <1>6
<1>8. \A w \in Learners : progressDoc'[w].completed # 0 <=> progressDoc'[w].percent >= 100
  BY <1>6, <1>7 DEF CourseInv
<1>9. \A v \in Visits : CourseWork(visit[v])' BY <1>05 DEF CourseInv, CourseWork
<1> QED BY <1>05, <1>7, <1>8, <1>9 DEF CourseInv

LEMMA CourseSteps == CourseInv /\ (Cat!CourseNext \/ UNCHANGED catalogueVars) => CourseInv'
<1>1. CourseInv /\ UNCHANGED <<courseDoc, counted, visit, progressDoc, shelf>>
      /\ day' \in Nat \ {0} => CourseInv'
  BY DEF CourseInv, CourseWork
<1>2. CourseInv /\ UNCHANGED catalogueVars => CourseInv' BY <1>1 DEF catalogueVars, CourseInv
<1>3. CourseInv /\ Cat!NextDay => CourseInv' BY <1>1 DEF Cat!NextDay, CourseInv
<1> QED BY <1>2, <1>3, CourseEdited, CourseCounted, CourseEnrolled, CourseLearned
        DEF Cat!CourseNext

\* The reports of one course: who finished it, by any way of asking, and in parts of a time.
LEMMA CompletionsDo == ASSUME CourseInv PROVE Cat!CompletionsAgree
<1> DEFINE S == Cat!Started   c(u) == progressDoc[u].completed
<1>0. /\ \A u \in S : u \in Learners /\ c(u) \in Nat /\ progressDoc[u].percent \in Int
                       /\ (c(u) # 0 <=> progressDoc[u].percent >= 100)
      /\ IsFiniteSet(S)
  <2>1. S \subseteq Learners BY DEF Cat!Started
  <2>2. IsFiniteSet(S) BY <2>1, FS_Subset, CatalogueAssumption
  <2> QED BY <2>1, <2>2 DEF CourseInv, Learning
<1> HIDE DEF S
<1> DEFINE all == {u \in S : c(u) # 0}
<1>1. {u \in S : Cat!InRange(c(u), 0, 0)} = all BY <1>0 DEF Cat!InRange
<1>2. {u \in S : c(u) # 0 \/ progressDoc[u].percent >= 100} = all BY <1>0
<1>3. {u \in S : progressDoc[u].percent > 99} = all BY <1>0
<1>4. ASSUME NEW d \in 1..(LastDay - 1)
      PROVE  Cat!CompletionsBetween(0, d) + Cat!CompletionsBetween(d + 1, 0)
               = Cat!CompletionsBetween(0, 0)
  <2> DEFINE early == {u \in S : Cat!InRange(c(u), 0, d)}
             late == {u \in S : Cat!InRange(c(u), d + 1, 0)}
  <2>1. early = {u \in S : c(u) # 0 /\ c(u) <= d} BY <1>0 DEF Cat!InRange
  <2>2. late = {u \in S : c(u) # 0 /\ c(u) >= d + 1} BY <1>0 DEF Cat!InRange
  <2>3. early \subseteq all /\ late \subseteq all BY <2>1, <2>2
  <2>4. early \cap late = {} /\ early \cup late = all BY <1>0, <2>1, <2>2
  <2>5. IsFiniteSet(all) BY <1>0, FS_Subset
  <2> HIDE DEF early, late, all
  <2>6. Cardinality(early) + Cardinality(late) = Cardinality(all) BY <2>3, <2>4, <2>5, PartsOf
  <2> QED BY <1>1, <2>6, SizesAgree DEF Cat!CompletionsBetween, S, early, late
<1>5. Cat!CompletionsBetween(0, 0) = Cardinality(all)
  BY <1>1, SizesAgree DEF Cat!CompletionsBetween, S
<1>6. Cat!RowCompletions = Cardinality(all) BY <1>2, SizesAgree DEF Cat!RowCompletions, S
<1>7. Cat!EducatorCompletions = Cardinality(all)
  BY <1>3, SizesAgree DEF Cat!EducatorCompletions, S
<1> QED BY <1>4, <1>5, <1>6, <1>7 DEF Cat!CompletionsAgree

\* The learners whose lists have the course are among the course's learners.
LEMMA EnrolmentsDo == ASSUME CourseInv PROVE Cat!EnrolmentsAgree
<1> DEFINE E == courseDoc.enrolled   c(u) == shelf[u].course
           L1(from, to) == {u \in Learners : Cat!InRange(c(u), from, to)}
<1>0. /\ \A u \in Learners : c(u) \in Nat /\ (c(u) # 0 => u \in E)
      /\ E \subseteq Learners
  BY DEF CourseInv, CourseTypes, Shelved
<1>1. IsFiniteSet(E) BY <1>0, FS_Subset, CatalogueAssumption
<1>2. \A from, to : L1(from, to) \subseteq E BY <1>0 DEF Cat!InRange
<1>3. Cat!Enrolments(0, 0) = Cardinality(E)
  BY SizesAgree DEF Cat!Enrolments, Cat!CountEnrollments
<1>4. ASSUME NEW d \in 1..LastDay
      PROVE  Cat!Enrolments(1, d) + Cat!Overview(d + 1, LastDay).enrolments <= Cat!Enrolments(0, 0)
  <2>1. Cat!Enrolments(1, d) = Cardinality(L1(1, d)) BY SizesAgree DEF Cat!Enrolments
  <2>2. Cat!Enrolments(d + 1, LastDay) = Cardinality(L1(d + 1, LastDay))
    BY SizesAgree DEF Cat!Enrolments
  <2>3. Cat!Overview(d + 1, LastDay).enrolments = Cat!Enrolments(d + 1, LastDay)
    BY DEF Cat!Overview
  <2>4. \A u \in L1(1, d) : c(u) <= d BY DEF Cat!InRange
  <2>5. \A u \in L1(d + 1, LastDay) : c(u) >= d + 1 BY DEF Cat!InRange
  <2>6. L1(1, d) \cap L1(d + 1, LastDay) = {}
    <3> SUFFICES ASSUME NEW u \in L1(1, d), u \in L1(d + 1, LastDay) PROVE FALSE OBVIOUS
    <3>1. u \in Learners /\ c(u) <= d /\ c(u) >= d + 1 BY <2>4, <2>5
    <3> QED BY <1>0, <3>1
  <2>7. Cardinality(L1(1, d)) + Cardinality(L1(d + 1, LastDay)) <= Cardinality(E)
    BY <1>1, <1>2, <2>6, PartsOf
  <2> QED BY <1>3, <2>1, <2>2, <2>3, <2>7
<1>5. ASSUME NEW from \in Cat!Days, NEW to \in Cat!Days, Cat!DashboardEnrolments(from, to) = 0
      PROVE  E = {}
  <2>1. Cardinality(E) = 0
    BY <1>5, SizesAgree DEF Cat!DashboardEnrolments
  <2> QED BY <1>1, <2>1, FS_EmptySet
<1> QED BY <1>0, <1>4, <1>5 DEF Cat!EnrolmentsAgree, Cat!IsUserEnrolled

-----------------------------------------------------------------------------
(* A book, what its requests carry, and the store *)

Kinds == {"image", "raw", "audio"}

\* An upload that is there, of its kind.
File(files, i, kind) == i \in 1..Len(files) /\ files[i] = kind

BookTypes == [price : Nat, thumbnail : Nat, text : Nat, audio : Nat, audioId : Nat, reads : Nat]

WholeBook(b, files) ==
    /\ b \in BookTypes /\ File(files, b.thumbnail, "image")
    /\ b.text # 0 \/ b.audio # 0
    /\ b.text # 0 => File(files, b.text, "raw")
    /\ b.audio # 0 => File(files, b.audio, "audio")
    /\ b.audioId = b.audio

\* What createBook has uploaded, and what it still will.
Uploading(w, files) ==
    /\ w \in [left : Seq(Kinds), got : [image : Nat, raw : Nat, audio : Nat], price : Prices,
               reads : {0, 3}]
    /\ w.got.image # 0 => File(files, w.got.image, "image")
    /\ w.got.raw # 0 => File(files, w.got.raw, "raw")
    /\ w.got.audio # 0 => File(files, w.got.audio, "audio")
    /\ w.got.image # 0 \/ (w.left # <<>> /\ w.left[1] = "image")
    /\ w.got.raw # 0 \/ w.got.audio # 0 \/ \E i \in DOMAIN w.left : w.left[i] \in {"raw", "audio"}

Streaming(x, files) ==
    /\ WholeBook(x.read, files) /\ x.work.kind \in {"raw", "audio"}
    /\ x.work.file = IF x.work.kind = "raw" THEN x.read.text ELSE x.read.audio
    /\ x.work.file # 0

\* A request's record, of which only some fields change.
Shaped(x) == x = [op |-> x.op, at |-> x.at, by |-> x.by, read |-> x.read, work |-> x.work]

BookWork(x, files) ==
    /\ x.at \in {"idle", "upload", "attach", "count", "check"}
    /\ x.at = "upload" => Shaped(x) /\ Uploading(x.work, files)
    /\ x.at = "attach" => File(files, x.work, "audio")
    /\ x.at = "check" => Streaming(x, files)

Given(s, files) == s.file = s.address /\ File(files, s.file, s.kind)

BookInv ==
    /\ stored \in Seq(Kinds) /\ counted \in Nat
    /\ Cat!BookExists => WholeBook(bookDoc, stored) /\ bookDoc.reads = counted
    /\ DOMAIN visit = Visits /\ \A v \in Visits : BookWork(visit[v], stored)
    /\ \A s \in served : Given(s, stored)

\* What is in the store stays there.
LEMMA FilesStay ==
  ASSUME NEW files \in Seq(Kinds), NEW kind \in Kinds
  PROVE  LET more == Append(files, kind) IN
         /\ more \in Seq(Kinds) /\ Len(more) = Len(files) + 1 /\ File(more, Len(more), kind)
         /\ \A i, k : File(files, i, k) => File(more, i, k)
BY DEF File

\* What is left after the first is the rest.
LEMMA RestOf ==
  ASSUME NEW left \in Seq(Kinds), left # <<>>
  PROVE  /\ left[1] \in Kinds /\ Tail(left) \in Seq(Kinds)
         /\ \A i \in DOMAIN left : i = 1 \/ (i - 1 \in DOMAIN Tail(left)
                                             /\ Tail(left)[i - 1] = left[i])
<1>1. left[1] \in Kinds /\ Tail(left) \in Seq(Kinds) OBVIOUS
<1>2. /\ Len(Tail(left)) = Len(left) - 1 /\ DOMAIN left = 1..Len(left)
      /\ DOMAIN Tail(left) = 1..(Len(left) - 1) /\ Len(left) \in Nat
      /\ \A j \in 1..(Len(left) - 1) : Tail(left)[j] = left[j + 1]
  OBVIOUS
<1>3. ASSUME NEW i \in DOMAIN left, i # 1
      PROVE  i - 1 \in DOMAIN Tail(left) /\ Tail(left)[i - 1] = left[i]
  BY <1>2, <1>3
<1> QED BY <1>1, <1>3

LEMMA WorkStays ==
  ASSUME NEW files \in Seq(Kinds), NEW kind \in Kinds, NEW x, BookWork(x, files)
  PROVE  BookWork(x, Append(files, kind))
<1> DEFINE more == Append(files, kind)
<1>1. \A i, k : File(files, i, k) => File(more, i, k) BY FilesStay
<1> HIDE DEF more
<1>2. \A b : WholeBook(b, files) => WholeBook(b, more) BY <1>1 DEF WholeBook
<1>3. \A w : Uploading(w, files) => Uploading(w, more) BY <1>1 DEF Uploading
<1>4. Streaming(x, files) => Streaming(x, more) BY <1>2 DEF Streaming
<1>5. BookWork(x, more) BY <1>1, <1>3, <1>4 DEF BookWork
<1> QED BY <1>5 DEF more

\* A request goes on, and nothing is uploaded.
LEMMA BookGoesOn ==
  ASSUME BookInv, NEW v \in Visits, visit' = [visit EXCEPT ![v] = visit'[v]], stored' = stored,
         BookWork(visit'[v], stored), counted' \in Nat,
         Cat!BookExists' => WholeBook(bookDoc', stored) /\ bookDoc'.reads = counted',
         \A s \in served' : Given(s, stored)
  PROVE  BookInv'
<1>1. DOMAIN visit' = Visits /\ \A w \in Visits \ {v} : visit'[w] = visit[w] BY DEF BookInv
<1>2. \A w \in Visits : BookWork(visit'[w], stored') BY <1>1 DEF BookInv
<1> QED BY <1>1, <1>2 DEF BookInv

\* A request uploads a file.
LEMMA BookUploads ==
  ASSUME BookInv, NEW v \in Visits, visit' = [visit EXCEPT ![v] = visit'[v]],
         NEW kind \in Kinds, stored' = Append(stored, kind), BookWork(visit'[v], stored'),
         UNCHANGED <<bookDoc, counted, served>>
  PROVE  BookInv'
<1>0. stored \in Seq(Kinds) BY DEF BookInv
<1>1. DOMAIN visit' = Visits /\ \A w \in Visits \ {v} : visit'[w] = visit[w] BY DEF BookInv
<1>2. /\ stored' \in Seq(Kinds) /\ \A i, k : File(stored, i, k) => File(stored', i, k)
  BY <1>0, FilesStay
<1>3. \A w \in Visits : BookWork(visit[w], stored) BY DEF BookInv
<1>4. \A w \in Visits : BookWork(visit[w], stored') BY <1>0, <1>3, WorkStays
<1>5. \A w \in Visits : BookWork(visit'[w], stored') BY <1>1, <1>4
<1>6. \A b : WholeBook(b, stored) => WholeBook(b, stored') BY <1>2 DEF WholeBook
<1>7. Cat!BookExists' <=> Cat!BookExists BY DEF Cat!BookExists
<1>8. Cat!BookExists' => WholeBook(bookDoc', stored') /\ bookDoc'.reads = counted'
  BY <1>6, <1>7 DEF BookInv
<1>9. \A s \in served' : Given(s, stored') BY <1>2 DEF BookInv, Given
<1> QED BY <1>1, <1>2, <1>5, <1>8, <1>9 DEF BookInv

LEMMA BookOver ==
  ASSUME BookInv, NEW v \in Visits, visit' = [visit EXCEPT ![v] = Cat!Idle], stored' = stored,
         counted' \in Nat,
         Cat!BookExists' => WholeBook(bookDoc', stored) /\ bookDoc'.reads = counted',
         \A s \in served' : Given(s, stored)
  PROVE  BookInv'
<1>1. visit'[v] = Cat!Idle /\ visit' = [visit EXCEPT ![v] = visit'[v]] BY DEF BookInv
<1>2. BookWork(visit'[v], stored) BY <1>1 DEF BookWork, Cat!Idle
<1> QED BY <1>1, <1>2, BookGoesOn

LEMMA BookCreated ==
  ASSUME BookInv, NEW v \in Visits, Cat!CreateBook(v) \/ Cat!Upload(v) \/ Cat!InsertBook(v)
  PROVE  BookInv'
<1>0. /\ stored \in Seq(Kinds) /\ counted \in Nat /\ BookWork(visit[v], stored)
      /\ \A s \in served : Given(s, stored)
      /\ Cat!BookExists => WholeBook(bookDoc, stored) /\ bookDoc.reads = counted
  BY DEF BookInv
<1>1. CASE Cat!CreateBook(v)
  <2>1. PICK files \in {<<"raw">>, <<"audio">>, <<"raw", "audio">>}, price \in Prices,
             reads \in {0, 3} :
          Cat!Starts(v, "create", "upload", Author, None,
                     [left |-> <<"image">> \o files, got |-> [image |-> 0, raw |-> 0, audio |-> 0],
                      price |-> price, reads |-> reads])
    BY <1>1 DEF Cat!CreateBook
  <2> DEFINE left == <<"image">> \o files
             w == [left |-> left, got |-> [image |-> 0, raw |-> 0, audio |-> 0],
                   price |-> price, reads |-> reads]
  <2>2. /\ left \in Seq(Kinds) /\ left # <<>> /\ left[1] = "image"
        /\ 2 \in DOMAIN left /\ left[2] \in {"raw", "audio"}
    <3>1. files \in Seq(Kinds) /\ Len(files) >= 1 /\ files[1] \in {"raw", "audio"}
      <4>1. CASE files = <<"raw">> BY <4>1 DEF Kinds
      <4>2. CASE files = <<"audio">> BY <4>2 DEF Kinds
      <4>3. CASE files = <<"raw", "audio">> BY <4>3 DEF Kinds
      <4> QED BY <4>1, <4>2, <4>3
    <3>2. <<"image">> \in Seq(Kinds) /\ Len(<<"image">>) = 1 /\ <<"image">>[1] = "image"
      BY DEF Kinds
    <3>3. left \in Seq(Kinds) /\ Len(left) = 1 + Len(files) /\ left[1] = "image"
          /\ left[2] = files[1]
      BY <3>1, <3>2
    <3> QED BY <3>1, <3>3
  <2>3. /\ visit' = [visit EXCEPT ![v] = visit'[v]] /\ Shaped(visit'[v])
        /\ visit'[v].at = "upload" /\ visit'[v].work = w
    BY <2>1 DEF Cat!Starts, BookInv, Shaped
  <2> HIDE DEF left
  <2>4. w.left = left /\ w.got.image = 0 /\ w.got.raw = 0 /\ w.got.audio = 0
        /\ w \in [left : Seq(Kinds), got : [image : Nat, raw : Nat, audio : Nat], price : Prices,
                  reads : {0, 3}]
    BY <2>2
  <2> HIDE DEF w
  <2>5. Uploading(w, stored) BY <2>2, <2>4 DEF Uploading
  <2>6. BookWork(visit'[v], stored) BY <2>3, <2>5 DEF BookWork
  <2>7. UNCHANGED <<bookDoc, counted, stored, served>> BY <1>1 DEF Cat!CreateBook
  <2>8. Cat!BookExists' <=> Cat!BookExists BY <2>7 DEF Cat!BookExists
  <2> QED BY <1>0, <2>3, <2>6, <2>7, <2>8, BookGoesOn
<1>2. CASE Cat!Upload(v)
  <2> DEFINE w == visit[v].work   k == w.left[1]   n == Len(stored) + 1
             u == [w EXCEPT !.left = Tail(@), !.got[k] = n]
  <2>1. Uploading(w, stored) /\ w.left # <<>> /\ visit[v].at = "upload"
    BY <1>0, <1>2 DEF Cat!Upload, Cat!At, BookWork
  <2>02. w.left \in Seq(Kinds) BY <2>1 DEF Uploading
  <2>2. k \in Kinds /\ Tail(w.left) \in Seq(Kinds) /\ n \in Nat /\ n # 0
        /\ \A i \in DOMAIN w.left : i = 1 \/ (i - 1 \in DOMAIN Tail(w.left)
                                             /\ Tail(w.left)[i - 1] = w.left[i])
    <3> HIDE DEF w
    <3>1. n \in Nat /\ n # 0 BY <1>0
    <3> QED BY <2>1, <2>02, <3>1, RestOf
  <2>3. stored' = Append(stored, k) /\ Len(stored') = n
    BY <1>0, <1>2 DEF Cat!Upload
  <2>4. /\ visit' = [visit EXCEPT ![v] = visit'[v]] /\ Shaped(visit'[v])
        /\ visit'[v].at = "upload" /\ visit'[v].work = u
    <3>1. visit' = [visit EXCEPT ![v].at = "upload", ![v].work = u]
      BY <1>2, <2>3, Zenon DEF Cat!Upload, Cat!Goes
    <3>2. Shaped(visit[v]) BY <1>0, <2>1 DEF BookWork
    <3> HIDE DEF u, w
    <3> QED BY <3>1, <3>2 DEF BookInv, Shaped
  <2>5. UNCHANGED <<bookDoc, counted, served>> BY <1>2 DEF Cat!Upload
  <2>6. /\ File(stored', n, k) /\ \A i, kind : File(stored, i, kind) => File(stored', i, kind)
    BY <1>0, <2>2, <2>3, FilesStay
  <2>7. Uploading(u, stored')
    <3>1. /\ w \in [left : Seq(Kinds), got : [image : Nat, raw : Nat, audio : Nat],
                    price : Prices, reads : {0, 3}]
          /\ w.got \in [image : Nat, raw : Nat, audio : Nat]
      BY <2>1 DEF Uploading
    <3>2. /\ u.left = Tail(w.left) /\ u.got = [w.got EXCEPT ![k] = n]
          /\ u = [left |-> u.left, got |-> u.got, price |-> w.price, reads |-> w.reads]
      <4> DEFINE t == Tail(w.left)   g == [w.got EXCEPT ![k] = n]
      <4>1. u = [w EXCEPT !.left = t, !.got = g] OBVIOUS
      <4> HIDE DEF u, w, t, g
      <4>2. /\ u.left = t /\ u.got = g
            /\ u = [left |-> t, got |-> g, price |-> w.price, reads |-> w.reads]
        BY <3>1, <4>1
      <4> QED BY <4>2 DEF t, g
    <3> HIDE DEF u, w
    <3>3. k \in {"image", "raw", "audio"} BY <2>2 DEF Kinds
    <3>4. /\ u.got \in [image : Nat, raw : Nat, audio : Nat]
          /\ u.got.image = IF k = "image" THEN n ELSE w.got.image
          /\ u.got.raw = IF k = "raw" THEN n ELSE w.got.raw
          /\ u.got.audio = IF k = "audio" THEN n ELSE w.got.audio
      <4> HIDE DEF k, n
      <4> QED BY <2>2, <3>1, <3>2, <3>3
    <3>5. u \in [left : Seq(Kinds), got : [image : Nat, raw : Nat, audio : Nat],
                 price : Prices, reads : {0, 3}]
      <4> HIDE DEF k, n
      <4>1. w.price \in Prices /\ w.reads \in {0, 3} /\ u.left \in Seq(Kinds) BY <2>2, <3>1, <3>2
      <4> DEFINE l == u.left   g == u.got   G == [image : Nat, raw : Nat, audio : Nat]
      <4>2. g \in G /\ l \in Seq(Kinds) BY <3>4, <4>1
      <4>3. u = [left |-> l, got |-> g, price |-> w.price, reads |-> w.reads] BY <3>2
      <4> HIDE DEF l, g, G
      <4>4. [left |-> l, got |-> g, price |-> w.price, reads |-> w.reads]
              \in [left : Seq(Kinds), got : G, price : Prices, reads : {0, 3}]
        BY <4>1, <4>2
      <4> QED BY <4>3, <4>4 DEF G
    <3>6. /\ u.got.image # 0 => File(stored', u.got.image, "image")
          /\ u.got.raw # 0 => File(stored', u.got.raw, "raw")
          /\ u.got.audio # 0 => File(stored', u.got.audio, "audio")
      <4> HIDE DEF k, n
      <4> QED BY <2>1, <2>6, <3>4 DEF Uploading
    <3>7. u.got.image # 0
      BY <2>1, <2>2, <3>4 DEF Uploading
    <3>8. \/ u.got.raw # 0 \/ u.got.audio # 0
          \/ \E i \in DOMAIN u.left : u.left[i] \in {"raw", "audio"}
      <4>1. CASE w.got.raw # 0 \/ w.got.audio # 0
        <5> HIDE DEF k, n
        <5> QED BY <2>2, <3>4, <4>1
      <4>2. CASE \E i \in DOMAIN w.left : w.left[i] \in {"raw", "audio"}
        <5>1. PICK i \in DOMAIN w.left : w.left[i] \in {"raw", "audio"} BY <4>2
        <5>2. CASE i = 1 BY <2>2, <3>4, <5>1, <5>2
        <5>3. CASE i # 1 BY <2>2, <3>2, <5>1, <5>3
        <5> QED BY <5>2, <5>3
      <4> QED BY <2>1, <4>1, <4>2 DEF Uploading
    <3> QED BY <3>5, <3>6, <3>7, <3>8 DEF Uploading
  <2>8. BookWork(visit'[v], stored')
    <3> HIDE DEF u
    <3> QED BY <2>4, <2>7 DEF BookWork
  <2> HIDE DEF u, k, w
  <2> QED BY <2>2, <2>3, <2>4, <2>5, <2>8, BookUploads
<1>3. CASE Cat!InsertBook(v)
  <2> DEFINE w == visit[v].work
             b == [price |-> w.price, thumbnail |-> w.got.image, text |-> w.got.raw,
                   audio |-> w.got.audio, audioId |-> w.got.audio, reads |-> w.reads]
  <2>1. Uploading(w, stored) /\ w.left = <<>>
    BY <1>0, <1>3 DEF Cat!InsertBook, Cat!At, BookWork
  <2>2. bookDoc' = b /\ counted' = w.reads /\ visit' = [visit EXCEPT ![v] = Cat!Idle]
        /\ UNCHANGED <<stored, served>>
    BY <1>3 DEF Cat!InsertBook, Cat!Answers
  <2>3. b \in BookTypes /\ b.reads = w.reads /\ w.reads \in Nat
    <3>1. /\ w.price \in Nat /\ w.reads \in {0, 3}
          /\ w.got \in [image : Nat, raw : Nat, audio : Nat]
      BY <2>1, CatalogueAssumption DEF Uploading
    <3> HIDE DEF w
    <3> QED BY <3>1 DEF BookTypes
  <2>4. /\ w.got.image # 0 /\ (w.got.raw # 0 \/ w.got.audio # 0)
    <3>1. DOMAIN w.left = {} BY <2>1
    <3> QED BY <2>1, <3>1 DEF Uploading
  <2>5. WholeBook(b, stored) BY <2>1, <2>3, <2>4 DEF WholeBook, Uploading
  <2> HIDE DEF b, w
  <2> QED BY <1>0, <2>2, <2>3, <2>5, BookOver
<1> QED BY <1>1, <1>2, <1>3

LEMMA BookServed ==
  ASSUME BookInv, NEW v \in Visits,
         \/ Cat!BookRequestFails(v) \/ Cat!UploadAudio(v) \/ Cat!AttachAudio(v)
         \/ Cat!GetBook(v) \/ Cat!RecordBookView(v) \/ Cat!OpenBook(v) \/ Cat!Stream(v)
  PROVE  BookInv'
<1>0. /\ stored \in Seq(Kinds) /\ counted \in Nat /\ BookWork(visit[v], stored)
      /\ \A s \in served : Given(s, stored)
      /\ Cat!BookExists => WholeBook(bookDoc, stored) /\ bookDoc.reads = counted
  BY DEF BookInv
<1>1. CASE Cat!BookRequestFails(v)
  <2>1. visit' = [visit EXCEPT ![v] = Cat!Idle] /\ UNCHANGED <<bookDoc, counted, stored, served>>
    BY <1>1 DEF Cat!BookRequestFails, Cat!Answers
  <2>2. Cat!BookExists' <=> Cat!BookExists BY <2>1 DEF Cat!BookExists
  <2> QED BY <1>0, <2>1, <2>2, BookOver
<1>2. CASE Cat!UploadAudio(v)
  <2>1. /\ stored' = Append(stored, "audio") /\ UNCHANGED <<bookDoc, counted, served>>
        /\ visit' = [visit EXCEPT ![v] = visit'[v]] /\ visit'[v].at = "attach"
        /\ visit'[v].work = Len(stored) + 1
    BY <1>2 DEF Cat!UploadAudio, Cat!Starts, BookInv
  <2>2. "audio" \in Kinds BY DEF Kinds
  <2>3. File(stored', Len(stored) + 1, "audio") BY <1>0, <2>1, <2>2, FilesStay
  <2>4. BookWork(visit'[v], stored') BY <2>1, <2>3 DEF BookWork
  <2> QED BY <2>1, <2>2, <2>4, BookUploads
<1>3. CASE Cat!AttachAudio(v)
  <2> DEFINE i == visit[v].work
  <2>1. File(stored, i, "audio") BY <1>0, <1>3 DEF Cat!AttachAudio, Cat!At, BookWork
  <2>2. /\ visit' = [visit EXCEPT ![v] = Cat!Idle] /\ UNCHANGED <<counted, stored, served>>
        /\ bookDoc' = IF Cat!BookExists THEN [bookDoc EXCEPT !.audio = i, !.audioId = i] ELSE bookDoc
    BY <1>3 DEF Cat!AttachAudio, Cat!Answers
  <2>3. i \in Nat /\ i # 0 BY <1>0, <2>1 DEF File
  <2>4. Cat!BookExists => WholeBook(bookDoc', stored) /\ bookDoc'.reads = counted
    <3> SUFFICES ASSUME Cat!BookExists PROVE WholeBook(bookDoc', stored) /\ bookDoc'.reads = counted
      OBVIOUS
    <3>1. bookDoc \in BookTypes /\ WholeBook(bookDoc, stored) BY <1>0 DEF WholeBook
    <3>2. /\ bookDoc' \in BookTypes /\ bookDoc'.audio = i /\ bookDoc'.audioId = i
          /\ bookDoc'.text = bookDoc.text /\ bookDoc'.thumbnail = bookDoc.thumbnail
          /\ bookDoc'.reads = bookDoc.reads
      BY <2>2, <2>3, <3>1 DEF BookTypes
    <3> QED BY <1>0, <2>1, <2>3, <3>1, <3>2 DEF WholeBook
  <2>5. ~Cat!BookExists => ~Cat!BookExists' BY <2>2 DEF Cat!BookExists
  <2> QED BY <1>0, <2>2, <2>4, <2>5, BookOver
<1>4. CASE Cat!GetBook(v)
  <2>1. /\ UNCHANGED <<bookDoc, counted, stored, served>>
        /\ visit' = [visit EXCEPT ![v] = visit'[v]] /\ visit'[v].at = "count"
    BY <1>4 DEF Cat!GetBook, Cat!Starts, BookInv
  <2>2. Cat!BookExists' <=> Cat!BookExists BY <2>1 DEF Cat!BookExists
  <2>3. BookWork(visit'[v], stored) BY <2>1 DEF BookWork
  <2> QED BY <1>0, <2>1, <2>2, <2>3, BookGoesOn
<1>5. CASE Cat!RecordBookView(v)
  <2>1. visit' = [visit EXCEPT ![v] = Cat!Idle] /\ UNCHANGED <<stored, served>>
    BY <1>5 DEF Cat!RecordBookView, Cat!Answers
  <2>2. CASE Cat!BookExists
    <3>1. bookDoc' = [bookDoc EXCEPT !.reads = @ + 1] /\ counted' = counted + 1
      BY <1>5, <2>2 DEF Cat!RecordBookView
    <3>2. bookDoc \in BookTypes /\ WholeBook(bookDoc, stored) BY <1>0, <2>2 DEF WholeBook
    <3>3. /\ bookDoc' \in BookTypes /\ bookDoc'.audio = bookDoc.audio
          /\ bookDoc'.audioId = bookDoc.audioId /\ bookDoc'.text = bookDoc.text
          /\ bookDoc'.thumbnail = bookDoc.thumbnail /\ bookDoc'.reads = bookDoc.reads + 1
      BY <3>1, <3>2 DEF BookTypes
    <3>4. WholeBook(bookDoc', stored) BY <3>2, <3>3 DEF WholeBook
    <3>5. counted' \in Nat /\ bookDoc'.reads = counted' BY <1>0, <2>2, <3>1, <3>3
    <3>6. \A s \in served' : Given(s, stored) BY <1>0, <2>1
    <3> QED BY <2>1, <3>4, <3>5, <3>6, BookOver
  <2>3. CASE ~Cat!BookExists
    <3>1. UNCHANGED <<bookDoc, counted>> BY <1>5, <2>3 DEF Cat!RecordBookView
    <3>2. ~Cat!BookExists' BY <2>3, <3>1 DEF Cat!BookExists
    <3> QED BY <1>0, <2>1, <3>1, <3>2, BookOver
  <2> QED BY <2>2, <2>3
<1>6. CASE Cat!OpenBook(v)
  <2>1. /\ UNCHANGED <<bookDoc, counted, stored, served>> /\ Cat!BookExists
        /\ WholeBook(bookDoc, stored)
    BY <1>0, <1>6 DEF Cat!OpenBook
  <2>2. PICK by \in Learners \cup {Author, None}, kind \in {"raw", "audio"} :
          LET file == IF kind = "raw" THEN bookDoc.text ELSE bookDoc.audio IN
          /\ file # 0
          /\ Cat!Starts(v, "stream", "check", by, bookDoc,
                   [kind |-> kind, file |-> IF kind = "raw" THEN file ELSE bookDoc.audioId])
    BY <1>6 DEF Cat!OpenBook
  <2>3. /\ visit' = [visit EXCEPT ![v] = visit'[v]] /\ visit'[v].at = "check"
        /\ visit'[v].read = bookDoc /\ visit'[v].work.kind = kind
        /\ visit'[v].work.file = IF kind = "raw" THEN bookDoc.text ELSE bookDoc.audioId
        /\ kind = "raw" => bookDoc.text # 0
        /\ kind = "audio" => bookDoc.audio # 0
    BY <2>2 DEF Cat!Starts, BookInv
  <2>4. bookDoc.audioId = bookDoc.audio BY <2>1 DEF WholeBook
  <2>5. Streaming(visit'[v], stored) BY <2>1, <2>3, <2>4 DEF Streaming
  <2>6. BookWork(visit'[v], stored) BY <2>3, <2>5 DEF BookWork
  <2>7. Cat!BookExists' <=> Cat!BookExists BY <2>1 DEF Cat!BookExists
  <2> QED BY <1>0, <2>1, <2>3, <2>6, <2>7, BookGoesOn
<1>7. CASE Cat!Stream(v)
  <2> DEFINE x == visit[v]
             s == [kind |-> x.work.kind, file |-> x.work.file,
                   address |-> IF x.work.kind = "raw" THEN x.read.text ELSE x.read.audio]
  <2>1. visit' = [visit EXCEPT ![v] = Cat!Idle] /\ UNCHANGED <<bookDoc, counted, stored>>
        /\ served' \subseteq served \cup {s}
    BY <1>7 DEF Cat!Stream, Cat!Answers
  <2>2. Streaming(x, stored) BY <1>0, <1>7 DEF Cat!Stream, Cat!At, BookWork
  <2>3. s.file = x.work.file /\ s.kind = x.work.kind
        /\ s.address = IF x.work.kind = "raw" THEN x.read.text ELSE x.read.audio
    OBVIOUS
  <2> HIDE DEF s, x
  <2>4. Given(s, stored) BY <2>2, <2>3 DEF Streaming, Given, WholeBook
  <2>5. \A o \in served' : Given(o, stored) BY <1>0, <2>1, <2>4
  <2>6. Cat!BookExists' <=> Cat!BookExists BY <2>1 DEF Cat!BookExists
  <2> QED BY <1>0, <2>1, <2>5, <2>6, BookOver
<1> QED BY <1>1, <1>2, <1>3, <1>4, <1>5, <1>6, <1>7

LEMMA BookSteps == BookInv /\ (Cat!BookNext \/ UNCHANGED catalogueVars) => BookInv'
<1>1. BookInv /\ UNCHANGED <<bookDoc, counted, visit, stored, served>> => BookInv'
  BY DEF BookInv, Cat!BookExists
<1>2. BookInv /\ UNCHANGED catalogueVars => BookInv' BY <1>1 DEF catalogueVars
<1>3. ASSUME BookInv, Cat!DeleteBook PROVE BookInv'
  <2>1. ~Cat!BookExists' /\ UNCHANGED <<counted, visit, stored, served>>
    BY <1>3 DEF Cat!DeleteBook, Cat!BookExists
  <2> QED BY <1>3, <2>1 DEF BookInv
<1>4. ASSUME BookInv, NEW u \in Learners, Cat!TakeBook(u) \/ Cat!RevokeBook(u) PROVE BookInv'
  BY <1>1, <1>4 DEF Cat!TakeBook, Cat!RevokeBook
<1> QED BY <1>2, <1>3, <1>4, BookCreated, BookServed DEF Cat!BookNext

-----------------------------------------------------------------------------
\* No view of a course or a book is lost or counted twice; a course is dated while it is
\* listed, its reports agree on who finished it and its enrolments on who enrolled; a listed
\* book has its picture and its files, and readers are given what they asked for: whatever
\* requests of any number of users overlap, and wherever one of them fails.
THEOREM CatalogueKept ==
    ServicesSpec =>
        [](part = "catalogue" =>
               /\ topic = "course" =>
                    Cat!PublishedIsDated /\ Cat!CompletionsAgree /\ Cat!EnrolmentsAgree
               /\ topic = "book" => Cat!BookWhole
               /\ Cat!ViewsKept)
<1> DEFINE Inv == /\ topic = "course" => CourseInv
                  /\ topic = "book" => BookInv
                  /\ topic # "book" => ~Cat!BookExists
<1>1. ServicesInit => Inv
  <2> SUFFICES ASSUME Cat!Init PROVE Inv BY DEF ServicesInit
  <2>1. PICK category \in {Unknown} \cup Taxonomy : courseDoc = Cat!NewCourse(0, category)
    BY DEF Cat!Init
  <2>2. courseDoc \in CourseTypes /\ courseDoc.status = "draft" /\ ~courseDoc.dated
        /\ courseDoc.views = 0
    BY <2>1 DEF Cat!NewCourse, CourseTypes
  <2>3. /\ progressDoc = [u \in Learners |-> [done |-> {}, percent |-> 0, completed |-> 0]]
        /\ shelf = [u \in Learners |-> [course |-> 0, book |-> 0]]
        /\ visit = [v \in Visits |-> Cat!Idle] /\ day = 1 /\ counted = 0 /\ stored = <<>>
        /\ served = {} /\ bookDoc = Cat!NoBook
    BY DEF Cat!Init
  <2>4. progressDoc \in [Learners -> Learning] /\ shelf \in [Learners -> Shelved]
    BY <2>3 DEF Learning, Shelved
  <2>5. CourseInv BY <2>2, <2>3, <2>4, CourseIdle DEF CourseInv
  <2>6. ~Cat!BookExists BY <2>3 DEF Cat!BookExists
  <2>7. BookWork(Cat!Idle, <<>>) BY DEF BookWork, Cat!Idle
  <2>8. BookInv BY <2>3, <2>6, <2>7 DEF BookInv
  <2> QED BY <2>5, <2>6, <2>8
<1>2. Inv /\ [ServicesNext]_<<vars, loyaltyVars, revenueVars, roundVars, keyVars,
                             catalogueVars, part>> => Inv'
  <2> SUFFICES ASSUME Inv, [ServicesNext]_<<vars, loyaltyVars, revenueVars, roundVars, keyVars,
                                           catalogueVars, part>>
               PROVE  Inv'
    OBVIOUS
  <2>1. Cat!Next \/ UNCHANGED catalogueVars BY DEF ServicesNext
  <2>2. CASE UNCHANGED catalogueVars
    <3>1. topic' = topic /\ (Cat!BookExists' <=> Cat!BookExists)
      BY <2>2 DEF catalogueVars, Cat!BookExists
    <3> QED BY <2>2, <3>1, CourseSteps, BookSteps
  <2>3. CASE topic = "course" /\ Cat!CourseNext
    <3>1. UNCHANGED <<bookDoc, topic>>
      BY <2>3 DEF Cat!CourseNext, Cat!courseVars, Cat!EditCourse, Cat!SaveEdit, Cat!GetCourseById,
                  Cat!RecordCourseView, Cat!WriteFails, Cat!Shelve, Cat!Enroll, Cat!Learn, Cat!NextDay
    <3>2. Cat!BookExists' <=> Cat!BookExists BY <3>1 DEF Cat!BookExists
    <3> QED BY <2>3, <3>1, <3>2, CourseSteps
  <2>4. CASE topic = "book" /\ Cat!BookNext
    <3>1. topic' = topic
      BY <2>4 DEF Cat!BookNext, Cat!bookVars, Cat!CreateBook, Cat!Upload, Cat!BookRequestFails,
                  Cat!InsertBook, Cat!UploadAudio, Cat!AttachAudio, Cat!GetBook, Cat!RecordBookView,
                  Cat!OpenBook, Cat!Stream, Cat!DeleteBook, Cat!TakeBook, Cat!RevokeBook
    <3> QED BY <2>4, <3>1, BookSteps
  <2> QED BY <2>1, <2>2, <2>3, <2>4 DEF Cat!Next
<1>3. ASSUME Inv
      PROVE  /\ topic = "course" =>
                  Cat!PublishedIsDated /\ Cat!CompletionsAgree /\ Cat!EnrolmentsAgree
             /\ topic = "book" => Cat!BookWhole
             /\ Cat!ViewsKept
  <2>1. CourseInv => Cat!PublishedIsDated BY DEF CourseInv, Cat!PublishedIsDated, Cat!Listed
  <2>2. CourseInv => courseDoc.views = counted BY DEF CourseInv
  <2>3. ASSUME BookInv PROVE Cat!BookWhole
    <3>1. stored \in Seq(Kinds) BY <2>3 DEF BookInv
    <3>2. \A i, k : File(stored, i, k) => i # 0 /\ stored[i] = k BY <3>1 DEF File
    <3>3. Cat!BookExists => WholeBook(bookDoc, stored) BY <2>3 DEF BookInv
    <3>4. \A s \in served : s.file # 0 /\ s.file = s.address /\ stored[s.file] = s.kind
      BY <2>3, <3>2 DEF BookInv, Given
    <3> QED BY <3>2, <3>3, <3>4 DEF WholeBook, Cat!BookWhole
  <2>4. Cat!ViewsKept BY <1>3, <2>2 DEF BookInv, Cat!ViewsKept
  <2> QED BY <1>3, <2>1, <2>3, <2>4, CompletionsDo, EnrolmentsDo
<1> QED BY <1>1, <1>2, <1>3, PTL DEF ServicesSpec
=============================================================================
