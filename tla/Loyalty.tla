------------------------------ MODULE Loyalty ------------------------------
(***************************************************************************)
(* contracts/loyalty-points, and services/stellar/loyaltyService.js, which   *)
(* builds its invocations: users earn points by the rate of an activity,     *)
(* redeem them and give them away; the admin sets rates and mints.           *)
(*                                                                         *)
(* The service simulates an invocation when it builds it and the user signs  *)
(* it later, so it runs against rates and balances it was not built for; an  *)
(* invocation that fails changes nothing.                                  *)
(***************************************************************************)
EXTENDS Integers, FiniteSets, Functions

CONSTANTS
    Holders,        \* users
    Rates,          \* rates the admin sets
    Spends,         \* raw amounts of purchases
    Points,         \* amounts minted, redeemed and transferred
    Precision,      \* ASSET_PRECISION
    MaxPoints,      \* the largest i128
    MaxBuilt        \* bound: invocations built by the service

VARIABLES
    rates,       \* Rate entries, None before set_rate
    points,      \* Balance entries
    issued,      \* LoyaltyState.total_issued
    burned,      \* LoyaltyState.total_redeemed
    programme,   \* has init run
    built,       \* invocations built and signed, not yet executed
    builds       \* how many were built

loyaltyVars == <<rates, points, issued, burned, programme, built, builds>>

Activities == {"Purchase", "Referral", "Milestone"}
NotSet == 0 - 1

Init ==
    /\ rates = [a \in Activities |-> NotSet]
    /\ points = [u \in Holders |-> 0]
    /\ issued = 0 /\ burned = 0
    /\ programme = FALSE
    /\ built = {} /\ builds = 0

-----------------------------------------------------------------------------
\* Mutants: what the definitions after them become under a plausible bug.
MutCanMove(from, to, amount) == amount > 0 /\ points[from] >= amount
-----------------------------------------------------------------------------
Initialize ==
    /\ ~programme
    /\ programme' = TRUE
    /\ UNCHANGED <<rates, points, issued, burned, built, builds>>

SetRate(a, rate) ==
    /\ programme /\ rate >= 0
    /\ rates' = [rates EXCEPT ![a] = rate]
    /\ UNCHANGED <<points, issued, burned, programme, built, builds>>

\* checked_add on a balance and on total_issued: an overflow fails the invocation.
Issue(user, amount) ==
    /\ points[user] + amount <= MaxPoints /\ issued + amount <= MaxPoints
    /\ points' = [points EXCEPT ![user] = @ + amount]
    /\ issued' = issued + amount
    /\ UNCHANGED <<rates, burned, programme>>

Mint(user, amount) ==
    /\ programme /\ amount > 0
    /\ Issue(user, amount)
    /\ UNCHANGED <<built, builds>>

\* A purchase earns by whole units of spend, rounded down; the rest a flat bonus.
Earned(activity, spend) ==
    IF activity = "Purchase" THEN (spend * rates[activity]) \div Precision
    ELSE rates[activity]

Earn(user, activity, spend) ==
    /\ programme
    /\ activity = "Purchase" => spend > 0 /\ spend * rates[activity] <= MaxPoints
    /\ rates[activity] > 0
    /\ Issue(user, Earned(activity, spend))

Redeem(user, amount) ==
    /\ programme /\ amount > 0
    /\ points[user] >= amount /\ burned + amount <= MaxPoints
    /\ points' = [points EXCEPT ![user] = @ - amount]
    /\ burned' = burned + amount
    /\ UNCHANGED <<rates, issued, programme>>

CanMove(from, to, amount) == amount > 0 /\ from # to /\ points[from] >= amount

\* transfer: both balances are read before either is written.
Move(from, to, amount) ==
    /\ CanMove(from, to, amount)
    /\ points[to] + amount <= MaxPoints
    /\ points' = [[points EXCEPT ![from] = points[from] - amount] EXCEPT ![to] = points[to] + amount]
    /\ UNCHANGED <<rates, issued, burned, programme>>

-----------------------------------------------------------------------------
Invocations ==
    [method : {"earn"}, user : Holders, activity : Activities, amount : Spends]
    \cup [method : {"redeem"}, user : Holders, amount : Points]
    \cup [method : {"transfer"}, user : Holders, to : Holders, amount : Points]

\* prepareSorobanInvocation: an invocation whose simulation fails is not built.
Simulates(call) ==
    CASE call.method = "earn" -> programme /\ rates[call.activity] > 0
                                 /\ (call.activity = "Purchase" => call.amount > 0)
      [] call.method = "redeem" -> programme /\ call.amount > 0 /\ points[call.user] >= call.amount
      [] OTHER -> CanMove(call.user, call.to, call.amount)

Build(call) ==
    /\ builds < MaxBuilt /\ Simulates(call)
    /\ built' = built \cup {call}
    /\ builds' = builds + 1
    /\ UNCHANGED <<rates, points, issued, burned, programme>>

Run(call) ==
    /\ call \in built
    /\ CASE call.method = "earn" -> Earn(call.user, call.activity, call.amount)
         [] call.method = "redeem" -> Redeem(call.user, call.amount)
         [] OTHER -> Move(call.user, call.to, call.amount)
    /\ built' = built \ {call}
    /\ UNCHANGED builds

\* It fails against the state it meets, or is never submitted.
Drop(call) ==
    /\ call \in built
    /\ built' = built \ {call}
    /\ UNCHANGED <<rates, points, issued, burned, programme, builds>>

Next ==
    \/ Initialize
    \/ \E a \in Activities, rate \in Rates : SetRate(a, rate)
    \/ \E u \in Holders, n \in Points : Mint(u, n)
    \/ \E call \in Invocations : Build(call)
    \/ \E call \in built : Run(call) \/ Drop(call)

Spec == Init /\ [][Next]_loyaltyVars

-----------------------------------------------------------------------------
\* The contract: the points users hold are those issued and not redeemed, no
\* balance is negative, and every number fits its width, whatever was built
\* against an older state.
PointsConserved ==
    /\ SumFunction(points) = issued - burned
    /\ \A u \in Holders : points[u] \in 0 .. MaxPoints
    /\ issued \in 0 .. MaxPoints /\ burned \in 0 .. issued
=============================================================================
