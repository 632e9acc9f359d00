----------------------------- MODULE FeeSponsor -----------------------------
(***************************************************************************)
(* services/stellar/feeSponsorService.js as the submit handlers of purchases *)
(* and donations call it: the platform wraps a user's signed transaction in  *)
(* a fee-bump, within a fee ceiling, a daily total and a daily count per     *)
(* user.                                                                   *)
(*                                                                         *)
(* The caps are only read before the submission; the spend is added after   *)
(* it, in the same MongoDB transaction.  What keeps two submissions from     *)
(* passing the caps together is the snapshot they read: the second of two   *)
(* transactions that add to one day's document meets a write conflict.       *)
(*                                                                         *)
(* Fees are small numbers; an amount is MIN_BASE_FEE_STROOPS units.          *)
(***************************************************************************)
EXTENDS Integers, FiniteSets, FiniteSetsExt, Functions

CONSTANTS
    Submissions,        \* sponsored submits of purchases and donations
    UserOf,             \* the user of each
    Operations,         \* operation counts of inner transactions: 1, or 2 with a fee split
    InnerFees,          \* fees users put on the inner transaction
    FeeSetting,         \* FEE_SPONSOR_MAX_FEE_STROOPS
    DailySetting,       \* FEE_SPONSOR_DAILY_CAP_STROOPS
    PerUserSetting,     \* FEE_SPONSOR_PER_USER_DAILY_LIMIT
    LastDay             \* bound on the UTC days

VARIABLES
    today,      \* the UTC day
    spend,      \* per day: the SponsorshipSpend document and how often it was written
    sub,        \* per submission: where its handler is and what it carries
    float       \* is the sponsor account funded for one more fee

sponsorVars == <<today, spend, sub, float>>

Days == 0 .. LastDay
Users == {UserOf[s] : s \in Submissions}
NoDocument == [total |-> 0, count |-> [u \in Users |-> 0], writes |-> 0]
MinBaseFee == 1

\* getFeeSponsorConfig: a setting that is no positive number is its default.
Setting(value, default) == IF value \in Nat \ {0} THEN value ELSE default
MaxFee == Setting(FeeSetting, 5)
DailyCap == Setting(DailySetting, 6)
PerUserDailyLimit == Setting(PerUserSetting, 1)

Init ==
    /\ today = 0
    /\ spend = [d \in Days |-> NoDocument]
    /\ float \in BOOLEAN
    /\ sub \in [Submissions -> [pc : {"idle"}, ops : Operations, inner : InnerFees,
                                snapshot : {spend}, maxFee : {0}, fee : {0}, day : {0}]]

-----------------------------------------------------------------------------
\* Mutants: what the definitions after them become under a plausible bug.
MutWithinCaps(document, user, fee) ==
    document.count[user] < PerUserDailyLimit /\ document.total <= DailyCap
MutPerOpCeiling(ops) == MaxFee \div ops
-----------------------------------------------------------------------------
\* computeFeeBumpFee: the ceiling is shared by the inner operations and the
\* wrapper; what each gets must cover the inner fee and the network's minimum.
Units(ops) == ops + 1

PerOpCeiling(ops) == MaxFee \div Units(ops)

InnerPerOp(ops, fee) == (fee + ops - 1) \div ops
MinPerOp(ops, fee) == Max({MinBaseFee, InnerPerOp(ops, fee)})
CeilingCovers(ops, fee) == PerOpCeiling(ops) >= MinPerOp(ops, fee)
FeeBump(ops) == PerOpCeiling(ops) * Units(ops)

\* checkSpendCaps, with the worst-case fee reserved.
WithinCaps(document, user, fee) ==
    /\ document.count[user] < PerUserDailyLimit
    /\ document.total + fee <= DailyCap

-----------------------------------------------------------------------------
\* The submit handler starts its MongoDB transaction.
Begin(s) ==
    /\ sub[s].pc = "idle"
    /\ sub' = [sub EXCEPT ![s] = [@ EXCEPT !.pc = "begun", !.snapshot = spend]]
    /\ UNCHANGED <<today, spend, float>>

\* prepareSponsoredSubmission up to the caps, all of which are passed.
Prepare(s) ==
    /\ sub[s].pc = "begun"
    /\ CeilingCovers(sub[s].ops, sub[s].inner)
    /\ WithinCaps(sub[s].snapshot[today], UserOf[s], FeeBump(sub[s].ops))
    /\ sub' = [sub EXCEPT ![s] = [@ EXCEPT !.pc = "capped", !.maxFee = FeeBump(sub[s].ops)]]
    /\ UNCHANGED <<today, spend, float>>

\* A transaction that is not, operation for operation, what the row says, a fee beyond
\* the ceiling and a cap that is hit refuse the sponsorship; the row stays pending.
Refuse(s) ==
    /\ sub[s].pc = "begun"
    /\ sub' = [sub EXCEPT ![s].pc = "refused"]
    /\ UNCHANGED <<today, spend, float>>

\* assertSponsorFunded reads a balance that does not cover the fee.
Underfunded(s) ==
    /\ sub[s].pc = "capped" /\ ~float
    /\ sub' = [sub EXCEPT ![s].pc = "refused"]
    /\ UNCHANGED <<today, spend, float>>

\* assertSponsorFunded passes, or cannot read the balance and lets it through;
\* the fee-bump is signed and submitted.  The network takes at most the fee the
\* wrapper declares, and only of a funded sponsor.
Land(s) ==
    /\ sub[s].pc = "capped" /\ float
    /\ \E fee \in MinBaseFee * Units(sub[s].ops) .. sub[s].maxFee :
           sub' = [sub EXCEPT ![s] = [@ EXCEPT !.pc = "landed", !.fee = fee]]
    /\ float' \in BOOLEAN
    /\ UNCHANGED <<today, spend>>

\* submitTransaction throws: the row becomes failed and nothing is recorded.
SubmitFails(s) ==
    /\ sub[s].pc = "capped"
    /\ sub' = [sub EXCEPT ![s].pc = "failed"]
    /\ UNCHANGED <<today, spend, float>>

\* recordSponsorshipSpend: $inc on the document of the day it is now, inside the
\* transaction.  A conflict is swallowed by the handler, but it has ended the
\* transaction: the commit fails and the row stays as it was.
Conflicts(s, d) ==
    \/ spend[d].writes # sub[s].snapshot[d].writes
    \/ \E t \in Submissions : sub[t].pc = "recorded" /\ sub[t].day = d

Record(s) ==
    /\ sub[s].pc = "landed"
    /\ sub' = [sub EXCEPT ![s] =
            [@ EXCEPT !.pc = IF Conflicts(s, today) THEN "lost" ELSE "recorded", !.day = today]]
    /\ UNCHANGED <<today, spend, float>>

Added(document, user, fee) ==
    [total |-> document.total + fee,
     count |-> [document.count EXCEPT ![user] = @ + 1],
     writes |-> document.writes + 1]

Commit(s) ==
    /\ sub[s].pc = "recorded"
    /\ spend' = [spend EXCEPT ![sub[s].day] = Added(@, UserOf[s], sub[s].fee)]
    /\ sub' = [sub EXCEPT ![s].pc = "settled"]
    /\ UNCHANGED <<today, float>>

\* The process dies, or MongoDB gives the transaction up, before the commit.
Abort(s) ==
    /\ sub[s].pc \in {"begun", "capped", "landed", "recorded"}
    /\ sub' = [sub EXCEPT ![s].pc = IF @ \in {"landed", "recorded"} THEN "lost" ELSE "refused"]
    /\ UNCHANGED <<today, spend, float>>

TopUp == ~float /\ float' = TRUE /\ UNCHANGED <<today, spend, sub>>

Midnight == today < LastDay /\ today' = today + 1 /\ UNCHANGED <<spend, sub, float>>

Next ==
    \/ \E s \in Submissions : \/ Begin(s) \/ Prepare(s) \/ Refuse(s) \/ Underfunded(s)
                              \/ Land(s) \/ SubmitFails(s) \/ Record(s) \/ Commit(s) \/ Abort(s)
    \/ TopUp \/ Midnight

Spec == Init /\ [][Next]_sponsorVars

-----------------------------------------------------------------------------
\* checkSpendCaps and recordSponsorshipSpend: no day's recorded total passes the
\* daily cap and no user's count the daily limit, although the caps are read
\* before the submission, the spend is added after it and midnight may fall
\* between.
CapsHold ==
    \A d \in Days : /\ spend[d].total <= DailyCap
                    /\ \A u \in Users : spend[d].count[u] <= PerUserDailyLimit

\* computeFeeBumpFee: a fee-bump never declares more than the ceiling, nor less
\* per operation than the inner transaction or the network asks.
WithinCeiling ==
    \A s \in Submissions : sub[s].maxFee > 0 =>
        /\ sub[s].maxFee <= MaxFee
        /\ sub[s].maxFee * sub[s].ops >= sub[s].inner * Units(sub[s].ops)
        /\ sub[s].maxFee >= MinBaseFee * Units(sub[s].ops)

\* The ledger of spends: a day's total is the fees of the submissions that settled
\* on it.
SpendIsExact ==
    \A d \in Days : spend[d].total =
        SumFunctionOnSet([s \in Submissions |-> sub[s].fee],
                         {s \in Submissions : sub[s].pc = "settled" /\ sub[s].day = d})

\* getSponsorshipStatus: what is left of the day's cap and what was spent of it make the
\* cap, so that the remainder never had to be cut at zero.
Remaining == Max({0, DailyCap - spend[today].total})
StatusExact == Remaining + spend[today].total = DailyCap

SponsorSound == CapsHold /\ WithinCeiling /\ SpendIsExact /\ StatusExact

\* Not kept, see README: the fees the sponsor pays in a day stay within the cap.
PaidWithinCap ==
    SumFunctionOnSet([s \in Submissions |-> sub[s].fee], Submissions) <= (today + 1) * DailyCap
=============================================================================
