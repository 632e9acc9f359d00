--------------------------- MODULE RevenueSharing ---------------------------
(***************************************************************************)
(* contracts/revenue-sharing: whoever calls distribute splits what the       *)
(* contract holds of its token among the recipients by their basis points;   *)
(* the remainder of the divisions goes to the first.                         *)
(*                                                                         *)
(* TotalBps basis points make the whole.  The contract itself is not one of  *)
(* the recipients.                                                         *)
(***************************************************************************)
EXTENDS Naturals, Sequences, SequencesExt, Functions

CONSTANTS
    Recipients,      \* addresses that may be listed
    TotalBps,        \* TOTAL_BPS
    MaxRecipients,   \* MAX_RECIPIENTS
    Deposits,        \* amounts sent to the contract
    MaxDeposited     \* bound: what is sent in all

VARIABLES
    splits,       \* Recipients: pairs of an address and its share; empty before init
    holding,      \* the contract's balance at the token contract
    paidTo,       \* Totals
    distributed,  \* TotalDistributed
    received,     \* per address: what the token contract moved to it
    deposited     \* what was sent to the contract

revenueVars == <<splits, holding, paidTo, distributed, received, deposited>>

Tables == UNION {[1 .. n -> [to : Recipients, bps : 0 .. TotalBps]] : n \in 0 .. MaxRecipients}

Init ==
    /\ splits = <<>>
    /\ holding = 0 /\ distributed = 0 /\ deposited = 0
    /\ paidTo = [r \in Recipients |-> 0]
    /\ received = [r \in Recipients |-> 0]

-----------------------------------------------------------------------------
\* Mutant: the remainder stays behind.
MutAmounts(balance) ==
    [i \in DOMAIN splits |-> (balance * splits[i].bps) \div TotalBps]
-----------------------------------------------------------------------------
\* validate.
Valid(table) ==
    /\ table # <<>>
    /\ \A i \in DOMAIN table : table[i].bps > 0
    /\ \A i, j \in DOMAIN table : i # j => table[i].to # table[j].to
    /\ FoldLeft(LAMBDA n, s : n + s.bps, 0, table) = TotalBps

Initialize(table) ==
    /\ splits = <<>> /\ Valid(table)
    /\ splits' = table
    /\ UNCHANGED <<holding, paidTo, distributed, received, deposited>>

UpdateSplits(table) ==
    /\ splits # <<>> /\ Valid(table)
    /\ splits' = table
    /\ UNCHANGED <<holding, paidTo, distributed, received, deposited>>

\* The token contract: somebody pays in, before init as well.
Deposit(amount) ==
    /\ deposited + amount <= MaxDeposited
    /\ holding' = holding + amount
    /\ deposited' = deposited + amount
    /\ UNCHANGED <<splits, paidTo, distributed, received>>

\* distribute: floors, and the dust to the first recipient.
Floor(balance, i) == (balance * splits[i].bps) \div TotalBps
Dust(balance) ==
    balance - FoldLeft(LAMBDA n, i : n + Floor(balance, i), 0, [i \in DOMAIN splits |-> i])
Amounts(balance) ==
    [i \in DOMAIN splits |-> Floor(balance, i) + IF i = 1 THEN Dust(balance) ELSE 0]

\* Each transfer is added to the recipient's own total.
ShareOf(r, balance) ==
    FoldLeft(LAMBDA n, i : IF splits[i].to = r THEN n + Amounts(balance)[i] ELSE n,
             0, [i \in DOMAIN splits |-> i])

Distribute ==
    /\ splits # <<>> /\ holding > 0
    /\ received' = [r \in Recipients |-> received[r] + ShareOf(r, holding)]
    /\ paidTo' = [r \in Recipients |-> paidTo[r] + ShareOf(r, holding)]
    /\ distributed' = distributed + holding
    /\ holding' = holding - FoldLeft(LAMBDA n, a : n + a, 0, Amounts(holding))
    /\ UNCHANGED <<splits, deposited>>

Next ==
    \/ \E table \in Tables : Initialize(table) \/ UpdateSplits(table)
    \/ \E amount \in Deposits : Deposit(amount)
    \/ Distribute

Spec == Init /\ [][Next]_revenueVars

-----------------------------------------------------------------------------
\* distribute: the books say what was moved, and nothing is stranded: what came
\* in is held or was distributed, to the last unit, through any change of the
\* shares.
NothingStranded ==
    /\ SumFunction(received) = distributed
    /\ paidTo = received
    /\ holding + distributed = deposited

\* No recipient but the first gets more than its share, none gets less than its
\* share rounded down, and the first gets less than one unit per other
\* recipient on top.
SharesFair ==
    splits # <<>> =>
        \A b \in 1 .. MaxDeposited : \A i \in DOMAIN splits :
            LET exact == b * splits[i].bps
                got == Amounts(b)[i] * TotalBps
            IN  /\ got > exact - TotalBps
                /\ got < exact + IF i = 1 THEN TotalBps * Len(splits) ELSE 1

RevenueSound == NothingStranded /\ SharesFair
=============================================================================
