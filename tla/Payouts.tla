------------------------------ MODULE Payouts ------------------------------
(***************************************************************************)
(* Operator-driven payouts: services/payoutService.js over EducatorBalance, *)
(* LedgerEntry and PayoutBatch, with the platform account on the network.   *)
(*                                                                         *)
(* A build reads what each educator is owed and freezes it into unsigned    *)
(* XDRs, one per chunk of recipients, with consecutive sequence numbers.    *)
(* A submission sends the chunks one after the other, and only when every   *)
(* chunk is verified moves owed to settled in one database session.         *)
(* Amounts are whole units; each operator signs the XDRs of the batch it    *)
(* submits.                                                                 *)
(***************************************************************************)
EXTENDS Integers, FiniteSets, Functions, TLC

CONSTANTS
    Educators,   \* numbered in the order in which the database returns them
    Batches,     \* the batches that may be built
    Requests,    \* the submit requests that may arrive
    Sales,       \* confirmed sales to credit
    EducatorOf, AmountOf,
    Direct,      \* sales settled on-chain, owing nothing
    JobSales,    \* sales credited by the verify job, outside a session
    ChunkSize,   \* recipients per transaction (100 in the code)
    Practices,   \* how operators may work: "careful", "serial", "free"
    Unset

ASSUME SetAssumption == Educators \subseteq Nat /\ Unset \notin Nat
ASSUME SaleAssumption ==
    /\ EducatorOf \in [Sales -> Educators] /\ AmountOf \in [Sales -> Nat]
    /\ Direct \subseteq Sales /\ JobSales \subseteq Sales
ASSUME SizeAssumption == ChunkSize \in Nat \ {0}
ASSUME FiniteAssumption ==
    IsFiniteSet(Educators) /\ IsFiniteSet(Batches) /\ IsFiniteSet(Sales)
ASSUME PracticeAssumption == Practices \subseteq {"careful", "serial", "free"}

VARIABLES
    balance,   \* EducatorBalance documents
    ledger,    \* LedgerEntry documents
    credit,    \* where recordSaleEarnings stands, and the balance it read
    batch,     \* PayoutBatch documents; "planned" is still in memory
    req,       \* submitPayoutBatch calls
    chain,     \* what the network knows of each chunk
    nextSeq,   \* the platform account's next sequence number
    practice,  \* how the operators of this behaviour work
    stale      \* educators whose balance a job wrote over unseen changes

payVars == <<balance, ledger, credit, batch, req, chain, nextSeq, practice, stale>>

Recipients(b) == {e \in Educators : batch[b].pay[e] > 0}

\* The chunk that carries the payment of educator e.
ChunkOf(b, e) == Cardinality({f \in Recipients(b) : f < e}) \div ChunkSize

Chunks(b) == {ChunkOf(b, e) : e \in Recipients(b)}

LastChunk(b) == (Cardinality(Recipients(b)) - 1) \div ChunkSize

ChunkIds == 0..(Cardinality(Educators) - 1)

NoBalance == [owed |-> 0, settled |-> 0]

NoBatch == [status |-> "none", pay |-> [e \in Educators |-> 0], seq |-> Unset, dead |-> FALSE]

NoRequest == [pc |-> "idle", batch |-> Unset, chunk |-> 0, loaded |-> "none"]

Busy(r) == req[r].pc \notin {"idle", "done"}

\* A batch that can no longer pay anyone and never did.
Void(b) == batch[b].dead /\ \A c \in Chunks(b) : chain[b][c] \notin {"paid"}

\* What the operators do of their own accord; the code enforces none of it.
OneAtATime == practice # "free" =>
    /\ \A r \in Requests : ~Busy(r)
    /\ \A b \in Batches : batch[b].status # "planned"

PreviousClosed == practice = "careful" =>
    \A b \in Batches : batch[b].status \in {"none", "confirmed"} \/ Void(b)

-----------------------------------------------------------------------------
(* recordSaleEarnings *)

Credited(bal, s) ==
    IF s \in Direct THEN [bal EXCEPT !.settled = @ + AmountOf[s]]
                    ELSE [bal EXCEPT !.owed = @ + AmountOf[s]]

\* A sale entry says by its settlement whether the amount is owed or was paid directly.
SaleEntry(s) ==
    [kind |-> IF s \in Direct THEN "direct" ELSE "collected", of |-> s,
     educator |-> EducatorOf[s], amount |-> AmountOf[s]]

\* The sale has its entry: a second call for it does nothing.
HasEntry(s) == SaleEntry(s) \in ledger

\* Inside submitPayment's session: the whole credit commits at once.
CreditInSession(s) ==
    /\ s \notin JobSales /\ credit[s].pc = "new" /\ ~HasEntry(s)
    /\ balance' = [balance EXCEPT ![EducatorOf[s]] = Credited(@, s)]
    /\ ledger' = ledger \cup {SaleEntry(s)}
    /\ credit' = [credit EXCEPT ![s].pc = "done"]
    /\ UNCHANGED <<batch, req, chain, nextSeq, practice, stale>>

\* In the job: read, save and record are separate calls.
ReadBalance(s) ==
    /\ s \in JobSales /\ credit[s].pc = "new" /\ ~HasEntry(s)
    /\ credit' = [credit EXCEPT ![s] = [pc |-> "read", seen |-> balance[EducatorOf[s]]]]
    /\ UNCHANGED <<balance, ledger, batch, req, chain, nextSeq, practice, stale>>

\* The save sets the field it added to, to what was read plus the sale.
SaveBalance(s) ==
    LET e == EducatorOf[s]
        seen == credit[s].seen
        changed == IF s \in Direct THEN seen.settled # balance[e].settled
                                   ELSE seen.owed # balance[e].owed
    IN
    /\ credit[s].pc = "read"
    /\ balance' = IF s \in Direct
                  THEN [balance EXCEPT ![e].settled = Credited(seen, s).settled]
                  ELSE [balance EXCEPT ![e].owed = Credited(seen, s).owed]
    /\ stale' = IF changed THEN stale \cup {e} ELSE stale
    /\ credit' = [credit EXCEPT ![s].pc = "saved"]
    /\ UNCHANGED <<ledger, batch, req, chain, nextSeq, practice>>

SaveEntry(s) ==
    /\ credit[s].pc = "saved"
    /\ ledger' = ledger \cup {SaleEntry(s)}
    /\ credit' = [credit EXCEPT ![s].pc = "done"]
    /\ UNCHANGED <<balance, batch, req, chain, nextSeq, practice, stale>>

-----------------------------------------------------------------------------
(* buildPayoutBatch *)

\* What is owed to an educator joins the plan.
Planned(b, e) ==
    [status |-> "planned", pay |-> [batch[b].pay EXCEPT ![e] = balance[e].owed],
     seq |-> Unset, dead |-> FALSE]

\* One educator after the other, of those asked for or of all: she is paid if she is
\* owed something, no less than the minimum, and has a wallet and a trustline; who
\* has is open.
ReadOwed(b, e) ==
    /\ \/ batch[b] = NoBatch /\ OneAtATime /\ PreviousClosed
       \/ batch[b].status = "planned"
    /\ balance[e].owed > 0 /\ \A f \in Recipients(b) : f < e
    /\ batch' = [batch EXCEPT ![b] = Planned(b, e)]
    /\ UNCHANGED <<balance, ledger, credit, req, chain, nextSeq, practice, stale>>

Built(b, seq) ==
    [status |-> "built", pay |-> batch[b].pay, seq |-> seq, dead |-> batch[b].dead]

\* With Horizon down the account gets a made-up sequence: its XDRs never apply.
BuildBatch(b, online) ==
    /\ batch[b].status = "planned"
    /\ batch' = [batch EXCEPT ![b] = Built(b, IF online THEN nextSeq ELSE Unset)]
    /\ UNCHANGED <<balance, ledger, credit, req, chain, nextSeq, practice, stale>>

\* The 300 s time bound passes, or something else uses the sequence number.
Expire(b) ==
    /\ batch[b].status \notin {"none", "planned"} /\ ~batch[b].dead
    /\ batch' = [batch EXCEPT ![b].dead = TRUE]
    /\ UNCHANGED <<balance, ledger, credit, req, chain, nextSeq, practice, stale>>

-----------------------------------------------------------------------------
(* submitPayoutBatch: the chunks *)

OpenSubmit(r, b) ==
    /\ req[r] = NoRequest /\ OneAtATime
    /\ batch[b].status \in {"built", "failed"}
    /\ req' = [req EXCEPT ![r] = [pc |-> "sending", batch |-> b, chunk |-> 0,
                                  loaded |-> batch[b].status]]
    /\ UNCHANGED <<balance, ledger, credit, batch, chain, nextSeq, practice, stale>>

\* submitTransaction: the chunk is on its way, or the network already has it.
SendChunk(r) ==
    LET b == req[r].batch  c == req[r].chunk IN
    /\ req[r].pc = "sending"
    /\ chain' = IF chain[b][c] = "none" THEN [chain EXCEPT ![b][c] = "sent"] ELSE chain
    /\ req' = [req EXCEPT ![r].pc = "sent"]
    /\ UNCHANGED <<balance, ledger, credit, batch, nextSeq, practice, stale>>

CanApply(b, c) ==
    /\ chain[b][c] = "sent" /\ ~batch[b].dead
    /\ batch[b].seq # Unset /\ batch[b].seq + c = nextSeq

NetworkApplies(b, c, outcome) ==
    /\ CanApply(b, c)
    /\ chain' = [chain EXCEPT ![b][c] = outcome]
    /\ nextSeq' = nextSeq + 1
    /\ UNCHANGED <<balance, ledger, credit, batch, req, practice, stale>>

\* Mutant: the first chunk counts for the batch.
MutFirstChunk(r) ==
    LET b == req[r].batch  c == req[r].chunk IN
    /\ req[r].pc = "sent" /\ chain[b][c] = "paid"
    /\ req' = [req EXCEPT ![r].pc = "settling"]
    /\ UNCHANGED <<balance, ledger, credit, batch, chain, nextSeq, practice, stale>>

Advanced(r) ==
    LET last == req[r].chunk = LastChunk(req[r].batch) IN
    [pc |-> IF last THEN "settling" ELSE "sending", batch |-> req[r].batch,
     chunk |-> IF last THEN req[r].chunk ELSE req[r].chunk + 1, loaded |-> req[r].loaded]

\* The submission answers and verifyPaymentOperations finds every payment.
ChunkVerified(r) ==
    LET b == req[r].batch  c == req[r].chunk IN
    /\ req[r].pc = "sent" /\ chain[b][c] = "paid"
    /\ req' = [req EXCEPT ![r] = Advanced(r)]
    /\ UNCHANGED <<balance, ledger, credit, batch, chain, nextSeq, practice, stale>>

\* Rejected, timed out (the chunk may still apply) or not verified: the loaded
\* document is saved as failed, which writes nothing if it was loaded so.
ChunkFails(r) ==
    LET b == req[r].batch IN
    /\ req[r].pc \in {"sending", "sent"}
    /\ batch' = IF req[r].loaded = "failed" THEN batch
                ELSE [batch EXCEPT ![b].status = "failed"]
    /\ req' = [req EXCEPT ![r].pc = "reverting"]
    /\ UNCHANGED <<balance, ledger, credit, chain, nextSeq, practice, stale>>

Revert(r) ==
    /\ req[r].pc = "reverting"
    /\ batch' = [batch EXCEPT ![req[r].batch].status = "built"]
    /\ req' = [req EXCEPT ![r].pc = "done"]
    /\ UNCHANGED <<balance, ledger, credit, chain, nextSeq, practice, stale>>

-----------------------------------------------------------------------------
(* submitPayoutBatch: the settlement session *)

PayoutEntries(r) ==
    LET b == req[r].batch IN
    {[kind |-> "payout", of |-> r, educator |-> e, amount |-> batch[b].pay[e]] : e \in Recipients(b)}

\* Mutants: the balance is cleared; what is owed is not reduced.
MutSettledCleared(b, e) == [owed |-> 0, settled |-> balance[e].settled + batch[b].pay[e]]

MutSettledKept(b, e) == [balance[e] EXCEPT !.settled = @ + batch[b].pay[e]]

Settled(b, e) ==
    LET paid == batch[b].pay[e] IN
    [owed |-> IF balance[e].owed >= paid THEN balance[e].owed - paid ELSE 0,
     settled |-> balance[e].settled + paid]

\* One session: a conflicting write aborts it, so its reads are current.
Settle(r) ==
    LET b == req[r].batch IN
    /\ req[r].pc = "settling"
    /\ balance' = [e \in Educators |-> IF e \in Recipients(b) THEN Settled(b, e) ELSE balance[e]]
    /\ ledger' = ledger \cup PayoutEntries(r)
    /\ batch' = [batch EXCEPT ![b].status = "confirmed"]
    /\ req' = [req EXCEPT ![r].pc = "done"]
    /\ UNCHANGED <<credit, chain, nextSeq, practice, stale>>

\* The session aborts. Saving built writes the status only if the in-memory
\* one differs: it was loaded as failed, or had been set to confirmed.
AbortSettle(r, written) ==
    LET b == req[r].batch IN
    /\ req[r].pc = "settling"
    /\ written \/ req[r].loaded = "built"
    /\ batch' = IF written THEN [batch EXCEPT ![b].status = "built"] ELSE batch
    /\ req' = [req EXCEPT ![r].pc = "done"]
    /\ UNCHANGED <<balance, ledger, credit, chain, nextSeq, practice, stale>>

\* The process dies under the request.
LoseSubmit(r) ==
    /\ Busy(r)
    /\ req' = [req EXCEPT ![r].pc = "done"]
    /\ UNCHANGED <<balance, ledger, credit, batch, chain, nextSeq, practice, stale>>

-----------------------------------------------------------------------------
PayInit ==
    /\ balance = [e \in Educators |-> NoBalance]
    /\ ledger = {}
    /\ credit = [s \in Sales |-> [pc |-> "new", seen |-> NoBalance]]
    /\ batch = [b \in Batches |-> NoBatch]
    /\ req = [r \in Requests |-> NoRequest]
    /\ chain = [b \in Batches |-> [c \in ChunkIds |-> "none"]]
    /\ nextSeq = 1
    /\ practice \in Practices /\ stale = {}

PayNext ==
    \/ \E s \in Sales : CreditInSession(s) \/ ReadBalance(s) \/ SaveBalance(s) \/ SaveEntry(s)
    \/ \E b \in Batches :
         \/ \E e \in Educators : ReadOwed(b, e)
         \/ \E online \in BOOLEAN : BuildBatch(b, online)
         \/ Expire(b)
         \/ \E c \in ChunkIds, o \in {"paid", "failed"} : NetworkApplies(b, c, o)
    \/ \E r \in Requests :
         \/ \E b \in Batches : OpenSubmit(r, b)
         \/ SendChunk(r) \/ ChunkVerified(r) \/ ChunkFails(r) \/ Revert(r)
         \/ Settle(r) \/ (\E w \in BOOLEAN : AbortSettle(r, w)) \/ LoseSubmit(r)

PaySpec == PayInit /\ [][PayNext]_payVars

-----------------------------------------------------------------------------
Balances == [owed : Nat, settled : Nat]

BatchDocs ==
    [status : {"none", "planned", "built", "failed", "confirmed"},
     pay : [Educators -> Nat], seq : Nat \cup {Unset}, dead : BOOLEAN]

Submissions ==
    [pc : {"idle", "sending", "sent", "reverting", "settling", "done"},
     batch : Batches \cup {Unset}, chunk : Nat, loaded : {"none", "built", "failed"}]

Entries ==
    [kind : {"collected", "direct"}, of : Sales, educator : Educators, amount : Nat]
    \cup [kind : {"payout"}, of : Requests, educator : Educators, amount : Nat]

PayTypes ==
    /\ balance \in [Educators -> Balances]
    /\ ledger \subseteq Entries
    /\ credit \in [Sales -> [pc : {"new", "read", "saved", "done"}, seen : Balances]]
    /\ batch \in [Batches -> BatchDocs]
    /\ req \in [Requests -> Submissions]
    /\ chain \in [Batches -> [ChunkIds -> {"none", "sent", "paid", "failed"}]]
    /\ nextSeq \in Nat /\ practice \in Practices /\ stale \subseteq Educators

PaidChunk(b, e) == e \in Recipients(b) /\ chain[b][ChunkOf(b, e)] = "paid"

\* Every payment of the batch has moved on the network.
PaidInFull(b) == \A e \in Recipients(b) : PaidChunk(b, e)

EntriesOf(kind, e) == {x \in ledger : x.kind = kind /\ x.educator = e}

Amounts(kind, e) == SumFunctionOnSet([x \in ledger |-> x.amount], EntriesOf(kind, e))

PaidTo(e) ==
    SumFunctionOnSet([b \in Batches |-> IF PaidChunk(b, e) THEN batch[b].pay[e] ELSE 0], Batches)

Collected(s, e) == s \notin Direct /\ EducatorOf[s] = e /\ credit[s].pc \in {"saved", "done"}

\* recalculateBalancesFromLedger.
Computed(e) ==
    [owed |-> Amounts("collected", e) - Amounts("payout", e),
     settled |-> Amounts("direct", e) + Amounts("payout", e)]

\* What the educator has earned by the sales the platform collected so far.
Earned(e) ==
    SumFunctionOnSet([s \in Sales |-> IF Collected(s, e) THEN AmountOf[s] ELSE 0], Sales)

\* A batch is confirmed only when each of its payments was applied.
ConfirmedIsPaid ==
    \A b \in Batches : batch[b].status = "confirmed" => PaidInFull(b)

\* A payout entry names a payment of its batch that the network applied, for
\* the amount frozen at build time.
EntryIsPaid ==
    \A x \in ledger : x.kind = "payout" =>
        LET b == req[x.of].batch IN
        /\ PaidChunk(b, x.educator) /\ x.amount = batch[b].pay[x.educator]

\* A batch is settled once: "already processed" batches are refused.
\* Not kept, see README.
SettledOnce ==
    \A x, y \in ledger :
        (x.kind = "payout" /\ y.kind = "payout" /\ x.educator = y.educator
           /\ req[x.of].batch = req[y.of].batch) => x = y

\* recalculateBalancesFromLedger reports no difference (between credits) when a
\* batch is closed before the next is built, except where a job's credit wrote over
\* a balance that had changed since the job read it.
AuditExact ==
    practice = "careful" => \A e \in Educators \ stale :
        (\A s \in Sales : EducatorOf[s] = e => credit[s].pc \in {"new", "done"}) =>
            balance[e] = Computed(e)

\* Under the same conditions the platform never pays an educator more than their
\* sales earned.
NeverOverpaid ==
    practice = "careful" => \A e \in Educators \ stale : PaidTo(e) <= Earned(e)

\* Then, too, what was earned was paid or is still owed.
NothingLost ==
    practice = "careful" =>
        \A e \in Educators \ stale : Earned(e) <= PaidTo(e) + balance[e].owed

\* The books say what moved: payout entries on the network, balances in the ledger.
BooksExact == EntryIsPaid /\ AuditExact

\* What educators earned is paid once or still owed.
EarnedOnce == NeverOverpaid /\ NothingLost

\* docs/payments.md: recalculateBalancesFromLedger "rebuilds balances from the
\* ledger".  Without the exception the balance is not what it rebuilds, see README.
LedgerIsBalance ==
    practice = "careful" => \A e \in Educators :
        (\A s \in Sales : EducatorOf[s] = e => credit[s].pc \in {"new", "done"}) =>
            balance[e] = Computed(e)

-----------------------------------------------------------------------------
\* An instance for TLC: four numbered sales of two educators; requests, and batches,
\* are interchangeable.
FirstTwoOfFirst == [s \in Sales |-> IF s <= 2 THEN 1 ELSE 2]
FirstIsDouble == [s \in Sales |-> IF s = 1 THEN 2 ELSE 1]
Symmetric == Permutations(Requests) \cup Permutations(Batches)
=============================================================================
