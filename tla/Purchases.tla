----------------------------- MODULE Purchases -----------------------------
(***************************************************************************)
(* One buyer, one paid item, one educator: the life of the Transaction     *)
(* documents from initializePayment to the access grant.  Three kinds of   *)
(* actor write the same documents:                                         *)
(*   - requests, each inside a MongoDB transaction (a session);            *)
(*   - executions of the verifyPaymentOnChain job, one write at a time;    *)
(*   - the ingestion worker's reconcilePayment, one write at a time.       *)
(* A MongoDB transaction is a snapshot taken when it opens, a write        *)
(* conflict that aborts it, and one atomic commit.  Amounts are all 1.     *)
(***************************************************************************)
EXTENDS Integers, FiniteSets, Functions, TLC

CONSTANTS
    Rows,          \* slots for Transaction documents
    Txs,           \* well-formed signed payments for the item, named by hash
    SeqOf,         \* the buyer's account sequence number each one consumes
    None,          \* no hash, no document; a signed XDR that does not validate
    Sessions,      \* concurrent HTTP requests
    Jobs,          \* concurrent executions of verifyPaymentOnChain
    Reconcilers,   \* running ingestion workers
    MaxAttempts,   \* maxAttempts of the verify job (5 in the code)
    MaxFaults,     \* bound: crashes and database errors of non-session actors
    MaxBoots,      \* bound: boots that run startJobs' recovery
    SingleReplica  \* TRUE: a boot happens only after this process died

ASSUME NoneAssumption == None \notin Txs /\ None \notin Rows
ASSUME SeqAssumption == SeqOf \in [Txs -> Nat \ {0}]
ASSUME ActorsAssumption == Jobs \cap Reconcilers = {}
ASSUME BoundsAssumption ==
    /\ MaxAttempts \in Nat \ {0}
    /\ MaxFaults \in Nat
    /\ MaxBoots \in Nat
    /\ SingleReplica \in BOOLEAN

VARIABLES
    row,      \* the Transaction collection
    chain,    \* what became of each payment on the Stellar network
    session,  \* the MongoDB transaction each request has open
    job,      \* the job document with idempotencyKey verify:<hash>
    proc,     \* job executions and reconcilers in progress
    sales,    \* number of "sale" LedgerEntry documents per hash
    owed,     \* EducatorBalance.owedStroops
    grants,   \* entries of purchasedBooks/purchasedCourses per hash
    faults, boots

vars == <<row, chain, session, job, proc, sales, owed, grants, faults, boots>>

Procs == Jobs \cup Reconcilers

(***************************************************************************)
(* "submitted" exists only inside a session, "none" and "reaped" are the   *)
(* absence of a document before creation and after the TTL delete.         *)
(***************************************************************************)
Status == {"none", "pending", "retrying", "confirmed", "failed", "expired", "reaped"}
Terminal == {"confirmed", "failed", "expired"}

ProcPhase == {"idle", "verifying", "confirmed", "unsold", "crediting", "credited",
              "granting", "done"}

NoRow == [status |-> "none", hash |-> None]
NoSession == [pc |-> "idle", row |-> None, tx |-> None]
NoJob == [status |-> "none", row |-> None, attempts |-> 0]
NoProc == [pc |-> "idle", row |-> None, tx |-> None, attempt |-> 0, read |-> 0]

SessionPhase == {"idle", "initializing", "opened", "submitted", "sent", "settled"}

Document == [status : Status, hash : Txs \cup {None}]
SessionRecord == [pc : SessionPhase, row : Rows \cup {None}, tx : Txs \cup {None}]
JobRecord == [status : {"none", "queued", "active", "completed", "dead"},
              row : Rows \cup {None}, attempts : Nat]
ProcRecord == [pc : ProcPhase, row : Rows \cup {None}, tx : Txs \cup {None},
               attempt : Nat, read : Nat]

TypeOK ==
    /\ row \in [Rows -> Document]
    /\ chain \in [Txs -> {"unsent", "sent", "paid", "failed"}]
    /\ session \in [Sessions -> SessionRecord]
    /\ job \in [Txs -> JobRecord]
    /\ proc \in [Procs -> ProcRecord]
    /\ sales \in [Txs -> Nat]
    /\ owed \in Nat
    /\ grants \in [Txs -> Nat]
    /\ faults \in 0..MaxFaults
    /\ boots \in 0..MaxBoots

Init ==
    /\ row = [r \in Rows |-> NoRow]
    /\ chain = [x \in Txs |-> "unsent"]
    /\ session = [s \in Sessions |-> NoSession]
    /\ job = [x \in Txs |-> NoJob]
    /\ proc = [p \in Procs |-> NoProc]
    /\ sales = [x \in Txs |-> 0]
    /\ owed = 0
    /\ grants = [x \in Txs |-> 0]
    /\ faults = 0
    /\ boots = 0

-----------------------------------------------------------------------------
(* Helpers *)

Owned == \E x \in Txs : grants[x] > 0

\* A row written by an open transaction: others wait for it or conflict.
InFlight(s) == session[s].pc \in {"submitted", "sent", "settled"}

Locked(r) == \E s \in Sessions : InFlight(s) /\ session[s].row = r

\* Mutant: the index covers confirmed documents only.
MutHashFree(x) == \A r \in Rows : row[r].status = "confirmed" => row[r].hash # x

\* The unique sparse index on stellarTxHash.
HashFree(x) == \A r \in Rows : row[r].hash # x

CanApply(x) ==
    /\ chain[x] = "sent"
    /\ SeqOf[x] = 1 + Cardinality({y \in Txs : chain[y] \in {"paid", "failed"}})

EndSession(s) == session' = [session EXCEPT ![s] = NoSession]

SetRow(r, status, x) == row' = [row EXCEPT ![r] = [status |-> status, hash |-> x]]

-----------------------------------------------------------------------------
(* The Stellar network and the buyer's wallet *)

\* The wallet can hand a signed payment to the network itself (SEP-7 link).
WalletSends(x) ==
    /\ chain[x] = "unsent"
    /\ chain' = [chain EXCEPT ![x] = "sent"]
    /\ UNCHANGED <<row, session, job, proc, sales, owed, grants, faults, boots>>

\* A payment is applied, successfully or not, when its sequence number is next.
NetworkApplies(x, outcome) ==
    /\ CanApply(x)
    /\ chain' = [chain EXCEPT ![x] = outcome]
    /\ UNCHANGED <<row, session, job, proc, sales, owed, grants, faults, boots>>

-----------------------------------------------------------------------------
(* initializePayment *)

\* The snapshot shows no owned item and no pending row: the handler goes on.
OpenInitialize(s) ==
    /\ session[s].pc = "idle"
    /\ ~Owned
    /\ \A r \in Rows : row[r].status # "pending"
    /\ session' = [session EXCEPT ![s].pc = "initializing"]
    /\ UNCHANGED <<row, chain, job, proc, sales, owed, grants, faults, boots>>

CommitInitialize(s, r) ==
    /\ session[s].pc = "initializing"
    /\ row[r].status = "none"
    /\ SetRow(r, "pending", None)
    /\ EndSession(s)
    /\ UNCHANGED <<chain, job, proc, sales, owed, grants, faults, boots>>

-----------------------------------------------------------------------------
(* submitPayment *)

\* A confirmed row with this hash is a replay and changes nothing; otherwise
\* the row must still be pending in the snapshot.
OpenSubmit(s, r, x) ==
    /\ session[s].pc = "idle"
    /\ row[r].status = "pending"
    /\ \A q \in Rows : row[q].status = "confirmed" => row[q].hash # x
    /\ session' = [session EXCEPT ![s] = [pc |-> "opened", row |-> r, tx |-> x]]
    /\ UNCHANGED <<row, chain, job, proc, sales, owed, grants, faults, boots>>

\* The first write of the transaction conflicts unless the row is as read.
Writable(s) ==
    /\ session[s].pc = "opened"
    /\ row[session[s].row].status = "pending"
    /\ ~Locked(session[s].row)

RejectXdr(s) ==
    /\ Writable(s)
    /\ session[s].tx = None
    /\ SetRow(session[s].row, "failed", None)
    /\ EndSession(s)
    /\ UNCHANGED <<chain, job, proc, sales, owed, grants, faults, boots>>

\* Mutant: the status is saved outside the transaction.
MutMarkSubmitted(s) ==
    /\ Writable(s)
    /\ session[s].tx # None
    /\ SetRow(session[s].row, "submitted", None)
    /\ session' = [session EXCEPT ![s].pc = "submitted"]
    /\ UNCHANGED <<chain, job, proc, sales, owed, grants, faults, boots>>

MarkSubmitted(s) ==
    /\ Writable(s)
    /\ session[s].tx # None
    /\ session' = [session EXCEPT ![s].pc = "submitted"]
    /\ UNCHANGED <<row, chain, job, proc, sales, owed, grants, faults, boots>>

\* Mutant: the payment goes out before the row is written.
MutSendToHorizon(s) ==
    LET x == session[s].tx IN
    /\ session[s].pc \in {"opened", "submitted"}
    /\ x # None
    /\ session' = [session EXCEPT ![s].pc = "sent"]
    /\ chain' = [chain EXCEPT ![x] = IF @ = "unsent" THEN "sent" ELSE @]
    /\ UNCHANGED <<row, job, proc, sales, owed, grants, faults, boots>>

SendToHorizon(s) ==
    LET x == session[s].tx IN
    /\ session[s].pc = "submitted"
    /\ session' = [session EXCEPT ![s].pc = "sent"]
    /\ chain' = [chain EXCEPT ![x] = IF @ = "unsent" THEN "sent" ELSE @]
    /\ UNCHANGED <<row, job, proc, sales, owed, grants, faults, boots>>

\* Any error of submitTransaction, a timeout after which the payment still
\* lands included, closes the row as failed without a hash.
HorizonRejects(s) ==
    /\ session[s].pc = "sent"
    /\ SetRow(session[s].row, "failed", None)
    /\ EndSession(s)
    /\ UNCHANGED <<chain, job, proc, sales, owed, grants, faults, boots>>

\* A result: applied now, or found by the dedupe check of a resubmission
\* (which also returns a payment that was applied unsuccessfully).
HorizonAccepts(s) ==
    /\ session[s].pc = "sent"
    /\ chain[session[s].tx] \in {"paid", "failed"}
    /\ session' = [session EXCEPT ![s].pc = "settled"]
    /\ UNCHANGED <<row, chain, job, proc, sales, owed, grants, faults, boots>>

\* verifyPaymentOperations says no: the row is failed and keeps the hash.
RefuteInSession(s) ==
    LET x == session[s].tx IN
    /\ session[s].pc = "settled"
    /\ chain[x] = "failed"
    /\ HashFree(x)
    /\ SetRow(session[s].row, "failed", x)
    /\ EndSession(s)
    /\ UNCHANGED <<chain, job, proc, sales, owed, grants, faults, boots>>

\* verifyPaymentOperations cannot tell: the row waits for the verify job.
DeferInSession(s) ==
    LET x == session[s].tx IN
    /\ session[s].pc = "settled"
    /\ HashFree(x)
    /\ SetRow(session[s].row, "retrying", x)
    /\ job' = IF job[x].status = "none"
              THEN [job EXCEPT ![x] = [status |-> "queued", row |-> session[s].row,
                                       attempts |-> 0]]
              ELSE job
    /\ EndSession(s)
    /\ UNCHANGED <<chain, proc, sales, owed, grants, faults, boots>>

Confirmed(s, granted) ==
    LET x == session[s].tx IN
    /\ session[s].pc = "settled"
    /\ HashFree(x)
    /\ SetRow(session[s].row, "confirmed", x)
    /\ sales' = [sales EXCEPT ![x] = IF @ = 0 THEN 1 ELSE @]
    /\ owed' = IF sales[x] = 0 THEN owed + 1 ELSE owed
    /\ grants' = [grants EXCEPT ![x] = @ + granted]
    /\ EndSession(s)
    /\ UNCHANGED <<chain, job, proc, faults, boots>>

\* Mutant: no access entry.
MutConfirmNoGrant(s) ==
    /\ session[s].pc = "settled"
    /\ chain[session[s].tx] = "paid"
    /\ Confirmed(s, 0)

\* verifyPaymentOperations found the payments: confirm, credit the educator
\* and grant access in one commit.
ConfirmInSession(s) ==
    /\ session[s].pc = "settled"
    /\ chain[session[s].tx] = "paid"
    /\ Confirmed(s, 1)

\* A write conflict, E11000, a rejected sponsorship, any exception, a crash
\* or a dropped connection: nothing of the transaction is kept.
AbortSession(s) ==
    /\ session[s].pc # "idle"
    /\ EndSession(s)
    /\ UNCHANGED <<row, chain, job, proc, sales, owed, grants, faults, boots>>

-----------------------------------------------------------------------------
(* cancelTransaction and the TTL index on pending rows *)

\* A write from outside any session waits for an open transaction.
Close(r, from, status) ==
    /\ row[r].status \in from
    /\ ~Locked(r)
    /\ SetRow(r, status, None)
    /\ UNCHANGED <<chain, session, job, proc, sales, owed, grants, faults, boots>>

\* Mutant: the TTL index is not partial.
MutReapPending(r) == Close(r, {"pending", "retrying", "confirmed"}, "reaped")

CancelTransaction(r) == Close(r, {"pending"}, "expired")

ReapPending(r) == Close(r, {"pending"}, "reaped")

-----------------------------------------------------------------------------
(* The verifyPaymentOnChain job, as processNext runs it *)

FinishJob(j, status) ==
    /\ job' = [job EXCEPT ![proc[j].tx].status = status]
    /\ proc' = [proc EXCEPT ![j] = NoProc]

\* processNext claims the job and the handler loads the row: a confirmed or
\* failed row needs nothing more, any other goes on to the verification.
ClaimAs(j, x, settled) ==
    /\ proc[j].pc = "idle"
    /\ job[x].status = "queued"
    /\ job' = [job EXCEPT ![x].attempts = @ + 1, ![x].status = "active"]
    /\ proc' = [proc EXCEPT ![j] =
                  [pc |-> IF row[job[x].row].status \in settled THEN "done" ELSE "verifying",
                   row |-> job[x].row, tx |-> x,
                   attempt |-> job[x].attempts + 1, read |-> 0]]
    /\ UNCHANGED <<row, chain, session, sales, owed, grants, faults, boots>>

MutClaimConfirmed(j, x) == ClaimAs(j, x, {"failed"})

ClaimJob(j, x) == ClaimAs(j, x, {"confirmed", "failed"})

\* The verification was transient and attempts are left: rethrow.
JobRetries(j) ==
    /\ proc[j].pc = "verifying"
    /\ proc[j].attempt < MaxAttempts
    /\ FinishJob(j, "queued")
    /\ UNCHANGED <<row, chain, session, sales, owed, grants, faults, boots>>

JobFailsRow(j) ==
    /\ proc[j].pc = "verifying"
    /\ chain[proc[j].tx] = "failed" \/ proc[j].attempt >= MaxAttempts
    /\ SetRow(proc[j].row, "failed", proc[j].tx)
    /\ proc' = [proc EXCEPT ![j].pc = "done"]
    /\ UNCHANGED <<chain, session, job, sales, owed, grants, faults, boots>>

CompleteJob(j) ==
    /\ proc[j].pc = "done"
    /\ FinishJob(j, "completed")
    /\ UNCHANGED <<row, chain, session, sales, owed, grants, faults, boots>>

\* Mutant: the row is confirmed without looking at the verification.
MutConfirmRow(p) ==
    /\ proc[p].pc = "verifying"
    /\ SetRow(proc[p].row, "confirmed", proc[p].tx)
    /\ proc' = [proc EXCEPT ![p].pc = "confirmed"]
    /\ UNCHANGED <<chain, session, job, sales, owed, grants, faults, boots>>

\* transaction.save() carries no condition on the stored status; the same
\* step is promoteTransaction's save when p is a reconciler.
ConfirmRow(p) ==
    /\ proc[p].pc = "verifying"
    /\ chain[proc[p].tx] = "paid"
    /\ SetRow(proc[p].row, "confirmed", proc[p].tx)
    /\ proc' = [proc EXCEPT ![p].pc = "confirmed"]
    /\ UNCHANGED <<chain, session, job, sales, owed, grants, faults, boots>>

-----------------------------------------------------------------------------
(* recordSaleEarnings and the access grant outside a session *)

\* Mutant: earnings are left out of the job's confirm path.
MutCheckLedger(p) ==
    /\ proc[p].pc = "confirmed"
    /\ proc' = [proc EXCEPT ![p].pc = "granting"]
    /\ UNCHANGED <<row, chain, session, job, sales, owed, grants, faults, boots>>

CheckLedger(p) ==
    /\ proc[p].pc = "confirmed"
    /\ proc' = [proc EXCEPT ![p].pc =
                  IF sales[proc[p].tx] > 0 THEN "granting" ELSE "unsold"]
    /\ UNCHANGED <<row, chain, session, job, sales, owed, grants, faults, boots>>

ReadBalance(p) ==
    /\ proc[p].pc = "unsold"
    /\ proc' = [proc EXCEPT ![p].pc = "crediting", ![p].read = owed]
    /\ UNCHANGED <<row, chain, session, job, sales, owed, grants, faults, boots>>

SaveBalance(p) ==
    /\ proc[p].pc = "crediting"
    /\ owed' = proc[p].read + 1
    /\ proc' = [proc EXCEPT ![p].pc = "credited"]
    /\ UNCHANGED <<row, chain, session, job, sales, grants, faults, boots>>

SaveLedger(p) ==
    /\ proc[p].pc = "credited"
    /\ sales' = [sales EXCEPT ![proc[p].tx] = @ + 1]
    /\ proc' = [proc EXCEPT ![p].pc = "granting"]
    /\ UNCHANGED <<row, chain, session, job, owed, grants, faults, boots>>

\* The job's $addToSet carries a fresh date, the worker pushes: both append.
GrantAccess(p) ==
    /\ proc[p].pc = "granting"
    /\ grants' = [grants EXCEPT ![proc[p].tx] = @ + 1]
    /\ proc' = IF p \in Jobs THEN [proc EXCEPT ![p].pc = "done"]
                             ELSE [proc EXCEPT ![p] = NoProc]
    /\ UNCHANGED <<row, chain, session, job, sales, owed, faults, boots>>

-----------------------------------------------------------------------------
(* reconcilePayment: the ingestion worker reads a payment off the network *)

MatchPayment(q, x) ==
    /\ proc[q].pc = "idle"
    /\ chain[x] = "paid"
    /\ \E r \in Rows :
         /\ row[r].hash = x
         /\ row[r].status = "retrying"
         /\ proc' = [proc EXCEPT ![q] = [pc |-> "verifying", row |-> r, tx |-> x,
                                         attempt |-> 0, read |-> 0]]
    /\ UNCHANGED <<row, chain, session, job, sales, owed, grants, faults, boots>>

\* Not verified: the row is left to the job.
SkipPayment(q) ==
    /\ proc[q].pc = "verifying"
    /\ proc' = [proc EXCEPT ![q] = NoProc]
    /\ UNCHANGED <<row, chain, session, job, sales, owed, grants, faults, boots>>

-----------------------------------------------------------------------------
(* Failures of the actors that write without a session *)

\* The process dies: a job's document stays "active".
Crash(p) ==
    /\ proc[p].pc # "idle"
    /\ faults < MaxFaults
    /\ faults' = faults + 1
    /\ proc' = [proc EXCEPT ![p] = NoProc]
    /\ UNCHANGED <<row, chain, session, job, sales, owed, grants, boots>>

\* A database error makes the handler throw: retry, or dead on the last attempt.
JobThrows(j) ==
    /\ proc[j].pc # "idle"
    /\ faults < MaxFaults
    /\ faults' = faults + 1
    /\ FinishJob(j, IF proc[j].attempt >= MaxAttempts THEN "dead" ELSE "queued")
    /\ UNCHANGED <<row, chain, session, sales, owed, grants, boots>>

\* startJobs returns every active job to the queue, whoever runs it.
BootReset ==
    /\ boots < MaxBoots
    /\ SingleReplica => \A j \in Jobs : proc[j].pc = "idle"
    /\ \E x \in Txs : job[x].status = "active"
    /\ boots' = boots + 1
    /\ job' = [x \in Txs |-> IF job[x].status = "active"
                             THEN [job[x] EXCEPT !.status = "queued"] ELSE job[x]]
    /\ UNCHANGED <<row, chain, session, proc, sales, owed, grants, faults>>

-----------------------------------------------------------------------------
Network == \E x \in Txs : \/ WalletSends(x)
                          \/ \E o \in {"paid", "failed"} : NetworkApplies(x, o)

Request(s) ==
    \/ OpenInitialize(s)
    \/ \E r \in Rows : CommitInitialize(s, r)
    \/ \E r \in Rows, x \in Txs \cup {None} : OpenSubmit(s, r, x)
    \/ RejectXdr(s) \/ MarkSubmitted(s) \/ SendToHorizon(s)
    \/ HorizonRejects(s) \/ HorizonAccepts(s)
    \/ RefuteInSession(s) \/ DeferInSession(s) \/ ConfirmInSession(s)
    \/ AbortSession(s)

Settle(p) ==
    \/ ConfirmRow(p) \/ CheckLedger(p) \/ ReadBalance(p)
    \/ SaveBalance(p) \/ SaveLedger(p) \/ GrantAccess(p)

JobStep(j) ==
    \/ \E x \in Txs : ClaimJob(j, x)
    \/ JobRetries(j) \/ JobFailsRow(j) \/ Settle(j) \/ CompleteJob(j)

ReconcilerStep(q) ==
    \/ \E x \in Txs : MatchPayment(q, x)
    \/ SkipPayment(q) \/ Settle(q)

Failure == \/ \E p \in Procs : Crash(p)
           \/ \E j \in Jobs : JobThrows(j)
           \/ BootReset

Next ==
    \/ Network
    \/ \E s \in Sessions : Request(s)
    \/ \E r \in Rows : CancelTransaction(r) \/ ReapPending(r)
    \/ \E j \in Jobs : JobStep(j)
    \/ \E q \in Reconcilers : ReconcilerStep(q)
    \/ Failure

Spec == Init /\ [][Next]_vars

(***************************************************************************)
(* The poll timer keeps claiming jobs, a handler that started keeps going, *)
(* and a process that died is started again.                               *)
(***************************************************************************)
Fairness ==
    /\ \A j \in Jobs : WF_vars(JobStep(j))
    /\ WF_vars(BootReset)

FairSpec == Spec /\ Fairness

-----------------------------------------------------------------------------
(* Properties *)

\* No two Transaction documents settle under one on-chain payment: the unique
\* index on stellarTxHash together with every path that writes the hash.
HashUnique ==
    \A r, q \in Rows : row[r].hash # None /\ row[r].hash = row[q].hash => r = q

\* A confirmed purchase rests on a payment the network applied, whichever of
\* submitPayment, the verify job or the ingestion worker confirmed it.
ConfirmedIsPaid ==
    \A r \in Rows : row[r].status = "confirmed" =>
        row[r].hash \in Txs /\ chain[row[r].hash] = "paid"

\* recordSaleEarnings and the grant take effect at most once per payment hash.  Implied by
\* ImplementsSettlement.
SoldOnce == \A x \in Txs : sales[x] <= 1 /\ grants[x] <= 1

\* recordSaleEarnings is documented as "Idempotent per stellarTxHash".
\* Not kept, see README.
CreditedOnce == \A x \in Txs : sales[x] <= 1

Settling(x) == \E p \in Procs :
    /\ proc[p].tx = x
    /\ proc[p].pc \in {"confirmed", "unsold", "crediting", "credited", "granting"}

\* docs/payments.md: on confirmation "the buyer gets access" and the educator is
\* credited; here, once nobody is working on a confirmed row.
Served ==
    \A r \in Rows : row[r].status = "confirmed" =>
        \/ Settling(row[r].hash)
        \/ sales[row[r].hash] > 0 /\ grants[row[r].hash] > 0

\* Interleavings alone never leave a confirmed row unserved.
ServedWithoutFaults == faults = 0 => Served

\* A confirmed purchase stays confirmed: nothing in this module refunds it.
\* Not kept, see README.
ConfirmedStays ==
    [][\A r \in Rows : row[r].status = "confirmed" => row'[r].status = "confirmed"]_vars

\* The balance is what the ledger adds up to whenever no credit is under way.
\* Not kept, see README.
OwedMatchesLedger ==
    (\A p \in Procs : proc[p].pc \notin {"crediting", "credited"})
        => owed = SumFunction(sales)

\* While the server has a payment on its way to the network the checkout is
\* still open and belongs to that request alone: neither a cancel, nor the TTL
\* reaper, nor a second submit can decide it meanwhile.
CheckoutHeld ==
    \A s \in Sessions : session[s].pc \in {"sent", "settled"} =>
        /\ row[session[s].row].status = "pending"
        /\ \A t \in Sessions \ {s} : InFlight(t) => session[t].row # session[s].row

\* At most one open checkout per buyer and item (comment in initializePayment:
\* a double-click "must not pile up duplicate pending records").  Not kept, see README.
OneOpenCheckout ==
    Cardinality({r \in Rows : row[r].status = "pending"}) <= 1

\* From the moment a document carries an on-chain hash it is kept, with that
\* hash: no cancel, reaper or stale save drops the record of moved money.
HashIsPermanent ==
    [][\A r \in Rows : row[r].hash # None => row'[r].hash = row[r].hash]_vars

\* A row left in "retrying" is resolved by the verify job.  Not kept, see README.
RetryingResolves ==
    \A r \in Rows :
        row[r].status = "retrying" ~> row[r].status \in {"confirmed", "failed"}

\* The flow implements Settlement: documents are orders, the sale ledger and
\* the access entries are what was credited and granted.
Settled == INSTANCE Settlement WITH
    Orders <- Rows, Payments <- Txs, NoPayment <- None,
    order <- row, credited <- sales, granted <- grants

ImplementsSettlement == Settled!Spec

-----------------------------------------------------------------------------
\* An instance for TLC: payments 1 and 2, the second usable only after the first
\* (consecutive sequence numbers of the buyer's account); documents, requests and job
\* executions are interchangeable.
ByNumber == [x \in Txs |-> x]
Symmetric == Permutations(Rows) \cup Permutations(Sessions) \cup Permutations(Jobs)
=============================================================================
