----------------------------- MODULE Ingestion -----------------------------
(***************************************************************************)
(* The payment ingestion worker: workers/paymentIngestionWorker.js reads    *)
(* the payments of one watched account page by page, hands each to          *)
(* reconcilePayment (services/stellar/reconciliationService.js) and moves a *)
(* stored cursor past the page.                                             *)
(*                                                                         *)
(* A payment is its place in the account's history.  reconcilePayment is    *)
(* one step here; Purchases takes it apart where it meets the other writers *)
(* of a transaction.                                                        *)
(***************************************************************************)
EXTENDS Integers, Sequences

CONSTANTS
    Workers,      \* running ingestion loops
    Kinds,        \* the payments considered, see AllKinds
    PageLimit,
    MaxPayments,  \* bound: payments that reach the account
    MaxFaults     \* bound: failures of Horizon and the database inside a page, and
                  \* processes that stop while they are on one

\* A payment whose hash a transaction under way has stored, a donation or purchase
\* memo of a known user without a transaction, neither, and not the platform's USDC.
AllKinds == {"tracked", "donation", "stray", "unknown", "other"}

VARIABLES
    history,      \* kinds of the account's payments, oldest first
    row,          \* the Transaction of each payment
    unreconciled, \* UnreconciledPayment documents
    cursor,       \* IngestionCursor.cursor
    worker,       \* the page each loop is on
    logged,       \* payments whose reconciliation ended in a logged error
    faults        \* counts them

vars == <<history, row, unreconciled, cursor, worker, logged, faults>>

Places == 1 .. Len(history)

Resting == [pc |-> "resting", next |-> 0, last |-> 0]

Fault == faults < MaxFaults /\ faults' = faults + 1

isUsdcPayment(p) == history[p] # "other"

-----------------------------------------------------------------------------
(* Payers and the purchase flow *)

Pay(kind) ==
    /\ Len(history) < MaxPayments
    /\ history' = Append(history, kind)
    /\ row' = Append(row, IF kind = "tracked" THEN "submitted" ELSE "none")
    /\ UNCHANGED <<unreconciled, cursor, worker, logged, faults>>

\* submitPayment or the verify job confirms the payment first.
ConfirmedElsewhere(p) ==
    /\ row[p] = "submitted"
    /\ row' = [row EXCEPT ![p] = "confirmed"]
    /\ UNCHANGED <<history, unreconciled, cursor, worker, logged, faults>>

-----------------------------------------------------------------------------
(* processAccount *)

\* Mutant: the cursor is saved when the page is read.
MutFetchPage(w) ==
    /\ worker[w] = Resting /\ cursor < Len(history)
    /\ \E last \in cursor + 1 .. Len(history) :
         /\ last = Len(history) \/ last = cursor + PageLimit
         /\ last <= cursor + PageLimit
         /\ worker' = [worker EXCEPT ![w] = [pc |-> "page", next |-> cursor + 1, last |-> last]]
         /\ cursor' = last
    /\ UNCHANGED <<history, row, unreconciled, logged, faults>>

\* A failed fetch and an empty page leave the cursor: no step.
FetchPage(w) ==
    /\ worker[w] = Resting /\ cursor < Len(history)
    /\ \E last \in cursor + 1 .. Len(history) :
         /\ last = Len(history) \/ last = cursor + PageLimit
         /\ last <= cursor + PageLimit
         /\ worker' = [worker EXCEPT ![w] = [pc |-> "page", next |-> cursor + 1, last |-> last]]
    /\ UNCHANGED <<history, row, unreconciled, cursor, logged, faults>>

OnPage(w, p) == worker[w].pc = "page" /\ worker[w].next = p /\ p <= worker[w].last

Pass(w) == worker' = [worker EXCEPT ![w].next = @ + 1]

\* Not USDC, or confirmed already: the insert with the same hash is refused.
Skip(w, p) ==
    /\ OnPage(w, p)
    /\ ~isUsdcPayment(p) \/ row[p] = "confirmed"
    /\ Pass(w)
    /\ UNCHANGED <<history, row, unreconciled, cursor, logged, faults>>

\* promoteTransaction, after verifyPaymentOperations.
Promote(w, p) ==
    /\ OnPage(w, p) /\ row[p] = "submitted"
    /\ row' = [row EXCEPT ![p] = "confirmed"]
    /\ Pass(w)
    /\ UNCHANGED <<history, unreconciled, cursor, logged, faults>>

\* createConfirmedDonation
CreateDonation(w, p) ==
    /\ OnPage(w, p) /\ history[p] = "donation" /\ row[p] = "none"
    /\ row' = [row EXCEPT ![p] = "confirmed"]
    /\ Pass(w)
    /\ UNCHANGED <<history, unreconciled, cursor, logged, faults>>

\* Mutant: the error leaves the loop.
MutCreatePurchase(w, p) ==
    /\ OnPage(w, p) /\ history[p] = "stray" /\ row[p] = "none"
    /\ logged' = logged \cup {p}
    /\ worker' = [worker EXCEPT ![w] = Resting]
    /\ UNCHANGED <<history, row, unreconciled, cursor, faults>>

\* createConfirmedPurchase: the item's creator is an id, not a user document, so
\* creatorWallet is empty, save() refuses the row and the loop goes on.
CreatePurchase(w, p) ==
    /\ OnPage(w, p) /\ history[p] = "stray" /\ row[p] = "none"
    /\ logged' = logged \cup {p}
    /\ Pass(w)
    /\ UNCHANGED <<history, row, unreconciled, cursor, faults>>

RecordUnreconciled(w, p) ==
    /\ OnPage(w, p) /\ history[p] = "unknown"
    /\ unreconciled' = unreconciled \cup {p}
    /\ Pass(w)
    /\ UNCHANGED <<history, row, cursor, logged, faults>>

\* reconcilePayment throws: logged, and the loop goes on.  A verification that
\* fails for the moment ends in the same way, in the memo branch.
ReconcileThrows(w, p) ==
    /\ Fault /\ OnPage(w, p) /\ isUsdcPayment(p)
    /\ logged' = logged \cup {p}
    /\ Pass(w)
    /\ UNCHANGED <<history, row, unreconciled, cursor>>

\* The parent transaction could not be loaded: no memo, nothing matches.
ParentMissing(w, p) ==
    /\ Fault /\ OnPage(w, p) /\ isUsdcPayment(p) /\ row[p] # "submitted"
    /\ unreconciled' = unreconciled \cup {p}
    /\ Pass(w)
    /\ UNCHANGED <<history, row, cursor, logged>>

\* The whole page was handed over; the update does not look at the stored cursor.
SaveCursor(w) ==
    /\ worker[w].pc = "page" /\ worker[w].next > worker[w].last
    /\ cursor' = worker[w].last
    /\ worker' = [worker EXCEPT ![w] = Resting]
    /\ UNCHANGED <<history, row, unreconciled, logged, faults>>

\* The process stops and starts again.
Restart(w) ==
    /\ worker[w] # Resting /\ Fault
    /\ worker' = [worker EXCEPT ![w] = Resting]
    /\ UNCHANGED <<history, row, unreconciled, cursor, logged>>

-----------------------------------------------------------------------------
Init ==
    /\ history = <<>> /\ row = <<>> /\ unreconciled = {} /\ cursor = 0 /\ logged = {}
    /\ faults = 0
    /\ worker = [w \in Workers |-> Resting]

Reconcile(w, p) ==
    \/ Skip(w, p) \/ Promote(w, p) \/ CreateDonation(w, p) \/ CreatePurchase(w, p)
    \/ RecordUnreconciled(w, p) \/ ReconcileThrows(w, p) \/ ParentMissing(w, p)

Work(w) == FetchPage(w) \/ (\E p \in Places : Reconcile(w, p)) \/ SaveCursor(w)

Next ==
    \/ \E kind \in Kinds : Pay(kind)
    \/ \E p \in Places : ConfirmedElsewhere(p)
    \/ \E w \in Workers : Work(w) \/ Restart(w)

Spec == Init /\ [][Next]_vars

\* The polling loop keeps its timer: while a process runs, its next step comes.
Fairness == \A w \in Workers : WF_vars(Work(w))

FairSpec == Spec /\ Fairness

-----------------------------------------------------------------------------
\* Every variable has its type.
TypeOK ==
    /\ history \in Seq(Kinds) /\ Len(history) <= MaxPayments
    /\ row \in Seq({"none", "submitted", "confirmed"}) /\ Len(row) = Len(history)
    /\ unreconciled \subseteq Places /\ logged \subseteq Places
    /\ faults \in 0 .. MaxFaults
    /\ cursor \in 0 .. Len(history)
    /\ worker \in [Workers -> [pc : {"resting", "page"}, next : 0 .. Len(history) + 1,
                               last : 0 .. Len(history)]]

Recorded(p) == row[p] = "confirmed" \/ p \in unreconciled

\* The worker is the safety net: no payment lies behind the cursor without being
\* confirmed as a transaction, recorded for manual review or named in the log as a
\* failure, through restarts and loops that overtake each other.
Accounted == \A p \in 1 .. cursor : isUsdcPayment(p) => Recorded(p) \/ p \in logged

\* Every payment to the account is confirmed, recorded for review or logged in the
\* end, and the cursor gets past it whatever fails while it is reconciled ("logs and
\* continues"): no payment holds up those behind it.
NothingBlocks == \A p \in 1 .. MaxPayments :
    p \in Places ~> p <= cursor /\ (isUsdcPayment(p) => Recorded(p) \/ p \in logged)

\* docs/payments.md: the worker "matches by transaction hash, then by memo, and
\* otherwise records an UnreconciledPayment".  The code does not keep it, see README.
NonePassedOver == \A p \in 1 .. cursor : isUsdcPayment(p) => Recorded(p)
=============================================================================
