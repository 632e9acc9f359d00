------------------------------ MODULE Refunds ------------------------------
(***************************************************************************)
(* Refunds and disputes of one buyer's purchases:                           *)
(* controllers/stellar/refundController.js over models/Refund.js.  Buyer,   *)
(* educator and admin call handlers that load a document, wait, and save    *)
(* what they decided without looking at the stored status again; only the   *)
(* index of models/Refund.js stands behind them.  submitRefund pays the     *)
(* buyer on-chain and then takes the item away in separate writes.          *)
(*                                                                         *)
(* A purchase stands for its item.  A refund has one reverse payment: a     *)
(* second build for the same refund reuses the account's sequence number.   *)
(***************************************************************************)
EXTENDS Naturals, FiniteSets

CONSTANTS
    Purchases,  \* the buyer's transactions
    RefundIds,  \* Refund documents
    Calls,      \* handler executions that overlap
    None

Active == {"requested", "approved", "submitted", "disputed"}

Status == Active \cup {"none", "confirmed", "rejected", "failed", "resolved"}

VARIABLES
    tx,       \* status of the purchases
    library,  \* User.purchasedCourses/Books and the document's __v
    enrolled, \* Course.enrolledUsers: the purchases whose course lists the buyer
    refund,   \* the Refund documents
    network,  \* the reverse payments on the network
    call      \* where each handler is and what it loaded

vars == <<tx, library, enrolled, refund, network, call>>

NoRefund == [of |-> None, status |-> "none"]

Idle == [pc |-> "idle", on |-> None, items |-> {}, version |-> 0]

\* A handler that loaded refund r and is about to do pc.
At(pc, r) == [Idle EXCEPT !.pc = pc, !.on = r]

Goto(c, pc) == call' = [call EXCEPT ![c].pc = pc]

End(c) == call' = [call EXCEPT ![c] = Idle]

\* Mutant: the index is missing.
MutFree(t, r) == TRUE

\* The partial unique index on originalTransaction, as refund r asks it.
Free(t, r) == \A o \in RefundIds \ {r} : ~(refund[o].of = t /\ refund[o].status \in Active)

\* refund.save(): names the document by its id; E11000 refuses an active twin.
SaveStatus(r, status) ==
    /\ status \in Active => Free(refund[r].of, r)
    /\ refund' = [refund EXCEPT ![r].status = status]

-----------------------------------------------------------------------------
(* The purchase flow confirms; access follows by array push in the session or   *)
(* by $addToSet in the job, which does not touch __v.                            *)

Grant(t, bump) ==
    /\ tx[t] = "pending"
    /\ tx' = [tx EXCEPT ![t] = "confirmed"]
    /\ library' = [items |-> library.items \cup {t}, version |-> library.version + bump]
    /\ enrolled' = enrolled \cup {t}
    /\ UNCHANGED <<refund, network, call>>

-----------------------------------------------------------------------------
(* requestRefund *)

\* The refund window and the caller are checked with the status.
RequestRefund(c, t) ==
    /\ call[c] = Idle /\ tx[t] = "confirmed"
    /\ \A o \in RefundIds :
         ~(refund[o].of = t /\ refund[o].status \in Active \cup {"confirmed"})
    /\ call' = [call EXCEPT ![c] = At("create", t)]
    /\ UNCHANGED <<tx, library, enrolled, refund, network>>

\* The purchase's link to its refund is left out: nothing reads it.
CreateRefund(c, r) ==
    /\ call[c].pc = "create" /\ refund[r] = NoRefund /\ Free(call[c].on, r)
    /\ refund' = [refund EXCEPT ![r] = [of |-> call[c].on, status |-> "requested"]]
    /\ End(c)
    /\ UNCHANGED <<tx, library, enrolled, network>>

-----------------------------------------------------------------------------
(* buildRefundXdr, rejectRefund, arbitrateDispute: load, check, save *)

\* The saves a handler may have decided on, by the loaded status.
Decides == {<<"requested", "approved">>, <<"requested", "rejected">>, <<"disputed", "resolved">>}

LoadRefund(c, r, to) ==
    /\ call[c] = Idle /\ <<refund[r].status, to>> \in Decides
    /\ call' = [call EXCEPT ![c] = At(to, r)]
    /\ UNCHANGED <<tx, library, enrolled, refund, network>>

SaveDecision(c) ==
    /\ call[c].pc \in {"approved", "rejected", "resolved"}
    /\ SaveStatus(call[c].on, call[c].pc)
    /\ End(c)
    /\ UNCHANGED <<tx, library, enrolled, network>>

-----------------------------------------------------------------------------
(* escalateDispute: the refund first, then the transaction *)

LoadDispute(c, r) ==
    /\ call[c] = Idle /\ refund[r].status \in {"requested", "rejected"}
    /\ call' = [call EXCEPT ![c] = At("dispute", r)]
    /\ UNCHANGED <<tx, library, enrolled, refund, network>>

SaveDispute(c) ==
    /\ call[c].pc = "dispute"
    /\ SaveStatus(call[c].on, "disputed")
    /\ Goto(c, "mark disputed")
    /\ UNCHANGED <<tx, library, enrolled, network>>

MarkDisputed(c) ==
    /\ call[c].pc = "mark disputed"
    /\ tx' = [tx EXCEPT ![refund[call[c].on].of] = "disputed"]
    /\ End(c)
    /\ UNCHANGED <<library, enrolled, refund, network>>

-----------------------------------------------------------------------------
(* submitRefund *)

\* The buyer document is read once, up front.
LoadSubmit(c, r) ==
    /\ call[c] = Idle /\ refund[r].status = "approved"
    /\ call' = [call EXCEPT ![c] = [pc |-> "submit", on |-> r,
                  items |-> library.items, version |-> library.version]]
    /\ UNCHANGED <<tx, library, enrolled, refund, network>>

SendXdr(c) ==
    /\ call[c].pc = "submit"
    /\ network' = [network EXCEPT ![call[c].on] = IF @ = "none" THEN "sent" ELSE @]
    /\ Goto(c, "answer")
    /\ UNCHANGED <<tx, library, enrolled, refund>>

\* Mutant: a submission is taken for a payment.
MutSubmitted(c) ==
    /\ call[c].pc = "answer"
    /\ Goto(c, "revoke")
    /\ UNCHANGED <<tx, library, enrolled, refund, network>>

\* The network has the payment, also when an earlier call sent it.
Submitted(c) ==
    /\ call[c].pc = "answer" /\ network[call[c].on] = "paid"
    /\ Goto(c, "verify")
    /\ UNCHANGED <<tx, library, enrolled, refund, network>>

\* No wallet, an open breaker, a refusal or a timeout: whatever the network does.
SubmitFails(c) ==
    /\ call[c].pc \in {"submit", "answer"}
    /\ Goto(c, "fail")
    /\ UNCHANGED <<tx, library, enrolled, refund, network>>

\* verifyPaymentOperations; a transient "no" counts like any other.
Verify(c, verified) ==
    /\ call[c].pc = "verify"
    /\ verified => network[call[c].on] = "paid"
    /\ Goto(c, IF verified THEN "revoke" ELSE "fail")
    /\ UNCHANGED <<tx, library, enrolled, refund, network>>

SaveFailed(c) ==
    /\ call[c].pc = "fail"
    /\ SaveStatus(call[c].on, "failed")
    /\ End(c)
    /\ UNCHANGED <<tx, library, enrolled, network>>

\* Mutants: the array is saved whatever __v says; before the verification.
MutRevokeBuyer(c) ==
    LET t == refund[call[c].on].of IN
    /\ call[c].pc = "revoke"
    /\ library' = IF t \in call[c].items
                  THEN [items |-> call[c].items \ {t}, version |-> library.version + 1]
                  ELSE library
    /\ Goto(c, "unenroll")
    /\ UNCHANGED <<tx, enrolled, refund, network>>

MutRevokeFirst(c) ==
    LET t == refund[call[c].on].of IN
    /\ call[c].pc \in {"answer", "revoke"}
    /\ library.version = call[c].version
    /\ library' = [items |-> call[c].items \ {t}, version |-> library.version + 1]
    /\ call' = [call EXCEPT ![c].pc = IF @ = "answer" THEN @ ELSE "unenroll",
                            ![c].version = @ + 1, ![c].items = @ \ {t}]
    /\ UNCHANGED <<tx, enrolled, refund, network>>

\* The loaded array without the item replaces the stored one if __v is the loaded
\* one; an array the filter leaves alone is not written.
RevokeBuyer(c) ==
    LET t == refund[call[c].on].of IN
    /\ call[c].pc = "revoke"
    /\ \/ /\ t \in call[c].items /\ library.version = call[c].version
          /\ library' = [items |-> call[c].items \ {t}, version |-> library.version + 1]
       \/ t \notin call[c].items /\ UNCHANGED library
    /\ Goto(c, "unenroll")
    /\ UNCHANGED <<tx, enrolled, refund, network>>

Unenroll(c) ==
    /\ call[c].pc = "unenroll"
    /\ enrolled' = enrolled \ {refund[call[c].on].of}
    /\ Goto(c, "confirm")
    /\ UNCHANGED <<tx, library, refund, network>>

ConfirmRefund(c) ==
    /\ call[c].pc = "confirm"
    /\ SaveStatus(call[c].on, "confirmed")
    /\ Goto(c, "mark refunded")
    /\ UNCHANGED <<tx, library, enrolled, network>>

MarkRefunded(c) ==
    /\ call[c].pc = "mark refunded"
    /\ tx' = [tx EXCEPT ![refund[call[c].on].of] = "refunded"]
    /\ End(c)
    /\ UNCHANGED <<library, enrolled, refund, network>>

-----------------------------------------------------------------------------
(* A crash, a database error or a refused save ends a handler anywhere. *)
Lose(c) ==
    /\ call[c] # Idle
    /\ End(c)
    /\ UNCHANGED <<tx, library, enrolled, refund, network>>

(* The network applies a reverse payment that reached it, or lets it expire. *)
Settle(r, outcome) ==
    /\ network[r] = "sent" /\ outcome \in {"paid", "expired"}
    /\ network' = [network EXCEPT ![r] = outcome]
    /\ UNCHANGED <<tx, library, enrolled, refund, call>>

Init ==
    /\ tx = [t \in Purchases |-> "pending"]
    /\ library = [items |-> {}, version |-> 0]
    /\ enrolled = {}
    /\ refund = [r \in RefundIds |-> NoRefund]
    /\ network = [r \in RefundIds |-> "none"]
    /\ call = [c \in Calls |-> Idle]

Handle(c) ==
    \/ \E t \in Purchases : RequestRefund(c, t)
    \/ \E r \in RefundIds :
         \/ CreateRefund(c, r) \/ LoadDispute(c, r) \/ LoadSubmit(c, r)
         \/ \E to \in {"approved", "rejected", "resolved"} : LoadRefund(c, r, to)
    \/ SaveDecision(c) \/ SaveDispute(c) \/ MarkDisputed(c)
    \/ SendXdr(c) \/ Submitted(c) \/ SubmitFails(c)
    \/ \E verified \in BOOLEAN : Verify(c, verified)
    \/ SaveFailed(c) \/ RevokeBuyer(c) \/ Unenroll(c) \/ ConfirmRefund(c) \/ MarkRefunded(c)

Next ==
    \/ \E c \in Calls : Handle(c) \/ Lose(c)
    \/ \E t \in Purchases, bump \in {0, 1} : Grant(t, bump)
    \/ \E r \in RefundIds, outcome \in {"paid", "expired"} : Settle(r, outcome)

Spec == Init /\ [][Next]_vars

-----------------------------------------------------------------------------
Steps == {"idle", "create", "approved", "rejected", "resolved", "dispute", "mark disputed",
          "submit", "answer", "verify", "fail", "revoke", "unenroll", "confirm",
          "mark refunded"}

CallRecord == [pc : Steps, on : Purchases \cup RefundIds \cup {None},
               items : SUBSET Purchases, version : Nat]

\* Every variable has its type.
TypeOK ==
    /\ tx \in [Purchases -> {"pending", "confirmed", "refunded", "disputed"}]
    /\ library \in [items : SUBSET Purchases, version : Nat]
    /\ enrolled \subseteq Purchases
    /\ refund \in [RefundIds -> [of : Purchases \cup {None}, status : Status]]
    /\ network \in [RefundIds -> {"none", "sent", "paid", "expired"}]
    /\ call \in [Calls -> CallRecord]

\* Whatever handlers overlap, a purchase has one refund in progress: a late save
\* cannot bring a second one back (models/Refund.js, "one active refund request
\* per original transaction").
OneActive ==
    \A r, o \in RefundIds :
        /\ refund[r].status \in Active /\ refund[o].status \in Active
        /\ refund[r].of = refund[o].of
        => r = o

\* Nothing is recorded as refunded, on the refund or on the transaction, unless a
\* reverse payment reached the buyer.
RefundedIsPaid ==
    /\ \A r \in RefundIds : refund[r].status = "confirmed" => network[r] = "paid"
    /\ \A t \in Purchases : tx[t] = "refunded" =>
         \E r \in RefundIds : refund[r].of = t /\ network[r] = "paid"

\* A buyer's item is never taken away before some reverse payment was made.
KeptUntilPaid ==
    (\A r \in RefundIds : network[r] # "paid") =>
        \A t \in Purchases : tx[t] # "pending" => t \in library.items /\ t \in enrolled

\* A confirmed refund's item does not come back to the library, although other
\* submissions save arrays they loaded while it was there.
StaysRevoked ==
    \A r \in RefundIds : refund[r].status = "confirmed" =>
        refund[r].of \notin library.items /\ refund[r].of \notin enrolled

\* submitRefund "triggers atomic revocation": once no handler is working, a
\* confirmed refund's transaction is refunded.  Not kept, see README.
ConfirmedIsRefunded ==
    (\A c \in Calls : call[c] = Idle) =>
        \A r \in RefundIds : refund[r].status = "confirmed" => tx[refund[r].of] = "refunded"

\* On confirmation the buyer gets access: a purchase nobody asked to refund is in
\* the library.  Not kept, see README.
PaidHasAccess ==
    \A t \in Purchases :
        /\ tx[t] = "confirmed"
        /\ \A r \in RefundIds : refund[r].of # t
        => t \in library.items

\* A refund that was executed, failed or was arbitrated is not approved or rejected
\* any more ("Cannot build reverse payment for refund in '...' status").
\* Not kept, see README.
OutcomeStands ==
    [][\A r \in RefundIds : refund[r].status \in {"confirmed", "resolved"} =>
         refund'[r].status = refund[r].status]_vars

\* A purchase is paid back once ("An active or completed refund request already
\* exists").  Not kept, see README.
PaidBackOnce ==
    \A r, o \in RefundIds :
        (refund[r].of = refund[o].of /\ network[r] = "paid" /\ network[o] = "paid") => r = o
=============================================================================
