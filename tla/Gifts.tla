------------------------------- MODULE Gifts -------------------------------
(***************************************************************************)
(* Gifts of one item from one sender to one recipient:                      *)
(* controllers/stellar/giftController.js over models/GiftClaim.js and       *)
(* services/stellar/claimableBalanceService.js.  The sender puts the price  *)
(* into a claimable balance; the recipient may claim it before an expiry    *)
(* and receives the item then, the sender may reclaim it afterwards.        *)
(*                                                                         *)
(* Time has three phases: before the gifts expire, after that, and after    *)
(* the time the predicates name.  The two differ, because the predicates    *)
(* are given (and checked against) milliseconds where the network counts    *)
(* seconds.                                                                 *)
(***************************************************************************)
EXTENDS Naturals, FiniteSets

CONSTANTS
    Gifts,      \* GiftClaim documents, and the balances their payments create
    Calls,      \* handler executions that overlap
    Fallback,   \* whether the result XDR may be unavailable to resolveBalanceId
    MaxGrants,  \* bound: access entries counted
    None

Parties == {"recipient", "sender"}

VARIABLES
    gift,     \* status and balanceId of the documents
    balance,  \* the claimable balance of each create transaction
    claims,   \* claim transactions on their way: <<balance, party>>
    granted,  \* access entries the recipient has through each gift
    phase,    \* the time
    call      \* where each handler is

vars == <<gift, balance, claims, granted, phase, call>>

NoGift == [status |-> "none", balanceId |-> None]

Idle == [pc |-> "idle", on |-> None, id |-> None, who |-> "recipient"]

Unclaimed == {"open", "expired"}

Begin(c, pc, g) == call[c] = Idle /\ call' = [call EXCEPT ![c] = [Idle EXCEPT !.pc = pc, !.on = g]]
Goto(c, pc) == call' = [call EXCEPT ![c].pc = pc]
End(c) == call' = [call EXCEPT ![c] = Idle]

isBeforeExpiry == phase = "before"

\* Recipient-only before expiry; sender-only after expiry.
MayClaim(who) == who = IF isBeforeExpiry THEN "recipient" ELSE "sender"

\* predicateBeforeAbsoluteTime for the recipient, its negation for the sender.
PredicateHolds(who) == who = IF phase # "deadline" THEN "recipient" ELSE "sender"

Owned == \E g \in Gifts : granted[g] > 0

-----------------------------------------------------------------------------
(* initializeGift: the guards, then the document *)

InitializeGift(c) ==
    /\ ~Owned /\ \A g \in Gifts : gift[g].status \notin {"pending_signature", "open"}
    /\ Begin(c, "create", None)
    /\ UNCHANGED <<gift, balance, claims, granted, phase>>

CreateGift(c, g) ==
    /\ call[c].pc = "create" /\ gift[g] = NoGift
    /\ gift' = [gift EXCEPT ![g].status = "pending_signature"]
    /\ End(c)
    /\ UNCHANGED <<balance, claims, granted, phase>>

-----------------------------------------------------------------------------
(* submitGift *)

SubmitGift(c, g) ==
    /\ gift[g].status = "pending_signature"
    /\ Begin(c, "send", g)
    /\ UNCHANGED <<gift, balance, claims, granted, phase>>

SendCreate(c) ==
    /\ call[c].pc = "send"
    /\ balance' = [balance EXCEPT ![call[c].on] = IF @ = "none" THEN "sent" ELSE @]
    /\ Goto(c, "sent")
    /\ UNCHANGED <<gift, claims, granted, phase>>

\* The create transaction is on the ledger, perhaps since an earlier call.
Created(g) == balance[g] \in {"held"} \cup Parties

\* resolveBalanceId: from the result XDR, or any held USDC balance of that amount
\* for the recipient.
ResolveBalanceId(c, b) ==
    /\ call[c].pc = "sent" /\ Created(call[c].on)
    /\ b # call[c].on => Fallback /\ balance[b] = "held"
    /\ call' = [call EXCEPT ![c].pc = "open", ![c].id = b]
    /\ UNCHANGED <<gift, balance, claims, granted, phase>>

\* gift.save() under the unique index on balanceId.
OpenGift(c) ==
    /\ call[c].pc = "open"
    /\ \A g \in Gifts \ {call[c].on} : gift[g].balanceId # call[c].id
    /\ gift' = [gift EXCEPT ![call[c].on] = [status |-> "open", balanceId |-> call[c].id]]
    /\ End(c)
    /\ UNCHANGED <<balance, claims, granted, phase>>

-----------------------------------------------------------------------------
(* The lazy transition to expired: one update in listGifts, a load and a save  *)
(* in getGift and claimInitialize.                                             *)

ListGifts ==
    /\ ~isBeforeExpiry
    /\ gift' = [g \in Gifts |-> IF gift[g].status = "open"
                                THEN [gift[g] EXCEPT !.status = "expired"] ELSE gift[g]]
    /\ UNCHANGED <<balance, claims, granted, phase, call>>

LoadExpired(c, g) ==
    /\ gift[g].status = "open" /\ ~isBeforeExpiry
    /\ Begin(c, "expire", g)
    /\ UNCHANGED <<gift, balance, claims, granted, phase>>

SaveExpired(c) ==
    /\ call[c].pc = "expire"
    /\ gift' = [gift EXCEPT ![call[c].on].status = "expired"]
    /\ End(c)
    /\ UNCHANGED <<balance, claims, granted, phase>>

-----------------------------------------------------------------------------
(* claimSubmit, with the XDR claimInitialize built for the gift's balanceId; its  *)
(* own lazy transition is part of the first step.                               *)

ClaimSubmit(c, g, who) ==
    /\ gift[g].status \in Unclaimed /\ MayClaim(who)
    /\ call[c] = Idle
    /\ call' = [call EXCEPT ![c] = [pc |-> "claim", on |-> g, id |-> gift[g].balanceId,
                                    who |-> who]]
    /\ gift' = [gift EXCEPT ![g].status = IF isBeforeExpiry THEN @ ELSE "expired"]
    /\ UNCHANGED <<balance, claims, granted, phase>>

SendClaim(c) ==
    /\ call[c].pc = "claim"
    /\ claims' = claims \cup {<<call[c].id, call[c].who>>}
    /\ Goto(c, "claimed")
    /\ UNCHANGED <<gift, balance, granted, phase>>

\* Mutant: what the network did with the claim is not looked at.
MutVerifyClaim(c) ==
    /\ call[c].pc = "claimed"
    /\ Goto(c, IF call[c].who = "recipient" THEN "grant" ELSE "close")
    /\ UNCHANGED <<gift, balance, claims, granted, phase>>

\* The claim is on the ledger and succeeded, perhaps since an earlier call.
VerifyClaim(c) ==
    /\ call[c].pc = "claimed" /\ balance[call[c].id] = call[c].who
    /\ Goto(c, IF call[c].who = "recipient" THEN "grant" ELSE "close")
    /\ UNCHANGED <<gift, balance, claims, granted, phase>>

\* The entry is pushed whether or not there is one already.
GrantItemAccess(c) ==
    /\ call[c].pc = "grant" /\ granted[call[c].on] < MaxGrants
    /\ granted' = [granted EXCEPT ![call[c].on] = @ + 1]
    /\ Goto(c, "close")
    /\ UNCHANGED <<gift, balance, claims, phase>>

\* Mutant: the gift is closed before the grant.
MutCloseFirst(c) ==
    /\ call[c].pc \in {"grant", "close"}
    /\ gift' = [gift EXCEPT ![call[c].on].status =
                  IF call[c].who = "recipient" THEN "claimed" ELSE "reclaimed"]
    /\ IF call[c].pc = "close" THEN End(c) ELSE UNCHANGED call
    /\ UNCHANGED <<balance, claims, granted, phase>>

CloseGift(c) ==
    /\ call[c].pc = "close"
    /\ gift' = [gift EXCEPT ![call[c].on].status =
                  IF call[c].who = "recipient" THEN "claimed" ELSE "reclaimed"]
    /\ End(c)
    /\ UNCHANGED <<balance, claims, granted, phase>>

-----------------------------------------------------------------------------
\* Submission failed or timed out, the database refused, or the process stopped.
Lose(c) ==
    /\ call[c] # Idle
    /\ End(c)
    /\ UNCHANGED <<gift, balance, claims, granted, phase>>

\* The network applies a create transaction, or drops it.
ApplyCreate(g, outcome) ==
    /\ balance[g] = "sent" /\ outcome \in {"held", "none"}
    /\ balance' = [balance EXCEPT ![g] = outcome]
    /\ UNCHANGED <<gift, claims, granted, phase, call>>

\* The network applies a claim whose predicate holds, or refuses it.
ApplyClaim(b, who) ==
    /\ <<b, who>> \in claims
    /\ balance' = IF balance[b] = "held" /\ PredicateHolds(who)
                  THEN [balance EXCEPT ![b] = who] ELSE balance
    /\ claims' = claims \ {<<b, who>>}
    /\ UNCHANGED <<gift, granted, phase, call>>

PassTime ==
    /\ phase # "deadline"
    /\ phase' = IF phase = "before" THEN "expired" ELSE "deadline"
    /\ UNCHANGED <<gift, balance, claims, granted, call>>

Init ==
    /\ gift = [g \in Gifts |-> NoGift]
    /\ balance = [g \in Gifts |-> "none"]
    /\ claims = {}
    /\ granted = [g \in Gifts |-> 0]
    /\ phase = "before"
    /\ call = [c \in Calls |-> Idle]

Handle(c) ==
    \/ InitializeGift(c)
    \/ \E g \in Gifts :
         \/ CreateGift(c, g) \/ SubmitGift(c, g) \/ ResolveBalanceId(c, g) \/ LoadExpired(c, g)
         \/ \E who \in Parties : ClaimSubmit(c, g, who)
    \/ SendCreate(c) \/ OpenGift(c) \/ SaveExpired(c)
    \/ SendClaim(c) \/ VerifyClaim(c) \/ GrantItemAccess(c) \/ CloseGift(c)

Next ==
    \/ \E c \in Calls : Handle(c) \/ Lose(c)
    \/ ListGifts \/ PassTime
    \/ \E g \in Gifts : \/ \E outcome \in {"held", "none"} : ApplyCreate(g, outcome)
                        \/ \E who \in Parties : ApplyClaim(g, who)

Spec == Init /\ [][Next]_vars

-----------------------------------------------------------------------------
\* Every variable has its type.
TypeOK ==
    /\ gift \in [Gifts -> [status : {"none", "pending_signature", "claimed", "reclaimed"}
                                    \cup Unclaimed,
                           balanceId : Gifts \cup {None}]]
    /\ balance \in [Gifts -> {"none", "sent", "held"} \cup Parties]
    /\ claims \subseteq Gifts \X Parties
    /\ granted \in [Gifts -> 0 .. MaxGrants]
    /\ phase \in {"before", "expired", "deadline"}
    /\ call \in [Calls -> [pc : {"idle", "create", "send", "sent", "open", "expire", "claim",
                                 "claimed", "grant", "close"},
                           on : Gifts \cup {None}, id : Gifts \cup {None}, who : Parties]]

\* The recipient has the item through a gift only if it took the gift's money,
\* and never if the sender took it back.
AccessIsClaimed ==
    \A g \in Gifts : granted[g] > 0 =>
        gift[g].balanceId # None /\ balance[gift[g].balanceId] = "recipient"

\* "claimed" and "reclaimed" say who has the money, and "claimed" that the recipient
\* has the item.
ClosedIsTaken ==
    \A g \in Gifts :
        /\ gift[g].status = "claimed" => granted[g] > 0 /\ balance[gift[g].balanceId] = "recipient"
        /\ gift[g].status = "reclaimed" => balance[gift[g].balanceId] = "sender"

\* The id that is stored is that of the gift's own create transaction ("Resolve the
\* REAL claimable-balance id").  Not kept, see README.
OwnBalance == \A g \in Gifts : gift[g].balanceId \in {g, None}

\* The predicates are "strictly complementary ..., so there is no window where
\* neither (or both) can claim": somebody the handlers and the network both let.
\* Not kept, see README.
NeverStranded ==
    \A g \in Gifts : gift[g].status \in Unclaimed /\ balance[gift[g].balanceId] = "held" =>
        \E who \in Parties : MayClaim(who) /\ PredicateHolds(who)

\* "Access to the item is granted to the RECIPIENT on claim": a recipient who took the
\* money has the item or can still submit the claim that gives it.
\* Not kept, see README.
TakenIsGrantable ==
    \A g \in Gifts : gift[g].balanceId # None /\ balance[gift[g].balanceId] = "recipient" =>
        \/ granted[g] > 0 \/ MayClaim("recipient")
        \/ \E c \in Calls : call[c].on = g /\ call[c].who = "recipient"

\* Access is granted on the claim, and a claim happens once ("Gift has already been
\* claimed").  Not kept, see README.
GrantedOnce == \A g \in Gifts : granted[g] <= 1

\* Claimed and reclaimed are final: "the expiry transition only flips status to
\* expired" for an open gift.  Not kept, see README.
ClosedIsFinal ==
    [][\A g \in Gifts : gift[g].status \in {"claimed", "reclaimed"} =>
         gift'[g].status = gift[g].status]_vars

\* A sender has one gift under way for a recipient and item ("You already have a
\* pending gift for this recipient and item").  Not kept, see README.
OnePending ==
    \A g, h \in Gifts :
        {gift[g].status, gift[h].status} \subseteq {"pending_signature", "open"} => g = h
=============================================================================
