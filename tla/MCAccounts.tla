---------------------------- MODULE MCAccounts ----------------------------
(***************************************************************************)
(* The account of one address and five parts around it that share no         *)
(* state with it, in one run of TLC: a behaviour follows the account, the    *)
(* blocks of one IP address, one cached answer, one educator, the refunds     *)
(* of one buyer, or one of the documents of Rooms.                          *)
(***************************************************************************)
EXTENDS Accounts, TLC

CONSTANTS Calls, Thresholds, Permanent, MaxFailures,
          Readers, Writers, MaxWrites,
          Applications, Reviewing,
          Purchases, RefundIds,
          MaxAsks

VARIABLES failKey, offenseKey, blockKey, listed, ipCall, recorded, applied,
          row, entry, ready, reader, writer,
          status, verified, call, approvals,
          tx, library, enrolled, refund, network, refunding,
          about, held, told, asking, asks,
          part    \* the part this behaviour follows

MCThresholds == 0 :> 2 @@ 1 :> 1

ASSUME TiersAssumption ==
    IsFiniteSet(Calls) /\ Permanent \in Nat /\ Thresholds \in [0..Permanent -> Nat]
ASSUME ReviewsAssumption == None \notin {"pending", "approved"}

Ip == INSTANCE IpBlocking WITH call <- ipCall
Cache == INSTANCE ResponseCache
Educator == INSTANCE EducatorVerification WITH Calls <- Reviewing
Refunds == INSTANCE Refunds WITH Calls <- Requests, call <- refunding
Rooms == INSTANCE Rooms WITH Members <- Readers

ASSUME RoomsAssumption ==
    /\ IsFiniteSet(Readers) /\ Readers # {} /\ None \notin Readers /\ "gone" \notin Readers
    /\ None \notin [Rooms!Preferences -> Int]

ipVars == <<failKey, offenseKey, blockKey, listed, ipCall, recorded, applied>>
cacheVars == <<row, entry, ready, reader, writer>>
educatorVars == <<status, verified, call, approvals>>

refundVars == <<tx, library, enrolled, refund, network, refunding>>
roomVars == <<about, held, told, asking, asks>>

Symmetric == Permutations(Requests) \cup Permutations(Purchases) \cup Permutations(RefundIds)

-----------------------------------------------------------------------------
\* The parts a behaviour does not follow stay in one of their initial states.
AccountsInit ==
    /\ part \in {"account", "ip", "cache", "educator", "refunds", "rooms"}
    /\ Init /\ (part # "account" => user = None)
    /\ Ip!Init
    /\ Cache!Init /\ (part # "cache" => row = 0 /\ ready)
    /\ Educator!Init
    /\ Refunds!Init
    /\ Rooms!Init /\ (part # "rooms" => about = "sockets")

AccountsNext ==
    /\ UNCHANGED part
    /\ \/ /\ part = "account" /\ Next
          /\ UNCHANGED <<ipVars, cacheVars, educatorVars, refundVars, roomVars>>
       \/ /\ part = "ip" /\ Ip!Next
          /\ UNCHANGED <<vars, cacheVars, educatorVars, refundVars, roomVars>>
       \/ /\ part = "cache" /\ Cache!Next
          /\ UNCHANGED <<vars, ipVars, educatorVars, refundVars, roomVars>>
       \/ /\ part = "educator" /\ Educator!Next
          /\ UNCHANGED <<vars, ipVars, cacheVars, refundVars, roomVars>>
       \/ /\ part = "refunds" /\ Refunds!Next
          /\ UNCHANGED <<vars, ipVars, cacheVars, educatorVars, roomVars>>
       \/ /\ part = "rooms" /\ Rooms!Next
          /\ UNCHANGED <<vars, ipVars, cacheVars, educatorVars, refundVars>>

AccountsSpec ==
    /\ AccountsInit
    /\ [][AccountsNext]_<<vars, ipVars, cacheVars, educatorVars, refundVars, roomVars, part>>

-----------------------------------------------------------------------------
\* What is kept has a cause: a block in Redis the offenses that were counted, a stale
\* answer a race with a writer or a time without Redis, an educator's mark an
\* approval of the one application under review.
StateIsEarned == Ip!TierEarned /\ Cache!FreshUnlessRaced /\ Educator!EducatorSound

\* One refund is in progress per purchase and recorded as refunded only when the money
\* reached the buyer; the item stays until some payment was made, and does not come
\* back after it.
RefundsSound == part = "refunds" =>
    Refunds!OneActive /\ Refunds!RefundedIsPaid /\ Refunds!KeptUntilPaid /\ Refunds!StaysRevoked

\* What requests did to a space, a recording, a reel, a quiz, preferences, a profile or a
\* bundle is what is kept of it, a challenge signs in once, a socket is told what concerns
\* its user.
RoomsSound == part = "rooms" => Rooms!RoomsSound
=============================================================================
