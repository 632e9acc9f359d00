----------------------------- MODULE IpBlocking -----------------------------
(***************************************************************************)
(* The progressive block of an address that keeps failing to sign in       *)
(* (src/services/fail2ban.service.js, src/middlewares/ipBlock.js and       *)
(* src/routes/admin/blockedIpsRoutes.js).  Four Redis keys belong to one   *)
(* address and nothing is a transaction: a call is a sequence of commands, *)
(* and calls of several requests and of an administrator interleave.       *)
(* Redis may fail at any command: the call ends there and the request goes *)
(* on unblocked.                                                           *)
(***************************************************************************)
EXTENDS Integers

CONSTANTS
    Calls,          \* slots of calls about the address
    Thresholds,     \* failures that block, by tier from 0
    Permanent,      \* the last tier, whose block has no time to live
    MaxFailures     \* bound: failures recorded

VARIABLES
    failKey,        \* f2b:fail: failures in the window, 0 when absent
    offenseKey,     \* f2b:offense: blocks applied, 0 when absent
    blockKey,       \* f2b:block: the tier plus one, 0 when absent
    listed,         \* the address is in f2b:blocked
    call,           \* each slot's command, with the tier it computed
    recorded,       \* history: failures counted
    applied         \* history: offenses counted

vars == <<failKey, offenseKey, blockKey, listed, call, recorded, applied>>

Idle == [at |-> "idle", tier |-> 0]
Goes(c, at, tier) == call' = [call EXCEPT ![c] = [at |-> at, tier |-> tier]]
Ends(c) == call' = [call EXCEPT ![c] = Idle]

Least(a, b) == IF a < b THEN a ELSE b

\* Mutant: the tier counts from one.
MutTier(offenses) == Least(offenses + 1, Permanent)

Tier(offenses) == Least(offenses, Permanent)

\* recordFailure: an address that is blocked is left alone; otherwise the
\* offenses it reads decide the tier.
RecordFailure(c) ==
    /\ call[c] = Idle /\ recorded < MaxFailures
    /\ blockKey = 0
    /\ Goes(c, "read", 0)
    /\ UNCHANGED <<failKey, offenseKey, blockKey, listed, recorded, applied>>

ReadOffenses(c) ==
    /\ call[c].at = "read"
    /\ Goes(c, "count", Tier(offenseKey))
    /\ UNCHANGED <<failKey, offenseKey, blockKey, listed, recorded, applied>>

CountFailure(c) ==
    /\ call[c].at = "count" /\ recorded < MaxFailures
    /\ failKey' = failKey + 1
    /\ recorded' = recorded + 1
    /\ IF failKey' < Thresholds[call[c].tier] THEN Ends(c) ELSE Goes(c, "clear", call[c].tier)
    /\ UNCHANGED <<offenseKey, blockKey, listed, applied>>

ClearFailures(c) ==
    /\ call[c].at = "clear"
    /\ failKey' = 0
    /\ Goes(c, "block", call[c].tier)
    /\ UNCHANGED <<offenseKey, blockKey, listed, recorded, applied>>

SetBlock(c) ==
    /\ call[c].at = "block"
    /\ blockKey' = call[c].tier + 1
    /\ Goes(c, "list", call[c].tier)
    /\ UNCHANGED <<failKey, offenseKey, listed, recorded, applied>>

AddToIndex(c) ==
    /\ call[c].at = "list"
    /\ listed' = TRUE
    /\ Goes(c, "offend", 0)
    /\ UNCHANGED <<failKey, offenseKey, blockKey, recorded, applied>>

CountOffense(c) ==
    /\ call[c].at = "offend"
    /\ offenseKey' = offenseKey + 1
    /\ applied' = applied + 1
    /\ Ends(c)
    /\ UNCHANGED <<failKey, blockKey, listed, recorded>>

\* unblock: the block, the failures, the offenses, then the index.
Unblock(c) ==
    /\ call[c] = Idle
    /\ blockKey' = 0
    /\ Goes(c, "forgive", 0)
    /\ UNCHANGED <<failKey, offenseKey, listed, recorded, applied>>

ForgiveFailures(c) ==
    /\ call[c].at = "forgive"
    /\ failKey' = 0
    /\ Goes(c, "pardon", 0)
    /\ UNCHANGED <<offenseKey, blockKey, listed, recorded, applied>>

PardonOffenses(c) ==
    /\ call[c].at = "pardon"
    /\ offenseKey' = 0
    /\ Goes(c, "unlist", 0)
    /\ UNCHANGED <<failKey, blockKey, listed, recorded, applied>>

\* listBlocked prunes an address that isBlocked finds free.
FindFree(c) ==
    /\ call[c] = Idle /\ listed /\ blockKey = 0
    /\ Goes(c, "unlist", 0)
    /\ UNCHANGED <<failKey, offenseKey, blockKey, listed, recorded, applied>>

RemoveFromIndex(c) ==
    /\ call[c].at = "unlist"
    /\ listed' = FALSE
    /\ Ends(c)
    /\ UNCHANGED <<failKey, offenseKey, blockKey, recorded, applied>>

\* Redis fails: the error is caught and the call is over.
RedisFails(c) ==
    /\ call[c] # Idle
    /\ Ends(c)
    /\ UNCHANGED <<failKey, offenseKey, blockKey, listed, recorded, applied>>

\* The keys lapse, the block only when it is not permanent.
Lapse ==
    /\ \/ failKey # 0 /\ failKey' = 0 /\ UNCHANGED <<offenseKey, blockKey>>
       \/ offenseKey # 0 /\ offenseKey' = 0 /\ UNCHANGED <<failKey, blockKey>>
       \/ blockKey \in 1..Permanent /\ blockKey' = 0 /\ UNCHANGED <<failKey, offenseKey>>
    /\ UNCHANGED <<listed, call, recorded, applied>>

Init ==
    /\ failKey = 0 /\ offenseKey = 0 /\ blockKey = 0 /\ listed = FALSE
    /\ call = [c \in Calls |-> Idle]
    /\ recorded = 0 /\ applied = 0

Next ==
    \/ \E c \in Calls :
          \/ RecordFailure(c) \/ ReadOffenses(c) \/ CountFailure(c) \/ ClearFailures(c)
          \/ SetBlock(c) \/ AddToIndex(c) \/ CountOffense(c)
          \/ Unblock(c) \/ ForgiveFailures(c) \/ PardonOffenses(c) \/ FindFree(c)
           \/ RemoveFromIndex(c) \/ RedisFails(c)
    \/ Lapse

\* A block is earned: its tier is one more than offenses that were counted,
\* and no more offenses are counted than failures beyond the first threshold.
TierEarned ==
    /\ blockKey <= applied + 1
    /\ applied > 0 => recorded >= Thresholds[0] + applied - 1

\* Not kept, see README:
\* an address that is blocked is in the administrator's list
BlockedIsListed == blockKey # 0 /\ (\A c \in Calls : call[c] = Idle) => listed
=============================================================================
