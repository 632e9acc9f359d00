-------------------------------- MODULE Reels --------------------------------
(***************************************************************************)
(* One reel: its reactions (src/controllers/reelController.js), its duets  *)
(* and stitches (src/services/reelDuetService.js) and its moderation       *)
(* (src/services/moderation.service.js).                                   *)
(*                                                                         *)
(* A handler loads the reel, changes the document and saves it.  Mongoose  *)
(* sends a push as a push and raises the version; an array that was        *)
(* replaced is sent whole, and only to the version that was loaded.        *)
(* Comments, views and shares are counters of one atomic update and are    *)
(* left out.                                                               *)
(***************************************************************************)
EXTENDS Integers

CONSTANTS
    Users,          \* people who react
    Requests,       \* slots of requests handled at once
    MaxRequests,    \* bound: requests started
    None

VARIABLES
    reel,           \* likes and loves (how often each user is in the array),
                    \* version, removed, and the derivative counter
    derivatives,    \* reels created as a duet or stitch of this one
    flag,           \* the status of a flag on the reel
    req,            \* what each slot does, for whom, on which document
    started         \* requests started so far

vars == <<reel, derivatives, flag, req, started>>

Kinds == {"likes", "loves"}
Opposite(k) == CHOOSE o \in Kinds : o # k
Idle == [op |-> "idle", by |-> None, kind |-> None, doc |-> None]

Starts(r, op, by, kind) ==
    /\ req[r] = Idle /\ started < MaxRequests
    /\ started' = started + 1
    /\ req' = [req EXCEPT ![r] = [op |-> op, by |-> by, kind |-> kind, doc |-> reel]]
Answers(r) == req' = [req EXCEPT ![r] = Idle] /\ UNCHANGED started
Goes(r, op) == req' = [req EXCEPT ![r].op = op] /\ UNCHANGED started

\* reactToReel loads the reel.
LoadReaction(r) ==
    \E u \in Users, k \in Kinds :
        Starts(r, "react", u, k) /\ UNCHANGED <<reel, derivatives, flag>>

\* A second reaction of the kind takes it back; a first one is pushed, and the
\* opposite array replaced when the user was in it.
Replaced(doc, u, k) == IF doc[k][u] > 0 THEN {k}
                       ELSE IF doc[Opposite(k)][u] > 0 THEN {Opposite(k)} ELSE {}

Without(a, u) == [a EXCEPT ![u] = 0]
With(a, u) == [a EXCEPT ![u] = @ + 1]

\* Mutant: the replaced array is sent to any version.
MutReacted(doc, u, k) ==
    LET replaced == Replaced(doc, u, k)
    IN  [reel EXCEPT !.version = @ + 1,
                     ![k] = IF k \in replaced THEN Without(doc[k], u) ELSE With(@, u),
                     ![Opposite(k)] = IF Opposite(k) \in replaced THEN Without(doc[Opposite(k)], u) ELSE @]

Reacted(doc, u, k) ==
    LET replaced == Replaced(doc, u, k)
    IN  IF replaced # {} /\ doc.version # reel.version THEN reel
        ELSE [reel EXCEPT !.version = @ + 1,
                 ![k] = IF k \in replaced THEN Without(doc[k], u) ELSE With(@, u),
                 ![Opposite(k)] = IF Opposite(k) \in replaced THEN Without(doc[Opposite(k)], u) ELSE @]

SaveReaction(r) ==
    /\ req[r].op = "react"
    /\ reel' = Reacted(req[r].doc, req[r].by, req[r].kind)
    /\ Answers(r)
    /\ UNCHANGED <<derivatives, flag>>

-----------------------------------------------------------------------------
\* createReelDerivative creates the response and then counts it.
CreateDerivative(r) ==
    /\ Starts(r, "count", None, None)
    /\ derivatives' = derivatives + 1
    /\ UNCHANGED <<reel, flag>>

CountDerivative(r) ==
    /\ req[r].op = "count"
    /\ reel' = [reel EXCEPT !.derivatives = @ + 1]
    /\ Answers(r)
    /\ UNCHANGED <<derivatives, flag>>

\* flagReel, or autoFlagReel.
FlagReel ==
    /\ flag = None
    /\ flag' = "pending"
    /\ UNCHANGED <<reel, derivatives, req, started>>

\* processModerationAction loads the flag, found by its id in whatever state or
\* by the reel while pending, and the reel.
LoadFlag(r) ==
    \E decision \in {"approved", "rejected", "removed"} :
        /\ flag # None
        /\ Starts(r, IF decision = "removed" THEN "remove" ELSE "decide", None, decision)
        /\ UNCHANGED <<reel, derivatives, flag>>

\* Mutant: the flag is saved in place of the reel.
MutRemove(r) ==
    /\ req[r].op = "remove"
    /\ flag' = "removed"
    /\ Goes(r, "decide")
    /\ UNCHANGED <<reel, derivatives>>

\* A removal saves the reel first,
Remove(r) ==
    /\ req[r].op = "remove"
    /\ reel' = [reel EXCEPT !.removed = TRUE]
    /\ Goes(r, "decide")
    /\ UNCHANGED <<derivatives, flag>>

\* and every decision saves the flag.
Decide(r) ==
    /\ req[r].op = "decide"
    /\ flag' = req[r].kind
    /\ Answers(r)
    /\ UNCHANGED <<reel, derivatives>>

\* A request fails between two steps.
Fail(r) == req[r] # Idle /\ Answers(r) /\ UNCHANGED <<reel, derivatives, flag>>

Init ==
    /\ reel = [likes |-> [u \in Users |-> 0], loves |-> [u \in Users |-> 0],
               version |-> 0, removed |-> FALSE, derivatives |-> 0]
    /\ derivatives = 0
    /\ flag = None
    /\ req = [r \in Requests |-> Idle]
    /\ started = 0

Next ==
    \/ FlagReel
    \/ \E r \in Requests :
          \/ LoadReaction(r) \/ SaveReaction(r) \/ CreateDerivative(r) \/ CountDerivative(r)
          \/ LoadFlag(r) \/ Remove(r) \/ Decide(r) \/ Fail(r)

-----------------------------------------------------------------------------
\* A reaction changes the arrays for the user who made it and for nobody else,
\* however the requests overlap; a flag says the reel was removed only when it
\* is; and the counter of an original never runs ahead of its derivatives.
OwnReaction(u, k) == reel'[k][u] # reel[k][u] =>
    \E r \in Requests : req[r].op = "react" /\ req[r].by = u /\ req'[r] = Idle
ReelsStep ==
    /\ \A u \in Users, k \in Kinds : OwnReaction(u, k)
    /\ flag' = "removed" => reel'.removed
    /\ reel'.derivatives <= derivatives'

\* Not kept, see README:
\* a user is in one of the arrays, once
OneReaction == \A u \in Users : reel.likes[u] + reel.loves[u] <= 1
\* and the flag of a removed reel says so.
RemovedIsFlagged == reel.removed /\ (\A r \in Requests : req[r] = Idle) => flag = "removed"
=============================================================================
