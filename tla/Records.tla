------------------------------ MODULE Records ------------------------------
(***************************************************************************)
(* Documents written through the repositories of mongo/repositories: one    *)
(* educator's balance, the sessions of one user, the login lock of one      *)
(* account, one user's following another, the reactions to one reel, or the *)
(* notifications of two users.  An update statement is one step; a method   *)
(* that loads, decides and saves is several, and the calls of two requests  *)
(* interleave between them.                                                *)
(*                                                                         *)
(* The documents share nothing: a behaviour follows the calls to one kind.  *)
(***************************************************************************)
EXTENDS Integers, FiniteSets

CONSTANTS
    Requests,       \* calls of several steps under way at a time
    Stroops,        \* amounts of credits and payouts, above zero
    Sessions,       \* ids; a family is named after the session of its login
    Threshold,      \* failed logins that lock an account (5 in the code)
    Users, Notes,   \* users, and notifications
    MaxCalls,       \* bound: calls
    None

VARIABLES
    subject,    \* the kind of document this behaviour follows
    document,        \* the document, or a function of documents
    log,        \* what was asked of it, for the properties
    calling,    \* the calls under way
    calls       \* counts the calls

recordVars == <<subject, document, log, calling, calls>>

Idle == [op |-> "none", pc |-> "idle", seen |-> None, on |-> None]

\* The start of a call about s; one of a single statement is over at once.
Call(s) == subject = s /\ calls < MaxCalls /\ calls' = calls + 1 /\ UNCHANGED subject

Single(s) == Call(s) /\ UNCHANGED calling

Begin(q, s, op, pc, seen, on) ==
    /\ calling[q] = Idle /\ Call(s)
    /\ calling' = [calling EXCEPT ![q] = [op |-> op, pc |-> pc, seen |-> seen, on |-> on]]

At(q, op, pc) == calling[q].op = op /\ calling[q].pc = pc /\ UNCHANGED <<subject, calls>>

Go(q, pc, on) ==
    calling' = [calling EXCEPT ![q] = [op |-> @.op, pc |-> pc, seen |-> @.seen, on |-> on]]

Leave(q) == calling' = [calling EXCEPT ![q] = Idle]

Others(q) == {p \in Requests \ {q} : calling[p] # Idle}

-----------------------------------------------------------------------------
(* EducatorBalanceRepository *)

CreditOwedBalance(n) ==
    /\ Single("balance")
    /\ document' = [document EXCEPT !.owed = @ + n]
    /\ log' = [log EXCEPT !.credited = @ + n]

\* Mutant: the balance moves whether or not it suffices.
MutSuffices(n) == document.owed >= 0

\* $gte on owedStroops, in the filter of the very update.
Suffices(n) == document.owed >= n

DeductOwedBalance(n) ==
    /\ Single("balance") /\ Suffices(n)
    /\ document' = [document EXCEPT !.owed = @ - n]
    /\ log' = [log EXCEPT !.deducted = @ + n]

SettleOwedToSettled(n) ==
    /\ Single("balance") /\ Suffices(n)
    /\ document' = [document EXCEPT !.owed = @ - n, !.settled = @ + n]
    /\ UNCHANGED log

-----------------------------------------------------------------------------
(* SessionRepository *)

Live(s) == document[s].state = "live" /\ ~document[s].expired

Rotations(f) == {q \in Requests : calling[q].op = "rotate" /\ document[calling[q].seen].family = f}

NewSession(f) == [state |-> "live", family |-> f, replaced |-> FALSE, expired |-> FALSE]

CreateSession(s) ==
    /\ Single("sessions") /\ document[s].state = "none"
    /\ document' = [document EXCEPT ![s] = NewSession(s)]
    /\ UNCHANGED log

\* Mutant: a revoked session may be rotated.
MutRotatable(s) == document[s].state \in {"live", "revoked"}

\* rotateToken looks at revokedAt, not at expiresAt.
Rotatable(s) == document[s].state = "live"

\* Two rotations of one family may overlap: the log remembers it.
LoadToRotate(q, s) ==
    LET f == document[s].family IN
    /\ Rotatable(s) /\ Begin(q, "sessions", "rotate", "loaded", s, None)
    /\ log' = [log EXCEPT !.raced = IF Rotations(f) = {} THEN @ ELSE @ \cup {f}]
    /\ UNCHANGED document

CreateRotated(q, t) ==
    /\ At(q, "rotate", "loaded") /\ document[t].state = "none"
    /\ document' = [document EXCEPT ![t] = NewSession(document[calling[q].seen].family)]
    /\ Go(q, "created", t)
    /\ UNCHANGED log

\* Mutant: the old session keeps its revokedAt.
MutRevokeRotated(q) ==
    /\ At(q, "rotate", "created")
    /\ document' = [document EXCEPT ![calling[q].seen].replaced = TRUE]
    /\ Leave(q)
    /\ UNCHANGED log

\* The save of the old session; it fails if a cleanup deleted the document.
RevokeRotated(q) ==
    LET s == calling[q].seen IN
    /\ At(q, "rotate", "created")
    /\ document' = IF document[s].state = "gone" THEN document
              ELSE [document EXCEPT ![s] = [state |-> "revoked", family |-> @.family,
                                            replaced |-> TRUE, expired |-> @.expired]]
    /\ Leave(q)
    /\ UNCHANGED log

\* revoke and revokeByToken.
Revoke(s) ==
    /\ Single("sessions") /\ document[s].state \in {"live", "revoked"}
    /\ document' = [document EXCEPT ![s].state = "revoked"]
    /\ UNCHANGED log

RevokeWhere(set) ==
    document' = [s \in Sessions |-> IF s \in set /\ document[s].state = "live"
                               THEN [document[s] EXCEPT !.state = "revoked"] ELSE document[s]]

RevokeAllByUser(except) == Single("sessions") /\ RevokeWhere(Sessions \ {except}) /\ UNCHANGED log

\* A family that no request is rotating is dead from here on.
RevokeFamily(f) ==
    /\ Single("sessions") /\ document[f].state # "none"
    /\ RevokeWhere({s \in Sessions : document[s].family = f})
    /\ log' = [log EXCEPT !.killed = IF Rotations(f) = {} THEN @ \cup {f} ELSE @]

\* removeExpired and cleanupRevoked; expired marks what is past its time.
DeleteSessions(state) ==
    /\ Single("sessions")
    /\ document' = [s \in Sessions |-> IF document[s].state \in state /\ document[s].expired
                                  THEN [document[s] EXCEPT !.state = "gone"] ELSE document[s]]
    /\ UNCHANGED log

Expire(s) ==
    /\ Single("sessions") /\ ~document[s].expired /\ document[s].state \in {"live", "revoked"}
    /\ document' = [document EXCEPT ![s].expired = TRUE]
    /\ UNCHANGED log

\* validateAndTouch answers on the session it loaded.
Validate(q, s) ==
    /\ Live(s) /\ Begin(q, "sessions", "validate", "loaded", s, None)
    /\ UNCHANGED <<document, log>>

Touch(q) == At(q, "validate", "loaded") /\ Leave(q) /\ UNCHANGED <<document, log>>

-----------------------------------------------------------------------------
(* UserRepository: the login lock *)

Overlapped(q) == log.mixed \/ Others(q) # {}

LoadAttempts(q) ==
    /\ Begin(q, "lock", "fail", "loaded", document.attempts, None)
    /\ log' = [fails |-> log.fails + 1, mixed |-> Overlapped(q)]
    /\ UNCHANGED document

\* Mutant: one failure too many before the account is locked.
MutLocks(attempts) == attempts > Threshold

Locks(attempts) == attempts >= Threshold

\* save writes the attempts, and lockUntil when it set it.
SaveAttempts(q) ==
    LET attempts == calling[q].seen + 1 IN
    /\ At(q, "fail", "loaded")
    /\ document' = [attempts |-> attempts, locked |-> document.locked \/ Locks(attempts)]
    /\ Leave(q)
    /\ UNCHANGED log

\* Mutant: only the lock is cleared.
MutClearLock ==
    /\ Single("lock")
    /\ document' = [document EXCEPT !.locked = FALSE]
    /\ log' = [fails |-> 0, mixed |-> log.mixed \/ \E q \in Requests : calling[q] # Idle]

\* clearLock, and updateLastLogin.
ClearLock ==
    /\ Single("lock")
    /\ document' = [attempts |-> 0, locked |-> FALSE]
    /\ log' = [fails |-> 0, mixed |-> log.mixed \/ \E q \in Requests : calling[q] # Idle]

-----------------------------------------------------------------------------
(* UserRepository: follow and unfollow update both users side by side *)

Follows(q, yes) ==
    /\ Begin(q, "edge", IF yes THEN "follow" ELSE "unfollow", "both", None, None)
    /\ log' = [log EXCEPT !.mixed =
         @ \/ \E p \in Others(q) : calling[p].op # (IF yes THEN "follow" ELSE "unfollow")]
    /\ UNCHANGED document

UpdateFollower(q) ==
    /\ calling[q].pc \in {"both", "mine"} /\ subject = "edge" /\ UNCHANGED <<subject, calls, log>>
    /\ document' = [document EXCEPT !.following = calling[q].op = "follow"]
    /\ IF calling[q].pc = "both" THEN Go(q, "theirs", None) ELSE Leave(q)

\* Mutant: an unfollow leaves the other user's list alone.
MutUpdateTarget(q) ==
    /\ calling[q].pc \in {"both", "theirs"} /\ subject = "edge" /\ UNCHANGED <<subject, calls, log>>
    /\ document' = [document EXCEPT !.follower = @ \/ calling[q].op = "follow"]
    /\ IF calling[q].pc = "both" THEN Go(q, "mine", None) ELSE Leave(q)

UpdateTarget(q) ==
    /\ calling[q].pc \in {"both", "theirs"} /\ subject = "edge" /\ UNCHANGED <<subject, calls, log>>
    /\ document' = [document EXCEPT !.follower = calling[q].op = "follow"]
    /\ IF calling[q].pc = "both" THEN Go(q, "mine", None) ELSE Leave(q)

-----------------------------------------------------------------------------
(* ReelRepository *)

AddLike(u) ==
    /\ Single("reel") /\ UNCHANGED log
    /\ document' = [document EXCEPT !.likes = @ \cup {u}, !.loves = @ \ {u}]

RemoveLike(u) == Single("reel") /\ UNCHANGED log /\ document' = [document EXCEPT !.likes = @ \ {u}]

\* Mutant: the like is not pulled.
MutAddLove(u) ==
    /\ Single("reel") /\ UNCHANGED log
    /\ document' = [document EXCEPT !.loves = @ \cup {u}]

AddLove(u) ==
    /\ Single("reel") /\ UNCHANGED log
    /\ document' = [document EXCEPT !.loves = @ \cup {u}, !.likes = @ \ {u}]

RemoveLove(u) == Single("reel") /\ UNCHANGED log /\ document' = [document EXCEPT !.loves = @ \ {u}]

-----------------------------------------------------------------------------
(* NotificationRepository *)

Send(n, u) ==
    /\ Single("notes") /\ document[n].to = None
    /\ document' = [document EXCEPT ![n].to = u]
    /\ UNCHANGED log

\* By id, whoever asks and whether or not it is hidden.
MarkAsRead(n) ==
    /\ Single("notes") /\ document[n].to # None
    /\ document' = [document EXCEPT ![n].read = TRUE]
    /\ log' = [log EXCEPT !.marked = @ \cup {n}]

\* Mutant: whoever the notification is for.
MutMarkable(n, u) == document[n].to # None /\ ~document[n].read /\ ~document[n].hidden

Markable(n, u) == document[n].to = u /\ ~document[n].read /\ ~document[n].hidden

\* markManyAsRead of some ids, and markAllAsRead of all.
MarkManyAsRead(u, ids) ==
    /\ Single("notes")
    /\ document' = [n \in Notes |-> IF n \in ids /\ Markable(n, u)
                               THEN [document[n] EXCEPT !.read = TRUE] ELSE document[n]]
    /\ log' = [log EXCEPT !.marked = @ \cup {n \in ids : document[n].to = u}]

\* markNotificationAsRead and deleteNotification of the controller: the recipient's.
MarkNotificationAsRead(n, u) == document[n].to = u /\ MarkAsRead(n)

DeleteNotification(n, u) ==
    /\ Single("notes") /\ UNCHANGED log /\ document[n].to = u
    /\ document' = [document EXCEPT ![n].hidden = TRUE]

\* softDeleteOlderThan and deleteOlderThan; what is older is the caller's choice.
SoftDeleteOlderThan(ids) ==
    /\ Single("notes") /\ UNCHANGED log
    /\ document' = [n \in Notes |-> IF n \in ids /\ document[n].to # None
                               THEN [document[n] EXCEPT !.hidden = TRUE] ELSE document[n]]

-----------------------------------------------------------------------------
Init ==
    /\ calls = 0 /\ calling = [q \in Requests |-> Idle]
    /\ \/ /\ subject = "balance" /\ document = [owed |-> 0, settled |-> 0]
          /\ log = [credited |-> 0, deducted |-> 0]
       \/ /\ subject = "sessions" /\ log = [raced |-> {}, killed |-> {}]
          /\ document = [s \in Sessions |-> [state |-> "none", family |-> None,
                                        replaced |-> FALSE, expired |-> FALSE]]
       \/ /\ subject = "lock" /\ document = [attempts |-> 0, locked |-> FALSE]
          /\ log = [fails |-> 0, mixed |-> FALSE]
       \/ /\ subject = "edge" /\ document = [following |-> FALSE, follower |-> FALSE]
          /\ log = [mixed |-> FALSE]
       \/ /\ subject = "reel" /\ document = [likes |-> {}, loves |-> {}] /\ log = None
       \/ /\ subject = "notes" /\ log = [marked |-> {}]
          /\ document = [n \in Notes |-> [to |-> None, read |-> FALSE, hidden |-> FALSE]]

Balance == \E n \in Stroops :
    CreditOwedBalance(n) \/ DeductOwedBalance(n) \/ SettleOwedToSettled(n)

SessionCalls ==
    \/ \E s \in Sessions : CreateSession(s) \/ Revoke(s) \/ RevokeFamily(s) \/ Expire(s)
    \/ \E s \in Sessions \cup {None} : RevokeAllByUser(s)
    \/ DeleteSessions({"live", "revoked"}) \/ DeleteSessions({"revoked"})
    \/ \E q \in Requests :
         \/ RevokeRotated(q) \/ Touch(q)
         \/ \E s \in Sessions : LoadToRotate(q, s) \/ CreateRotated(q, s) \/ Validate(q, s)

Lock == ClearLock \/ \E q \in Requests : LoadAttempts(q) \/ SaveAttempts(q)

Edge == \E q \in Requests :
    UpdateFollower(q) \/ UpdateTarget(q) \/ \E yes \in BOOLEAN : Follows(q, yes)

Reactions == \E u \in Users : AddLike(u) \/ RemoveLike(u) \/ AddLove(u) \/ RemoveLove(u)

Notifications ==
    \/ \E n \in Notes :
         MarkAsRead(n) \/ \E u \in Users :
           Send(n, u) \/ MarkNotificationAsRead(n, u) \/ DeleteNotification(n, u)
    \/ \E ids \in SUBSET Notes :
         SoftDeleteOlderThan(ids) \/ \E u \in Users : MarkManyAsRead(u, ids)

Next ==
    \/ subject = "balance" /\ Balance
    \/ subject = "sessions" /\ SessionCalls
    \/ subject = "lock" /\ Lock
    \/ subject = "edge" /\ Edge
    \/ subject = "reel" /\ Reactions
    \/ subject = "notes" /\ Notifications

Spec == Init /\ [][Next]_recordVars

-----------------------------------------------------------------------------
Resting == \A q \in Requests : calling[q] = Idle

\* Owed never falls below zero, and no credit is paid out twice or lost, however
\* credits, payouts and settlements interleave.
BalanceKept ==
    document.owed >= 0 /\ document.owed + document.settled + log.deducted = log.credited

\* A family whose rotations did not overlap has one live session at rest, and one
\* that was revoked while nobody rotated it has none ever after.
FamiliesKept ==
    \A f \in Sessions :
      LET live == {s \in Sessions : document[s].family = f /\ document[s].state = "live"} IN
        /\ Rotations(f) = {} /\ f \notin log.raced => Cardinality(live) <= 1
        /\ f \in log.killed => live = {}

\* A lock is earned, and failures one after the other are all counted.
LockEarned ==
    /\ document.locked => log.mixed \/ log.fails >= Threshold
    /\ Resting /\ ~log.mixed =>
         document.attempts = log.fails /\ document.locked = (log.fails >= Threshold)

\* Both users agree on who follows whom once nobody is at it, unless a follow and
\* an unfollow overlapped.
EdgeAgrees == Resting /\ ~log.mixed => document.following = document.follower

\* Nobody both likes and loves the reel.
OneReaction == document.likes \cap document.loves = {}

\* Only what was marked, by its recipient or by its id, is read.
ReadIsMarked == \A n \in Notes : document[n].read => n \in log.marked

RecordsKept ==
    /\ subject = "balance" => BalanceKept
    /\ subject = "sessions" => FamiliesKept
    /\ subject = "lock" => LockEarned
    /\ subject = "edge" => EdgeAgrees
    /\ subject = "reel" => OneReaction
    /\ subject = "notes" => ReadIsMarked

\* A family has one live session at rest.  Not kept, see README.
OneLiveSession ==
    subject = "sessions" /\ Resting => \A f \in Sessions :
      Cardinality({s \in Sessions : document[s].family = f /\ document[s].state = "live"}) <= 1

\* Threshold failures lock the account.  Not kept, see README.
AlwaysLocked == subject = "lock" /\ Resting /\ log.fails >= Threshold => document.locked
=============================================================================
