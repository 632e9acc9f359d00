----------------------------- MODULE Community -----------------------------
(***************************************************************************)
(* What users keep about one another and about what they read, each a       *)
(* check and then a write: following a user, bookmarks and waiting lists,   *)
(* the poll of a space, the wallets of users, highlights and notes, the     *)
(* standing of a user, reading progress, and the categories of courses.     *)
(*                                                                         *)
(* A behaviour follows one topic.  A request is what it read and how far it *)
(* got; one update statement is one step.  save() of a document that was    *)
(* loaded writes what changed: a push appends whatever else was written     *)
(* meanwhile, an array that is replaced is written only if nobody wrote     *)
(* the arrays of the document since (Mongoose's version key).               *)
(***************************************************************************)
EXTENDS Integers, FiniteSets

CONSTANTS
    Requests,       \* requests under way at a time
    People,         \* users of the poll and of the wallets; owners of notes
    Options,        \* options of the poll
    Keys,           \* Stellar public keys
    Pages,          \* pages of the book
    Categories,
    MaxStarted,     \* bound: requests
    None

VARIABLES
    topic,      \* what this behaviour follows
    data,       \* the documents
    history,    \* what was asked for, for the properties
    request,    \* [Requests -> what it does, where it is, what it read]
    started     \* counts the requests

communityVars == <<topic, data, history, request, started>>

Idle == [op |-> "none", at |-> "idle", by |-> None, read |-> None]

Running == {q \in Requests : request[q] # Idle}

\* A request comes in, having read what it decides on; history.mixed tells that it
\* was not alone.
Enter(q, t, op, by, read) ==
    /\ topic = t /\ request[q] = Idle /\ started < MaxStarted
    /\ request' = [request EXCEPT ![q] = [op |-> op, at |-> "read", by |-> by, read |-> read]]
    /\ started' = started + 1
    /\ history' = [history EXCEPT !.mixed = @ \/ Running # {}]
    /\ UNCHANGED <<topic, data>>

At(q, op, at) == request[q].op = op /\ request[q].at = at /\ UNCHANGED <<topic, started>>
Goto(q, at) ==
    request' = [request EXCEPT ![q] = [op |-> @.op, at |-> at, by |-> @.by, read |-> @.read]]
Done(q) == request' = [request EXCEPT ![q] = Idle]

-----------------------------------------------------------------------------
(* userController: followUser, unfollowUser; entries in the two lists *)

Follow(q) == data.following = 0 /\ Enter(q, "follow", "follow", None, None)
Unfollow(q) == data.following > 0 /\ Enter(q, "follow", "unfollow", None, None)

\* $push, or $pull, which takes every entry.
Listed(entries, op) == IF op = "follow" THEN entries + 1 ELSE 0

WriteFollowing(q) ==
    /\ \E op \in {"follow", "unfollow"} :
         /\ At(q, op, "read")
         /\ data' = [data EXCEPT !.following = Listed(@, op)]
    /\ Goto(q, "second") /\ UNCHANGED history

\* Mutant: only the follower's list is written.
MutWriteFollowers(q) ==
    /\ \E op \in {"follow", "unfollow"} : At(q, op, "second")
    /\ Done(q) /\ UNCHANGED <<data, history>>

WriteFollowers(q) ==
    /\ \E op \in {"follow", "unfollow"} :
         /\ At(q, op, "second")
         /\ data' = [data EXCEPT !.followers = Listed(@, op)]
    /\ Done(q) /\ UNCHANGED history

\* createNewCourseNotification and createNewBookNotification: one for each entry
\* of the author's list.
Announce ==
    /\ topic = "follow" /\ started < MaxStarted /\ started' = started + 1
    /\ data' = [data EXCEPT !.told = data.followers]
    /\ UNCHANGED <<topic, request, history>>

-----------------------------------------------------------------------------
(* Bookmarks, and the waiting list of a space: entries of one item in a list *)

Bookmark(q, op) == Enter(q, "bookmark", op, None, data)

\* joinWaitList: who is on the list is turned away.
JoinWaitList(q) == data.entries = 0 /\ Enter(q, "waiting", "join", None, data)

Adds(q) ==
    \/ request[q].op = "join"
    \/ request[q].op = "toggle" /\ request[q].read.entries = 0

Push(q) ==
    /\ At(q, request[q].op, "read") /\ topic \in {"bookmark", "waiting"} /\ Adds(q)
    /\ data' = [entries |-> data.entries + 1, version |-> data.version + 1]
    /\ history' = [history EXCEPT !.net = @ + 1]
    /\ Done(q)

\* Mutant: no version key.
MutCurrent(q) == TRUE

Current(q) == data.version = request[q].read.version

\* toggle takes one entry out, remove all; nothing to write when there is none.
Replace(q) ==
    LET seen == request[q].read.entries
        left == IF request[q].op = "toggle" THEN seen - 1 ELSE 0
    IN /\ At(q, request[q].op, "read") /\ topic = "bookmark" /\ ~Adds(q)
       /\ IF seen = 0 \/ ~Current(q) THEN UNCHANGED <<data, history>>
          ELSE /\ data' = [entries |-> left, version |-> data.version + 1]
               /\ history' = [history EXCEPT !.net = @ - (seen - left)]
       /\ Done(q)

-----------------------------------------------------------------------------
(* space-poll.service *)

\* Mutant: a vote is taken whatever the status.
MutVoteInPoll(q, p, o) == Enter(q, "poll", "vote", p, o)

VoteInPoll(q, p, o) == data.active /\ Enter(q, "poll", "vote", p, o)

\* The upsert: a user has one vote, her last.
CastVote(q) ==
    /\ At(q, "vote", "read")
    /\ data' = [data EXCEPT !.votes[request[q].by] = request[q].read]
    /\ Done(q) /\ UNCHANGED history

ClosePoll(q) == Enter(q, "poll", "close", None, None)

\* What is left of the votes that were let in before is remembered.
SaveClosed(q) ==
    /\ At(q, "close", "read")
    /\ data' = [data EXCEPT !.active = FALSE]
    /\ history' = IF data.active
                  THEN [history EXCEPT !.final = data.votes,
                          !.pending = {<<request[p].by, request[p].read>> :
                                         p \in {p \in Running : request[p].op = "vote"}}]
                  ELSE history
    /\ Done(q)

Counted(o) == Cardinality({p \in People : data.votes[p] = o})

-----------------------------------------------------------------------------
(* walletController *)

\* Mutant: the claim of another user is not looked up.
MutUnclaimed(p, k) == TRUE

Unclaimed(p, k) == \A r \in People \ {p} : data[r] # k

ConnectWallet(q, p, k) == Unclaimed(p, k) /\ Enter(q, "wallet", "connect", p, k)

\* After the account was asked for, and found.
SaveWallet(q) ==
    /\ At(q, "connect", "read")
    /\ data' = [data EXCEPT ![request[q].by] = request[q].read]
    /\ Done(q) /\ UNCHANGED history

WalletUnverified(q) == At(q, "connect", "read") /\ Done(q) /\ UNCHANGED <<data, history>>

DisconnectWallet(p) ==
    /\ topic = "wallet" /\ started < MaxStarted /\ started' = started + 1
    /\ data' = [data EXCEPT ![p] = None]
    /\ UNCHANGED <<topic, request, history>>

-----------------------------------------------------------------------------
(* highlight.service: one highlight, and the notes on it *)

CreateNote(q, p) == data.highlight = "there" /\ Enter(q, "notes", "note", p, None)

SaveNote(q) ==
    /\ At(q, "note", "read")
    /\ data' = [data EXCEPT !.notes = @ \cup {request[q].by}]
    /\ Done(q) /\ UNCHANGED history

DeleteNote(p) ==
    /\ topic = "notes" /\ started < MaxStarted /\ started' = started + 1
    /\ data' = [data EXCEPT !.notes = @ \ {p}]
    /\ UNCHANGED <<topic, request, history>>

\* Only the owner deletes a highlight.
DeleteHighlight(q) ==
    /\ topic = "notes" /\ request[q] = Idle /\ data.highlight = "there"
    /\ data' = [data EXCEPT !.highlight = "deleted"]
    /\ history' = [history EXCEPT !.mixed = Running # {}]
    /\ request' = [request EXCEPT ![q] =
                    [op |-> "delete", at |-> "second", by |-> None, read |-> None]]
    /\ UNCHANGED <<topic, started>>

\* Mutant: the notes stay.
MutDeleteNotes(q) ==
    /\ At(q, "delete", "second") /\ Done(q) /\ UNCHANGED <<data, history>>

\* deleteMany: the owner's notes.
DeleteNotes(q) ==
    /\ At(q, "delete", "second")
    /\ data' = [data EXCEPT !.notes = @ \ {data.owner}]
    /\ Done(q) /\ UNCHANGED history

-----------------------------------------------------------------------------
(* UserModerationService *)

Standing(op) ==
    CASE op = "suspend" -> [active |-> FALSE, lock |-> "until"]
      [] op = "ban" -> [active |-> FALSE, lock |-> "forever"]
      [] op = "unban" -> [active |-> TRUE, lock |-> "none"]

Moderate(q, op) == Enter(q, "standing", op, None, data)

\* Mutant: the lock is left as it was.
MutSaveStanding(q) ==
    LET me == request[q]  to == Standing(me.op) IN
    /\ At(q, me.op, "read") /\ topic = "standing"
    /\ data' = [data EXCEPT !.active = IF to.active = me.read.active THEN @ ELSE to.active]
    /\ history' = [history EXCEPT !.last = me.op]
    /\ Done(q)

\* save writes the fields that differ from what was loaded; a new suspension always
\* ends at another time.
SaveStanding(q) ==
    LET me == request[q]  to == Standing(me.op) IN
    /\ At(q, me.op, "read") /\ topic = "standing"
    /\ data' = [active |-> IF to.active = me.read.active THEN data.active ELSE to.active,
                lock |-> IF to.lock = me.read.lock THEN data.lock ELSE to.lock]
    /\ history' = [history EXCEPT !.last = me.op]
    /\ Done(q)

-----------------------------------------------------------------------------
(* reading-progress.service; pages stand for the percentage, all of them for 100 *)

Everything == Cardinality(Pages)

\* Mutant: what the client sends is taken as it is.
MutComputePercentage(value) == value

\* computePercentage, whichever of the three forms the request has.
ComputePercentage(value) ==
    IF value < 0 THEN 0 ELSE IF value > Everything THEN Everything ELSE value

UpsertProgress(value) ==
    LET computed == ComputePercentage(value) IN
    /\ topic = "reading" /\ started < MaxStarted /\ started' = started + 1
    /\ data' = [percentage |-> computed, version |-> data.version + 1,
                completed |-> data.completed \/ computed >= Everything]
    /\ history' = [history EXCEPT !.reached = @ \/ value >= Everything]
    /\ UNCHANGED <<topic, request>>

-----------------------------------------------------------------------------
(* categoryController: data[c] is the parent, None at the top, "absent" or "gone" *)

TopLevel(c) == data[c] = None

\* Mutant: a child may be a parent.
MutMayParent(c, parent) == parent # c /\ data[parent] \notin {"absent", "gone"}

MayParent(c, parent) == parent # c /\ TopLevel(parent)

\* createCategory, and the move of updateCategory.
PlaceCategory(q, c, parent, op) ==
    /\ IF op = "create" THEN data[c] = "absent" ELSE data[c] \notin {"absent", "gone"}
    /\ parent # None => MayParent(c, parent)
    /\ Enter(q, "categories", op, c, parent)

SaveCategory(q) ==
    /\ \E op \in {"create", "move"} :
         /\ At(q, op, "read")
         /\ data' = IF (op = "create") # (data[request[q].by] = "absent") THEN data
                    ELSE [data EXCEPT ![request[q].by] = request[q].read]
    /\ Done(q) /\ UNCHANGED history

\* A category without courses is deleted; its children keep its id.
DeleteCategory(c) ==
    /\ topic = "categories" /\ data[c] \notin {"absent", "gone"}
    /\ started < MaxStarted /\ started' = started + 1
    /\ data' = [data EXCEPT ![c] = "gone"]
    /\ UNCHANGED <<topic, request, history>>

-----------------------------------------------------------------------------
Fresh == [mixed |-> FALSE]

Init ==
    /\ request = [q \in Requests |-> Idle] /\ started = 0
    /\ \/ /\ topic = "follow" /\ history = Fresh
          /\ data = [following |-> 0, followers |-> 0, told |-> 0]
       \/ /\ topic \in {"bookmark", "waiting"} /\ history = [mixed |-> FALSE, net |-> 0]
          /\ data = [entries |-> 0, version |-> 0]
       \/ /\ topic = "poll" /\ history = [mixed |-> FALSE, final |-> None, pending |-> {}]
          /\ data = [active |-> TRUE, votes |-> [p \in People |-> None]]
       \/ /\ topic = "wallet" /\ history = Fresh /\ data = [p \in People |-> None]
       \/ /\ topic = "notes" /\ history = Fresh
          /\ data \in [highlight : {"there"}, notes : {{}}, owner : People]
       \/ /\ topic = "standing" /\ history = [mixed |-> FALSE, last |-> "unban"]
          /\ data = Standing("unban")
       \/ /\ topic = "reading" /\ history = [mixed |-> FALSE, reached |-> FALSE]
          /\ data = [percentage |-> 0, version |-> 0, completed |-> FALSE]
       \/ /\ topic = "categories" /\ history = Fresh
          /\ data = [c \in Categories |-> "absent"]

Following == Announce \/ \E q \in Requests :
    Follow(q) \/ Unfollow(q) \/ WriteFollowing(q) \/ WriteFollowers(q)

Bookmarking == \E q \in Requests :
    \/ Push(q) \/ Replace(q)
    \/ \E op \in {"toggle", "remove"} : Bookmark(q, op)

Polling == \E q \in Requests :
    \/ CastVote(q) \/ ClosePoll(q) \/ SaveClosed(q)
    \/ \E p \in People, o \in Options : VoteInPoll(q, p, o)

Wallets ==
    \/ \E p \in People : DisconnectWallet(p)
    \/ \E q \in Requests : \/ SaveWallet(q) \/ WalletUnverified(q)
                           \/ \E p \in People, k \in Keys : ConnectWallet(q, p, k)

Noting ==
    \/ \E p \in People : DeleteNote(p)
    \/ \E q \in Requests : \/ SaveNote(q) \/ DeleteHighlight(q) \/ DeleteNotes(q)
                           \/ \E p \in People : CreateNote(q, p)

Moderating == \E q \in Requests :
    SaveStanding(q) \/ \E op \in {"suspend", "ban", "unban"} : Moderate(q, op)

Categorising ==
    \/ \E c \in Categories : DeleteCategory(c)
    \/ \E q \in Requests :
         \/ SaveCategory(q)
         \/ \E c \in Categories, parent \in Categories \cup {None}, op \in {"create", "move"} :
              PlaceCategory(q, c, parent, op)

Next ==
    \/ topic = "follow" /\ Following
    \/ topic = "bookmark" /\ Bookmarking
    \/ topic = "waiting" /\ \E q \in Requests : JoinWaitList(q) \/ Push(q)
    \/ topic = "poll" /\ Polling
    \/ topic = "wallet" /\ Wallets
    \/ topic = "notes" /\ Noting
    \/ topic = "standing" /\ Moderating
    \/ topic = "reading" /\ \E value \in {-1, Everything + 1} \cup Pages : UpsertProgress(value)
    \/ topic = "categories" /\ Categorising

Spec == Init /\ [][Next]_communityVars

-----------------------------------------------------------------------------
Resting == Running = {}

\* Unless requests overlapped, both users agree on who follows whom, once, and
\* an announcement tells a follower once.
FollowSound ==
    ~history.mixed => /\ Resting => data.following = data.followers
                      /\ data.following <= 1 /\ data.told <= 1

\* No bookmark that was saved is lost, and none that was taken out comes back.
BookmarksKept == data.entries = history.net

\* A closed poll changes by the votes it had let in only.
PollFinal ==
    history.final # None => \A p \in People :
      data.votes[p] = history.final[p] \/ <<p, data.votes[p]>> \in history.pending

\* Two users have one wallet only if requests overlapped.
WalletUnique ==
    ~history.mixed => \A p, r \in People : p # r /\ data[p] # None => data[p] # data[r]

\* The owner has no note on a highlight she deleted unless she wrote it meanwhile.
NotesGo ==
    data.highlight = "deleted" /\ Resting /\ ~history.mixed => data.owner \notin data.notes

\* The standing of a user is what the last decision about her says.
StandingTrue == Resting /\ ~history.mixed => data = Standing(history.last)

\* The record counts its saves, and who is at the end completed the book.
ReadingTrue ==
    /\ data.version = started /\ data.percentage \in 0..Everything
    /\ data.percentage = Everything => data.completed
    /\ data.completed => history.reached

\* No category is above itself: of two in a line the upper one is not below.
CategoriesSound ==
    ~history.mixed => \A c \in Categories :
      LET Up(x) == IF x \in Categories THEN data[x] ELSE None
      IN c \notin {Up(c), Up(Up(c)), Up(Up(Up(c)))}

CommunitySound ==
    /\ topic = "follow" => FollowSound
    /\ topic \in {"bookmark", "waiting"} => BookmarksKept
    /\ topic = "poll" => PollFinal
    /\ topic = "wallet" => WalletUnique
    /\ topic = "notes" => NotesGo
    /\ topic = "standing" => StandingTrue
    /\ topic = "reading" => ReadingTrue
    /\ topic = "categories" => CategoriesSound

\* These are not kept, see README: followers are listed once; a bookmark is in the
\* list once; a closed poll takes no vote; a wallet has one user; a note has its
\* highlight; a user is active if and only if she is not locked out; and the
\* categories have two levels.
OneEntry == topic = "follow" => data.followers <= 1
OneBookmark == topic \in {"bookmark", "waiting"} => data.entries <= 1
ClosedStays == topic = "poll" /\ history.final # None => data.votes = history.final
OneUser == topic = "wallet" => \A p, r \in People : p # r /\ data[p] # None => data[p] # data[r]
NoteHasHighlight == topic = "notes" /\ Resting /\ data.highlight = "deleted" => data.notes = {}
LockedIsInactive == topic = "standing" /\ Resting => data.active = (data.lock = "none")
TwoLevels ==
    topic = "categories" => \A c \in Categories : data[c] \in Categories => TopLevel(data[c])
=============================================================================
