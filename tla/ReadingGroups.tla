---------------------------- MODULE ReadingGroups ----------------------------
(***************************************************************************)
(* The members of one reading group and what they may do                   *)
(* (src/services/reading-group.service.js).  A membership is one row for   *)
(* each user, by index; a handler reads it and acts on what it read.       *)
(* Chapters, schedules, the reading positions and the notification of an   *)
(* invitation are left out.                                                *)
(***************************************************************************)
EXTENDS Integers, FiniteSets

CONSTANTS
    Users,
    Creator,        \* the user who created the group
    Requests,       \* slots of requests handled at once
    MaxRequests,    \* bound: requests started
    None

VARIABLES
    privacy,        \* "public" or "private", fixed at creation
    member,         \* each user's role and status, or None
    posts,          \* who posted
    req,            \* what each slot is about to do
    started,        \* requests started so far
    invited,        \* history: users an admin or the creator invited
    joined          \* history: users who asked to join

vars == <<privacy, member, posts, req, started, invited, joined>>

Idle == [op |-> "idle", by |-> None, whom |-> None]
Starts(r, op, by, whom) ==
    /\ req[r] = Idle /\ started < MaxRequests
    /\ started' = started + 1
    /\ req' = [req EXCEPT ![r] = [op |-> op, by |-> by, whom |-> whom]]
    /\ UNCHANGED <<privacy, member, posts, invited, joined>>
Answers(r) == req' = [req EXCEPT ![r] = Idle] /\ UNCHANGED <<privacy, started>>

IsAdmin(u) == u = Creator \/ (member[u] # None /\ member[u].role = "admin")
IsActive(u) == member[u] # None /\ member[u].status = "active"

\* createGroup inserts the group and then its first member, and may fail in
\* between.
JoinAsCreator ==
    /\ member[Creator] = None
    /\ member' = [member EXCEPT ![Creator] = [role |-> "admin", status |-> "active"]]
    /\ UNCHANGED <<privacy, posts, req, started, invited, joined>>

\* Mutant: whoever asks is a member.
MutJoinStatus == "active"

JoinStatus == IF privacy = "private" THEN "pending" ELSE "active"

\* joinGroup writes the row whatever it was.
JoinGroup(u) ==
    /\ member' = [member EXCEPT ![u] = [role |-> "member", status |-> JoinStatus]]
    /\ joined' = joined \cup {u}
    /\ UNCHANGED <<privacy, posts, req, started, invited>>

\* inviteMember finds that the caller may invite,
CheckInviter(r) == \E u, v \in Users : IsAdmin(u) /\ Starts(r, "invite", u, v)

\* and writes the row whatever it was.
InviteMember(r) ==
    /\ req[r].op = "invite"
    /\ member' = [member EXCEPT ![req[r].whom] = [role |-> "member", status |-> "invited"]]
    /\ invited' = invited \cup {req[r].whom}
    /\ Answers(r)
    /\ UNCHANGED <<posts, joined>>

\* Mutant: any row will do.
MutMayPost(u) == member[u] # None

MayPost(u) == IsActive(u)

\* addDiscussionPost finds an active member,
CheckPoster(r) == \E u \in Users : MayPost(u) /\ Starts(r, "post", u, u)

\* and pushes the post.
AddDiscussionPost(r) ==
    /\ req[r].op = "post"
    /\ posts' = posts \cup {req[r].by}
    /\ Answers(r)
    /\ UNCHANGED <<member, invited, joined>>

Init ==
    /\ privacy \in {"public", "private"}
    /\ member = [u \in Users |-> None]
    /\ posts = {} /\ invited = {} /\ joined = {} /\ started = 0
    /\ req = [r \in Requests |-> Idle]

Next ==
    \/ JoinAsCreator
    \/ \E u \in Users : JoinGroup(u)
    \/ \E r \in Requests : CheckInviter(r) \/ InviteMember(r)
                          \/ CheckPoster(r) \/ AddDiscussionPost(r)

-----------------------------------------------------------------------------
\* Nobody but its creator is ever active in a private group, or posts in it;
\* elsewhere a post is of someone who joined; and only the creator is an admin.
GroupSound ==
    /\ privacy = "private" => {u \in Users : IsActive(u)} \cup posts \subseteq {Creator}
    /\ posts \ {Creator} \subseteq joined
    /\ \A u \in Users \ {Creator} : member[u] # None => member[u].role = "member"

\* Not kept, see README:
\* the creator stays an active admin,
CreatorStays == member[Creator] # None => member[Creator] = [role |-> "admin", status |-> "active"]
\* and who is invited to a private group and joins it gets in.
InvitedGetIn == \A u \in invited \cap joined : (\A r \in Requests : req[r] = Idle) => IsActive(u)
=============================================================================
