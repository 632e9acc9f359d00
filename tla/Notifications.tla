--------------------------- MODULE Notifications ---------------------------
(***************************************************************************)
(* Notifications on their way to the open tabs of their recipients          *)
(* (controllers/notificationController.js): one of the servers creates a    *)
(* notification and publishes it in Redis, every server that subscribed     *)
(* writes it to the event streams it holds; without Redis a server serves   *)
(* its own streams only.  A bulk notification of a course is a job          *)
(* (jobs/handlers.js) whose server serves its own streams.                  *)
(*                                                                         *)
(* A server restarts, Redis goes away and comes back, and a publication     *)
(* that was made may be reported as failed.  A behaviour follows single     *)
(* notifications or the bulk job, which does without Redis.                 *)
(***************************************************************************)
EXTENDS Integers, FiniteSets, Sequences

CONSTANTS
    Nodes,          \* servers
    Streams,        \* event streams, each opened once
    Recipients,     \* users that are notified
    MaxSent,        \* bound: single notifications
    MaxRuns,        \* bound: runs of the bulk job (3 in the code)
    MaxFaults       \* bound: restarts of servers and of Redis

VARIABLES
    redis,          \* isRedisReady
    subscribed,     \* [Nodes -> subscriptions it holds]; the flag is: there is one
    subscribing,    \* [Nodes -> calls past the check of the flag, for a new stream]
    stream,         \* [Streams -> its state, user and server]
    connections,    \* sseConnections: [Nodes -> [Recipients -> open streams]]
    notes,          \* the notifications, in the order of their creation
    dispatching,    \* dispatches under way: note, server, where it is
    channel,        \* published messages, one for each subscription
    written,        \* [Streams -> [Numbers -> how often that note was written to it]]
    job,            \* the bulk job: runs so far, what it does, its server
    due, doubled,   \* for the properties: <<stream, note>> owed; notes sent twice
    faults          \* counts the faults

noteVars == <<redis, subscribed, subscribing, stream, connections, notes, dispatching,
              channel, written, job, due, doubled, faults>>

links == <<redis, subscribed, subscribing>>

Flag(n) == subscribed[n] > 0

\* The numbers of the notes there may be.
Numbers == 1..(MaxSent + MaxRuns * Cardinality(Recipients))

-----------------------------------------------------------------------------
(* The streams *)

\* sseNotifications: the stream joins its user's set; initRedisSubscriber goes on
\* by itself when Redis is there and the flag is not set.
Open(s, u, n) ==
    /\ stream[s].state = "none"
    /\ stream' = [stream EXCEPT ![s] = [state |-> "open", user |-> u, node |-> n]]
    /\ connections' = [connections EXCEPT ![n][u] = @ \cup {s}]
    /\ subscribing' = IF Flag(n) \/ ~redis THEN subscribing
                      ELSE [subscribing EXCEPT ![n] = @ + 1]
    /\ UNCHANGED <<redis, subscribed, notes, dispatching, channel, written, job, due, doubled, faults>>

\* Mutant: the first tab that closes takes the others with it.
MutClose(s) ==
    LET me == stream[s] IN
    /\ me.state = "open"
    /\ stream' = [stream EXCEPT ![s].state = "closed"]
    /\ connections' = [connections EXCEPT ![me.node][me.user] = {}]
    /\ due' = {d \in due : d[1] # s}
    /\ UNCHANGED <<links, notes, dispatching, channel, written, job, doubled, faults>>

Close(s) ==
    LET me == stream[s] IN
    /\ me.state = "open"
    /\ stream' = [stream EXCEPT ![s].state = "closed"]
    /\ connections' = [connections EXCEPT ![me.node][me.user] = @ \ {s}]
    /\ due' = {d \in due : d[1] # s}
    /\ UNCHANGED <<links, notes, dispatching, channel, written, job, doubled, faults>>

\* deliverLocalSSENotification.
Served(n, k) == connections[n][notes[k]]

\* Mutant: to whoever is connected.
MutDeliver(n, ks) ==
    written' = [s \in Streams |-> [k \in Numbers |->
        IF k \in ks /\ stream[s].state = "open" /\ stream[s].node = n
        THEN written[s][k] + 1 ELSE written[s][k]]]

Deliver(n, ks) ==
    written' = [s \in Streams |-> [k \in Numbers |->
        IF k \in ks /\ s \in Served(n, k) THEN written[s][k] + 1 ELSE written[s][k]]]

-----------------------------------------------------------------------------
(* The subscription *)

\* initRedisSubscriber after its awaits; a failure leaves the flag as it was.
Subscribed(n, ok) ==
    subscribed' = IF ok THEN [subscribed EXCEPT ![n] = @ + 1] ELSE subscribed

FinishSubscribing(n, ok) ==
    /\ subscribing[n] > 0 /\ (ok => redis)
    /\ subscribing' = [subscribing EXCEPT ![n] = @ - 1]
    /\ Subscribed(n, ok)
    /\ UNCHANGED <<redis, stream, connections, notes, dispatching, channel, written, job,
                   due, doubled, faults>>

-----------------------------------------------------------------------------
(* sendNotificationToUser *)

\* The notification is created and populated, and then dispatched.
Send(u, n) ==
    /\ job.pc = "none" /\ Len(notes) < MaxSent
    /\ notes' = Append(notes, u)
    /\ dispatching' = dispatching \cup {[note |-> Len(notes) + 1, node |-> n, pc |-> "start"]}
    /\ UNCHANGED <<links, stream, connections, channel, written, job, due, doubled, faults>>

Leave(d) == dispatching' = dispatching \ {d}
Go(d, pc) == dispatching' = (dispatching \ {d}) \cup {[d EXCEPT !.pc = pc]}

Quiet == UNCHANGED <<redis, subscribing, stream, connections, notes, job, faults>>

\* dispatchSSENotification, with Redis: the subscriber first.
DispatchByRedis(d) ==
    /\ d.pc = "start" /\ redis
    /\ Go(d, IF Flag(d.node) THEN "publish" ELSE "subscribe")
    /\ Quiet /\ UNCHANGED <<subscribed, channel, written, due, doubled>>

DispatchSubscribe(d, ok) ==
    /\ d.pc = "subscribe" /\ (ok => redis)
    /\ Go(d, "publish") /\ Subscribed(d.node, ok)
    /\ Quiet /\ UNCHANGED <<channel, written, due, doubled>>

\* One message to each subscription of each server.
Published(k) ==
    UNION {{[note |-> k, node |-> n, sub |-> i] : i \in 1..subscribed[n]} : n \in Nodes}

Owed(k) == {s \in Streams : /\ stream[s].state = "open" /\ stream[s].user = notes[k]
                            /\ Flag(stream[s].node)}

Publish(d) ==
    /\ d.pc = "publish" /\ redis
    /\ channel' = channel \cup Published(d.note)
    /\ due' = due \cup (Owed(d.note) \X {d.note})
    /\ Leave(d) /\ Quiet /\ UNCHANGED <<subscribed, written, doubled>>

\* Mutant: a failed publication is dropped.
MutDispatchLocally(d) ==
    /\ ~redis \/ d.pc = "publish"
    /\ d.pc # "subscribe"
    /\ due' = due \cup ({s \in Owed(d.note) : stream[s].node = d.node} \X {d.note})
    /\ \E reached \in {FALSE, d.pc = "publish" /\ redis} :
         /\ channel' = IF reached THEN channel \cup Published(d.note) ELSE channel
         /\ doubled' = IF reached THEN doubled \cup {d.note} ELSE doubled
    /\ Leave(d) /\ Quiet /\ UNCHANGED <<subscribed, written>>

\* Without Redis, or when the publication throws, which it may do although Redis
\* took it: the streams of this server.
DispatchLocally(d) ==
    /\ ~redis \/ d.pc = "publish"
    /\ d.pc # "subscribe"
    /\ Deliver(d.node, {d.note})
    /\ due' = due \cup ({s \in Owed(d.note) : stream[s].node = d.node} \X {d.note})
    /\ \E reached \in {FALSE, d.pc = "publish" /\ redis} :
         /\ channel' = IF reached THEN channel \cup Published(d.note) ELSE channel
         /\ doubled' = IF reached THEN doubled \cup {d.note} ELSE doubled
    /\ Leave(d) /\ Quiet /\ UNCHANGED subscribed

Receive(m) ==
    /\ Deliver(m.node, {m.note})
    /\ channel' = channel \ {m}
    /\ Quiet /\ UNCHANGED <<subscribed, dispatching, due, doubled>>

-----------------------------------------------------------------------------
(* notifications.bulk: everybody enrolled, once *)

Enrolled == CHOOSE s \in [1..Cardinality(Recipients) -> Recipients] :
              \A i, j \in DOMAIN s : s[i] = s[j] => i = j

\* insertMany, of all or, when it throws, of those before the one that failed.
InsertMany(n, count) ==
    /\ job.pc = "due" /\ job.runs < MaxRuns
    /\ notes' = notes \o SubSeq(Enrolled, 1, count)
    /\ job' = [runs |-> job.runs + 1, node |-> n, first |-> Len(notes) + 1,
               pc |-> IF count = Len(Enrolled) THEN "deliver" ELSE "due",
               whole |-> IF count = Len(Enrolled) THEN job.whole + 1 ELSE job.whole]
    /\ UNCHANGED <<links, stream, connections, dispatching, channel, written, due, doubled, faults>>

DeliverBulk ==
    /\ job.pc = "deliver"
    /\ Deliver(job.node, job.first..job.first + Len(Enrolled) - 1)
    /\ job' = [job EXCEPT !.pc = "done"]
    /\ UNCHANGED <<links, stream, connections, notes, dispatching, channel, due, doubled, faults>>

-----------------------------------------------------------------------------
(* Faults *)

\* A server restarts with no streams and no subscription; its bulk job is retried.
Restart(n) ==
    LET lost == {s \in Streams : stream[s].state = "open" /\ stream[s].node = n} IN
    /\ faults < MaxFaults /\ faults' = faults + 1
    /\ stream' = [s \in Streams |-> IF s \in lost THEN [stream[s] EXCEPT !.state = "closed"]
                                    ELSE stream[s]]
    /\ connections' = [connections EXCEPT ![n] = [u \in Recipients |-> {}]]
    /\ subscribed' = [subscribed EXCEPT ![n] = 0]
    /\ subscribing' = [subscribing EXCEPT ![n] = 0]
    /\ dispatching' = {d \in dispatching : d.node # n}
    /\ channel' = {m \in channel : m.node # n}
    /\ due' = {d \in due : d[1] \notin lost}
    /\ job' = IF job.pc = "deliver" /\ job.node = n THEN [job EXCEPT !.pc = "due"] ELSE job
    /\ UNCHANGED <<redis, notes, written, doubled>>

\* Redis forgets what it had not sent; its clients subscribe again by themselves.
RedisGoes ==
    /\ redis /\ faults < MaxFaults /\ faults' = faults + 1
    /\ redis' = FALSE /\ channel' = {}
    /\ due' = {d \in due : written[d[1]][d[2]] > 0}
    /\ UNCHANGED <<subscribed, subscribing, stream, connections, notes, dispatching, written,
                   job, doubled>>

RedisComes ==
    /\ ~redis /\ job.pc = "none" /\ redis' = TRUE
    /\ UNCHANGED <<subscribed, subscribing, stream, connections, notes, dispatching, channel,
                   written, job, due, doubled, faults>>

-----------------------------------------------------------------------------
Init ==
    /\ job \in [runs : {0}, pc : {"none", "due"}, whole : {0}]
    /\ redis = (job.pc = "none")
    /\ subscribed = [n \in Nodes |-> 0] /\ subscribing = [n \in Nodes |-> 0]
    /\ stream = [s \in Streams |-> [state |-> "none"]]
    /\ connections = [n \in Nodes |-> [u \in Recipients |-> {}]]
    /\ notes = <<>> /\ dispatching = {} /\ channel = {}
    /\ written = [s \in Streams |-> [k \in Numbers |-> 0]]
    /\ due = {} /\ doubled = {} /\ faults = 0

Next ==
    \/ \E s \in Streams : Close(s) \/ \E u \in Recipients, n \in Nodes : Open(s, u, n)
    \/ \E n \in Nodes, ok \in BOOLEAN : FinishSubscribing(n, ok)
    \/ \E u \in Recipients, n \in Nodes : Send(u, n)
    \/ \E d \in dispatching :
         \/ DispatchByRedis(d) \/ Publish(d) \/ DispatchLocally(d)
         \/ \E ok \in BOOLEAN : DispatchSubscribe(d, ok)
    \/ \E m \in channel : Receive(m)
    \/ \E n \in Nodes, count \in 0..Len(Enrolled) : InsertMany(n, count)
    \/ DeliverBulk
    \/ \E n \in Nodes : Restart(n)
    \/ RedisGoes \/ RedisComes

Spec == Init /\ [][Next]_noteVars

-----------------------------------------------------------------------------
Times(s, k) == written[s][k]

Larger(a, b) == IF a > b THEN a ELSE b

\* A stream carries what is for its user, and that once for each subscription of
\* its server; twice, if a publication that was made was reported as failed.
WrittenOnce ==
    \A s \in Streams : stream[s].state = "open" =>
      \A k \in DOMAIN notes : Times(s, k) > 0 =>
        /\ notes[k] = stream[s].user
        /\ Times(s, k) <= Larger(1, subscribed[stream[s].node]) + (IF k \in doubled THEN 1 ELSE 0)

\* Every stream that is open on a subscribed server when a notification is published
\* gets it, unless the stream closes or Redis goes away first.
OwedArrives ==
    \A d \in due : \/ Times(d[1], d[2]) > 0
                   \/ \E m \in channel : m.note = d[2] /\ m.node = stream[d[1]].node

\* A run of the bulk job adds at most one notification for a student, and all of
\* them when it gets through.
Bulked ==
    LET bulk == Cardinality(Recipients) IN
    job.pc \in {"deliver", "done"} =>
      /\ job.whole \in 1..job.runs
      /\ \A u \in Recipients :
           Cardinality({k \in job.first..job.first + bulk - 1 : notes[k] = u}) = 1

NotificationsSound == WrittenOnce /\ OwedArrives /\ Bulked

\* A stream carries a notification once.  Not kept, see README.
OncePerStream == \A s \in Streams, k \in DOMAIN notes : Times(s, k) <= 1

\* The bulk job notifies a student once.  Not kept, see README.
OncePerStudent == job.whole <= 1
=============================================================================
