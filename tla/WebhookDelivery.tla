-------------------------- MODULE WebhookDelivery --------------------------
(***************************************************************************)
(* Outbound webhooks: services/webhooks/deliveryWorker.js over              *)
(* WebhookDelivery and WebhookEndpoint, with webhookService.emitEvent and   *)
(* the management API of webhookController.js.                              *)
(*                                                                         *)
(* Each loop captures `now` once per drain and claims due deliveries one    *)
(* after the other; a claim sets nextAttemptAt to that `now` plus a lock    *)
(* window.  Times are relative: wait[d] is what is left until               *)
(* nextAttemptAt, and a loop's age is the time since it captured `now`.     *)
(***************************************************************************)
EXTENDS Integers, FiniteSets

CONSTANTS
    Deliveries,      \* of one endpoint; endpoints share nothing but the loops
    Workers,         \* the delivery loops, one per process
    MaxPerTick,      \* deliveries per drain (50 in the code)
    MaxAttempts,     \* 6 in the code
    DisableAfter,    \* consecutive dead deliveries (5 in the code)
    LockTime, PostTime, Backoff,   \* 30 s, 10 s, and one minute or more
    MaxEvents,       \* bound: crashes, and requests to the management API
    None

ASSUME NumberAssumption ==
    /\ MaxPerTick \in Nat \ {0} /\ MaxAttempts \in Nat \ {0} /\ DisableAfter \in Nat
    /\ LockTime \in Nat /\ PostTime \in Nat /\ Backoff \in Nat /\ MaxEvents \in Nat
ASSUME NoneAssumption == None \notin Deliveries

VARIABLES
    delivery,     \* WebhookDelivery documents: status, attemptCount
    wait,         \* time left until each nextAttemptAt
    endpoint,     \* the WebhookEndpoint document
    worker,       \* the loops
    redelivering, \* redeliver requests that have passed their check
    patching,     \* PATCH requests and the endpoint they loaded
    redelivered,  \* deliveries a redelivery was ever asked for
    events        \* counts them, see MaxEvents

vars == <<delivery, wait, endpoint, worker, redelivering, patching, redelivered,
          events>>

\* The longest a drain may take; older due times need not be told apart.
MaxAge == MaxPerTick * PostTime

Idle == [pc |-> "idle", age |-> 0, done |-> 0, on |-> None, attempt |-> 0, posting |-> 0]

\* Mutant: failed deliveries are not looked for.
MutDue(d, w) == delivery[d].status = "pending" /\ wait[d] <= -worker[w].age

Due(d, w) ==
    /\ delivery[d].status \in {"pending", "retrying"}
    /\ wait[d] <= -worker[w].age

Event == events < MaxEvents /\ events' = events + 1

At(w, pc) == worker[w].pc = pc

Go(w, pc) == worker' = [worker EXCEPT ![w].pc = pc]

\* The next delivery of the drain.
Continue(w) ==
    worker' = [worker EXCEPT ![w] = [@ EXCEPT !.pc = "draining", !.on = None,
                                              !.attempt = 0, !.posting = 0]]

SetStatus(d, status) == delivery' = [delivery EXCEPT ![d].status = status]

-----------------------------------------------------------------------------
(* emitEvent and the management API *)

Emit(d) ==
    /\ delivery[d].status = "none" /\ endpoint.active
    /\ delivery' = [delivery EXCEPT ![d] = [status |-> "pending", count |-> 0]]
    /\ wait' = [wait EXCEPT ![d] = 0]
    /\ UNCHANGED <<endpoint, worker, redelivering, patching, redelivered, events>>

\* A ping is queued whether or not the endpoint is active.
Ping(d) ==
    /\ Event /\ delivery[d].status = "none"
    /\ delivery' = [delivery EXCEPT ![d] = [status |-> "pending", count |-> 0]]
    /\ wait' = [wait EXCEPT ![d] = 0]
    /\ UNCHANGED <<endpoint, worker, redelivering, patching, redelivered>>

\* redeliver: the status is checked first and set later, unconditionally.
OpenRedeliver(d) ==
    /\ Event /\ d \notin redelivering
    /\ delivery[d].status \notin {"none", "delivered"}
    /\ redelivering' = redelivering \cup {d}
    /\ redelivered' = redelivered \cup {d}
    /\ UNCHANGED <<delivery, wait, endpoint, worker, patching>>

CommitRedeliver(d) ==
    /\ d \in redelivering
    /\ redelivering' = redelivering \ {d}
    /\ SetStatus(d, "pending") /\ wait' = [wait EXCEPT ![d] = 0]
    /\ UNCHANGED <<endpoint, worker, patching, redelivered, events>>

\* PATCH: load, then save the fields that differ from what was loaded.
\* Switching an endpoint on clears its failures.
OpenPatch(to) ==
    /\ Event /\ patching = None
    /\ patching' = [to |-> to, seen |-> endpoint]
    /\ UNCHANGED <<delivery, wait, endpoint, worker, redelivering, redelivered>>

SavePatch ==
    LET to == patching.to  seen == patching.seen IN
    /\ patching # None
    /\ endpoint' = [endpoint EXCEPT !.active = IF seen.active # to THEN to ELSE @,
                                    !.failures = IF to /\ seen.failures # 0 THEN 0 ELSE @,
                                    !.auto = @ /\ ~(to /\ seen.auto)]
    /\ patching' = None
    /\ UNCHANGED <<delivery, wait, worker, redelivering, redelivered, events>>

-----------------------------------------------------------------------------
(* The loop *)

StartDrain(w) ==
    /\ At(w, "idle") /\ \E d \in Deliveries : Due(d, w)
    /\ Go(w, "draining")
    /\ UNCHANGED <<delivery, wait, endpoint, redelivering, patching, redelivered, events>>

EndDrain(w) ==
    /\ At(w, "draining")
    /\ worker[w].done = MaxPerTick \/ \A d \in Deliveries : ~Due(d, w)
    /\ worker' = [worker EXCEPT ![w] = Idle]
    /\ UNCHANGED <<delivery, wait, endpoint, redelivering, patching, redelivered, events>>

\* Mutant: the claim takes no lock.
MutClaim(w, d) ==
    /\ At(w, "draining") /\ worker[w].done < MaxPerTick /\ Due(d, w)
    /\ delivery' = [delivery EXCEPT ![d] = [status |-> "retrying", count |-> @.count + 1]]
    /\ worker' = [worker EXCEPT ![w] = [@ EXCEPT !.pc = "claimed", !.on = d,
                  !.done = worker[w].done + 1, !.attempt = delivery[d].count + 1]]
    /\ UNCHANGED <<wait, endpoint, redelivering, patching, redelivered, events>>

\* claimNextDelivery: the earliest due one, locked from the drain's own `now`.
Claim(w, d) ==
    /\ At(w, "draining") /\ worker[w].done < MaxPerTick
    /\ Due(d, w) /\ \A o \in Deliveries : Due(o, w) => wait[d] <= wait[o]
    /\ delivery' = [delivery EXCEPT ![d] = [status |-> "retrying", count |-> @.count + 1]]
    /\ wait' = [wait EXCEPT ![d] = LockTime - worker[w].age]
    /\ worker' = [worker EXCEPT ![w] = [@ EXCEPT !.pc = "claimed", !.on = d,
                  !.done = worker[w].done + 1, !.attempt = delivery[d].count + 1]]
    /\ UNCHANGED <<endpoint, redelivering, patching, redelivered, events>>

\* The endpoint is missing or inactive: dead at once.
Abandon(w) ==
    /\ At(w, "claimed") /\ ~endpoint.active
    /\ SetStatus(worker[w].on, "dead") /\ Continue(w)
    /\ UNCHANGED <<wait, endpoint, redelivering, patching, redelivered, events>>

StartPost(w) ==
    /\ At(w, "claimed") /\ endpoint.active
    /\ Go(w, "posting")
    /\ UNCHANGED <<delivery, wait, endpoint, redelivering, patching, redelivered, events>>

\* The URL guard or the secret fails: no POST.
Blocked(w) ==
    /\ At(w, "claimed") /\ endpoint.active
    /\ Go(w, "failing")
    /\ UNCHANGED <<delivery, wait, endpoint, redelivering, patching, redelivered, events>>

Accept(w) ==
    /\ At(w, "posting")
    /\ Go(w, "delivered")
    /\ UNCHANGED <<delivery, wait, endpoint, redelivering, patching, redelivered, events>>

\* Another status, or no answer in time; the consumer may have handled it.
Reject(w) ==
    /\ At(w, "posting") /\ Go(w, "failing")
    /\ UNCHANGED <<delivery, wait, endpoint, redelivering, patching, redelivered, events>>

SaveDelivered(w) ==
    /\ At(w, "delivered")
    /\ SetStatus(worker[w].on, "delivered") /\ Go(w, "succeeded")
    /\ UNCHANGED <<wait, endpoint, redelivering, patching, redelivered, events>>

RecordSuccess(w) ==
    /\ At(w, "succeeded")
    /\ endpoint' = [endpoint EXCEPT !.failures = 0]
    /\ Continue(w)
    /\ UNCHANGED <<delivery, wait, redelivering, patching, redelivered, events>>

\* finalizeFailure with attempts left: the status it sets is the one it loaded,
\* so save() writes only the time of the next attempt.
RetryLater(w) ==
    /\ At(w, "failing") /\ worker[w].attempt < MaxAttempts
    /\ wait' = [wait EXCEPT ![worker[w].on] = Backoff - worker[w].age]
    /\ Continue(w)
    /\ UNCHANGED <<delivery, endpoint, redelivering, patching, redelivered, events>>

\* finalizeFailure on the last attempt.
MarkDead(w) ==
    /\ At(w, "failing") /\ worker[w].attempt >= MaxAttempts
    /\ SetStatus(worker[w].on, "dead") /\ Go(w, "died")
    /\ UNCHANGED <<wait, endpoint, redelivering, patching, redelivered, events>>

\* recordDeadOnEndpoint: count, and look at the document that comes back.
RecordDead(w) ==
    /\ At(w, "died")
    /\ endpoint' = [endpoint EXCEPT !.failures = @ + 1]
    /\ IF endpoint.active /\ endpoint.failures + 1 >= DisableAfter
       THEN Go(w, "disabling") ELSE Continue(w)
    /\ UNCHANGED <<delivery, wait, redelivering, patching, redelivered, events>>

Disable(w) ==
    /\ At(w, "disabling")
    /\ endpoint' = [endpoint EXCEPT !.active = FALSE, !.auto = TRUE]
    /\ Continue(w)
    /\ UNCHANGED <<delivery, wait, redelivering, patching, redelivered, events>>

\* The process dies and is started again.
Crash(w) ==
    /\ Event /\ worker[w].on # None
    /\ worker' = [worker EXCEPT ![w] = Idle]
    /\ UNCHANGED <<delivery, wait, endpoint, redelivering, patching, redelivered>>

\* Time passes while loops sleep or wait for an answer, which takes at most
\* PostTime; everything else is quick against it.
Older(t) == IF t > -MaxAge THEN t - 1 ELSE t

Tick ==
    /\ \A w \in Workers :
         At(w, "idle") \/ (At(w, "posting") /\ worker[w].posting < PostTime)
    /\ wait' = [d \in Deliveries |-> Older(wait[d])]
    /\ worker' = [w \in Workers |->
         IF At(w, "idle") THEN worker[w]
         ELSE [worker[w] EXCEPT !.age = @ + 1, !.posting = @ + 1]]
    /\ UNCHANGED <<delivery, endpoint, redelivering, patching, redelivered, events>>

-----------------------------------------------------------------------------
\* A delivery that does not exist yet has no due time.
Init ==
    /\ delivery = [d \in Deliveries |-> [status |-> "none", count |-> 0]]
    /\ wait = [d \in Deliveries |-> -MaxAge]
    /\ endpoint = [active |-> TRUE, failures |-> 0, auto |-> FALSE]
    /\ worker = [w \in Workers |-> Idle]
    /\ patching = None
    /\ redelivering = {} /\ redelivered = {} /\ events = 0

Handle(w) ==
    \/ Abandon(w) \/ StartPost(w) \/ Blocked(w) \/ Accept(w) \/ Reject(w)
    \/ SaveDelivered(w) \/ RecordSuccess(w)
    \/ RetryLater(w) \/ MarkDead(w) \/ RecordDead(w) \/ Disable(w)

Loop(w) == StartDrain(w) \/ EndDrain(w) \/ (\E d \in Deliveries : Claim(w, d)) \/ Handle(w)

Next ==
    \/ \E d \in Deliveries : Emit(d) \/ Ping(d) \/ OpenRedeliver(d) \/ CommitRedeliver(d)
    \/ SavePatch \/ \E to \in BOOLEAN : OpenPatch(to)
    \/ \E w \in Workers : Loop(w) \/ Crash(w)
    \/ Tick

Spec == Init /\ [][Next]_vars

\* The loops run and time passes; what an endpoint answers stays open.
Fairness == WF_vars(Tick) /\ \A w \in Workers : WF_vars(Loop(w))

FairSpec == Spec /\ Fairness

-----------------------------------------------------------------------------
TypeOK ==
    /\ delivery \in [Deliveries -> [status : {"none", "pending", "retrying", "delivered", "dead"},
                                    count : Nat]]
    /\ wait \in [Deliveries -> -MaxAge .. (LockTime + Backoff)]
    /\ endpoint \in [active : BOOLEAN, failures : Nat, auto : BOOLEAN]
    /\ worker \in [Workers -> [pc : {"idle", "draining", "claimed", "posting", "delivered",
                                     "succeeded", "failing", "died", "disabling"},
                               age : 0..MaxAge, done : 0..MaxPerTick,
                               on : Deliveries \cup {None}, attempt : Nat, posting : 0..PostTime]]
    /\ patching \in {None} \cup
         [to : BOOLEAN, seen : [active : BOOLEAN, failures : Nat, auto : BOOLEAN]]
    /\ redelivering \subseteq Deliveries
    /\ redelivered \subseteq Deliveries /\ events \in 0..MaxEvents

\* docs/webhooks.md: claims are atomic "so multiple loops/instances never
\* double-send the same row": unless a redelivery was asked for, a delivery has one
\* loop at work at a time.
OneSender == \A v, w \in Workers :
    worker[v].on # None /\ worker[v].on = worker[w].on => v = w \/ worker[v].on \in redelivered

\* A delivery that succeeded stays so, unless a redelivery was asked for before.
DeliveredIsFinal ==
    [][\A d \in Deliveries \ redelivered :
         delivery[d].status = "delivered" => delivery'[d] = delivery[d]]_vars

\* Every emitted delivery is delivered or dead in the end.
EmittedResolves ==
    \A d \in Deliveries :
        delivery[d].status # "none" ~> delivery[d].status \in {"delivered", "dead"}

\* redeliver answers "Delivery already succeeded; nothing to redeliver", with or
\* without other requests.  The code does not keep it, see README.
NeverRequeued ==
    [][\A d \in Deliveries : delivery[d].status = "delivered" =>
         delivery'[d].status # "pending"]_vars
=============================================================================
