-------------------------- MODULE OutgoingProofs ---------------------------
(***************************************************************************)
(* What the backend sends out of its own accord, proved for every value of *)
(* the constants.  Webhook deliveries: any number of deliveries, loops,    *)
(* crashes and requests to the management API.  The cycles of a pledge:    *)
(* any number of cycles, schedulers, requests and lost processes.  Payouts: *)
(* any number of educators, batches, submissions and sales.                *)
(***************************************************************************)
EXTENDS WebhookDelivery, Pledges, Payouts, Sums

-----------------------------------------------------------------------------
(***************************************************************************)
(* Types.  A drain cannot take longer than its deliveries: a loop's age is *)
(* bounded by the answers it waited for.                                   *)
(***************************************************************************)
Phases == {"claimed", "posting", "delivered", "succeeded", "failing", "died", "disabling"}

WorkerRecord == [pc : {"idle", "draining"} \cup Phases,
                 age : 0..MaxAge, done : 0..MaxPerTick,
                 on : Deliveries \cup {None}, attempt : Nat, posting : 0..PostTime]

\* Before a claim no answer was waited for; a loop's earlier deliveries took at most
\* PostTime each.
AgeAt(r) ==
    /\ r.pc \in {"idle", "draining"} =>
          r.on = None /\ r.posting = 0 /\ r.age <= r.done * PostTime
    /\ r.pc \in Phases =>
          r.on \in Deliveries /\ r.age + PostTime <= r.done * PostTime + r.posting
    /\ r.pc \in {"idle", "claimed"} => r.posting = 0
    /\ r.pc = "idle" => r.age = 0

AgeOK == \A w \in Workers : AgeAt(worker[w])

TInv == TypeOK /\ AgeOK

LEMMA NextClaim ==
  ASSUME NEW n \in Nat, NEW m \in Nat, n < m
  PROVE  /\ (n + 1) * PostTime = n * PostTime + PostTime
         /\ n * PostTime \in Nat
         /\ n * PostTime + PostTime <= m * PostTime
<1> USE NumberAssumption
<1>1. (n + 1) * PostTime = n * PostTime + PostTime OBVIOUS
<1>2. PICK k \in Nat : m = n + 1 + k
  <2>1. m - (n + 1) \in Nat /\ m = n + 1 + (m - (n + 1)) OBVIOUS
  <2> QED BY <2>1
<1>3. m * PostTime = n * PostTime + PostTime + k * PostTime BY <1>2
<1>4. k * PostTime \in Nat /\ n * PostTime \in Nat OBVIOUS
<1> QED BY <1>1, <1>3, <1>4

LEMMA AgeNat == MaxAge \in Nat /\ \A n \in 0..MaxPerTick : n * PostTime \in 0..MaxAge
<1> USE NumberAssumption
<1>1. MaxAge \in Nat BY DEF MaxAge
<1>2. ASSUME NEW n \in 0..MaxPerTick PROVE n * PostTime \in 0..MaxAge
  <2>1. CASE n = MaxPerTick BY <1>1, <2>1 DEF MaxAge
  <2>2. CASE n < MaxPerTick BY <2>2, NextClaim DEF MaxAge
  <2> QED BY <2>1, <2>2
<1> QED BY <1>1, <1>2

LEMMA InitTInv == Init => TInv
<1> SUFFICES ASSUME Init PROVE TInv OBVIOUS
<1> USE NumberAssumption, AgeNat
<1>1. Idle \in WorkerRecord BY DEF Idle, WorkerRecord
<1>2. TypeOK BY <1>1 DEF Init, TypeOK, WorkerRecord, Phases
<1>3. AgeOK BY DEF Init, AgeOK, AgeAt, Idle, Phases
<1> QED BY <1>2, <1>3 DEF TInv

\* The records a loop's steps write.
LEMMA WorkerUpdate ==
  ASSUME NEW r \in WorkerRecord, AgeAt(r)
  PROVE  /\ Idle \in WorkerRecord /\ AgeAt(Idle)
         /\ \A pc \in Phases \ {"claimed"} : r.pc \in Phases =>
               [r EXCEPT !.pc = pc] \in WorkerRecord /\ AgeAt([r EXCEPT !.pc = pc])
         /\ r.pc \in {"idle", "draining"} =>
               [r EXCEPT !.pc = "draining"] \in WorkerRecord /\ AgeAt([r EXCEPT !.pc = "draining"])
         /\ r.pc \in Phases =>
               /\ [r EXCEPT !.pc = "draining", !.on = None, !.attempt = 0, !.posting = 0]
                     \in WorkerRecord
               /\ AgeAt([r EXCEPT !.pc = "draining", !.on = None, !.attempt = 0, !.posting = 0])
<1> USE NumberAssumption, AgeNat DEF WorkerRecord, Phases
<1>1. Idle \in WorkerRecord /\ AgeAt(Idle) BY DEF Idle, AgeAt
<1>2. ASSUME NEW pc \in Phases \ {"claimed"}, r.pc \in Phases
      PROVE  [r EXCEPT !.pc = pc] \in WorkerRecord /\ AgeAt([r EXCEPT !.pc = pc])
  BY <1>2 DEF AgeAt
<1>3. ASSUME r.pc \in {"idle", "draining"}
      PROVE  /\ [r EXCEPT !.pc = "draining"] \in WorkerRecord
             /\ AgeAt([r EXCEPT !.pc = "draining"])
  BY <1>3 DEF AgeAt
<1>4. ASSUME r.pc \in Phases
      PROVE  /\ [r EXCEPT !.pc = "draining", !.on = None, !.attempt = 0, !.posting = 0]
                   \in WorkerRecord
             /\ AgeAt([r EXCEPT !.pc = "draining", !.on = None, !.attempt = 0, !.posting = 0])
  <2>1. [r EXCEPT !.pc = "draining", !.on = None, !.attempt = 0, !.posting = 0] \in WorkerRecord
    <3> DEFINE S == {"idle", "draining"} \cup Phases
               P == 0..PostTime
    <3>1. r \in [pc : S, age : 0..MaxAge, done : 0..MaxPerTick, on : Deliveries \cup {None},
                 attempt : Nat, posting : P]
      OBVIOUS
    <3>2. "draining" \in S /\ 0 \in P /\ 0 \in Nat OBVIOUS
    <3> HIDE DEF S, P
    <3>3. [r EXCEPT !.pc = "draining", !.on = None, !.attempt = 0, !.posting = 0]
            \in [pc : S, age : 0..MaxAge, done : 0..MaxPerTick, on : Deliveries \cup {None},
                 attempt : Nat, posting : P]
      BY <3>1, <3>2, Zenon
    <3> QED BY <3>3 DEF S, P
  <2>2. r.age <= r.done * PostTime
    <3>1. r.age + PostTime <= r.done * PostTime + r.posting BY <1>4 DEF AgeAt
    <3>2. r.done * PostTime \in Nat /\ r.posting \in 0..PostTime /\ r.age \in Nat OBVIOUS
    <3> QED BY <3>1, <3>2
  <2> QED BY <2>1, <2>2 DEF AgeAt
<1> QED BY <1>1, <1>2, <1>3, <1>4

LEMMA LoopUpdate ==
  ASSUME TInv, NEW w \in Workers, NEW r \in WorkerRecord, AgeAt(r),
         worker' = [worker EXCEPT ![w] = r]
  PROVE  worker' \in [Workers -> WorkerRecord] /\ AgeOK'
<1>1. worker \in [Workers -> WorkerRecord] BY DEF TInv, TypeOK, WorkerRecord, Phases
<1>2. worker' \in [Workers -> WorkerRecord] BY <1>1
<1>3. \A v \in Workers : worker'[v] = IF v = w THEN r ELSE worker[v] BY <1>1
<1>4. ASSUME NEW v \in Workers PROVE AgeAt(worker'[v]) BY <1>3 DEF TInv, AgeOK
<1>5. AgeOK' BY <1>4 DEF AgeOK, AgeAt
<1> QED BY <1>2, <1>5

\* A step of one loop that moves its program counter, or ends its delivery or its drain.
LEMMA GoType ==
  ASSUME TInv, NEW w \in Workers, NEW pc,
         \/ Go(w, pc) /\ worker[w].pc \in Phases /\ pc \in Phases \ {"claimed"}
         \/ Go(w, pc) /\ worker[w].pc \in {"idle", "draining"} /\ pc = "draining"
         \/ Continue(w) /\ worker[w].pc \in Phases
         \/ worker' = [worker EXCEPT ![w] = Idle]
  PROVE  worker' \in [Workers -> WorkerRecord] /\ AgeOK'
<1> DEFINE r == worker[w]
<1>1. worker \in [Workers -> WorkerRecord] /\ r \in WorkerRecord /\ AgeAt(r)
  BY DEF TInv, TypeOK, AgeOK, WorkerRecord, Phases
<1>2. CASE Go(w, pc) /\ worker[w].pc \in Phases /\ pc \in Phases \ {"claimed"}
  <2>1. worker' = [worker EXCEPT ![w] = [r EXCEPT !.pc = pc]] BY <1>1, <1>2 DEF Go
  <2> HIDE DEF r
  <2> QED BY <1>1, <1>2, <2>1, WorkerUpdate, LoopUpdate DEF r
<1>3. CASE Go(w, pc) /\ worker[w].pc \in {"idle", "draining"} /\ pc = "draining"
  <2>1. worker' = [worker EXCEPT ![w] = [r EXCEPT !.pc = "draining"]] BY <1>1, <1>3 DEF Go
  <2> QED BY <1>1, <1>3, <2>1, WorkerUpdate, LoopUpdate
<1>4. CASE Continue(w) /\ worker[w].pc \in Phases
  <2>1. worker' = [worker EXCEPT ![w] =
          [r EXCEPT !.pc = "draining", !.on = None, !.attempt = 0, !.posting = 0]]
    BY <1>1, <1>4 DEF Continue
  <2> QED BY <1>1, <1>4, <2>1, WorkerUpdate, LoopUpdate
<1>5. CASE worker' = [worker EXCEPT ![w] = Idle]
  BY <1>1, <1>5, WorkerUpdate, LoopUpdate
<1> QED BY <1>2, <1>3, <1>4, <1>5
-----------------------------------------------------------------------------
(* The steps keep the types. *)

DeliveryRecord == [status : {"none", "pending", "retrying", "delivered", "dead"}, count : Nat]

EndpointRecord == [active : BOOLEAN, failures : Nat, auto : BOOLEAN]

LEMMA ApiType ==
  ASSUME TInv,
         \/ \E d \in Deliveries : Emit(d) \/ Ping(d) \/ OpenRedeliver(d) \/ CommitRedeliver(d)
         \/ SavePatch \/ \E to \in BOOLEAN : OpenPatch(to)
  PROVE  TInv'
<1> USE NumberAssumption, AgeNat DEF TInv, TypeOK
<1>1. worker' = worker
  BY DEF Emit, Ping, OpenRedeliver, CommitRedeliver, SavePatch, OpenPatch
<1>2. AgeOK' BY <1>1 DEF AgeOK, AgeAt
<1>3. 0 \in -MaxAge .. (LockTime + Backoff) OBVIOUS
<1>4. CASE \E d \in Deliveries : Emit(d) \/ Ping(d)
  BY <1>1, <1>2, <1>3, <1>4 DEF Emit, Ping, Event
<1>5. CASE \E d \in Deliveries : OpenRedeliver(d)
  BY <1>1, <1>2, <1>5 DEF OpenRedeliver, Event
<1>6. CASE \E d \in Deliveries : CommitRedeliver(d)
  BY <1>1, <1>2, <1>3, <1>6 DEF CommitRedeliver, SetStatus
<1>7. CASE SavePatch
  <2>1. endpoint' \in EndpointRecord
    BY <1>7 DEF SavePatch, EndpointRecord
  <2> QED BY <1>1, <1>2, <1>7, <2>1 DEF SavePatch, EndpointRecord
<1>8. CASE \E to \in BOOLEAN : OpenPatch(to)
  BY <1>1, <1>2, <1>8 DEF OpenPatch, Event
<1> QED BY <1>4, <1>5, <1>6, <1>7, <1>8

LEMMA ClaimType ==
  ASSUME TInv, NEW w \in Workers, NEW d \in Deliveries, Claim(w, d)
  PROVE  TInv'
<1> DEFINE r == worker[w]
           q == [r EXCEPT !.pc = "claimed", !.on = d, !.done = r.done + 1,
                          !.attempt = delivery[d].count + 1]
<1>1. r \in WorkerRecord /\ AgeAt(r) BY DEF TInv, TypeOK, AgeOK, WorkerRecord, Phases
<1>2. r.pc = "draining" /\ r.done \in 0..MaxPerTick /\ r.done < MaxPerTick
  BY <1>1 DEF Claim, At, WorkerRecord
<1>3. r.posting = 0 /\ r.age <= r.done * PostTime BY <1>1, <1>2 DEF AgeAt
<1>4. delivery[d].count \in Nat BY DEF TInv, TypeOK
<1>5. r.done + 1 \in 0..MaxPerTick /\ delivery[d].count + 1 \in Nat
  BY <1>2, <1>4, NumberAssumption
<1>6. q \in WorkerRecord
  <2> DEFINE D == 0..MaxPerTick
  <2>1. r.done + 1 \in D BY <1>5
  <2>2. "claimed" \in {"idle", "draining"} \cup Phases BY DEF Phases
  <2>3. delivery[d].count + 1 \in Nat BY <1>5
  <2>4. r \in [pc : {"idle", "draining"} \cup Phases, age : 0..MaxAge, done : D,
               on : Deliveries \cup {None}, attempt : Nat, posting : 0..PostTime]
    BY <1>1 DEF WorkerRecord
  <2> HIDE DEF r, D
  <2>5. q \in [pc : {"idle", "draining"} \cup Phases, age : 0..MaxAge, done : D,
               on : Deliveries \cup {None}, attempt : Nat, posting : 0..PostTime]
    BY <2>1, <2>2, <2>3, <2>4, Zenon
  <2> QED BY <2>5 DEF D, WorkerRecord
<1>7. /\ q.pc = "claimed" /\ q.on = d /\ q.done = r.done + 1 /\ q.posting = 0
      /\ q.age = r.age
  BY <1>1, <1>3 DEF WorkerRecord
<1>8. AgeAt(q)
  <2>1. (r.done + 1) * PostTime = r.done * PostTime + PostTime BY <1>2, NextClaim, NumberAssumption
  <2>2. r.age \in Nat /\ r.done * PostTime \in Nat
    BY <1>1, <1>2, AgeNat, NumberAssumption DEF WorkerRecord
  <2> HIDE DEF q, r
  <2>3. q.age + PostTime <= q.done * PostTime + q.posting
    BY <1>3, <1>7, <2>1, <2>2, NumberAssumption
  <2> QED BY <1>7, <2>3 DEF AgeAt, Phases
<1>9. worker' = [worker EXCEPT ![w] = q] BY Zenon DEF Claim
<1>10. worker' \in [Workers -> WorkerRecord] /\ AgeOK'
  <2> HIDE DEF q
  <2> QED BY <1>6, <1>8, <1>9, LoopUpdate
<1>11. wait' \in [Deliveries -> -MaxAge .. (LockTime + Backoff)]
  <2>1. LockTime - r.age \in -MaxAge .. (LockTime + Backoff)
    BY <1>1, AgeNat, NumberAssumption DEF WorkerRecord
  <2> QED BY <2>1 DEF Claim, TInv, TypeOK
<1>12. delivery' \in [Deliveries -> DeliveryRecord]
  BY <1>4 DEF Claim, TInv, TypeOK, DeliveryRecord
<1> QED BY <1>10, <1>11, <1>12
        DEF TInv, TypeOK, Claim, WorkerRecord, Phases, DeliveryRecord

LEMMA LoopType ==
  ASSUME TInv, NEW w \in Workers, Loop(w) \/ Crash(w)
  PROVE  TInv'
<1> USE NumberAssumption
<1> DEFINE r == worker[w]
<1>1. r \in WorkerRecord /\ AgeAt(r) BY DEF TInv, TypeOK, AgeOK, WorkerRecord, Phases
<1>2. CASE \E d \in Deliveries : Claim(w, d) BY <1>2, ClaimType
<1>3. CASE StartDrain(w) \/ EndDrain(w) \/ Crash(w)
  <2>1. worker' \in [Workers -> WorkerRecord] /\ AgeOK'
    BY <1>3, GoType DEF StartDrain, EndDrain, Crash, At
  <2> QED BY <1>3, <2>1
          DEF TInv, TypeOK, StartDrain, EndDrain, Crash, Event, WorkerRecord, Phases
<1>4. CASE Handle(w)
  <2>1. r.pc \in Phases BY <1>4 DEF Handle, Abandon, StartPost, Blocked, Accept, Reject,
          SaveDelivered, RecordSuccess, RetryLater, MarkDead, RecordDead, Disable, At, Phases
  <2>2. r.on \in Deliveries /\ r.age \in 0..MaxAge BY <1>1, <2>1 DEF AgeAt, WorkerRecord
  <2>3. worker' \in [Workers -> WorkerRecord] /\ AgeOK'
    <3>1. Continue(w) \/ \E pc \in Phases \ {"claimed"} : Go(w, pc)
      BY <1>4 DEF Handle, Abandon, StartPost, Blocked, Accept, Reject,
          SaveDelivered, RecordSuccess, RetryLater, MarkDead, RecordDead, Disable, Phases
    <3> QED BY <2>1, <3>1, GoType
  <2>4. delivery' \in [Deliveries -> DeliveryRecord]
    <3>1. \/ \E st \in {"delivered", "dead"} : SetStatus(r.on, st)
          \/ UNCHANGED delivery
      BY <1>4 DEF Handle, Abandon, StartPost, Blocked, Accept, Reject,
          SaveDelivered, RecordSuccess, RetryLater, MarkDead, RecordDead, Disable
    <3> QED BY <2>2, <3>1 DEF TInv, TypeOK, SetStatus, DeliveryRecord
  <2>5. wait' \in [Deliveries -> -MaxAge .. (LockTime + Backoff)]
    <3>1. Backoff - r.age \in -MaxAge .. (LockTime + Backoff) BY <2>2, AgeNat
    <3> QED BY <1>4, <2>2, <3>1 DEF TInv, TypeOK, Handle, Abandon, StartPost, Blocked, Accept,
          Reject, SaveDelivered, RecordSuccess, RetryLater, MarkDead, RecordDead, Disable
  <2>6. endpoint' \in EndpointRecord
    <3>1. \/ endpoint' = [endpoint EXCEPT !.failures = 0]
          \/ endpoint' = [endpoint EXCEPT !.failures = @ + 1]
          \/ endpoint' = [endpoint EXCEPT !.active = FALSE, !.auto = TRUE]
          \/ UNCHANGED endpoint
      BY <1>4 DEF Handle, Abandon, StartPost, Blocked, Accept, Reject,
          SaveDelivered, RecordSuccess, RetryLater, MarkDead, RecordDead, Disable
    <3>2. endpoint \in EndpointRecord BY DEF TInv, TypeOK, EndpointRecord
    <3>3. endpoint.failures + 1 \in Nat /\ 0 \in Nat BY <3>2 DEF EndpointRecord
    <3>4. TRUE \in BOOLEAN /\ FALSE \in BOOLEAN OBVIOUS
    <3> QED BY <3>1, <3>2, <3>3, <3>4, Zenon DEF EndpointRecord
  <2>7. UNCHANGED <<redelivering, patching, redelivered, events>>
    BY <1>4 DEF Handle, Abandon, StartPost, Blocked, Accept, Reject,
          SaveDelivered, RecordSuccess, RetryLater, MarkDead, RecordDead, Disable
  <2> QED BY <2>3, <2>4, <2>5, <2>6, <2>7
          DEF TInv, TypeOK, WorkerRecord, Phases, DeliveryRecord, EndpointRecord
<1> QED BY <1>2, <1>3, <1>4 DEF Loop

\* Time passes for a loop only while it waits for an answer, PostTime at most.
LEMMA TickType == ASSUME TInv, Tick PROVE TInv'
<1> USE NumberAssumption, AgeNat
<1>1. worker \in [Workers -> WorkerRecord] BY DEF TInv, TypeOK, WorkerRecord, Phases
<1>2. wait' \in [Deliveries -> -MaxAge .. (LockTime + Backoff)]
  <2>1. \A n \in -MaxAge .. (LockTime + Backoff) : Older(n) \in -MaxAge .. (LockTime + Backoff)
    BY DEF Older
  <2>2. \A d \in Deliveries : wait[d] \in -MaxAge .. (LockTime + Backoff) BY DEF TInv, TypeOK
  <2> QED BY <2>1, <2>2 DEF Tick
<1>3. ASSUME NEW w \in Workers PROVE worker'[w] \in WorkerRecord /\ AgeAt(worker'[w])
  <2> DEFINE r == worker[w]
  <2>1. r \in WorkerRecord /\ AgeAt(r) BY <1>1 DEF TInv, AgeOK
  <2>2. CASE At(w, "idle") BY <2>1, <2>2 DEF Tick
  <2>3. CASE ~At(w, "idle")
    <3> DEFINE q == [r EXCEPT !.age = @ + 1, !.posting = @ + 1]
    <3>1. r.pc = "posting" /\ r.posting < PostTime BY <2>3 DEF Tick, At
    <3>2. r.on \in Deliveries /\ r.age + PostTime <= r.done * PostTime + r.posting
      BY <2>1, <3>1 DEF AgeAt, Phases
    <3>3. r.age \in Nat /\ r.posting \in Nat /\ r.done * PostTime \in 0..MaxAge
      <4>1. r.age \in 0..MaxAge /\ r.posting \in 0..PostTime /\ r.done \in 0..MaxPerTick
        BY <2>1 DEF WorkerRecord
      <4> QED BY <4>1
    <3>4. r.age + 1 \in 0..MaxAge /\ r.posting + 1 \in 0..PostTime
          /\ r.age + 1 + PostTime <= r.done * PostTime + (r.posting + 1)
      BY <3>1, <3>2, <3>3
    <3>5. /\ q \in WorkerRecord
          /\ q.pc = "posting" /\ q.on = r.on /\ q.done = r.done
          /\ q.age = r.age + 1 /\ q.posting = r.posting + 1
      <4> DEFINE A == 0..MaxAge
                 P == 0..PostTime
      <4>1. r \in [pc : {"idle", "draining"} \cup Phases, age : A, done : 0..MaxPerTick,
                   on : Deliveries \cup {None}, attempt : Nat, posting : P]
        BY <2>1 DEF WorkerRecord
      <4>2. r.age + 1 \in A /\ r.posting + 1 \in P BY <3>4
      <4> HIDE DEF A, P, r
      <4>3. /\ q \in [pc : {"idle", "draining"} \cup Phases, age : A, done : 0..MaxPerTick,
                      on : Deliveries \cup {None}, attempt : Nat, posting : P]
            /\ q.pc = r.pc /\ q.on = r.on /\ q.done = r.done
            /\ q.age = r.age + 1 /\ q.posting = r.posting + 1
        BY <4>1, <4>2, Zenon
      <4> QED BY <3>1, <4>3 DEF WorkerRecord, A, P
    <3>6. q \in WorkerRecord /\ AgeAt(q)
      <4> HIDE DEF q, r
      <4> QED BY <3>2, <3>4, <3>5 DEF AgeAt, Phases
    <3> QED BY <2>3, <3>6 DEF Tick
  <2> QED BY <2>2, <2>3
<1>4. worker' \in [Workers -> WorkerRecord] BY <1>3 DEF Tick
<1>5. AgeOK' BY <1>3 DEF AgeOK, AgeAt
<1> QED BY <1>2, <1>4, <1>5 DEF TInv, TypeOK, Tick, WorkerRecord, Phases

LEMMA StepTInv == TInv /\ [Next]_vars => TInv'
<1> SUFFICES ASSUME TInv, [Next]_vars PROVE TInv' OBVIOUS
<1>1. CASE UNCHANGED vars BY <1>1 DEF vars, TInv, TypeOK, AgeOK, AgeAt
<1> QED BY <1>1, ApiType, LoopType, TickType DEF Next

\* Every variable keeps its type; in particular no drain takes longer than its deliveries.
THEOREM TypeCorrect == Spec => []TypeOK
<1>1. TInv => TypeOK BY DEF TInv
<1> QED BY <1>1, InitTInv, StepTInv, PTL DEF Spec
-----------------------------------------------------------------------------
(***************************************************************************)
(* One sender.  A claim holds its delivery for LockTime from the time its  *)
(* drain began, so all of this is about drains that end in time: with 50   *)
(* deliveries per drain, 10 s for an answer and a lock of 30 s nothing in  *)
(* the code forces that, quick endpoints do.                               *)
(***************************************************************************)
InTime == \A w \in Workers : worker[w].age < LockTime

Works(w) == worker[w].on # None /\ worker[w].on \notin redelivered

\* What a loop works on is locked for exactly the rest of its own time, and is
\* "retrying" until the loop records the outcome.
Held == \A w \in Workers : Works(w) =>
    /\ wait[worker[w].on] = LockTime - worker[w].age
    /\ delivery[worker[w].on].status # "none"
    /\ worker[w].pc \in {"claimed", "posting", "delivered", "failing"} =>
          delivery[worker[w].on].status = "retrying"

HInv == TInv /\ Held /\ OneSender /\ redelivering \subseteq redelivered

\* What a step may do to a delivery that succeeded and was not asked for again: nothing.
FinalKept == \A d \in Deliveries \ redelivered :
    delivery[d].status = "delivered" => delivery'[d] = delivery[d]

LEMMA WorksOn ==
  ASSUME HInv, NEW w \in Workers, worker[w].on # None
  PROVE  worker[w].on \in Deliveries /\ worker[w].age \in Nat /\ worker[w].pc \in Phases
<1>1. worker[w] \in WorkerRecord /\ AgeAt(worker[w])
  BY DEF HInv, TInv, TypeOK, AgeOK, WorkerRecord, Phases
<1>2. worker[w].age \in Nat BY <1>1, AgeNat DEF WorkerRecord
<1>3. worker[w].pc \in Phases BY <1>1 DEF WorkerRecord, AgeAt
<1> QED BY <1>1, <1>2, <1>3, NoneAssumption DEF AgeAt

\* Where the loops keep what they work on, and it stays as it is, all of it is kept.
LEMMA HeldKept ==
  ASSUME HInv, TInv', redelivered \subseteq redelivered', redelivering' \subseteq redelivered',
         \A w \in Workers : worker'[w].on # None =>
            worker'[w].on = worker[w].on /\ worker'[w].age = worker[w].age,
         \A w \in Workers : Works(w)' =>
            /\ wait'[worker[w].on] = wait[worker[w].on]
            /\ delivery'[worker[w].on].status # "none"
            /\ worker'[w].pc \in {"claimed", "posting", "delivered", "failing"} =>
                  delivery'[worker[w].on].status = "retrying"
  PROVE  HInv'
<1>1. \A w \in Workers : Works(w)' => Works(w) BY DEF Works
<1>2. Held' BY <1>1 DEF HInv, Held, Works
<1>3. OneSender' BY DEF HInv, OneSender
<1> QED BY <1>2, <1>3 DEF HInv

LEMMA ApiHolds ==
  ASSUME HInv, TInv',
         \/ \E d \in Deliveries : Emit(d) \/ Ping(d) \/ OpenRedeliver(d) \/ CommitRedeliver(d)
         \/ SavePatch \/ \E to \in BOOLEAN : OpenPatch(to)
  PROVE  HInv' /\ FinalKept
<1>1. worker' = worker /\ redelivered \subseteq redelivered' /\ redelivering' \subseteq redelivered'
  BY DEF HInv, Emit, Ping, OpenRedeliver, CommitRedeliver, SavePatch, OpenPatch
<1>2. \A w \in Workers : Works(w)' => Works(w) /\ worker[w].on \in Deliveries
  BY <1>1, WorksOn DEF Works
<1>3. \A w \in Workers : Works(w) =>
        /\ delivery[worker[w].on].status # "none" /\ worker[w].on \notin redelivering
        /\ worker[w].pc \in {"claimed", "posting", "delivered", "failing"} =>
              delivery[worker[w].on].status = "retrying"
  BY DEF HInv, Held, Works
<1>4. CASE \E d \in Deliveries : Emit(d) \/ Ping(d)
  <2>1. PICK d \in Deliveries :
          /\ delivery[d].status = "none"
          /\ delivery' = [delivery EXCEPT ![d] = [status |-> "pending", count |-> 0]]
          /\ wait' = [wait EXCEPT ![d] = 0]
    BY <1>4 DEF Emit, Ping
  <2>2. \A o \in Deliveries : o # d => delivery'[o] = delivery[o] /\ wait'[o] = wait[o]
    BY <2>1 DEF HInv, TInv, TypeOK
  <2>3. HInv' BY <1>1, <1>2, <1>3, <2>1, <2>2, HeldKept
  <2>4. FinalKept BY <2>1, <2>2 DEF FinalKept
  <2> QED BY <2>3, <2>4
<1>5. CASE \E d \in Deliveries : CommitRedeliver(d)
  <2>1. PICK d \in redelivering : /\ delivery' = [delivery EXCEPT ![d].status = "pending"]
                                  /\ wait' = [wait EXCEPT ![d] = 0]
    BY <1>5 DEF CommitRedeliver, SetStatus
  <2>2. \A o \in Deliveries : o # d => delivery'[o] = delivery[o] /\ wait'[o] = wait[o]
    BY <2>1 DEF HInv, TInv, TypeOK
  <2>3. HInv' BY <1>1, <1>2, <1>3, <2>1, <2>2, HeldKept
  <2>4. d \in redelivered BY <2>1 DEF HInv
  <2>5. FinalKept BY <2>2, <2>4 DEF FinalKept
  <2> QED BY <2>3, <2>5
<1>6. CASE delivery' = delivery /\ wait' = wait
  <2>1. HInv' BY <1>1, <1>2, <1>3, <1>6, HeldKept
  <2> QED BY <1>6, <2>1 DEF FinalKept
<1> QED BY <1>4, <1>5, <1>6 DEF OpenRedeliver, SavePatch, OpenPatch

\* The lock of a loop that is in time is not yet due for anybody.
LEMMA NotDue ==
  ASSUME HInv, InTime, NEW v \in Workers, NEW w \in Workers, Works(w)
  PROVE  ~Due(worker[w].on, v)
<1>1. worker[w].age \in Nat /\ worker[w].age < LockTime BY WorksOn DEF InTime, Works
<1>2. worker[v].age \in Nat
  BY AgeNat DEF HInv, TInv, TypeOK
<1>3. wait[worker[w].on] = LockTime - worker[w].age BY DEF HInv, Held
<1> QED BY <1>1, <1>2, <1>3, NumberAssumption DEF Due

LEMMA ClaimHolds ==
  ASSUME HInv, InTime, TInv', NEW w \in Workers, NEW d \in Deliveries, Claim(w, d)
  PROVE  HInv' /\ FinalKept
<1>1. /\ Due(d, w) /\ UNCHANGED <<redelivering, redelivered>>
      /\ delivery' = [delivery EXCEPT ![d] = [status |-> "retrying",
                                              count |-> delivery[d].count + 1]]
      /\ wait' = [wait EXCEPT ![d] = LockTime - worker[w].age]
  BY DEF Claim
<1>2. /\ delivery'[d].status = "retrying" /\ wait'[d] = LockTime - worker[w].age
      /\ \A o \in Deliveries : o # d => delivery'[o] = delivery[o] /\ wait'[o] = wait[o]
  BY <1>1 DEF HInv, TInv, TypeOK
<1>3. /\ worker'[w].on = d /\ worker'[w].age = worker[w].age
      /\ \A v \in Workers : v # w => worker'[v] = worker[v]
  <2>1. worker \in [Workers -> WorkerRecord] BY DEF HInv, TInv, TypeOK, WorkerRecord, Phases
  <2> QED BY <2>1 DEF Claim, WorkerRecord
<1>4. \A v \in Workers : Works(v) => worker[v].on # d /\ worker[v].on \in Deliveries
  BY <1>1, NotDue, WorksOn DEF Works
<1>5. ASSUME NEW v \in Workers, Works(v)'
      PROVE  /\ wait'[worker'[v].on] = LockTime - worker'[v].age
             /\ delivery'[worker'[v].on].status # "none"
             /\ worker'[v].pc \in {"claimed", "posting", "delivered", "failing"} =>
                   delivery'[worker'[v].on].status = "retrying"
  <2>1. CASE v = w BY <1>2, <1>3, <2>1
  <2>2. CASE v # w
    <3>1. worker'[v] = worker[v] /\ Works(v) BY <1>1, <1>3, <1>5, <2>2 DEF Works
    <3> QED BY <1>2, <1>4, <3>1 DEF HInv, Held
  <2> QED BY <2>1, <2>2
<1>6. Held' BY <1>5 DEF Held
<1>7. OneSender'
  <2> SUFFICES ASSUME NEW u \in Workers, NEW v \in Workers, worker'[u].on # None,
                      worker'[u].on = worker'[v].on, worker'[u].on \notin redelivered
               PROVE  u = v
    BY <1>1 DEF OneSender
  <2>1. CASE u # w /\ v # w BY <1>3, <2>1 DEF HInv, OneSender
  <2>2. CASE u = w /\ v # w BY <1>3, <1>4, <2>2 DEF Works
  <2>3. CASE u # w /\ v = w BY <1>3, <1>4, <2>3 DEF Works
  <2> QED BY <2>1, <2>2, <2>3
<1>8. HInv' BY <1>1, <1>6, <1>7 DEF HInv
<1>9. FinalKept BY <1>1, <1>2 DEF FinalKept, Due
<1> QED BY <1>8, <1>9

\* A loop alone on its delivery records the outcome of that delivery only.
LEMMA HandleHolds ==
  ASSUME HInv, TInv', NEW w \in Workers, Handle(w)
  PROVE  HInv' /\ FinalKept
<1> DEFINE d == worker[w].on
<1>1. worker[w].pc \in Phases
  BY DEF Handle, Abandon, StartPost, Blocked, Accept, Reject, SaveDelivered, RecordSuccess,
         RetryLater, MarkDead, RecordDead, Disable, At, Phases
<1>2. worker \in [Workers -> WorkerRecord] /\ AgeAt(worker[w])
  BY DEF HInv, TInv, TypeOK, AgeOK, WorkerRecord, Phases
<1>3. d \in Deliveries /\ d # None BY <1>1, <1>2, NoneAssumption DEF AgeAt
<1>4. UNCHANGED <<redelivering, redelivered>>
  BY DEF Handle, Abandon, StartPost, Blocked, Accept, Reject, SaveDelivered, RecordSuccess,
         RetryLater, MarkDead, RecordDead, Disable
<1>5. \A v \in Workers : v # w => worker'[v] = worker[v]
  BY <1>2 DEF Handle, Abandon, StartPost, Blocked, Accept, Reject, SaveDelivered,
         RecordSuccess, RetryLater, MarkDead, RecordDead, Disable, Go, Continue
<1>6. ASSUME Continue(w) PROVE worker'[w].on = None
  BY <1>2, <1>6 DEF Continue, WorkerRecord
<1>7. ASSUME NEW pc, Go(w, pc)
      PROVE  worker'[w].on = d /\ worker'[w].age = worker[w].age /\ worker'[w].pc = pc
  BY <1>2, <1>7 DEF Go, WorkerRecord
<1>8. \A v \in Workers : v # w /\ Works(v) => worker[v].on # d /\ worker[v].on \in Deliveries
  BY <1>3, WorksOn DEF HInv, OneSender, Works
<1>9. \A v \in Workers : Works(v) =>
        /\ delivery[worker[v].on].status # "none"
        /\ worker[v].pc \in {"claimed", "posting", "delivered", "failing"} =>
              delivery[worker[v].on].status = "retrying"
  BY DEF HInv, Held
<1>10. \A v \in Workers : Works(v)' => v = w \/ Works(v) BY <1>4, <1>5 DEF Works
<1>11. redelivering' \subseteq redelivered' BY <1>4 DEF HInv
<1>12. CASE Continue(w)
  <2>1. /\ \A o \in Deliveries : o # d => delivery'[o] = delivery[o] /\ wait'[o] = wait[o]
        /\ delivery[d].status = "delivered" /\ d \notin redelivered => delivery'[d] = delivery[d]
    <3>1. CASE Abandon(w)
      BY <1>3, <1>9, <3>1 DEF Abandon, SetStatus, At, Works, HInv, TInv, TypeOK
    <3>2. CASE RetryLater(w) BY <1>3, <3>2 DEF RetryLater, HInv, TInv, TypeOK
    <3>3. CASE RecordSuccess(w) \/ RecordDead(w) \/ Disable(w)
      BY <3>3 DEF RecordSuccess, RecordDead, Disable
    <3>4. CASE \E pc \in Phases : Go(w, pc)
      BY <1>3, <1>6, <1>7, <1>12, <3>4
    <3> QED BY <3>1, <3>2, <3>3, <3>4
            DEF Handle, StartPost, Blocked, Accept, Reject, SaveDelivered, MarkDead, Phases
  <2>2. \A v \in Workers : worker'[v].on # None => v # w BY <1>6, <1>12
  <2>3. HInv'
    BY <1>4, <1>5, <1>8, <1>9, <1>10, <1>11, <2>1, <2>2, HeldKept DEF Works
  <2>4. FinalKept BY <2>1 DEF FinalKept
  <2> QED BY <2>3, <2>4
<1>13. CASE StartPost(w) \/ Blocked(w) \/ Accept(w) \/ Reject(w) \/ (RecordDead(w) /\ ~Continue(w))
  <2>1. delivery' = delivery /\ wait' = wait
    BY <1>13 DEF StartPost, Blocked, Accept, Reject, RecordDead
  <2>2. /\ worker'[w].on = d /\ worker'[w].age = worker[w].age
        /\ worker'[w].pc \in {"posting", "failing", "delivered"} =>
              worker[w].pc \in {"claimed", "posting"}
        /\ worker'[w].pc # "claimed"
    BY <1>7, <1>13 DEF StartPost, Blocked, Accept, Reject, RecordDead, At
  <2>3. \A v \in Workers : Works(v)' => Works(v) BY <1>4, <1>5, <2>2 DEF Works
  <2>4. HInv' BY <1>4, <1>5, <1>9, <1>11, <2>1, <2>2, <2>3, HeldKept
  <2> QED BY <2>1, <2>4 DEF FinalKept
<1>14. CASE SaveDelivered(w) \/ MarkDead(w)
  <2>1. PICK st \in {"delivered", "dead"} : /\ SetStatus(d, st) /\ wait' = wait
                                            /\ worker[w].pc \in {"delivered", "failing"}
    BY <1>14 DEF SaveDelivered, MarkDead, At
  <2>2. worker'[w].on = d /\ worker'[w].age = worker[w].age
        /\ worker'[w].pc \in {"succeeded", "died"}
    BY <1>7, <1>14 DEF SaveDelivered, MarkDead
  <2>3. /\ delivery'[d].status = st
        /\ \A o \in Deliveries : o # d => delivery'[o] = delivery[o]
    BY <1>3, <2>1 DEF SetStatus, HInv, TInv, TypeOK
  <2>4. \A v \in Workers : Works(v)' => Works(v) BY <1>4, <1>5, <2>2 DEF Works
  <2>5. HInv'
    BY <1>4, <1>5, <1>8, <1>9, <1>11, <2>1, <2>2, <2>3, <2>4, HeldKept
  <2>6. FinalKept BY <1>3, <1>9, <2>1, <2>3 DEF FinalKept, Works
  <2> QED BY <2>5, <2>6
<1> QED BY <1>12, <1>13, <1>14 DEF Handle, Abandon, RecordSuccess, RetryLater, Disable

LEMMA LoopHolds ==
  ASSUME HInv, InTime, TInv', NEW w \in Workers, Loop(w) \/ Crash(w)
  PROVE  HInv' /\ FinalKept
<1>1. CASE \E d \in Deliveries : Claim(w, d) BY <1>1, ClaimHolds
<1>2. CASE Handle(w) BY <1>2, HandleHolds
<1>3. CASE StartDrain(w) \/ EndDrain(w) \/ Crash(w)
  <2>1. UNCHANGED <<delivery, wait, redelivering, redelivered>>
    BY <1>3 DEF StartDrain, EndDrain, Crash
  <2>2. worker \in [Workers -> WorkerRecord] /\ AgeAt(worker[w])
    BY DEF HInv, TInv, TypeOK, AgeOK, WorkerRecord, Phases
  <2>3. worker'[w].on = None /\ \A v \in Workers : v # w => worker'[v] = worker[v]
    BY <1>3, <2>2 DEF StartDrain, EndDrain, Crash, Go, At, Idle, AgeAt, WorkerRecord
  <2>4. \A v \in Workers : Works(v)' => v # w /\ Works(v) BY <2>1, <2>3 DEF Works
  <2>5. \A v \in Workers : Works(v) =>
          /\ delivery[worker[v].on].status # "none"
          /\ worker[v].pc \in {"claimed", "posting", "delivered", "failing"} =>
                delivery[worker[v].on].status = "retrying"
    BY DEF HInv, Held
  <2>6. redelivering' \subseteq redelivered' BY <2>1 DEF HInv
  <2>7. HInv' BY <2>1, <2>3, <2>4, <2>5, <2>6, HeldKept
  <2> QED BY <2>1, <2>7 DEF FinalKept
<1> QED BY <1>1, <1>2, <1>3 DEF Loop

\* A lock and the loop that took it age together.
LEMMA TickHolds ==
  ASSUME HInv, InTime, TInv', Tick
  PROVE  HInv' /\ FinalKept
<1>1. worker \in [Workers -> WorkerRecord] /\ \A w \in Workers : AgeAt(worker[w])
  BY DEF HInv, TInv, TypeOK, AgeOK, WorkerRecord, Phases
<1>2. UNCHANGED <<delivery, redelivering, redelivered>> BY DEF Tick
<1>3. ASSUME NEW w \in Workers
      PROVE  /\ worker'[w].on = worker[w].on /\ worker'[w].pc = worker[w].pc
             /\ worker[w].on # None => worker'[w].age = worker[w].age + 1
  <2>1. CASE At(w, "idle") BY <1>1, <2>1 DEF Tick, At, AgeAt, WorkerRecord
  <2>2. CASE ~At(w, "idle") BY <1>1, <2>2 DEF Tick, WorkerRecord
  <2> QED BY <2>1, <2>2
<1>4. \A w \in Workers : Works(w)' => Works(w) BY <1>2, <1>3 DEF Works
<1>5. ASSUME NEW w \in Workers, Works(w)
      PROVE  wait'[worker[w].on] = LockTime - worker'[w].age
  <2>1. worker[w].on \in Deliveries /\ worker[w].age \in Nat BY <1>5, WorksOn DEF Works
  <2>2. wait[worker[w].on] = LockTime - worker[w].age BY <1>5 DEF HInv, Held
  <2>3. wait[worker[w].on] > -MaxAge
    BY <2>1, <2>2, AgeNat, NumberAssumption DEF InTime
  <2>4. wait'[worker[w].on] = wait[worker[w].on] - 1 BY <2>1, <2>3 DEF Tick, Older
  <2> QED BY <1>3, <1>5, <2>1, <2>2, <2>4, NumberAssumption DEF Works
<1>6. Held' BY <1>2, <1>3, <1>4, <1>5 DEF HInv, Held
<1>7. OneSender' BY <1>2, <1>3 DEF HInv, OneSender
<1> QED BY <1>2, <1>6, <1>7 DEF HInv, FinalKept

LEMMA StepHolds == HInv /\ InTime /\ [Next]_vars => HInv' /\ FinalKept
<1> SUFFICES ASSUME HInv, InTime, [Next]_vars PROVE HInv' /\ FinalKept OBVIOUS
<1>1. TInv' BY StepTInv DEF HInv
<1>2. CASE UNCHANGED vars
  BY <1>1, <1>2 DEF vars, HInv, Held, Works, OneSender, FinalKept
<1> QED BY <1>1, <1>2, ApiHolds, LoopHolds, TickHolds DEF Next

LEMMA InitHolds == Init => HInv
  BY InitTInv DEF Init, HInv, Held, Works, OneSender, Idle

\* As long as no drain outlives the lock, a delivery nobody asked to be redelivered is
\* worked on by one loop at a time, through crashes of the others and changes of the endpoint.
THEOREM SentByOne == Spec /\ []InTime => []OneSender
<1>1. HInv => OneSender BY DEF HInv
<1> QED BY <1>1, InitHolds, StepHolds, PTL DEF Spec

\* Under the same condition a delivery that succeeded is never touched again.
THEOREM DeliveredStays == Spec /\ []InTime => DeliveredIsFinal
<1>1. FinalKept => (\A d \in Deliveries \ redelivered :
        delivery[d].status = "delivered" => delivery'[d] = delivery[d])
  BY DEF FinalKept
<1>2. HInv /\ InTime /\ [Next]_vars =>
        [\A d \in Deliveries \ redelivered :
           delivery[d].status = "delivered" => delivery'[d] = delivery[d]]_vars
  BY <1>1, StepHolds
<1> QED BY <1>2, InitHolds, StepHolds, PTL DEF Spec, DeliveredIsFinal

\* Drains of few enough deliveries are in time whatever the endpoints do.
THEOREM ShortDrains == ASSUME MaxAge < LockTime PROVE Spec => []InTime
<1>1. TypeOK => InTime
  <2> SUFFICES ASSUME TypeOK, NEW w \in Workers PROVE worker[w].age < LockTime
    BY DEF InTime
  <2>1. worker[w].age \in 0..MaxAge BY DEF TypeOK
  <2> QED BY <2>1, AgeNat, NumberAssumption
<1> QED BY <1>1, TypeCorrect, PTL

-----------------------------------------------------------------------------
(***************************************************************************)
(* Types: the records that steps write, then the steps.                    *)
(***************************************************************************)
LEMMA PledgeNumbers ==
  ASSUME Sized
  PROVE  /\ Cadence \in Nat \ {0} /\ Window \in Nat \ {0} /\ MaxCycles \in Nat \ {0}
         /\ MaxTime \in Nat /\ MaxStops \in Nat /\ PledgeLock = 1
         /\ Cycles = 1..MaxCycles /\ 1 \in Cycles
BY DEF PledgeLock, Sized, Cycles

LEMMA SchedulerWrites ==
  ASSUME Sized
  PROVE  /\ Resting \in TickRecord /\ Resting.pc = "idle"
         /\ \A t \in 0..MaxTime, over \in SUBSET Cycles, pc \in {"claim", "lapse"} :
              [pc |-> pc, t |-> t, lapsed |-> over, k |-> 0] \in TickRecord
         /\ \A r \in TickRecord :
              /\ \A pc \in {"idle", "lapse", "reset", "claim"} : [r EXCEPT !.pc = pc] \in TickRecord
              /\ r.pc \in OnCycle =>
                   /\ r.k \in Cycles
                   /\ \A pc \in OnCycle : [r EXCEPT !.pc = pc] \in TickRecord
              /\ \A k \in Cycles : [r EXCEPT !.pc = "upsert", !.k = k] \in TickRecord
              /\ r.t \in 0..MaxTime /\ r.lapsed \subseteq Cycles
<1> USE PledgeNumbers
<1>1. Resting \in TickRecord /\ Resting.pc = "idle"
  BY DEF TickRecord, OnCycle, Resting
<1>2. ASSUME NEW t \in 0..MaxTime, NEW over \in SUBSET Cycles, NEW pc \in {"claim", "lapse"}
      PROVE  [pc |-> pc, t |-> t, lapsed |-> over, k |-> 0] \in TickRecord
  BY DEF TickRecord, OnCycle
<1>3. ASSUME NEW r \in TickRecord
      PROVE  /\ \A pc \in {"idle", "lapse", "reset", "claim"} : [r EXCEPT !.pc = pc] \in TickRecord
             /\ r.pc \in OnCycle =>
                  /\ r.k \in Cycles
                  /\ \A pc \in OnCycle : [r EXCEPT !.pc = pc] \in TickRecord
             /\ r.t \in 0..MaxTime /\ r.lapsed \subseteq Cycles
  BY DEF TickRecord, OnCycle
<1>4. ASSUME NEW r \in TickRecord, NEW k \in Cycles
      PROVE  [r EXCEPT !.pc = "upsert", !.k = k] \in TickRecord
  <2> DEFINE S == {"idle", "lapse", "reset", "claim"} \cup OnCycle
             T == 0..MaxTime   K == 0..MaxCycles
             q == [r EXCEPT !.pc = "upsert", !.k = k]
  <2>1. r \in [pc : S, t : T, lapsed : SUBSET Cycles, k : K] BY DEF TickRecord
  <2>2. "upsert" \in S /\ k \in K BY DEF OnCycle
  <2> HIDE DEF S, T, K
  <2>3. q \in [pc : S, t : T, lapsed : SUBSET Cycles, k : K] BY <2>1, <2>2, Zenon
  <2>4. q.k = k BY <2>1, Zenon
  <2> HIDE DEF q
  <2>5. q \in TickRecord BY <2>3, <2>4 DEF TickRecord, S, T, K
  <2> QED BY <2>5 DEF q
<1> QED BY <1>1, <1>2, <1>3, <1>4

LEMMA PledgeWrites ==
  ASSUME Sized, NEW p \in PledgeRecord
  PROVE  /\ p.next \in 1..MaxCycles + 1 /\ p.streak \in Nat /\ p.total \in Nat
         /\ [p EXCEPT !.streak = 0] \in PledgeRecord
         /\ [p EXCEPT !.lock = 0] \in PledgeRecord
         /\ \A t \in 0..MaxTime : [p EXCEPT !.lock = t + PledgeLock] \in PledgeRecord
         /\ p.next \in Cycles => [p EXCEPT !.next = p.next + 1, !.lock = 0] \in PledgeRecord
         /\ \A s \in {"active", "paused", "cancelled"} : [p EXCEPT !.status = s] \in PledgeRecord
         /\ \A m, n \in Nat : [p EXCEPT !.streak = m + 1, !.total = n + 1] \in PledgeRecord
<1> USE PledgeNumbers DEF PledgeRecord
<1>1. p.next \in 1..MaxCycles + 1 /\ p.streak \in Nat /\ p.total \in Nat OBVIOUS
<1>2. [p EXCEPT !.streak = 0] \in PledgeRecord /\ [p EXCEPT !.lock = 0] \in PledgeRecord OBVIOUS
<1>3. ASSUME NEW t \in 0..MaxTime PROVE [p EXCEPT !.lock = t + PledgeLock] \in PledgeRecord OBVIOUS
<1>4. ASSUME p.next \in Cycles PROVE [p EXCEPT !.next = p.next + 1, !.lock = 0] \in PledgeRecord
  <2> DEFINE S == {"active", "paused", "cancelled"}
             N == 1..MaxCycles + 1   L == 0..MaxTime + PledgeLock
  <2>1. p \in [status : S, next : N, lock : L, streak : Nat, total : Nat] OBVIOUS
  <2>2. p.next + 1 \in N /\ 0 \in L BY <1>4
  <2> HIDE DEF S, N, L
  <2>3. [p EXCEPT !.next = p.next + 1, !.lock = 0]
          \in [status : S, next : N, lock : L, streak : Nat, total : Nat] BY <2>1, <2>2, Zenon
  <2> QED BY <2>3 DEF S, N, L
<1>5. ASSUME NEW s \in {"active", "paused", "cancelled"}
      PROVE  [p EXCEPT !.status = s] \in PledgeRecord OBVIOUS
<1>6. ASSUME NEW m \in Nat, NEW n \in Nat
      PROVE  [p EXCEPT !.streak = m + 1, !.total = n + 1] \in PledgeRecord
  <2> DEFINE S == {"active", "paused", "cancelled"}
             N == 1..MaxCycles + 1   L == 0..MaxTime + PledgeLock
  <2>1. p \in [status : S, next : N, lock : L, streak : Nat, total : Nat] OBVIOUS
  <2>2. m + 1 \in Nat /\ n + 1 \in Nat OBVIOUS
  <2> HIDE DEF S, N, L
  <2>3. [p EXCEPT !.streak = m + 1, !.total = n + 1]
          \in [status : S, next : N, lock : L, streak : Nat, total : Nat] BY <2>1, <2>2, Zenon
  <2> QED BY <2>3 DEF S, N, L
<1> QED BY <1>1, <1>2, <1>3, <1>4, <1>5, <1>6

LEMMA DonationWrites ==
  ASSUME Sized, NEW d \in DonationRecord
  PROVE  /\ \A s \in {"pending", "retrying", "confirmed", "failed", "reaped"} :
              [d EXCEPT !.status = s] \in DonationRecord
         /\ [d EXCEPT !.landed = TRUE] \in DonationRecord
BY DEF DonationRecord

LEMMA MarkerWrites ==
  ASSUME Sized, NEW m \in MarkerRecord
  PROVE  /\ NotMarking \in MarkerRecord /\ m.streak \in Nat /\ m.total \in Nat
         /\ \A pc \in {"none", "find", "cycle", "load"} : [m EXCEPT !.pc = pc] \in MarkerRecord
         /\ \A i, n \in Nat : [pc |-> "save", streak |-> i, total |-> n] \in MarkerRecord
BY DEF MarkerRecord, NotMarking

LEMMA PledgeInitTypes ==
  ASSUME Sized
  PROVE  PledgeInit => PledgeTypes
<1> SUFFICES ASSUME PledgeInit PROVE PledgeTypes OBVIOUS
<1> USE PledgeNumbers DEF PledgeInit
<1>1. pledge \in PledgeRecord BY DEF PledgeRecord
<1>2. NoDonation \in DonationRecord BY DEF NoDonation, DonationRecord
<1>3. NotMarking \in MarkerRecord BY DEF NotMarking, MarkerRecord
<1>4. Resting \in TickRecord BY SchedulerWrites
<1>5. cycle \in [Cycles -> CycleStatus] BY DEF CycleStatus
<1>6. now \in 0..MaxTime /\ stops \in 0..MaxStops /\ told \subseteq Cycles OBVIOUS
<1>7. donation \in [Cycles -> DonationRecord] /\ marker \in [Cycles -> MarkerRecord]
  BY <1>2, <1>3
<1>8. scheduler \in [Schedulers -> TickRecord] BY <1>4
<1> QED BY <1>1, <1>5, <1>6, <1>7, <1>8 DEF PledgeTypes

LEMMA SchedulerTypes ==
  ASSUME Sized, PledgeTypes, NEW w \in Schedulers, SchedulerStep(w)
  PROVE  PledgeTypes'
<1> USE PledgeNumbers DEF PledgeTypes
<1>0. scheduler[w] \in TickRecord OBVIOUS
<1>1. CASE StartTick(w) BY <1>1, SchedulerWrites DEF StartTick
<1>2. CASE LapseCycles(w)
  BY <1>2, <1>0, SchedulerWrites DEF LapseCycles, TickTo, TickAt, CycleStatus
<1>3. CASE ResetStreak(w)
  BY <1>3, <1>0, SchedulerWrites, PledgeWrites DEF ResetStreak, TickTo, TickAt
<1>4. CASE ClaimPledge(w)
  <2>0. pledge.next \in 1..MaxCycles + 1 BY PledgeWrites
  <2>1. pledge.next \in Cycles BY <1>4, <2>0 DEF ClaimPledge, Claimable
  <2>2. pledge' \in PledgeRecord
    BY <1>4, <1>0, SchedulerWrites, PledgeWrites DEF ClaimPledge
  <2>3. scheduler' \in [Schedulers -> TickRecord]
    BY <1>4, <1>0, <2>1, SchedulerWrites DEF ClaimPledge
  <2> QED BY <1>4, <2>2, <2>3 DEF ClaimPledge
<1>5. CASE EndTick(w) BY <1>5, SchedulerWrites DEF EndTick
<1>6. CASE UpsertCycle(w)
  BY <1>6, <1>0, SchedulerWrites
    DEF UpsertCycle, SetCycle, TickTo, TickAt, CycleStatus, OnCycle
<1>7. CASE Notify(w) BY <1>7, <1>0, SchedulerWrites DEF Notify, TickTo, TickAt, OnCycle
<1>8. CASE SaveNotified(w)
  BY <1>8, <1>0, SchedulerWrites
    DEF SaveNotified, SetCycle, TickTo, TickAt, CycleStatus, OnCycle
<1>9. CASE Advance(w)
  BY <1>9, <1>0, SchedulerWrites, PledgeWrites DEF Advance, TickTo, TickAt, OnCycle
<1>10. CASE FailTick(w) BY <1>10, SchedulerWrites, PledgeWrites DEF FailTick
<1> QED BY <1>1, <1>2, <1>3, <1>4, <1>5, <1>6, <1>7, <1>8, <1>9, <1>10 DEF SchedulerStep

LEMMA PaymentTypes ==
  ASSUME Sized, PledgeTypes, NEW k \in Cycles, PaymentStep(k)
  PROVE  PledgeTypes'
<1> USE PledgeNumbers DEF PledgeTypes
<1>0. donation[k] \in DonationRecord /\ marker[k] \in MarkerRecord OBVIOUS
<1>1. CASE RefuseLate(k) BY <1>1, PledgeWrites DEF RefuseLate, SetCycle, CycleStatus
<1>2. CASE InitializeCycle(k)
  BY <1>2, <1>0, DonationWrites DEF InitializeCycle, SetDonation
<1>3. CASE Reap(k) BY <1>3, <1>0, DonationWrites DEF Reap, SetDonation
<1>4. CASE SubmitPledgeCycle(k) BY <1>4 DEF SubmitPledgeCycle
<1>5. CASE SponsorRefuses(k) BY <1>5 DEF SponsorRefuses
<1>6. CASE SubmitInvalid(k) BY <1>6, <1>0, DonationWrites DEF SubmitInvalid, SetDonation
<1>7. CASE SendPayment(k) BY <1>7, <1>0, DonationWrites DEF SendPayment
<1>8. CASE SubmitFailed(k) BY <1>8, <1>0, DonationWrites DEF SubmitFailed, SetDonation
<1>9. CASE Unverified(k) BY <1>9, <1>0, DonationWrites DEF Unverified, SetDonation
<1>10. CASE ConfirmDonation(k)
  BY <1>10, <1>0, DonationWrites, MarkerWrites DEF ConfirmDonation, SetDonation
<1>11. CASE AbortSubmit(k) BY <1>11 DEF AbortSubmit
<1>12. CASE LoadDonation(k) BY <1>12 DEF LoadDonation
<1>13. CASE JobConfirms(k)
  BY <1>13, <1>0, DonationWrites, MarkerWrites DEF JobConfirms, SetDonation
<1>14. CASE JobGivesUp(k) BY <1>14, <1>0, DonationWrites DEF JobGivesUp, SetDonation
<1>15. CASE Promote(k) BY <1>15, <1>0, DonationWrites DEF Promote, SetDonation
<1>16. CASE MarkFind(k) BY <1>16, <1>0, MarkerWrites DEF MarkFind
<1>17. CASE MarkCycle(k)
  BY <1>17, <1>0, MarkerWrites DEF MarkCycle, SetCycle, CycleStatus
<1>18. CASE LoadStatistics(k) BY <1>18, <1>0, MarkerWrites, PledgeWrites DEF LoadStatistics
<1>19. CASE SaveStatistics(k) BY <1>19, <1>0, MarkerWrites, PledgeWrites DEF SaveStatistics
<1>20. CASE StopMarking(k)
  <2>1. NotMarking \in MarkerRecord BY <1>0, MarkerWrites
  <2>2. stops' \in 0..MaxStops BY <1>20 DEF StopMarking
  <2> QED BY <1>20, <2>1, <2>2 DEF StopMarking
<1> QED BY <1>1, <1>2, <1>3, <1>4, <1>5, <1>6, <1>7, <1>8, <1>9, <1>10, <1>11, <1>12, <1>13,
           <1>14, <1>15, <1>16, <1>17, <1>18, <1>19, <1>20 DEF PaymentStep

LEMMA PledgesStayTyped ==
  ASSUME Sized
  PROVE  PledgeTypes /\ [PledgeNext]_pledgeVars => PledgeTypes'
<1> SUFFICES ASSUME PledgeTypes, [PledgeNext]_pledgeVars PROVE PledgeTypes' OBVIOUS
<1>1. ASSUME NEW w \in Schedulers, StopWorker(w) PROVE PledgeTypes'
  <2>1. Resting \in TickRecord BY SchedulerWrites
  <2>2. stops' \in 0..MaxStops BY <1>1, PledgeNumbers DEF StopWorker, PledgeTypes
  <2> QED BY <1>1, <2>1, <2>2 DEF StopWorker, PledgeTypes
<1>2. ASSUME NEW c \in Calls, SaveStatus(c) PROVE PledgeTypes'
  BY <1>2, PledgeWrites DEF SaveStatus, PledgeTypes
<1>3. ASSUME NEW c \in Calls, NEW s \in {"active", "paused", "cancelled"}, UpdateStatus(c, s)
      PROVE  PledgeTypes'
  BY <1>3 DEF UpdateStatus, PledgeTypes
<1>4. CASE PassTime BY <1>4, PledgeNumbers DEF PassTime, PledgeTypes
<1>5. CASE UNCHANGED pledgeVars BY <1>5 DEF pledgeVars, PledgeTypes
<1> QED BY <1>1, <1>2, <1>3, <1>4, <1>5, SchedulerTypes, PaymentTypes DEF PledgeNext

\* The documents and the processes have their types, in every reachable state.
THEOREM PledgesTyped == PledgeSpec => []PledgeTypes
<1>0. Sized BY ConstantAssumption
<1>1. PledgeInit => PledgeTypes BY <1>0, PledgeInitTypes
<1>2. PledgeTypes /\ [PledgeNext]_pledgeVars => PledgeTypes' BY <1>0, PledgesStayTyped
<1> QED BY <1>1, <1>2, PTL DEF PledgeSpec

-----------------------------------------------------------------------------
\* A payment on its way to its cycle: a request works on a pending donation and a job
\* on one that it or the ingestion worker confirms; what was confirmed is on the ledger;
\* and only a confirmed donation, whose job is over, marks the cycle.
Confirming(k) ==
    /\ submit[k] # "idle" => donation[k].status = "pending"
    /\ submit[k] = "sent" \/ donation[k].status \in {"retrying", "confirmed"} => donation[k].landed
    /\ job[k] # "none" => /\ donation[k].status \in {"retrying", "confirmed"}
                          /\ marker[k].pc = "none" /\ cycle[k] # "paid"
    /\ marker[k].pc # "none" \/ cycle[k] = "paid" => donation[k].status = "confirmed"

\* A cycle on its way to its donor: a scheduler only leaves a due date behind when its
\* cycle exists and was told of or closed.
Worked(w) ==
    LET k == scheduler[w].k IN
    /\ scheduler[w].pc \in {"notify", "save", "advance"} => cycle[k] # "none"
    /\ scheduler[w].pc = "save" => k \in told
    /\ scheduler[w].pc = "advance" => k \in told \/ cycle[k] \in {"paid", "lapsed"}

PledgeInv ==
    /\ PledgeTypes
    /\ \A k \in Cycles : Confirming(k)
    /\ \A k \in Cycles : cycle[k] = "notified" => k \in told
    /\ \A w \in Schedulers : Worked(w)
    /\ NoneSkipped

LEMMA PledgesStart ==
  ASSUME Sized
  PROVE  PledgeInit => PledgeInv
BY PledgeInitTypes, PledgeNumbers
   DEF PledgeInit, PledgeInv, Confirming, Worked, NoneSkipped, NoDonation, NotMarking,
       Resting

LEMMA SchedulerSafe ==
  ASSUME Sized, PledgeInv, PledgeTypes', NEW w \in Schedulers, SchedulerStep(w)
  PROVE  PledgeInv'
<1> USE PledgeNumbers
<1>1. /\ scheduler[w] \in TickRecord
      /\ \A v \in Schedulers : v # w => scheduler'[v] = scheduler[v]
      /\ donation' = donation /\ submit' = submit /\ job' = job /\ marker' = marker
      /\ told \subseteq told'
  BY
    DEF PledgeInv, PledgeTypes, SchedulerStep, StartTick, LapseCycles, ResetStreak,
        ClaimPledge, EndTick,
         UpsertCycle, Notify, SaveNotified, Advance, FailTick, TickTo
\* A cycle that is there stays, and moves to paid or lapsed only for good.
<1>2. ASSUME NEW k \in Cycles
      PROVE  /\ cycle'[k] = "paid" => cycle[k] = "paid"
             /\ cycle[k] # "none" => cycle'[k] # "none"
             /\ cycle'[k] = "notified" => cycle[k] = "notified" \/ k \in told
             /\ cycle[k] \in {"paid", "lapsed"} => cycle'[k] \in {"paid", "lapsed"} \/ k \in told
  BY
    DEF PledgeInv, PledgeTypes, SchedulerStep, StartTick, LapseCycles, ResetStreak,
        ClaimPledge, EndTick,
         UpsertCycle, Notify, SaveNotified, Advance, FailTick, SetCycle, TickAt, Worked
<1>3. \A k \in Cycles : Confirming(k)' BY <1>1, <1>2 DEF PledgeInv, Confirming
<1>4. \A k \in Cycles : cycle'[k] = "notified" => k \in told' BY <1>1, <1>2 DEF PledgeInv
<1>5. ASSUME NEW v \in Schedulers PROVE Worked(v)'
  <2>1. CASE v # w
    <3>1. scheduler[v] \in TickRecord BY DEF PledgeInv, PledgeTypes
    <3>2. Worked(v) /\ scheduler'[v] = scheduler[v] BY <2>1, <1>1 DEF PledgeInv
    <3>3. CASE scheduler[v].pc \in {"notify", "save", "advance"}
      <4>1. scheduler[v].k \in Cycles BY <3>1, <3>3, SchedulerWrites DEF OnCycle
      <4> QED BY <3>2, <4>1, <1>1, <1>2 DEF Worked
    <3> QED BY <3>2, <3>3 DEF Worked
  <2>2. CASE v = w
    <3> USE <2>2
    <3>0. Worked(w) /\ PledgeTypes BY DEF PledgeInv
    <3>1. CASE UpsertCycle(w)
      <4>1. scheduler[w].k \in Cycles
        BY <3>1, <1>1, SchedulerWrites DEF UpsertCycle, TickAt, OnCycle
      <4> QED
        BY <3>0, <3>1, <4>1
          DEF UpsertCycle, TickTo, TickAt, SetCycle, Worked, PledgeInv, PledgeTypes,
              CycleStatus
    <3>2. CASE Notify(w)
      <4>1. scheduler[w].k \in Cycles
        BY <3>2, <1>1, SchedulerWrites DEF Notify, TickAt, OnCycle
      <4> QED BY <3>0, <3>2, <4>1 DEF Notify, TickTo, TickAt, Worked, PledgeTypes
    <3>3. CASE SaveNotified(w)
      <4>1. scheduler[w].k \in Cycles
        BY <3>3, <1>1, SchedulerWrites DEF SaveNotified, TickAt, OnCycle
      <4> QED
        BY <3>0, <3>3, <4>1 DEF SaveNotified, TickTo, TickAt, SetCycle, Worked, PledgeTypes
    <3>4. CASE StartTick(w) \/ LapseCycles(w) \/ ResetStreak(w) \/ ClaimPledge(w) \/ EndTick(w)
               \/ Advance(w) \/ FailTick(w)
      <4>1. scheduler'[w].pc \in {"idle", "claim", "lapse", "reset", "upsert"}
        <5>1. CASE StartTick(w) BY <5>1, <3>0 DEF StartTick, PledgeTypes
        <5>2. CASE ClaimPledge(w)
          BY <5>2, <3>0, <1>1 DEF ClaimPledge, PledgeTypes, TickRecord
        <5>3. CASE EndTick(w) \/ FailTick(w)
          BY <5>3, <3>0 DEF EndTick, FailTick, Resting, PledgeTypes
        <5>4. CASE LapseCycles(w) \/ ResetStreak(w) \/ Advance(w)
          BY <5>4, <3>0, <1>1
            DEF LapseCycles, ResetStreak, Advance, TickTo, PledgeTypes, TickRecord
        <5> QED BY <3>4, <5>1, <5>2, <5>3, <5>4
      <4> QED BY <4>1 DEF Worked
    <3> QED BY <3>1, <3>2, <3>3, <3>4 DEF SchedulerStep
  <2> QED BY <2>1, <2>2
<1>6. NoneSkipped'
  <2>1. CASE Advance(w) /\ pledge.next = scheduler[w].k
    <3>1. scheduler[w].k \in Cycles
      BY <2>1, <1>1, SchedulerWrites DEF Advance, TickAt, OnCycle
    <3>2. pledge.next \in 1..MaxCycles + 1 BY PledgeWrites DEF PledgeInv, PledgeTypes
    <3>3. pledge'.next = pledge.next + 1 /\ cycle' = cycle /\ told' = told
      BY <2>1, <3>2 DEF Advance, PledgeInv, PledgeTypes, PledgeRecord
    <3>4. Worked(w) /\ NoneSkipped BY DEF PledgeInv
    <3> QED BY <2>1, <3>1, <3>2, <3>3, <3>4 DEF NoneSkipped, Worked, Advance, TickAt
  <2>2. CASE ~(Advance(w) /\ pledge.next = scheduler[w].k)
    <3>1. pledge'.next = pledge.next
      <4>1. pledge \in PledgeRecord BY DEF PledgeInv, PledgeTypes
      <4>2. DOMAIN pledge = {"status", "next", "lock", "streak", "total"}
        BY <4>1 DEF PledgeRecord
      <4>3. CASE Advance(w)
        BY <2>2, <4>2, <4>3 DEF Advance
      <4>4. CASE \/ ResetStreak(w) \/ ClaimPledge(w) \/ FailTick(w)
        BY <4>2, <4>4 DEF ResetStreak, ClaimPledge, FailTick
      <4>5. CASE \/ StartTick(w) \/ LapseCycles(w) \/ EndTick(w)
                 \/ UpsertCycle(w) \/ Notify(w) \/ SaveNotified(w)
        BY <4>5 DEF StartTick, LapseCycles, EndTick, UpsertCycle, Notify, SaveNotified
      <4> QED BY <4>3, <4>4, <4>5 DEF SchedulerStep
    <3> QED BY <3>1, <1>1, <1>2 DEF PledgeInv, NoneSkipped
  <2> QED BY <2>1, <2>2
<1> QED BY <1>3, <1>4, <1>5, <1>6 DEF PledgeInv

LEMMA PaymentSafe ==
  ASSUME Sized, PledgeInv, PledgeTypes', NEW k \in Cycles, PaymentStep(k)
  PROVE  PledgeInv'
<1> USE PledgeNumbers
<1>0. PledgeTypes /\ Confirming(k) BY DEF PledgeInv
<1>1. /\ scheduler' = scheduler /\ told' = told /\ pledge'.next = pledge.next
      /\ cycle'[k] = cycle[k] \/ cycle'[k] \in {"paid", "lapsed"}
      /\ \A j \in Cycles : j # k => cycle'[j] = cycle[j]
  <2>1. scheduler' = scheduler /\ told' = told
    BY
      DEF PaymentStep, RefuseLate, InitializeCycle, Reap, SubmitPledgeCycle,
          SponsorRefuses,
               SubmitInvalid, SendPayment, SubmitFailed, Unverified, ConfirmDonation,
               AbortSubmit, LoadDonation, JobConfirms, JobGivesUp, Promote, MarkFind,
               MarkCycle, LoadStatistics, SaveStatistics, StopMarking
  <2>2. pledge'.next = pledge.next
    <3>1. DOMAIN pledge = {"status", "next", "lock", "streak", "total"}
      BY <1>0 DEF PledgeTypes, PledgeRecord
    <3>2. CASE SaveStatistics(k) BY <3>1, <3>2 DEF SaveStatistics
    <3>3. CASE \/ RefuseLate(k) \/ InitializeCycle(k) \/ Reap(k) \/ SubmitPledgeCycle(k)
      <4>1. RefuseLate(k) => pledge'.next = pledge.next BY <3>1 DEF RefuseLate
      <4>2. InitializeCycle(k) => pledge' = pledge BY DEF InitializeCycle
      <4>3. Reap(k) => pledge' = pledge BY DEF Reap
      <4>4. SubmitPledgeCycle(k) => pledge' = pledge BY DEF SubmitPledgeCycle
      <4> QED BY <3>3, <4>1, <4>2, <4>3, <4>4
    <3>6. CASE SponsorRefuses(k) \/ SubmitInvalid(k) \/ SendPayment(k) \/ SubmitFailed(k)
      BY <3>6 DEF SponsorRefuses, SubmitInvalid, SendPayment, SubmitFailed
    <3>4. CASE \/ Unverified(k) \/ ConfirmDonation(k) \/ AbortSubmit(k) \/ LoadDonation(k)
               \/ JobConfirms(k) \/ JobGivesUp(k) \/ Promote(k)
      BY <3>4 DEF Unverified, ConfirmDonation, AbortSubmit, LoadDonation, JobConfirms,
               JobGivesUp, Promote
    <3>5. CASE MarkFind(k) \/ MarkCycle(k) \/ LoadStatistics(k) \/ StopMarking(k)
      BY <3>5 DEF MarkFind, MarkCycle, LoadStatistics, StopMarking
    <3> QED BY <3>2, <3>3, <3>4, <3>5, <3>6 DEF PaymentStep
  <2>3. cycle' = cycle \/ \E s \in {"paid", "lapsed"} : cycle' = [cycle EXCEPT ![k] = s]
    BY DEF PaymentStep, SetCycle,
               RefuseLate, InitializeCycle, Reap, SubmitPledgeCycle, SponsorRefuses,
               SubmitInvalid, SendPayment, SubmitFailed, Unverified, ConfirmDonation,
               AbortSubmit, LoadDonation, JobConfirms, JobGivesUp, Promote, MarkFind,
               MarkCycle, LoadStatistics, SaveStatistics, StopMarking
  <2>4. cycle \in [Cycles -> CycleStatus] BY <1>0 DEF PledgeTypes
  <2> QED BY <2>1, <2>2, <2>3, <2>4
<1>2. ASSUME NEW j \in Cycles, j # k
      PROVE  /\ donation'[j] = donation[j] /\ submit'[j] = submit[j]
             /\ job'[j] = job[j] /\ marker'[j] = marker[j]
  <2>1. donation'[j] = donation[j]
    BY <1>0, <1>2 DEF PaymentStep, SetDonation, PledgeTypes,
               RefuseLate, InitializeCycle, Reap, SubmitPledgeCycle, SponsorRefuses,
               SubmitInvalid, SendPayment, SubmitFailed, Unverified, ConfirmDonation,
               AbortSubmit, LoadDonation, JobConfirms, JobGivesUp, Promote, MarkFind,
               MarkCycle, LoadStatistics, SaveStatistics, StopMarking
  <2>2. submit'[j] = submit[j]
    BY <1>0, <1>2 DEF PaymentStep, PledgeTypes,
               RefuseLate, InitializeCycle, Reap, SubmitPledgeCycle, SponsorRefuses,
               SubmitInvalid, SendPayment, SubmitFailed, Unverified, ConfirmDonation,
               AbortSubmit, LoadDonation, JobConfirms, JobGivesUp, Promote, MarkFind,
               MarkCycle, LoadStatistics, SaveStatistics, StopMarking
  <2>3. job'[j] = job[j]
    BY <1>0, <1>2 DEF PaymentStep, PledgeTypes,
               RefuseLate, InitializeCycle, Reap, SubmitPledgeCycle, SponsorRefuses,
               SubmitInvalid, SendPayment, SubmitFailed, Unverified, ConfirmDonation,
               AbortSubmit, LoadDonation, JobConfirms, JobGivesUp, Promote, MarkFind,
               MarkCycle, LoadStatistics, SaveStatistics, StopMarking
  <2>4. marker'[j] = marker[j]
    BY <1>0, <1>2 DEF PaymentStep, PledgeTypes,
               RefuseLate, InitializeCycle, Reap, SubmitPledgeCycle, SponsorRefuses,
               SubmitInvalid, SendPayment, SubmitFailed, Unverified, ConfirmDonation,
               AbortSubmit, LoadDonation, JobConfirms, JobGivesUp, Promote, MarkFind,
               MarkCycle, LoadStatistics, SaveStatistics, StopMarking
  <2> QED BY <2>1, <2>2, <2>3, <2>4
<1>3. Confirming(k)'
  <2> USE <1>0 DEF Confirming, PledgeTypes
  <2>1. CASE RefuseLate(k) BY <2>1 DEF RefuseLate, SetCycle, Open
  <2>2. CASE InitializeCycle(k)
    BY <2>2 DEF InitializeCycle, SetDonation, DonationRecord
  <2>3. CASE Reap(k) BY <2>3 DEF Reap, SetDonation, DonationRecord
  <2>4. CASE SubmitPledgeCycle(k) BY <2>4 DEF SubmitPledgeCycle
  <2>5. CASE SponsorRefuses(k) BY <2>5 DEF SponsorRefuses
  <2>6. CASE SubmitInvalid(k) BY <2>6 DEF SubmitInvalid, SetDonation, DonationRecord
  <2>7. CASE SendPayment(k) BY <2>7 DEF SendPayment, DonationRecord
  <2>8. CASE SubmitFailed(k) BY <2>8 DEF SubmitFailed, SetDonation, DonationRecord
  <2>9. CASE Unverified(k) BY <2>9 DEF Unverified, SetDonation, DonationRecord
  <2>10. CASE ConfirmDonation(k)
    BY <2>10 DEF ConfirmDonation, SetDonation, DonationRecord, MarkerRecord
  <2>11. CASE AbortSubmit(k) BY <2>11 DEF AbortSubmit
  <2>12. CASE LoadDonation(k) BY <2>12 DEF LoadDonation
  <2>13. CASE JobConfirms(k)
    BY <2>13 DEF JobConfirms, SetDonation, DonationRecord, MarkerRecord
  <2>14. CASE JobGivesUp(k) BY <2>14 DEF JobGivesUp, SetDonation, DonationRecord
  <2>15. CASE Promote(k) BY <2>15 DEF Promote, SetDonation, DonationRecord
  <2>16. CASE MarkFind(k) BY <2>16 DEF MarkFind, MarkerRecord
  <2>17. CASE MarkCycle(k) BY <2>17 DEF MarkCycle, SetCycle, MarkerRecord
  <2>18. CASE LoadStatistics(k) BY <2>18 DEF LoadStatistics, MarkerRecord
  <2>19. CASE SaveStatistics(k) BY <2>19 DEF SaveStatistics, NotMarking
  <2>20. CASE StopMarking(k) BY <2>20 DEF StopMarking, NotMarking
  <2> QED
    BY <2>1, <2>2, <2>3, <2>4, <2>5, <2>6, <2>7, <2>8, <2>9, <2>10, <2>11, <2>12, <2>13, <2>14,
       <2>15, <2>16, <2>17, <2>18, <2>19, <2>20
      DEF PaymentStep
<1>4. \A j \in Cycles : Confirming(j)' BY <1>1, <1>2, <1>3 DEF PledgeInv, Confirming
<1>5. \A j \in Cycles : cycle'[j] = "notified" => j \in told' BY <1>1 DEF PledgeInv
<1>6. ASSUME NEW w \in Schedulers PROVE Worked(w)'
  <2>1. scheduler[w] \in TickRecord /\ Worked(w) BY DEF PledgeInv, PledgeTypes
  <2>2. CASE scheduler[w].pc \in {"notify", "save", "advance"}
    <3>1. scheduler[w].k \in Cycles BY <2>1, <2>2, SchedulerWrites DEF OnCycle
    <3> QED BY <1>1, <2>1, <3>1 DEF Worked
  <2> QED BY <1>1, <2>1, <2>2 DEF Worked
<1>7. NoneSkipped' BY <1>1 DEF PledgeInv, NoneSkipped
<1> QED BY <1>4, <1>5, <1>6, <1>7 DEF PledgeInv

LEMMA PledgeSteps ==
  ASSUME Sized
  PROVE  PledgeInv /\ [PledgeNext]_pledgeVars => PledgeInv'
<1> SUFFICES ASSUME PledgeInv, [PledgeNext]_pledgeVars PROVE PledgeInv' OBVIOUS
<1>1. PledgeTypes' BY PledgesStayTyped DEF PledgeInv
<1>2. ASSUME NEW w \in Schedulers, StopWorker(w) PROVE PledgeInv'
  BY <1>1, <1>2
    DEF StopWorker, PledgeInv, PledgeTypes, Confirming, Worked, NoneSkipped, Resting
<1>3. ASSUME NEW c \in Calls, SaveStatus(c) PROVE PledgeInv'
  BY <1>1, <1>3
    DEF SaveStatus, PledgeInv, PledgeTypes, PledgeRecord, Confirming, Worked, NoneSkipped
<1>4. ASSUME NEW c \in Calls, NEW s \in {"active", "paused", "cancelled"}, UpdateStatus(c, s)
      PROVE  PledgeInv'
  BY <1>1, <1>4 DEF UpdateStatus, PledgeInv, Confirming, Worked, NoneSkipped
<1>5. CASE PassTime
  BY <1>1, <1>5 DEF PassTime, PledgeInv, Confirming, Worked, NoneSkipped
<1>6. CASE UNCHANGED pledgeVars
  BY <1>1, <1>6 DEF pledgeVars, PledgeInv, Confirming, Worked, NoneSkipped
<1> QED BY <1>1, <1>2, <1>3, <1>4, <1>5, <1>6, SchedulerSafe, PaymentSafe DEF PledgeNext

\* Whatever fails, stops, overlaps or takes over: a cycle reads paid only for a confirmed
\* payment, and no due date is left behind without its cycle and its donor told.
THEOREM CyclesKept == PledgeSpec => []CyclesTrue
<1>0. Sized BY ConstantAssumption
<1>1. PledgeInv => CyclesTrue BY DEF PledgeInv, CyclesTrue, PaidIsConfirmed, Confirming
<1>2. PledgeInit => PledgeInv BY <1>0, PledgesStart
<1>3. PledgeInv /\ [PledgeNext]_pledgeVars => PledgeInv' BY <1>0, PledgeSteps
<1> QED BY <1>1, <1>2, <1>3, PTL DEF PledgeSpec
-----------------------------------------------------------------------------
(***************************************************************************)
(* Payouts.  Chunks: a batch has a chunk for each of its recipients.       *)
(***************************************************************************)
LEMMA Quotients ==
  ASSUME NEW n \in Nat, NEW m \in Nat, n <= m, NEW c \in Nat \ {0}
  PROVE  n \div c \in Nat /\ n \div c <= m \div c /\ m \div c <= m
<1> DEFINE p == n \div c  q == m \div c
<1>1. p \in Nat /\ q \in Nat /\ c \in Int /\ c > 0 OBVIOUS
<1>2. c * p <= n /\ m < c * q + c /\ c * q <= m OBVIOUS
<1>3. c * p \in Int /\ c * q \in Int OBVIOUS
<1> HIDE DEF p, q
<1>4. ASSUME p > q PROVE FALSE
  <2>1. PICK k \in Nat : p = q + 1 + k
    <3>1. p - (q + 1) \in Nat /\ p = q + 1 + (p - (q + 1)) BY <1>1, <1>4
    <3> QED BY <3>1
  <2>2. c * p = c * q + c + c * k /\ c * k \in Nat BY <1>1, <2>1
  <2> QED BY <1>1, <1>2, <1>3, <2>2
<1>5. q <= c * q
  <2>1. PICK k \in Nat : c = 1 + k
    <3>1. c - 1 \in Nat /\ c = 1 + (c - 1) OBVIOUS
    <3> QED BY <3>1
  <2>2. c * q = q + k * q /\ k * q \in Nat BY <1>1, <2>1
  <2> QED BY <1>1, <2>2
<1>6. p \in Nat /\ p <= q /\ q <= m BY <1>1, <1>2, <1>3, <1>4, <1>5
<1> QED BY <1>6 DEF p, q

LEMMA ChunkBounds ==
  ASSUME PayTypes, NEW b \in Batches, NEW e \in Recipients(b)
  PROVE  /\ LastChunk(b) \in Nat /\ ChunkOf(b, e) \in 0..LastChunk(b)
         /\ ChunkOf(b, e) \in ChunkIds
<1> DEFINE T == Recipients(b)  B == {f \in T : f < e}
           n == Cardinality(B)  m == Cardinality(T) - 1  k == Cardinality(Educators)
<1>1. T \subseteq Educators /\ IsFiniteSet(Educators) /\ Educators \subseteq Nat
  BY FiniteAssumption, SetAssumption DEF Recipients
<1>2. IsFiniteSet(T) /\ Cardinality(T) \in Nat /\ k \in Nat /\ Cardinality(T) <= k
  BY <1>1, FS_Subset, FS_CardinalityType
<1>3. e \in T /\ e \in Nat /\ B \subseteq T \ {e}
  <2>1. e \in T OBVIOUS
  <2>2. e \in Nat BY <1>1, <2>1
  <2>3. e \notin B BY <2>2
  <2> QED BY <2>1, <2>2, <2>3
<1> HIDE DEF T, B
<1>4. IsFiniteSet(T \ {e}) /\ Cardinality(T \ {e}) = Cardinality(T) - 1
      /\ Cardinality(T \ {e}) \in Nat
  <2>1. IsFiniteSet(T \ {e}) /\ Cardinality(T \ {e}) = Cardinality(T) - 1
    BY <1>2, <1>3, FS_RemoveElement
  <2> QED BY <2>1, FS_CardinalityType
<1>5. n \in Nat /\ n <= m /\ m \in Nat
  <2>1. IsFiniteSet(B) /\ Cardinality(B) <= Cardinality(T \ {e}) BY <1>3, <1>4, FS_Subset
  <2>2. Cardinality(B) \in Nat BY <2>1, FS_CardinalityType
  <2> QED BY <1>4, <2>1, <2>2
<1> HIDE DEF n, m, k
<1>6. n \div ChunkSize \in Nat /\ n \div ChunkSize <= m \div ChunkSize
      /\ m \div ChunkSize <= m /\ m \div ChunkSize \in Nat
  BY <1>5, SizeAssumption, Quotients
<1>7. ChunkOf(b, e) = n \div ChunkSize /\ LastChunk(b) = m \div ChunkSize
  BY DEF ChunkOf, LastChunk, n, m, B, T
<1>8. m <= k - 1 /\ k \in Nat BY <1>2 DEF m, k
<1>9. ChunkIds = 0..(k - 1) BY DEF ChunkIds, k
<1> QED BY <1>5, <1>6, <1>7, <1>8, <1>9

\* What was applied stays applied, for the same payments.
LEMMA PaidStays ==
  ASSUME PayTypes, PayTypes', NEW b \in Batches, Recipients(b)' = Recipients(b),
         \A c \in ChunkIds : chain[b][c] = "paid" => chain'[b][c] = "paid"
  PROVE  /\ \A e : PaidChunk(b, e) => PaidChunk(b, e)'
         /\ PaidInFull(b) => PaidInFull(b)'
         /\ \A e \in Educators : ChunkOf(b, e)' = ChunkOf(b, e)
         /\ LastChunk(b)' = LastChunk(b)
<1>1. \A e : ChunkOf(b, e)' = ChunkOf(b, e) BY DEF ChunkOf
<1>2. LastChunk(b)' = LastChunk(b) BY DEF LastChunk
<1>3. ASSUME NEW e, PaidChunk(b, e) PROVE PaidChunk(b, e)'
  <2>1. e \in Recipients(b) /\ chain[b][ChunkOf(b, e)] = "paid" BY <1>3 DEF PaidChunk
  <2>2. ChunkOf(b, e) \in ChunkIds BY <2>1, ChunkBounds
  <2> QED BY <1>1, <2>1, <2>2 DEF PaidChunk
<1> QED BY <1>1, <1>2, <1>3 DEF PaidInFull
-----------------------------------------------------------------------------
(***************************************************************************)
(* The inductive invariant of the payouts.                                 *)
(***************************************************************************)
\* A submission knows that the chunks before its own were applied, and settles when all
\* of them were; its batch is one that was built.
SubmitKnows(r) ==
    LET b == req[r].batch IN
    /\ req[r].pc # "idle" => b \in Batches /\ batch[b].status \notin {"none", "planned"}
    /\ req[r].pc \in {"sending", "sent"} =>
          \A e \in Recipients(b) : ChunkOf(b, e) < req[r].chunk => PaidChunk(b, e)
    /\ req[r].pc = "settling" => PaidInFull(b)

SaleKinds == {"collected", "direct"}

\* An entry is written by a credit or a settlement that is over.
EntryStands(x) ==
    /\ x.kind \in SaleKinds => credit[x.of].pc = "done"
    /\ x.kind = "payout" => /\ req[x.of].pc = "done"
                            /\ PaidChunk(req[x.of].batch, x.educator)
                            /\ x.amount = batch[req[x.of].batch].pay[x.educator]

PayInv ==
    /\ PayTypes
    /\ \A r \in Requests : SubmitKnows(r)
    /\ IsFiniteSet(ledger) /\ \A x \in ledger : EntryStands(x)
    /\ \A b \in Batches : batch[b].status = "none" <=> Recipients(b) = {}
    /\ \A b \in Batches : batch[b].status = "planned" => ~batch[b].dead


\* A batch that may still pay.
Pending(b) == batch[b].status \notin {"none", "confirmed"} /\ ~Void(b)

\* The sums of the books, over all sales and all batches.
DirectCredit(s, e) == s \in Direct /\ EducatorOf[s] = e /\ credit[s].pc \in {"saved", "done"}
Recorded(s, k, e) == SaleEntry(s).kind = k /\ EducatorOf[s] = e /\ credit[s].pc = "done"
CreditedDirect(e) == SumOn([s \in Sales |-> IF DirectCredit(s, e) THEN AmountOf[s] ELSE 0], Sales)
SalesRecorded(k, e) ==
    SumOn([s \in Sales |-> IF Recorded(s, k, e) THEN AmountOf[s] ELSE 0], Sales)
Confirmed(e) ==
    SumOn([b \in Batches |-> IF batch[b].status = "confirmed" THEN batch[b].pay[e] ELSE 0], Batches)

\* Careful operators have one submission under way, of a batch that can still pay, and
\* one batch that may still pay: each educator in it is owed what it pays them.
OneBusy ==
    /\ \A r, q \in Requests : Busy(r) /\ Busy(q) => r = q
    /\ \A r \in Requests : Busy(r) => batch[req[r].batch].status \in {"built", "failed"}

OnePending == \A b, d \in Batches : Pending(b) /\ Pending(d) => b = d

BalanceExact(e) ==
    /\ \A b \in Batches : Pending(b) => batch[b].pay[e] <= balance[e].owed
    /\ balance[e].owed + Confirmed(e) = Earned(e)
    /\ balance[e].settled = CreditedDirect(e) + Confirmed(e)

EntriesExact(e) ==
    /\ \A k \in SaleKinds : Amounts(k, e) = SalesRecorded(k, e)
    /\ practice = "careful" => Amounts("payout", e) = Confirmed(e)

CarefulInv ==
    practice = "careful" =>
        /\ OneBusy /\ OnePending /\ ConfirmedIsPaid
        /\ \A e \in Educators \ stale : BalanceExact(e)

BooksInv == PayInv /\ CarefulInv /\ \A e \in Educators : EntriesExact(e)
-----------------------------------------------------------------------------
(***************************************************************************)
(* Types of the payouts.                                                   *)
(***************************************************************************)
CreditStep(s) == CreditInSession(s) \/ ReadBalance(s) \/ SaveBalance(s) \/ SaveEntry(s)

BatchStep(b) ==
    \/ \E x \in Educators : ReadOwed(b, x)
    \/ \E online \in BOOLEAN : BuildBatch(b, online)
    \/ Expire(b)
    \/ \E c \in ChunkIds, o \in {"paid", "failed"} : NetworkApplies(b, c, o)

SubmitStep(r) ==
    \/ \E b \in Batches : OpenSubmit(r, b)
    \/ SendChunk(r) \/ ChunkVerified(r) \/ ChunkFails(r) \/ Revert(r)
    \/ Settle(r) \/ (\E w \in BOOLEAN : AbortSettle(r, w)) \/ LoseSubmit(r)

LEMMA PayoutSteps ==
  PayNext => \/ \E s \in Sales : CreditStep(s)
             \/ \E b \in Batches : BatchStep(b)
             \/ \E r \in Requests : SubmitStep(r)
BY DEF PayNext, CreditStep, BatchStep, SubmitStep

LEMMA PayInitTypes == PayInit => PayTypes
BY SetAssumption
   DEF PayInit, PayTypes, Balances, BatchDocs, Submissions, NoBalance, NoBatch, NoRequest

LEMMA SalesKnown ==
  ASSUME NEW s \in Sales
  PROVE  EducatorOf[s] \in Educators /\ AmountOf[s] \in Nat /\ SaleEntry(s) \in Entries
BY SaleAssumption DEF SaleEntry, Entries

LEMMA CreditTypes ==
  ASSUME PayTypes, NEW s \in Sales, CreditStep(s)
  PROVE  PayTypes'
<1> DEFINE e == EducatorOf[s]
<1> USE DEF PayTypes
<1>0. e \in Educators /\ AmountOf[s] \in Nat /\ SaleEntry(s) \in Entries /\ balance[e] \in Balances
  BY SalesKnown
<1>1. \A x \in Balances : Credited(x, s) \in Balances
  BY <1>0 DEF Credited, Balances
<1>2. CASE CreditInSession(s)
  <2>1. balance' = [balance EXCEPT ![e] = Credited(balance[e], s)]
    BY <1>2 DEF CreditInSession
  <2> HIDE DEF e
  <2>2. balance' \in [Educators -> Balances] BY <1>0, <1>1, <2>1
  <2>3. ledger' \subseteq Entries BY <1>0, <1>2 DEF CreditInSession
  <2>4. credit' \in [Sales -> [pc : {"new", "read", "saved", "done"}, seen : Balances]]
    BY <1>2 DEF CreditInSession
  <2> QED BY <1>2, <2>2, <2>3, <2>4 DEF CreditInSession
<1>3. CASE ReadBalance(s) BY <1>0, <1>3 DEF ReadBalance
<1>4. CASE SaveBalance(s)
  <2>1. credit[s].seen \in Balances BY <1>4
  <2>2. balance' \in [Educators -> Balances] BY <1>0, <1>1, <1>4, <2>1 DEF SaveBalance, Balances
  <2>3. credit' \in [Sales -> [pc : {"new", "read", "saved", "done"}, seen : Balances]]
    BY <1>4 DEF SaveBalance
  <2>4. stale' \subseteq Educators BY <1>0, <1>4 DEF SaveBalance
  <2> QED BY <1>4, <2>2, <2>3, <2>4 DEF SaveBalance
<1>5. CASE SaveEntry(s) BY <1>0, <1>5 DEF SaveEntry
<1> QED BY <1>2, <1>3, <1>4, <1>5 DEF CreditStep
LEMMA BatchWrites ==
  ASSUME PayTypes, NEW b \in Batches
  PROVE  /\ \A x \in Educators : Planned(b, x) \in BatchDocs
         /\ \A n \in Nat \cup {Unset} : Built(b, n) \in BatchDocs
         /\ \A st \in {"built", "failed", "confirmed"} :
                [batch[b] EXCEPT !.status = st] \in BatchDocs
         /\ [batch[b] EXCEPT !.dead = TRUE] \in BatchDocs
<1>1. batch[b] \in BatchDocs /\ \A e \in Educators : balance[e].owed \in Nat
  BY DEF PayTypes, Balances
<1>2. \A x \in Educators : Planned(b, x) \in BatchDocs
  BY <1>1 DEF Planned, BatchDocs
<1>3. \A n \in Nat \cup {Unset} : Built(b, n) \in BatchDocs
  BY <1>1 DEF Built, BatchDocs
<1> QED BY <1>1, <1>2, <1>3 DEF BatchDocs

LEMMA BatchTypes ==
  ASSUME PayTypes, NEW b \in Batches, BatchStep(b)
  PROVE  PayTypes'
<1> USE DEF PayTypes
<1>1. ASSUME NEW x \in Educators, ReadOwed(b, x) PROVE PayTypes'
  BY <1>1, BatchWrites DEF ReadOwed
<1>2. ASSUME NEW online \in BOOLEAN, BuildBatch(b, online) PROVE PayTypes'
  <2>1. (IF online THEN nextSeq ELSE Unset) \in Nat \cup {Unset} OBVIOUS
  <2>2. Built(b, IF online THEN nextSeq ELSE Unset) \in BatchDocs BY <2>1, BatchWrites
  <2> QED BY <1>2, <2>2 DEF BuildBatch
<1>3. CASE Expire(b) BY <1>3, BatchWrites DEF Expire
<1>4. ASSUME NEW c \in ChunkIds, NEW o \in {"paid", "failed"}, NetworkApplies(b, c, o)
      PROVE  PayTypes'
  BY <1>4 DEF NetworkApplies
<1> QED BY <1>1, <1>2, <1>3, <1>4 DEF BatchStep

LEMMA SubmitWrites ==
  ASSUME PayTypes, NEW r \in Requests
  PROVE  /\ \A pc \in {"sending", "sent", "reverting", "settling", "done"} :
                [req[r] EXCEPT !.pc = pc] \in Submissions
         /\ Advanced(r) \in Submissions
         /\ \A b \in Batches, st \in {"built", "failed"} :
                [pc |-> "sending", batch |-> b, chunk |-> 0, loaded |-> st] \in Submissions
BY DEF PayTypes, Advanced, Submissions

LEMMA SubmitTypes ==
  ASSUME PayTypes, NEW r \in Requests, SubmitKnows(r), SubmitStep(r)
  PROVE  PayTypes'
<1> USE DEF PayTypes
<1>1. ASSUME NEW b \in Batches, OpenSubmit(r, b) PROVE PayTypes'
  BY <1>1, SubmitWrites DEF OpenSubmit
<1>2. CASE SendChunk(r)
  <2>1. chain' \in [Batches -> [ChunkIds -> {"none", "sent", "paid", "failed"}]]
    BY <1>2 DEF SendChunk
  <2> QED BY <1>2, <2>1, SubmitWrites DEF SendChunk
<1>3. CASE ChunkVerified(r) BY <1>3, SubmitWrites DEF ChunkVerified
<1>4. CASE ChunkFails(r)
  <2>1. batch' \in [Batches -> BatchDocs]
    BY <1>4, BatchWrites DEF ChunkFails
  <2> QED BY <1>4, <2>1, SubmitWrites DEF ChunkFails
<1>5. CASE Revert(r)
  <2>1. batch' \in [Batches -> BatchDocs] BY <1>5, BatchWrites DEF Revert
  <2> QED BY <1>5, <2>1, SubmitWrites DEF Revert
<1>6. CASE Settle(r)
  <2>0. req[r].batch \in Batches BY <1>6 DEF Settle, SubmitKnows
  <2>1. batch' \in [Batches -> BatchDocs] BY <1>6, <2>0, BatchWrites DEF Settle
  <2>2. balance' \in [Educators -> Balances]
    <3>1. \A e \in Educators : Settled(req[r].batch, e) \in Balances
      BY <1>6, <2>0 DEF Settled, Balances, BatchDocs
    <3> QED BY <1>6, <2>0, <3>1 DEF Settle
  <2>3. ledger' \subseteq Entries
    <3>1. PayoutEntries(r) \subseteq Entries
      BY <1>6, <2>0 DEF PayoutEntries, Entries, Recipients, BatchDocs
    <3> QED BY <1>6, <2>0, <3>1 DEF Settle
  <2> QED BY <1>6, <2>0, <2>1, <2>2, <2>3, SubmitWrites DEF Settle
<1>7. ASSUME NEW w \in BOOLEAN, AbortSettle(r, w) PROVE PayTypes'
  <2>1. batch' \in [Batches -> BatchDocs] BY <1>7, BatchWrites DEF AbortSettle
  <2> QED BY <1>7, <2>1, SubmitWrites DEF AbortSettle
<1>8. CASE LoseSubmit(r) BY <1>8, SubmitWrites DEF LoseSubmit
<1> QED BY <1>1, <1>2, <1>3, <1>4, <1>5, <1>6, <1>7, <1>8 DEF SubmitStep
-----------------------------------------------------------------------------
(***************************************************************************)
(* What a submission knows, and what an entry says, stays true.            *)
(***************************************************************************)
\* A batch that was built keeps its payments, and what was applied stays so.
BatchesKept ==
    \A b \in Batches :
        /\ batch[b].status \notin {"none", "planned"} =>
              batch'[b].status \notin {"none", "planned"} /\ batch'[b].pay = batch[b].pay
        /\ \A c \in ChunkIds : chain[b][c] = "paid" => chain'[b][c] = "paid"

LEMMA BatchKeeps ==
  ASSUME PayTypes, NEW b \in Batches, BatchStep(b) \/ UNCHANGED payVars
  PROVE  BatchesKept
<1> USE DEF PayTypes, BatchDocs
<1>1. ASSUME NEW x \in Educators, ReadOwed(b, x) PROVE BatchesKept
  BY <1>1 DEF ReadOwed, NoBatch, BatchesKept
<1>2. ASSUME NEW online \in BOOLEAN, BuildBatch(b, online) PROVE BatchesKept
  BY <1>2 DEF BuildBatch, BatchesKept
<1>3. CASE Expire(b) BY <1>3 DEF Expire, BatchesKept
<1>4. ASSUME NEW c \in ChunkIds, NEW o \in {"paid", "failed"}, NetworkApplies(b, c, o)
      PROVE  BatchesKept
  BY <1>4 DEF NetworkApplies, CanApply, BatchesKept
<1>5. CASE UNCHANGED payVars BY <1>5 DEF payVars, BatchesKept
<1> QED BY <1>1, <1>2, <1>3, <1>4, <1>5 DEF BatchStep

LEMMA SubmitKeeps ==
  ASSUME PayTypes, NEW r \in Requests, SubmitKnows(r), SubmitStep(r)
  PROVE  BatchesKept
<1> USE DEF PayTypes, BatchDocs
<1>1. ASSUME NEW b \in Batches, OpenSubmit(r, b) PROVE BatchesKept
  BY <1>1 DEF OpenSubmit, BatchesKept
<1>2. CASE SendChunk(r) BY <1>2 DEF SendChunk, BatchesKept
<1>3. CASE ChunkVerified(r) BY <1>3 DEF ChunkVerified, BatchesKept
<1>4. CASE ChunkFails(r) BY <1>4 DEF ChunkFails, BatchesKept
<1>5. CASE Revert(r) BY <1>5 DEF Revert, BatchesKept
<1>6. CASE Settle(r) BY <1>6 DEF Settle, BatchesKept
<1>7. ASSUME NEW w \in BOOLEAN, AbortSettle(r, w) PROVE BatchesKept
  BY <1>7 DEF AbortSettle, BatchesKept
<1>8. CASE LoseSubmit(r) BY <1>8 DEF LoseSubmit, BatchesKept
<1> QED BY <1>1, <1>2, <1>3, <1>4, <1>5, <1>6, <1>7, <1>8 DEF SubmitStep

LEMMA BuiltStays ==
  ASSUME PayTypes, PayTypes', BatchesKept, NEW b \in Batches,
         batch[b].status \notin {"none", "planned"}
  PROVE  /\ batch'[b].status \notin {"none", "planned"} /\ batch'[b].pay = batch[b].pay
         /\ Recipients(b)' = Recipients(b)
         /\ \A e : PaidChunk(b, e) => PaidChunk(b, e)'
         /\ PaidInFull(b) => PaidInFull(b)'
         /\ \A e \in Educators : ChunkOf(b, e)' = ChunkOf(b, e)
         /\ LastChunk(b)' = LastChunk(b)
<1>1. batch'[b].status \notin {"none", "planned"} /\ batch'[b].pay = batch[b].pay
  BY DEF BatchesKept
<1>2. Recipients(b)' = Recipients(b) BY <1>1 DEF Recipients
<1>3. \A c \in ChunkIds : chain[b][c] = "paid" => chain'[b][c] = "paid" BY DEF BatchesKept
<1> QED BY <1>1, <1>2, <1>3, PaidStays

LEMMA KnowsStays ==
  ASSUME PayTypes, PayTypes', BatchesKept, NEW r \in Requests, SubmitKnows(r), req'[r] = req[r]
  PROVE  SubmitKnows(r)'
<1>1. CASE req[r].pc = "idle" BY <1>1 DEF SubmitKnows
<1>2. CASE req[r].pc # "idle"
  <2>0. req[r].batch \in Batches BY <1>2 DEF SubmitKnows
  <2>b. PICK b \in Batches : b = req[r].batch BY <2>0
  <2>1. batch[b].status \notin {"none", "planned"} BY <1>2, <2>b DEF SubmitKnows
  <2>2. /\ batch'[b].status \notin {"none", "planned"} /\ Recipients(b)' = Recipients(b)
        /\ \A e : PaidChunk(b, e) => PaidChunk(b, e)'
        /\ PaidInFull(b) => PaidInFull(b)'
        /\ \A e \in Educators : ChunkOf(b, e)' = ChunkOf(b, e)
    BY <2>1, BuiltStays
  <2>3. Recipients(b) \subseteq Educators BY DEF Recipients
  <2>4. req[r].pc \in {"sending", "sent"} =>
          \A e \in Recipients(b)' : ChunkOf(b, e)' < req[r].chunk => PaidChunk(b, e)'
    BY <2>b, <2>2, <2>3 DEF SubmitKnows
  <2>5. req[r].pc = "settling" => PaidInFull(b)' BY <2>b, <2>2 DEF SubmitKnows
  <2>6. req'[r].batch = b /\ req'[r].pc = req[r].pc /\ req'[r].chunk = req[r].chunk BY <2>b
  <2> QED BY <2>1, <2>2, <2>4, <2>5, <2>6 DEF SubmitKnows
<1> QED BY <1>1, <1>2

LEMMA StandsStays ==
  ASSUME PayTypes, PayTypes', BatchesKept, NEW x \in Entries, EntryStands(x),
         x.kind \in SaleKinds => (credit[x.of].pc = "done" => credit'[x.of].pc = "done"),
         x.kind = "payout" => SubmitKnows(x.of) /\ req'[x.of] = req[x.of]
  PROVE  EntryStands(x)'
<1>1. CASE x.kind \in SaleKinds BY <1>1 DEF EntryStands, SaleKinds
<1>2. CASE x.kind = "payout"
  <2>0. req[x.of].batch \in Batches BY <1>2 DEF EntryStands, SubmitKnows
  <2>b. PICK b \in Batches : b = req[x.of].batch BY <2>0
  <2>1. batch[b].status \notin {"none", "planned"} BY <1>2, <2>b DEF EntryStands, SubmitKnows
  <2>2. batch'[b].pay = batch[b].pay /\ \A e : PaidChunk(b, e) => PaidChunk(b, e)'
    BY <2>1, BuiltStays
  <2>3. req'[x.of].batch = b /\ req'[x.of].pc = req[x.of].pc BY <1>2, <2>b
  <2>4. req[x.of].pc = "done" /\ PaidChunk(b, x.educator) /\ x.amount = batch[b].pay[x.educator]
    BY <1>2, <2>b DEF EntryStands
  <2> QED BY <1>2, <2>2, <2>3, <2>4 DEF EntryStands
<1> QED BY <1>1, <1>2 DEF EntryStands
LEMMA CreditKeeps ==
  ASSUME PayInv, NEW s \in Sales, CreditStep(s)
  PROVE  PayInv'
<1>1. PayTypes /\ PayTypes' BY CreditTypes DEF PayInv
<1>2. /\ batch' = batch /\ req' = req /\ chain' = chain
      /\ ledger' = ledger \/ (ledger' = ledger \cup {SaleEntry(s)} /\ credit'[s].pc = "done")
      /\ \A t \in Sales : credit[t].pc = "done" => credit'[t].pc = "done"
  <2>0. credit \in [Sales -> [pc : {"new", "read", "saved", "done"}, seen : Balances]]
    BY <1>1 DEF PayTypes
  <2>1. CASE CreditInSession(s) BY <2>0, <2>1 DEF CreditInSession
  <2>2. CASE ReadBalance(s) BY <2>0, <2>2 DEF ReadBalance
  <2>3. CASE SaveBalance(s) BY <2>0, <2>3 DEF SaveBalance
  <2>4. CASE SaveEntry(s) BY <2>0, <2>4 DEF SaveEntry
  <2> QED BY <2>1, <2>2, <2>3, <2>4 DEF CreditStep
<1>3. BatchesKept BY <1>2 DEF BatchesKept
<1>4. \A r \in Requests : SubmitKnows(r)' BY <1>1, <1>2, <1>3, KnowsStays DEF PayInv
<1>5. IsFiniteSet(ledger') BY <1>2, FS_AddElement DEF PayInv
<1>6. ASSUME NEW x \in ledger' PROVE EntryStands(x)'
  <2>1. CASE x \in ledger
    <3>1. x \in Entries /\ EntryStands(x) BY <1>1, <2>1 DEF PayInv, PayTypes
    <3>2. x.kind \in SaleKinds => x.of \in Sales BY <3>1 DEF Entries, SaleKinds
    <3>3. x.kind = "payout" => x.of \in Requests BY <3>1 DEF Entries
    <3>4. x.kind = "payout" => SubmitKnows(x.of) /\ req'[x.of] = req[x.of]
      BY <1>2, <3>3 DEF PayInv
    <3> QED BY <1>1, <1>2, <1>3, <3>1, <3>2, <3>4, StandsStays
  <2>2. CASE x \notin ledger
    <3>1. x.kind \in SaleKinds /\ x.of = s /\ credit'[s].pc = "done"
      BY <1>2, <2>2 DEF SaleEntry, SaleKinds
    <3> QED BY <3>1 DEF EntryStands, SaleKinds
  <2> QED BY <2>1, <2>2
<1>7. \A b \in Batches : batch'[b].status = "none" <=> Recipients(b)' = {}
  BY <1>2 DEF PayInv, Recipients
<1>8. \A b \in Batches : batch'[b].status = "planned" => ~batch'[b].dead BY <1>2 DEF PayInv
<1> QED BY <1>1, <1>4, <1>5, <1>6, <1>7, <1>8 DEF PayInv

\* The entries do not change with a step that leaves the ledger alone.
LEMMA EntriesKept ==
  ASSUME PayInv, PayTypes', BatchesKept, ledger' = ledger, credit' = credit,
         \A r \in Requests : req[r].pc = "done" => req'[r] = req[r]
  PROVE  IsFiniteSet(ledger') /\ \A x \in ledger' : EntryStands(x)'
<1>1. ASSUME NEW x \in ledger PROVE EntryStands(x)'
  <2>1. x \in Entries /\ EntryStands(x) BY DEF PayInv, PayTypes
  <2>2. x.kind = "payout" => x.of \in Requests BY <2>1 DEF Entries
  <2>3. x.kind = "payout" => SubmitKnows(x.of) /\ req'[x.of] = req[x.of]
    BY <2>1, <2>2 DEF PayInv, EntryStands
  <2> QED BY <2>1, <2>3, StandsStays DEF PayInv
<1> QED BY <1>1 DEF PayInv

LEMMA BatchSafe ==
  ASSUME PayInv, (\E b \in Batches : BatchStep(b)) \/ UNCHANGED payVars
  PROVE  PayInv'
<1>1. PayTypes /\ PayTypes'
  <2>1. CASE UNCHANGED payVars BY <2>1 DEF payVars, PayTypes, PayInv
  <2>2. CASE \E b \in Batches : BatchStep(b) BY <2>2, BatchTypes DEF PayInv
  <2> QED BY <2>1, <2>2
<1>2. BatchesKept
  <2>1. CASE UNCHANGED payVars BY <2>1 DEF payVars, BatchesKept
  <2>2. CASE \E b \in Batches : BatchStep(b) BY <1>1, <2>2, BatchKeeps
  <2> QED BY <2>1, <2>2
<1>3. ledger' = ledger /\ credit' = credit /\ req' = req
  BY DEF BatchStep, ReadOwed, BuildBatch, Expire, NetworkApplies, payVars
<1>4. \A r \in Requests : SubmitKnows(r)' BY <1>1, <1>2, <1>3, KnowsStays DEF PayInv
<1>5. IsFiniteSet(ledger') /\ \A x \in ledger' : EntryStands(x)'
  BY <1>1, <1>2, <1>3, EntriesKept
<1>6. ASSUME NEW b \in Batches, batch'[b].status # "none" PROVE Recipients(b)' # {}
  <2>1. CASE batch'[b].pay = batch[b].pay /\ batch[b].status # "none"
    BY <2>1 DEF PayInv, Recipients
  <2>2. ASSUME NEW x \in Educators, ReadOwed(b, x) PROVE Recipients(b)' # {}
    <3>1. batch'[b].pay[x] = balance[x].owed /\ balance[x].owed > 0
      BY <1>1, <2>2 DEF ReadOwed, Planned, PayTypes, BatchDocs
    <3> QED BY <3>1 DEF Recipients
  <2>3. ASSUME \A x \in Educators : ~ReadOwed(b, x)
        PROVE  batch'[b].pay = batch[b].pay /\ batch[b].status # "none"
    <3>1. ASSUME NEW d \in Batches, NEW x \in Educators, ReadOwed(d, x)
          PROVE batch'[b].pay = batch[b].pay /\ batch[b].status # "none"
      BY <1>1, <1>6, <2>3, <3>1 DEF ReadOwed, PayTypes
    <3>2. ASSUME NEW d \in Batches, NEW online \in BOOLEAN, BuildBatch(d, online)
          PROVE batch'[b].pay = batch[b].pay /\ batch[b].status # "none"
      BY <1>1, <1>6, <3>2 DEF BuildBatch, Built, PayTypes
    <3>3. ASSUME NEW d \in Batches, Expire(d)
          PROVE batch'[b].pay = batch[b].pay /\ batch[b].status # "none"
      BY <1>1, <1>6, <3>3 DEF Expire, PayTypes, BatchDocs
    <3>4. ASSUME batch' = batch
          PROVE batch'[b].pay = batch[b].pay /\ batch[b].status # "none"
      BY <1>6, <3>4
    <3>5. ASSUME NEW d \in Batches, NEW c \in ChunkIds, NEW o \in {"paid", "failed"},
                 NetworkApplies(d, c, o)
          PROVE  batch' = batch
      BY <3>5 DEF NetworkApplies
    <3>6. UNCHANGED payVars => batch' = batch BY DEF payVars
    <3> QED BY <3>1, <3>2, <3>3, <3>4, <3>5, <3>6 DEF BatchStep
  <2> QED BY <2>1, <2>2, <2>3
<1>7. ASSUME NEW b \in Batches, batch'[b].status = "none" PROVE Recipients(b)' = {}
  <2>1. batch'[b].pay = batch[b].pay /\ batch[b].status = "none"
    <3>1. ASSUME NEW d \in Batches, NEW x \in Educators, ReadOwed(d, x)
          PROVE batch'[b].pay = batch[b].pay /\ batch[b].status = "none"
      BY <1>1, <1>7, <3>1 DEF ReadOwed, Planned, PayTypes
    <3>2. ASSUME NEW d \in Batches, NEW online \in BOOLEAN, BuildBatch(d, online)
          PROVE batch'[b].pay = batch[b].pay /\ batch[b].status = "none"
      BY <1>1, <1>7, <3>2 DEF BuildBatch, Built, PayTypes
    <3>3. ASSUME NEW d \in Batches, Expire(d)
          PROVE batch'[b].pay = batch[b].pay /\ batch[b].status = "none"
      BY <1>1, <1>7, <3>3 DEF Expire, PayTypes, BatchDocs
    <3>4. ASSUME NEW d \in Batches, NEW c \in ChunkIds, NEW o \in {"paid", "failed"},
                 NetworkApplies(d, c, o)
          PROVE  batch' = batch
      BY <3>4 DEF NetworkApplies
    <3>5. UNCHANGED payVars => batch' = batch BY DEF payVars
    <3> QED BY <1>7, <3>1, <3>2, <3>3, <3>4, <3>5 DEF BatchStep
  <2> QED BY <2>1 DEF PayInv, Recipients
<1>8. ASSUME NEW b \in Batches, batch'[b].status = "planned" PROVE ~batch'[b].dead
  <2> USE DEF PayTypes, BatchDocs
  <2>1. ASSUME NEW d \in Batches, NEW x \in Educators, ReadOwed(d, x) PROVE ~batch'[b].dead
    BY <1>1, <1>8, <2>1 DEF ReadOwed, Planned, PayInv
  <2>2. ASSUME NEW d \in Batches, NEW online \in BOOLEAN, BuildBatch(d, online)
        PROVE  ~batch'[b].dead
    BY <1>1, <1>8, <2>2 DEF BuildBatch, Built, PayInv
  <2>3. ASSUME NEW d \in Batches, Expire(d) PROVE ~batch'[b].dead
    BY <1>1, <1>8, <2>3 DEF Expire, PayInv
  <2>4. batch' = batch => ~batch'[b].dead BY <1>8 DEF PayInv
  <2>5. ASSUME NEW d \in Batches, NEW c \in ChunkIds, NEW o \in {"paid", "failed"},
               NetworkApplies(d, c, o)
        PROVE  batch' = batch
    BY <2>5 DEF NetworkApplies
  <2>6. UNCHANGED payVars => batch' = batch BY DEF payVars
  <2> QED BY <2>1, <2>2, <2>3, <2>4, <2>5, <2>6 DEF BatchStep
<1> QED BY <1>1, <1>4, <1>5, <1>6, <1>7, <1>8 DEF PayInv
LEMMA SubmitAdvances ==
  ASSUME PayInv, PayTypes', BatchesKept, NEW r \in Requests, SubmitStep(r)
  PROVE  SubmitKnows(r)'
<1>0. PayTypes /\ SubmitKnows(r) /\ req[r] \in Submissions BY DEF PayInv, PayTypes
<1>1. ASSUME NEW b \in Batches, OpenSubmit(r, b) PROVE SubmitKnows(r)'
  <2>1. /\ req'[r] = [pc |-> "sending", batch |-> b, chunk |-> 0, loaded |-> batch[b].status]
        /\ batch' = batch /\ batch[b].status \in {"built", "failed"}
    BY <1>0, <1>1 DEF OpenSubmit, PayTypes
  <2>2. \A e \in Recipients(b)' : ~(ChunkOf(b, e)' < 0)
    <3>1. ASSUME NEW e \in Recipients(b)' PROVE ~(ChunkOf(b, e)' < 0)
      <4>1. Recipients(b)' = Recipients(b) /\ e \in Educators
            /\ ChunkOf(b, e)' = ChunkOf(b, e)
        BY <1>0, <2>1, BuiltStays DEF Recipients
      <4> QED BY <1>0, <4>1, ChunkBounds
    <3> QED BY <3>1
  <2> QED BY <2>1, <2>2 DEF SubmitKnows
<1>2. ASSUME ~\E b \in Batches : OpenSubmit(r, b) PROVE SubmitKnows(r)'
  <2>0. req[r].pc # "idle" /\ req'[r].batch = req[r].batch
    BY <1>0, <1>2
      DEF SubmitStep, SendChunk, ChunkVerified, ChunkFails, Revert, Settle, AbortSettle,
          LoseSubmit, Busy, Advanced, PayTypes, Submissions
  <2>b. PICK b \in Batches : b = req[r].batch BY <1>0, <2>0 DEF SubmitKnows
  <2>1. batch[b].status \notin {"none", "planned"} BY <1>0, <2>0, <2>b DEF SubmitKnows
  <2>2. /\ batch'[b].status \notin {"none", "planned"} /\ Recipients(b)' = Recipients(b)
        /\ \A e : PaidChunk(b, e) => PaidChunk(b, e)'
        /\ \A e \in Recipients(b) : ChunkOf(b, e)' = ChunkOf(b, e)
    <3>1. Recipients(b) \subseteq Educators BY DEF Recipients
    <3> QED BY <1>0, <2>1, <3>1, BuiltStays
  <2>3. req'[r].batch = b /\ req'[r].batch \in Batches BY <2>0, <2>b
  <2>4. CASE SendChunk(r)
    <3>1. req'[r].pc = "sent" /\ req'[r].chunk = req[r].chunk /\ req[r].pc = "sending"
      BY <1>0, <2>4 DEF SendChunk, PayTypes, Submissions
    <3>2. \A e \in Recipients(b)' : ChunkOf(b, e)' < req'[r].chunk => PaidChunk(b, e)'
      BY <1>0, <2>b, <2>2, <3>1 DEF SubmitKnows
    <3> QED BY <2>2, <2>3, <3>1, <3>2 DEF SubmitKnows
  <2>5. CASE ChunkVerified(r)
    <3> DEFINE c == req[r].chunk
    <3>1. /\ req'[r] = Advanced(r) /\ chain[b][c] = "paid" /\ req[r].pc = "sent"
      BY <1>0, <2>5, <2>b DEF ChunkVerified, PayTypes
    <3>2. c \in Nat BY <1>0 DEF Submissions
    <3>3. ASSUME NEW e \in Recipients(b), ChunkOf(b, e) <= c PROVE PaidChunk(b, e)'
      <4>1. ChunkOf(b, e) \in Nat BY <1>0, ChunkBounds
      <4>2. CASE ChunkOf(b, e) < c BY <1>0, <2>b, <2>2, <3>1, <4>2 DEF SubmitKnows
      <4>3. CASE ChunkOf(b, e) = c BY <2>2, <3>1, <4>3 DEF PaidChunk
      <4> QED BY <3>2, <3>3, <4>1, <4>2, <4>3
    <3>4. CASE c = LastChunk(b)
      <4>1. req'[r].pc = "settling" BY <2>b, <3>1, <3>4 DEF Advanced
      <4>2. \A e \in Recipients(b) : ChunkOf(b, e) <= c BY <1>0, <3>4, ChunkBounds
      <4>3. PaidInFull(b)' BY <2>2, <3>3, <4>2 DEF PaidInFull
      <4> QED BY <2>2, <2>3, <4>1, <4>3 DEF SubmitKnows
    <3>5. CASE c # LastChunk(b)
      <4>1. req'[r].pc = "sending" /\ req'[r].chunk = c + 1 BY <2>b, <3>1, <3>5 DEF Advanced
      <4>2. ASSUME NEW e \in Recipients(b)', ChunkOf(b, e)' < req'[r].chunk
            PROVE  PaidChunk(b, e)'
        <5>1. ChunkOf(b, e)' = ChunkOf(b, e) /\ e \in Recipients(b) BY <2>2
        <5>2. ChunkOf(b, e) \in Nat /\ ChunkOf(b, e) < c + 1 BY <1>0, <4>1, <4>2, <5>1, ChunkBounds
        <5>3. ChunkOf(b, e) <= c BY <3>2, <5>2
        <5> QED BY <3>3, <5>1, <5>3
      <4> QED BY <2>2, <2>3, <4>1, <4>2 DEF SubmitKnows
    <3> QED BY <3>4, <3>5
  <2>6. CASE ChunkFails(r) \/ Revert(r) \/ Settle(r) \/ (\E w \in BOOLEAN : AbortSettle(r, w))
             \/ LoseSubmit(r)
    <3>1. req'[r].pc \in {"reverting", "done"}
      BY <1>0, <2>6
        DEF ChunkFails, Revert, Settle, AbortSettle, LoseSubmit, PayTypes, Submissions
    <3> QED BY <2>2, <2>3, <3>1 DEF SubmitKnows
  <2> QED BY <1>2, <2>4, <2>5, <2>6 DEF SubmitStep
<1> QED BY <1>1, <1>2

LEMMA SubmitSafe ==
  ASSUME PayInv, NEW r \in Requests, SubmitStep(r)
  PROVE  PayInv'
<1>1. PayTypes /\ PayTypes' /\ BatchesKept /\ SubmitKnows(r)
  BY SubmitTypes, SubmitKeeps DEF PayInv
<1>2. /\ credit' = credit /\ req[r].pc # "done"
      /\ \A q \in Requests : q # r => req'[q] = req[q]
  BY <1>1
    DEF SubmitStep, OpenSubmit, SendChunk, ChunkVerified, ChunkFails, Revert, Settle,
        AbortSettle, LoseSubmit, Busy, NoRequest, PayTypes
<1>3. \A q \in Requests : SubmitKnows(q)'
  BY <1>1, <1>2, KnowsStays, SubmitAdvances DEF PayInv
<1>4. ASSUME ~Settle(r) PROVE IsFiniteSet(ledger') /\ \A x \in ledger' : EntryStands(x)'
  <2>1. ledger' = ledger
    BY <1>4
      DEF SubmitStep, OpenSubmit, SendChunk, ChunkVerified, ChunkFails, Revert,
          AbortSettle, LoseSubmit
  <2> QED BY <1>1, <1>2, <2>1, EntriesKept
<1>5. ASSUME Settle(r) PROVE IsFiniteSet(ledger') /\ \A x \in ledger' : EntryStands(x)'
  <2>b. PICK b \in Batches : b = req[r].batch BY <1>1, <1>5 DEF SubmitKnows, Settle
  <2>1. ledger' = ledger \cup PayoutEntries(r) /\ req[r].pc = "settling" BY <1>5 DEF Settle
  <2>2. /\ PaidInFull(b) /\ batch[b].status \notin {"none", "planned"}
    BY <1>1, <2>b, <2>1 DEF SubmitKnows
  <2>3. /\ batch'[b].pay = batch[b].pay /\ \A e : PaidChunk(b, e) => PaidChunk(b, e)'
    BY <1>1, <2>2, BuiltStays
  <2>4. req'[r].pc = "done" /\ req'[r].batch = b
    BY <1>1, <1>5, <2>b DEF Settle, PayTypes, Submissions
  <2>5. ASSUME NEW x \in PayoutEntries(r) PROVE EntryStands(x)'
    <3>1. PICK e \in Recipients(b) :
            x = [kind |-> "payout", of |-> r, educator |-> e, amount |-> batch[b].pay[e]]
      BY <2>b DEF PayoutEntries
    <3>2. PaidChunk(b, e)' BY <2>2, <2>3 DEF PaidInFull
    <3> QED BY <2>3, <2>4, <3>1, <3>2 DEF EntryStands, SaleKinds
  <2>6. IsFiniteSet(PayoutEntries(r))
    <3> DEFINE f == [e \in Recipients(b) |->
                       [kind |-> "payout", of |-> r, educator |-> e, amount |-> batch[b].pay[e]]]
    <3>1. IsFiniteSet(Recipients(b)) BY FiniteAssumption, FS_Subset DEF Recipients
    <3>2. PayoutEntries(r) = {f[e] : e \in Recipients(b)} BY <2>b DEF PayoutEntries
    <3>3. f \in Surjection(Recipients(b), PayoutEntries(r))
      <4>1. f \in [Recipients(b) -> PayoutEntries(r)] BY <3>2
      <4>2. \A x \in PayoutEntries(r) : \E e \in Recipients(b) : f[e] = x BY <3>2
      <4> HIDE DEF f
      <4> QED BY <4>1, <4>2 DEF Surjection
    <3> HIDE DEF f
    <3> QED BY <3>1, <3>3, FS_Surjection
  <2>7. IsFiniteSet(ledger') BY <2>1, <2>6, FS_Union DEF PayInv
  <2>8. ASSUME NEW x \in ledger PROVE EntryStands(x)'
    <3>1. x \in Entries /\ EntryStands(x) BY <1>1 DEF PayInv, PayTypes
    <3>2. x.kind = "payout" => x.of \in Requests BY <3>1 DEF Entries
    <3>3. x.kind = "payout" => SubmitKnows(x.of) /\ req'[x.of] = req[x.of]
      BY <1>2, <3>1, <3>2 DEF PayInv, EntryStands
    <3> QED BY <1>1, <1>2, <3>1, <3>3, StandsStays
  <2> QED BY <2>1, <2>5, <2>7, <2>8
<1>6. ASSUME NEW b \in Batches, batch'[b].status # "none" PROVE Recipients(b)' # {}
  <2>1. batch'[b].pay = batch[b].pay
    <3>1. batch' = batch \/ \E d \in Batches, st \in {"built", "failed", "confirmed"} :
                               batch' = [batch EXCEPT ![d].status = st]
      <4>1. req[r].pc \notin {"idle"} => req[r].batch \in Batches BY <1>1 DEF SubmitKnows
      <4> QED BY <4>1
            DEF SubmitStep, OpenSubmit, SendChunk, ChunkVerified, ChunkFails, Revert, Settle,
                AbortSettle, LoseSubmit
    <3>2. ASSUME NEW d \in Batches, NEW st, batch' = [batch EXCEPT ![d].status = st]
          PROVE  batch'[b].pay = batch[b].pay
      <4>1. batch \in [Batches -> BatchDocs] BY <1>1 DEF PayTypes
      <4>2. batch'[b] = IF b = d THEN [batch[b] EXCEPT !.status = st] ELSE batch[b]
        BY <3>2, <4>1
      <4> QED BY <4>1, <4>2 DEF BatchDocs
    <3> QED BY <3>1, <3>2
  <2>2. batch[b].status # "none"
    <3>1. \/ batch' = batch
          \/ req[r].pc # "idle" /\ \A d \in Batches : d # req[r].batch => batch'[d] = batch[d]
      BY <1>1
        DEF SubmitStep, OpenSubmit, SendChunk, ChunkVerified, ChunkFails, Revert, Settle,
            AbortSettle, LoseSubmit, PayTypes
    <3> QED BY <1>1, <1>6, <3>1 DEF SubmitKnows
  <2> QED BY <2>1, <2>2 DEF PayInv, Recipients
<1>7. ASSUME NEW b \in Batches, batch'[b].status = "none" PROVE Recipients(b)' = {}
  <2>1. batch' = batch \/ \E d \in Batches, st \in {"built", "failed", "confirmed"} :
                             batch' = [batch EXCEPT ![d].status = st]
    <3>1. req[r].pc \notin {"idle"} => req[r].batch \in Batches BY <1>1 DEF SubmitKnows
    <3> QED BY <3>1
          DEF SubmitStep, OpenSubmit, SendChunk, ChunkVerified, ChunkFails, Revert, Settle,
              AbortSettle, LoseSubmit
  <2>2. ASSUME NEW d \in Batches, NEW st \in {"built", "failed", "confirmed"},
               batch' = [batch EXCEPT ![d].status = st]
        PROVE  batch'[b] = batch[b]
    <3>1. batch \in [Batches -> BatchDocs] BY <1>1 DEF PayTypes
    <3>2. batch'[b] = IF b = d THEN [batch[b] EXCEPT !.status = st] ELSE batch[b]
      BY <2>2, <3>1
    <3> QED BY <1>7, <3>1, <3>2 DEF BatchDocs
  <2>3. batch'[b] = batch[b] BY <2>1, <2>2
  <2> QED BY <1>7, <2>3 DEF PayInv, Recipients
<1>8. ASSUME NEW b \in Batches, batch'[b].status = "planned" PROVE ~batch'[b].dead
  <2>1. batch' = batch \/ \E d \in Batches, st \in {"built", "failed", "confirmed"} :
                             batch' = [batch EXCEPT ![d].status = st]
    <3>1. req[r].pc \notin {"idle"} => req[r].batch \in Batches BY <1>1 DEF SubmitKnows
    <3> QED BY <3>1
          DEF SubmitStep, OpenSubmit, SendChunk, ChunkVerified, ChunkFails, Revert, Settle,
              AbortSettle, LoseSubmit
  <2>2. ASSUME NEW d \in Batches, NEW st \in {"built", "failed", "confirmed"},
               batch' = [batch EXCEPT ![d].status = st]
        PROVE  batch'[b] = batch[b]
    <3>1. batch \in [Batches -> BatchDocs] BY <1>1 DEF PayTypes
    <3>2. batch'[b] = IF b = d THEN [batch[b] EXCEPT !.status = st] ELSE batch[b]
      BY <2>2, <3>1
    <3> QED BY <1>8, <3>1, <3>2 DEF BatchDocs
  <2>3. batch'[b] = batch[b] BY <2>1, <2>2
  <2> QED BY <1>8, <2>3 DEF PayInv
<1> QED BY <1>1, <1>3, <1>4, <1>5, <1>6, <1>7, <1>8 DEF PayInv
-----------------------------------------------------------------------------
(***************************************************************************)
(* The sums of the books, step by step.                                    *)
(***************************************************************************)
Fits(x, kind, e) == x.kind = kind /\ x.educator = e
Values(L) == [x \in L |-> x.amount]
LedgerSum(L, kind, e) == SumOn(Values(L), {x \in L : Fits(x, kind, e)})

LEMMA AmountsAreSums ==
  ASSUME NEW kind, NEW e
  PROVE  /\ Amounts(kind, e) = LedgerSum(ledger, kind, e)
         /\ Amounts(kind, e)' = LedgerSum(ledger', kind, e)
BY DEF Amounts, EntriesOf, LedgerSum, Values, Fits, SumOn

\* New entries that do not fit leave a sum as it is, and one that does adds its amount.
LEMMA LedgerSkips ==
  ASSUME NEW L, NEW A, IsFiniteSet(L), L \subseteq Entries, A \subseteq Entries,
         NEW kind, NEW e, \A x \in A : ~Fits(x, kind, e)
  PROVE  LedgerSum(L \cup A, kind, e) = LedgerSum(L, kind, e)
<1> DEFINE U == {x \in L : Fits(x, kind, e)}
           f == Values(L)
           g == Values(L \cup A)
<1>1. \A x \in U : f[x] \in Int /\ g[x] \in Int /\ f[x] = g[x]
  <2>1. \A x \in L \cup A : x.amount \in Nat BY DEF Entries
  <2> QED BY <2>1 DEF Values
<1>2. IsFiniteSet(U) BY FS_Subset
<1>3. {x \in L \cup A : Fits(x, kind, e)} = U OBVIOUS
<1>4. LedgerSum(L, kind, e) = SumOn(f, U) /\ LedgerSum(L \cup A, kind, e) = SumOn(g, U)
  BY <1>3 DEF LedgerSum
<1> HIDE DEF U, f, g
<1>5. SumOn(f, U) = SumOn(g, U) BY <1>1, <1>2, SumsCompare
<1> QED BY <1>4, <1>5

Grows(L, A, kind, e, n) == LedgerSum(L \cup A, kind, e) = LedgerSum(L, kind, e) + n

LEMMA LedgerGains ==
  ASSUME NEW L, NEW A, IsFiniteSet(L), L \subseteq Entries, A \subseteq Entries,
         NEW kind, NEW e, NEW y \in A, y \notin L, Fits(y, kind, e),
         \A x \in A : x # y => ~Fits(x, kind, e)
  PROVE  Grows(L, A, kind, e, y.amount)
<1> SUFFICES LedgerSum(L \cup A, kind, e) = LedgerSum(L, kind, e) + y.amount BY DEF Grows
<1> DEFINE U == {x \in L : Fits(x, kind, e)}
           W == U \cup {y}
           f == Values(L)
           g == Values(L \cup A)
<1>1. /\ \A x \in U : f[x] \in Int /\ g[x] \in Int /\ f[x] = g[x]
      /\ \A x \in W : g[x] \in Int
      /\ g[y] = y.amount
  <2>1. \A x \in L \cup A : x.amount \in Nat BY DEF Entries
  <2> QED BY <2>1 DEF Values
<1>2. IsFiniteSet(U) /\ IsFiniteSet(W) BY FS_Subset, FS_AddElement
<1>3. {x \in L \cup A : Fits(x, kind, e)} = W /\ W \ {y} = U /\ y \in W OBVIOUS
<1>4. LedgerSum(L, kind, e) = SumOn(f, U) /\ LedgerSum(L \cup A, kind, e) = SumOn(g, W)
  BY <1>3 DEF LedgerSum
<1> HIDE DEF U, W, f, g
<1>5. SumOn(g, U) = SumOn(f, U) /\ SumOn(f, U) \in Int BY <1>1, <1>2, SumInt, SumsCompare
<1>6. SumOn(g, W) = g[y] + SumOn(g, W \ {y}) BY <1>1, <1>2, <1>3, SumRemove
<1> DEFINE a == g[y]  u == SumOn(f, U)
<1>7. a \in Int /\ u \in Int /\ SumOn(g, W) = a + u BY <1>1, <1>3, <1>5, <1>6
<1> HIDE DEF a, u
<1>8. a + u = u + a BY <1>7
<1>9. SumOn(g, W) = u + a BY <1>7, <1>8
<1> QED BY <1>1, <1>4, <1>9 DEF a, u

AmountIf(s, p) == IF p THEN AmountOf[s] ELSE 0

LEMMA SumsTyped ==
  ASSUME PayTypes, NEW e \in Educators
  PROVE  /\ Earned(e) \in Int /\ CreditedDirect(e) \in Int /\ \A k : SalesRecorded(k, e) \in Int
         /\ Confirmed(e) \in Int
<1>1. /\ IsFiniteSet(Sales) /\ IsFiniteSet(Batches) /\ \A s \in Sales : AmountOf[s] \in Int
  BY FiniteAssumption, SalesKnown
<1>2. \A b \in Batches : batch[b].pay[e] \in Int BY DEF PayTypes, BatchDocs
<1>3. Earned(e) \in Int
  <2> DEFINE f == [s \in Sales |-> IF Collected(s, e) THEN AmountOf[s] ELSE 0]
  <2>1. \A s \in Sales : f[s] \in Int BY <1>1
  <2>2. Earned(e) = SumOn(f, Sales) BY DEF Earned, SumOn
  <2> HIDE DEF f
  <2> QED BY <1>1, <2>1, <2>2, SumInt
<1>4. CreditedDirect(e) \in Int
  <2> DEFINE f == [s \in Sales |-> IF DirectCredit(s, e) THEN AmountOf[s] ELSE 0]
  <2>1. \A s \in Sales : f[s] \in Int BY <1>1
  <2>2. CreditedDirect(e) = SumOn(f, Sales) BY DEF CreditedDirect
  <2> HIDE DEF f
  <2> QED BY <1>1, <2>1, <2>2, SumInt
<1>5. ASSUME NEW k PROVE SalesRecorded(k, e) \in Int
  <2> DEFINE f == [s \in Sales |-> IF Recorded(s, k, e) THEN AmountOf[s] ELSE 0]
  <2>1. \A s \in Sales : f[s] \in Int BY <1>1
  <2>2. SalesRecorded(k, e) = SumOn(f, Sales) BY DEF SalesRecorded
  <2> HIDE DEF f
  <2> QED BY <1>1, <2>1, <2>2, SumInt
<1>6. Confirmed(e) \in Int
  <2> DEFINE f == [b \in Batches |-> IF batch[b].status = "confirmed" THEN batch[b].pay[e] ELSE 0]
  <2>1. \A b \in Batches : f[b] \in Int BY <1>2
  <2>2. Confirmed(e) = SumOn(f, Batches) BY DEF Confirmed
  <2> HIDE DEF f
  <2> QED BY <1>1, <2>1, <2>2, SumInt
<1> QED BY <1>3, <1>4, <1>5, <1>6

\* A credit moves its own summand only.
LEMMA SaleMoves ==
  ASSUME NEW s \in Sales, \A t \in Sales \ {s} : credit'[t] = credit[t], NEW e \in Educators
  PROVE  /\ Earned(e)' = Earned(e) - AmountIf(s, Collected(s, e)) + AmountIf(s, Collected(s, e)')
         /\ CreditedDirect(e)' = CreditedDirect(e) - AmountIf(s, DirectCredit(s, e))
                                                   + AmountIf(s, DirectCredit(s, e)')
         /\ \A k : SalesRecorded(k, e)' = SalesRecorded(k, e) - AmountIf(s, Recorded(s, k, e))
                                                            + AmountIf(s, Recorded(s, k, e)')
<1>1. /\ IsFiniteSet(Sales) /\ \A t \in Sales : AmountOf[t] \in Int
  BY FiniteAssumption, SalesKnown
<1>2. Earned(e)' = Earned(e) - AmountIf(s, Collected(s, e)) + AmountIf(s, Collected(s, e)')
  <2> DEFINE f == [t \in Sales |-> IF Collected(t, e) THEN AmountOf[t] ELSE 0]
             g == [t \in Sales |-> IF Collected(t, e)' THEN AmountOf[t] ELSE 0]
  <2>1. /\ \A t \in Sales : f[t] \in Int /\ g[t] \in Int
        /\ \A t \in Sales \ {s} : g[t] = f[t]
        /\ f[s] = AmountIf(s, Collected(s, e)) /\ g[s] = AmountIf(s, Collected(s, e)')
    BY <1>1 DEF Collected, AmountIf
  <2>2. Earned(e) = SumOn(f, Sales) /\ Earned(e)' = SumOn(g, Sales)
    BY DEF Earned, SumOn
  <2> HIDE DEF f, g
  <2>3. SumOn(g, Sales) = SumOn(f, Sales) - f[s] + g[s] BY <1>1, <2>1, SumChanges
  <2> QED BY <2>1, <2>2, <2>3
<1>3. CreditedDirect(e)' = CreditedDirect(e) - AmountIf(s, DirectCredit(s, e))
                                             + AmountIf(s, DirectCredit(s, e)')
  <2> DEFINE f == [t \in Sales |-> IF DirectCredit(t, e) THEN AmountOf[t] ELSE 0]
             g == [t \in Sales |-> IF DirectCredit(t, e)' THEN AmountOf[t] ELSE 0]
  <2>1. /\ \A t \in Sales : f[t] \in Int /\ g[t] \in Int
        /\ \A t \in Sales \ {s} : g[t] = f[t]
        /\ f[s] = AmountIf(s, DirectCredit(s, e)) /\ g[s] = AmountIf(s, DirectCredit(s, e)')
    BY <1>1 DEF DirectCredit, AmountIf
  <2>2. CreditedDirect(e) = SumOn(f, Sales) /\ CreditedDirect(e)' = SumOn(g, Sales)
    BY DEF CreditedDirect
  <2> HIDE DEF f, g
  <2>3. SumOn(g, Sales) = SumOn(f, Sales) - f[s] + g[s] BY <1>1, <2>1, SumChanges
  <2> QED BY <2>1, <2>2, <2>3
<1>4. ASSUME NEW k
      PROVE  SalesRecorded(k, e)' = SalesRecorded(k, e) - AmountIf(s, Recorded(s, k, e))
                                                        + AmountIf(s, Recorded(s, k, e)')
  <2> DEFINE f == [t \in Sales |-> IF Recorded(t, k, e) THEN AmountOf[t] ELSE 0]
             g == [t \in Sales |-> IF Recorded(t, k, e)' THEN AmountOf[t] ELSE 0]
  <2>1. /\ \A t \in Sales : f[t] \in Int /\ g[t] \in Int
        /\ \A t \in Sales \ {s} : g[t] = f[t]
        /\ f[s] = AmountIf(s, Recorded(s, k, e)) /\ g[s] = AmountIf(s, Recorded(s, k, e)')
    BY <1>1 DEF Recorded, AmountIf
  <2>2. SalesRecorded(k, e) = SumOn(f, Sales) /\ SalesRecorded(k, e)' = SumOn(g, Sales)
    BY DEF SalesRecorded
  <2> HIDE DEF f, g
  <2>3. SumOn(g, Sales) = SumOn(f, Sales) - f[s] + g[s] BY <1>1, <2>1, SumChanges
  <2> QED BY <2>1, <2>2, <2>3
<1> QED BY <1>2, <1>3, <1>4

\* What is confirmed grows with the batch that becomes confirmed.
LEMMA BatchMoves ==
  ASSUME PayTypes, PayTypes', NEW b \in Batches, NEW e \in Educators,
         \A d \in Batches \ {b} : batch'[d].status = "confirmed" <=> batch[d].status = "confirmed",
         \A d \in Batches \ {b} : batch[d].status = "confirmed" => batch'[d].pay = batch[d].pay,
         batch[b].status # "confirmed"
  PROVE  /\ batch'[b].status = "confirmed" => Confirmed(e)' = Confirmed(e) + batch'[b].pay[e]
         /\ batch'[b].status # "confirmed" => Confirmed(e)' = Confirmed(e)
<1> DEFINE f == [d \in Batches |-> IF batch[d].status = "confirmed" THEN batch[d].pay[e] ELSE 0]
           g == [d \in Batches |-> IF batch'[d].status = "confirmed" THEN batch'[d].pay[e] ELSE 0]
<1>1. \A d \in Batches : batch[d].pay[e] \in Int /\ batch'[d].pay[e] \in Int
  BY DEF PayTypes, BatchDocs
<1>2. /\ \A d \in Batches : f[d] \in Int /\ g[d] \in Int
      /\ \A d \in Batches \ {b} : g[d] = f[d]
      /\ f[b] = 0
      /\ g[b] = IF batch'[b].status = "confirmed" THEN batch'[b].pay[e] ELSE 0
  BY <1>1
<1>3. Confirmed(e) = SumOn(f, Batches) /\ Confirmed(e)' = SumOn(g, Batches)
  BY DEF Confirmed
<1> HIDE DEF f, g
<1>4. SumOn(g, Batches) = SumOn(f, Batches) - f[b] + g[b] BY <1>2, FiniteAssumption, SumChanges
<1>5. SumOn(f, Batches) \in Int BY <1>2, FiniteAssumption, SumInt
<1> QED BY <1>1, <1>2, <1>3, <1>4, <1>5
-----------------------------------------------------------------------------
(***************************************************************************)
(* Careful operators: steps that neither plan nor settle a batch.          *)
(***************************************************************************)
Quiet ==
    \A b \in Batches :
        /\ batch'[b].pay = batch[b].pay
        /\ batch'[b].status = "none" <=> batch[b].status = "none"
        /\ batch'[b].status = "confirmed" <=> batch[b].status = "confirmed"
        /\ batch[b].dead => /\ batch'[b].dead
                            /\ \A c \in ChunkIds : chain'[b][c] = "paid" => chain[b][c] = "paid"

LEMMA VoidStays ==
  ASSUME PayTypes, PayTypes', Quiet, NEW b \in Batches, Void(b)
  PROVE  Void(b)'
<1>1. Recipients(b)' = Recipients(b) BY DEF Quiet, Recipients
<1>2. \A e : ChunkOf(b, e)' = ChunkOf(b, e) BY <1>1 DEF ChunkOf
<1>3. Chunks(b)' = Chunks(b) BY <1>1, <1>2 DEF Chunks
<1>4. Chunks(b) \subseteq ChunkIds BY ChunkBounds DEF Chunks
<1> QED BY <1>3, <1>4 DEF Quiet, Void

LEMMA QuietMoves ==
  ASSUME PayTypes, PayTypes', Quiet, NEW e \in Educators
  PROVE  Confirmed(e)' = Confirmed(e) /\ \A b \in Batches : Pending(b)' => Pending(b)
<1>1. Confirmed(e)' = Confirmed(e)
  <2> DEFINE f == [d \in Batches |-> IF batch[d].status = "confirmed" THEN batch[d].pay[e] ELSE 0]
             g == [d \in Batches |-> IF batch'[d].status = "confirmed" THEN batch'[d].pay[e] ELSE 0]
  <2>1. \A d \in Batches : batch[d].pay[e] \in Int BY DEF PayTypes, BatchDocs
  <2>2. \A d \in Batches : f[d] \in Int /\ g[d] \in Int /\ f[d] = g[d] BY <2>1 DEF Quiet
  <2>3. Confirmed(e) = SumOn(f, Batches) /\ Confirmed(e)' = SumOn(g, Batches) BY DEF Confirmed
  <2> HIDE DEF f, g
  <2> QED BY <2>2, <2>3, FiniteAssumption, SumsCompare
<1>2. ASSUME NEW b \in Batches, Pending(b)' PROVE Pending(b)
  BY <1>2, VoidStays DEF Quiet, Pending
<1> QED BY <1>1, <1>2

ConfirmedStays == practice = "careful" => \A e \in Educators : Confirmed(e)' = Confirmed(e)

LEMMA CarefulQuiet ==
  ASSUME PayInv, PayInv', CarefulInv, BatchesKept, practice = "careful" => Quiet,
         UNCHANGED <<balance, credit, practice, stale>>,
         practice = "careful" => OneBusy'
  PROVE  CarefulInv' /\ ConfirmedStays
<1>0. ConfirmedStays BY QuietMoves DEF PayInv, ConfirmedStays
<1> SUFFICES ASSUME practice = "careful"
             PROVE  OneBusy' /\ OnePending' /\ ConfirmedIsPaid'
                    /\ \A e \in Educators \ stale : BalanceExact(e)'
  BY <1>0 DEF CarefulInv
<1>1. OneBusy /\ OnePending /\ ConfirmedIsPaid /\ \A e \in Educators \ stale : BalanceExact(e)
  BY DEF CarefulInv
<1>2. PayTypes /\ PayTypes' BY DEF PayInv
<1>3. ASSUME NEW b \in Batches, Pending(b)' PROVE Pending(b)
  BY <1>2, <1>3, VoidStays DEF Quiet, Pending
<1>4. OnePending' BY <1>1, <1>3 DEF OnePending
<1>5. ConfirmedIsPaid'
  <2>1. ASSUME NEW b \in Batches, batch'[b].status = "confirmed" PROVE PaidInFull(b)'
    <3>1. batch[b].status = "confirmed" BY <2>1 DEF Quiet
    <3> QED BY <1>1, <1>2, <3>1, BuiltStays DEF ConfirmedIsPaid
  <2> QED BY <2>1 DEF ConfirmedIsPaid
<1>6. ASSUME NEW e \in Educators \ stale PROVE BalanceExact(e)'
  <2>1. Earned(e)' = Earned(e) BY DEF Earned, Collected
  <2>2. CreditedDirect(e)' = CreditedDirect(e) BY DEF CreditedDirect, DirectCredit
  <2>3. Confirmed(e)' = Confirmed(e) BY <1>2, QuietMoves
  <2>4. \A b \in Batches : batch'[b].pay[e] = batch[b].pay[e] BY DEF Quiet
  <2> QED BY <1>1, <1>3, <2>1, <2>2, <2>3, <2>4 DEF BalanceExact
<1> QED BY <1>4, <1>5, <1>6

LEMMA BatchCareful ==
  ASSUME PayInv, PayInv', CarefulInv, BatchesKept,
         NEW b \in Batches, BatchStep(b), \A x \in Educators : ~ReadOwed(b, x)
  PROVE  CarefulInv' /\ ConfirmedStays
<1>1. PayTypes /\ UNCHANGED <<balance, credit, practice, stale>> /\ req' = req
  BY DEF PayInv, BatchStep, BuildBatch, Expire, NetworkApplies
<1>2. Quiet /\ \A d \in Batches : batch'[d].status = batch[d].status
                                  \/ (batch[d].status = "planned" /\ batch'[d].status = "built")
  <2> USE DEF PayTypes, BatchDocs, Quiet
  <2>1. ASSUME NEW online \in BOOLEAN, BuildBatch(b, online)
        PROVE  Quiet /\ \A d \in Batches : batch'[d].status = batch[d].status
                                  \/ (batch[d].status = "planned" /\ batch'[d].status = "built")
    BY <1>1, <2>1 DEF BuildBatch, Built
  <2>2. CASE Expire(b) BY <1>1, <2>2 DEF Expire
  <2>3. ASSUME NEW c \in ChunkIds, NEW o \in {"paid", "failed"}, NetworkApplies(b, c, o)
        PROVE  Quiet /\ batch' = batch
    BY <1>1, <2>3 DEF NetworkApplies, CanApply
  <2> QED BY <2>1, <2>2, <2>3 DEF BatchStep
<1>3. ASSUME practice = "careful" PROVE OneBusy'
  <2>1. OneBusy BY <1>3 DEF CarefulInv
  <2>2. ASSUME NEW r \in Requests, Busy(r)'
        PROVE  Busy(r) /\ batch'[req'[r].batch].status \in {"built", "failed"}
    <3>1. Busy(r) /\ req'[r].batch = req[r].batch BY <1>1, <2>2 DEF Busy
    <3>2. req[r].batch \in Batches BY <3>1 DEF PayInv, SubmitKnows, Busy
    <3> QED BY <1>2, <2>1, <3>1, <3>2 DEF OneBusy
  <2> QED BY <2>1, <2>2 DEF OneBusy
<1> QED BY <1>1, <1>2, <1>3, CarefulQuiet
LEMMA SubmitCareful ==
  ASSUME PayInv, PayInv', CarefulInv, BatchesKept, NEW r \in Requests, SubmitStep(r), ~Settle(r)
  PROVE  CarefulInv' /\ ConfirmedStays
<1>1. /\ PayTypes /\ UNCHANGED <<balance, credit, practice, stale>>
      /\ \A q \in Requests : q # r => req'[q] = req[q]
  BY DEF PayInv, PayTypes, SubmitStep, OpenSubmit, SendChunk, ChunkVerified, ChunkFails, Revert,
         AbortSettle, LoseSubmit
<1>2. ASSUME practice = "careful" PROVE Quiet /\ OneBusy'
  <2>0. OneBusy BY <1>2 DEF CarefulInv
  <2>1. ASSUME NEW b \in Batches, OpenSubmit(r, b) PROVE Quiet /\ OneBusy'
    <3>1. /\ batch' = batch /\ chain' = chain /\ \A q \in Requests : ~Busy(q)
          /\ batch[b].status \in {"built", "failed"} /\ req'[r].batch = b
      BY <1>1, <1>2, <2>1 DEF OpenSubmit, OneAtATime, PayTypes
    <3>2. \A q \in Requests : Busy(q)' => q = r BY <1>1, <3>1 DEF Busy
    <3>3. OneBusy' BY <3>1, <3>2 DEF OneBusy
    <3> QED BY <3>1, <3>3 DEF Quiet
  <2>2. ASSUME ~\E b \in Batches : OpenSubmit(r, b) PROVE Quiet /\ OneBusy'
    <3>1. Busy(r) /\ req'[r].batch = req[r].batch
      BY <1>1, <2>2
        DEF SubmitStep, SendChunk, ChunkVerified, ChunkFails, Revert, AbortSettle,
            LoseSubmit, Busy, Advanced, PayTypes, Submissions
    <3>2. \A q \in Requests : Busy(q)' => q = r
      <4>1. \A q \in Requests : Busy(q) => q = r BY <2>0, <3>1 DEF OneBusy
      <4> QED BY <1>1, <4>1 DEF Busy
    <3>3. req[r].batch \in Batches BY <3>1 DEF PayInv, SubmitKnows, Busy
    <3>b. PICK b \in Batches : b = req[r].batch BY <3>3
    <3>4. batch[b].status \in {"built", "failed"} BY <2>0, <3>1, <3>b DEF OneBusy
    <3>5. batch' = batch \/ \E st \in {"built", "failed"} : batch' = [batch EXCEPT ![b].status = st]
      BY <2>2, <3>b
        DEF SubmitStep, SendChunk, ChunkVerified, ChunkFails, Revert, AbortSettle,
            LoseSubmit
    <3>6. \A d \in Batches :
             /\ batch'[d].pay = batch[d].pay /\ batch'[d].dead = batch[d].dead
             /\ d # b => batch'[d].status = batch[d].status
             /\ d = b => batch'[d].status \in {"built", "failed"}
      <4>1. batch \in [Batches -> BatchDocs] BY <1>1 DEF PayTypes
      <4>2. ASSUME NEW st \in {"built", "failed"}, batch' = [batch EXCEPT ![b].status = st],
                   NEW d \in Batches
            PROVE /\ batch'[d].pay = batch[d].pay /\ batch'[d].dead = batch[d].dead
                  /\ d # b => batch'[d].status = batch[d].status
                  /\ d = b => batch'[d].status \in {"built", "failed"}
        <5>1. batch'[d] = IF d = b THEN [batch[b] EXCEPT !.status = st] ELSE batch[d]
          BY <4>1, <4>2
        <5> QED BY <4>1, <5>1 DEF BatchDocs
      <4> QED BY <3>4, <3>5, <4>2
    <3>7. \A d \in Batches, c \in ChunkIds : chain'[d][c] = "paid" => chain[d][c] = "paid"
      BY <1>1, <2>2
        DEF SubmitStep, SendChunk, ChunkVerified, ChunkFails, Revert, AbortSettle,
            LoseSubmit, PayTypes
    <3>8. Quiet BY <3>4, <3>6, <3>7 DEF Quiet
    <3>9. OneBusy' BY <3>1, <3>2, <3>b, <3>6 DEF OneBusy
    <3> QED BY <3>8, <3>9
  <2> QED BY <2>1, <2>2
<1> QED BY <1>1, <1>2, CarefulQuiet

\* A batch is planned with what is owed, when nothing else is pending.
LEMMA PlanCareful ==
  ASSUME PayInv, PayInv', CarefulInv, BatchesKept,
         NEW b \in Batches, NEW x \in Educators, ReadOwed(b, x)
  PROVE  CarefulInv' /\ ConfirmedStays
<1> SUFFICES ASSUME practice = "careful"
             PROVE  OneBusy' /\ OnePending' /\ ConfirmedIsPaid'
                    /\ (\A e \in Educators \ stale : BalanceExact(e)')
                    /\ \A e \in Educators : Confirmed(e)' = Confirmed(e)
  BY DEF CarefulInv, ReadOwed, ConfirmedStays
<1>1. OneBusy /\ OnePending /\ ConfirmedIsPaid /\ \A e \in Educators \ stale : BalanceExact(e)
  BY DEF CarefulInv
<1>2. PayTypes /\ PayTypes' BY DEF PayInv
<1>3. /\ UNCHANGED <<balance, ledger, credit, req, chain, practice, stale>>
      /\ batch[b].status \in {"none", "planned"} /\ batch'[b] = Planned(b, x)
      /\ \A d \in Batches : d # b => batch'[d] = batch[d]
      /\ \/ \A d \in Batches : batch[d].status \in {"none", "confirmed"} \/ Void(d)
         \/ batch[b].status = "planned"
  BY <1>2 DEF ReadOwed, NoBatch, PayTypes, OneAtATime, PreviousClosed
<1>4. OneBusy'
  <2>1. ASSUME NEW r \in Requests, Busy(r)' PROVE Busy(r) /\ batch'[req'[r].batch] = batch[req[r].batch]
    <3>1. Busy(r) /\ req'[r] = req[r] BY <1>3, <2>1 DEF Busy
    <3>2. batch[req[r].batch].status \in {"built", "failed"} BY <1>1, <3>1 DEF OneBusy
    <3>3. req[r].batch \in Batches /\ req[r].batch # b
      BY <1>3, <3>1, <3>2 DEF PayInv, SubmitKnows, Busy
    <3> QED BY <1>3, <3>1, <3>3
  <2> QED BY <1>1, <2>1 DEF OneBusy
<1>5. ASSUME NEW d \in Batches, Pending(d)' PROVE d = b
  <2>1. ASSUME d # b PROVE FALSE
    <3>1. batch'[d] = batch[d] /\ chain' = chain BY <1>3, <2>1
    <3>2. Void(d)' = Void(d) BY <3>1 DEF Void, Chunks, ChunkOf, Recipients
    <3>3. Pending(d) BY <1>5, <3>1, <3>2 DEF Pending
    <3>4. batch[b].status = "planned" BY <1>3, <3>3 DEF Pending
    <3>5. Pending(b) BY <3>4 DEF Pending, Void, PayInv
    <3> QED BY <1>1, <2>1, <3>3, <3>5 DEF OnePending
  <2> QED BY <2>1
<1>6. OnePending' BY <1>5 DEF OnePending
<1>7. /\ batch'[b].status = "planned"
      /\ \A e \in Educators : batch'[b].pay[e] = IF e = x THEN balance[e].owed ELSE batch[b].pay[e]
  BY <1>2, <1>3 DEF Planned, PayTypes, BatchDocs
<1>11. ASSUME NEW e \in Educators \ stale PROVE batch[b].pay[e] <= balance[e].owed
  <2>0. balance[e].owed \in Nat BY <1>2 DEF PayTypes, Balances
  <2>1. CASE batch[b].status = "none"
    <3>1. ~(batch[b].pay[e] > 0) BY <2>1 DEF PayInv, Recipients
    <3> QED BY <1>2, <2>0, <3>1 DEF PayTypes, BatchDocs
  <2>2. CASE batch[b].status = "planned"
    <3>1. Pending(b) BY <2>2 DEF Pending, Void, PayInv
    <3> QED BY <1>1, <3>1 DEF BalanceExact
  <2> QED BY <1>3, <2>1, <2>2
<1>8. ConfirmedIsPaid'
  <2>1. ASSUME NEW d \in Batches, batch'[d].status = "confirmed" PROVE PaidInFull(d)'
    <3>1. batch[d].status = "confirmed" BY <1>3, <1>7, <2>1
    <3> QED BY <1>1, <1>2, <3>1, BuiltStays DEF ConfirmedIsPaid
  <2> QED BY <2>1 DEF ConfirmedIsPaid
<1>10. \A e \in Educators : Confirmed(e)' = Confirmed(e) BY <1>2, <1>3, <1>7, BatchMoves
<1>9. ASSUME NEW e \in Educators \ stale PROVE BalanceExact(e)'
  <2>1. Earned(e)' = Earned(e) BY <1>3 DEF Earned, Collected
  <2>2. CreditedDirect(e)' = CreditedDirect(e) BY <1>3 DEF CreditedDirect, DirectCredit
  <2>3. Confirmed(e)' = Confirmed(e) BY <1>10
  <2>4. balance[e].owed \in Nat BY <1>2 DEF PayTypes, Balances
  <2>5. ASSUME NEW d \in Batches, Pending(d)' PROVE batch'[d].pay[e] <= balance'[e].owed
    BY <1>3, <1>5, <1>7, <1>11, <2>4, <2>5
  <2> QED BY <1>1, <1>3, <2>1, <2>2, <2>3, <2>5 DEF BalanceExact
<1> QED BY <1>4, <1>6, <1>8, <1>9, <1>10
-----------------------------------------------------------------------------
(***************************************************************************)
(* Careful operators: credits.                                             *)
(***************************************************************************)
Kept(s) == credit[s].pc \in {"saved", "done"}

LEMMA CreditMoves ==
  ASSUME PayTypes, PayTypes', NEW s \in Sales, \A t \in Sales \ {s} : credit'[t] = credit[t],
         Kept(s) => Kept(s)', NEW e \in Educators
  PROVE  /\ Earned(e)' = Earned(e)
               + AmountIf(s, ~Kept(s) /\ Kept(s)' /\ s \notin Direct /\ EducatorOf[s] = e)
         /\ CreditedDirect(e)' = CreditedDirect(e)
               + AmountIf(s, ~Kept(s) /\ Kept(s)' /\ s \in Direct /\ EducatorOf[s] = e)
         /\ Earned(e) \in Int /\ CreditedDirect(e) \in Int
<1>1. Earned(e) \in Int /\ CreditedDirect(e) \in Int /\ AmountOf[s] \in Int
  BY SumsTyped, SalesKnown
<1>2. Earned(e)' = Earned(e) - AmountIf(s, Collected(s, e)) + AmountIf(s, Collected(s, e)')
  BY SaleMoves
<1>3. CreditedDirect(e)' = CreditedDirect(e) - AmountIf(s, DirectCredit(s, e))
                                             + AmountIf(s, DirectCredit(s, e)')
  BY SaleMoves
<1>4. /\ Collected(s, e) <=> s \notin Direct /\ EducatorOf[s] = e /\ Kept(s)
      /\ Collected(s, e)' <=> s \notin Direct /\ EducatorOf[s] = e /\ Kept(s)'
      /\ DirectCredit(s, e) <=> s \in Direct /\ EducatorOf[s] = e /\ Kept(s)
      /\ DirectCredit(s, e)' <=> s \in Direct /\ EducatorOf[s] = e /\ Kept(s)'
  BY DEF Collected, DirectCredit, Kept
<1> DEFINE a == Earned(e)  d == CreditedDirect(e)  ap == Earned(e)'  dp == CreditedDirect(e)'
<1>5. /\ ap = a - AmountIf(s, Collected(s, e)) + AmountIf(s, Collected(s, e)')
      /\ dp = d - AmountIf(s, DirectCredit(s, e)) + AmountIf(s, DirectCredit(s, e)')
      /\ a \in Int /\ d \in Int
  BY <1>1, <1>2, <1>3
<1> HIDE DEF a, d, ap, dp
<1>6. /\ ap = a + AmountIf(s, ~Kept(s) /\ Kept(s)' /\ s \notin Direct /\ EducatorOf[s] = e)
      /\ dp = d + AmountIf(s, ~Kept(s) /\ Kept(s)' /\ s \in Direct /\ EducatorOf[s] = e)
  BY <1>1, <1>4, <1>5 DEF AmountIf
<1> QED BY <1>1, <1>6 DEF a, d, ap, dp

\* The balance moves by what is credited, except where a stale one was written.
LEMMA BalanceMoves ==
  ASSUME PayTypes, NEW s \in Sales, CreditStep(s), NEW e \in Educators \ stale'
  PROVE  /\ e \notin stale
         /\ balance'[e].owed = balance[e].owed
               + AmountIf(s, ~Kept(s) /\ Kept(s)' /\ s \notin Direct /\ EducatorOf[s] = e)
         /\ balance'[e].settled = balance[e].settled
               + AmountIf(s, ~Kept(s) /\ Kept(s)' /\ s \in Direct /\ EducatorOf[s] = e)
<1>0. /\ EducatorOf[s] \in Educators /\ AmountOf[s] \in Nat /\ balance[e] \in Balances
      /\ balance \in [Educators -> Balances]
      /\ credit \in [Sales -> [pc : {"new", "read", "saved", "done"}, seen : Balances]]
  BY SalesKnown DEF PayTypes
<1>1. balance[e].owed \in Nat /\ balance[e].settled \in Nat BY <1>0 DEF Balances
<1>2. CASE CreditInSession(s)
  <2>1. /\ credit[s].pc = "new" /\ credit'[s].pc = "done" /\ stale' = stale
        /\ balance'[e] = IF e = EducatorOf[s] THEN Credited(balance[e], s) ELSE balance[e]
    BY <1>0, <1>2 DEF CreditInSession
  <2>2. ~Kept(s) /\ Kept(s)' BY <2>1 DEF Kept
  <2>3. Credited(balance[e], s) =
           [owed |-> balance[e].owed + (IF s \in Direct THEN 0 ELSE AmountOf[s]),
            settled |-> balance[e].settled + (IF s \in Direct THEN AmountOf[s] ELSE 0)]
    BY <1>0, <1>1 DEF Credited, Balances
  <2> QED BY <1>0, <1>1, <2>1, <2>2, <2>3 DEF AmountIf
<1>3. CASE ReadBalance(s)
  <2>1. balance' = balance /\ stale' = stale /\ ~Kept(s)'
    BY <1>0, <1>3 DEF ReadBalance, Kept
  <2> QED BY <1>1, <2>1 DEF AmountIf
<1>4. CASE SaveBalance(s)
  <2>1. credit[s].pc = "read" /\ credit'[s].pc = "saved" /\ e \notin stale
    BY <1>0, <1>4 DEF SaveBalance
  <2>2. ~Kept(s) /\ Kept(s)' BY <2>1 DEF Kept
  <2>3. CASE e # EducatorOf[s]
    <3>1. balance'[e] = balance[e] BY <1>0, <1>4, <2>3 DEF SaveBalance
    <3> QED BY <1>1, <2>1, <2>3, <3>1 DEF AmountIf
  <2>4. CASE e = EducatorOf[s] /\ s \in Direct
    <3>1. credit[s].seen \in Balances BY <1>0
    <3>2. Credited(credit[s].seen, s).settled = credit[s].seen.settled + AmountOf[s]
      BY <2>4, <3>1 DEF Credited, Balances
    <3>3. credit[s].seen.settled = balance[e].settled
      BY <1>0, <1>4, <2>4 DEF SaveBalance
    <3>4. balance'[e] = [balance[e] EXCEPT !.settled = Credited(credit[s].seen, s).settled]
      BY <1>0, <1>4, <2>4 DEF SaveBalance
    <3>5. /\ balance'[e].owed = balance[e].owed
          /\ balance'[e].settled = balance[e].settled + AmountOf[s]
      BY <1>0, <3>2, <3>3, <3>4 DEF Balances
    <3> QED BY <1>0, <1>1, <2>1, <2>2, <2>4, <3>5 DEF AmountIf
  <2>5. CASE e = EducatorOf[s] /\ s \notin Direct
    <3>1. credit[s].seen \in Balances BY <1>0
    <3>2. Credited(credit[s].seen, s).owed = credit[s].seen.owed + AmountOf[s]
      BY <2>5, <3>1 DEF Credited, Balances
    <3>3. credit[s].seen.owed = balance[e].owed
      BY <1>0, <1>4, <2>5 DEF SaveBalance
    <3>4. balance'[e] = [balance[e] EXCEPT !.owed = Credited(credit[s].seen, s).owed]
      BY <1>0, <1>4, <2>5 DEF SaveBalance
    <3>5. /\ balance'[e].settled = balance[e].settled
          /\ balance'[e].owed = balance[e].owed + AmountOf[s]
      BY <1>0, <3>2, <3>3, <3>4 DEF Balances
    <3> QED BY <1>0, <1>1, <2>1, <2>2, <2>5, <3>5 DEF AmountIf
  <2> QED BY <2>3, <2>4, <2>5
<1>5. CASE SaveEntry(s)
  <2>1. balance' = balance /\ stale' = stale /\ Kept(s)
    BY <1>5 DEF SaveEntry, Kept
  <2> QED BY <1>1, <2>1 DEF AmountIf
<1> QED BY <1>2, <1>3, <1>4, <1>5 DEF CreditStep
LEMMA CreditCareful ==
  ASSUME PayInv, PayInv', CarefulInv, NEW s \in Sales, CreditStep(s)
  PROVE  CarefulInv'
<1>1. PayTypes /\ PayTypes' BY DEF PayInv
<1>2. UNCHANGED <<batch, req, chain, practice>>
  BY DEF CreditStep, CreditInSession, ReadBalance, SaveBalance, SaveEntry
<1>3. (\A t \in Sales \ {s} : credit'[t] = credit[t]) /\ (Kept(s) => Kept(s)')
  BY <1>1 DEF CreditStep, CreditInSession, ReadBalance, SaveBalance, SaveEntry, Kept, PayTypes
<1> SUFFICES ASSUME practice = "careful"
             PROVE  OneBusy' /\ OnePending' /\ ConfirmedIsPaid'
                    /\ \A e \in Educators \ stale' : BalanceExact(e)'
  BY <1>2 DEF CarefulInv
<1>4. OneBusy /\ OnePending /\ ConfirmedIsPaid /\ \A e \in Educators \ stale : BalanceExact(e)
  BY DEF CarefulInv
<1>5. OneBusy' BY <1>2, <1>4 DEF OneBusy, Busy
<1>6. \A b \in Batches : Pending(b)' = Pending(b)
  BY <1>2 DEF Pending, Void, Chunks, ChunkOf, Recipients
<1>7. OnePending' BY <1>4, <1>6 DEF OnePending
<1>8. ConfirmedIsPaid'
  BY <1>2, <1>4 DEF ConfirmedIsPaid, PaidInFull, PaidChunk, ChunkOf, Recipients
<1>9. ASSUME NEW e \in Educators \ stale' PROVE BalanceExact(e)'
  <2> DEFINE oA == AmountIf(s, ~Kept(s) /\ Kept(s)' /\ s \notin Direct /\ EducatorOf[s] = e)
             dA == AmountIf(s, ~Kept(s) /\ Kept(s)' /\ s \in Direct /\ EducatorOf[s] = e)
  <2>1. /\ e \notin stale
        /\ balance'[e].owed = balance[e].owed + oA /\ balance'[e].settled = balance[e].settled + dA
    BY <1>1, BalanceMoves
  <2>2. /\ Earned(e)' = Earned(e) + oA /\ CreditedDirect(e)' = CreditedDirect(e) + dA
        /\ Earned(e) \in Int /\ CreditedDirect(e) \in Int
    BY <1>1, <1>3, CreditMoves
  <2>3. oA \in Nat /\ dA \in Nat BY SalesKnown DEF AmountIf
  <2> HIDE DEF oA, dA
  <2>4. Confirmed(e)' = Confirmed(e) /\ Confirmed(e) \in Int
    BY <1>1, <1>2, SumsTyped DEF Confirmed
  <2>5. balance[e].owed \in Nat /\ balance[e].settled \in Nat
        /\ \A b \in Batches : batch[b].pay[e] \in Nat
    BY <1>1 DEF PayTypes, Balances, BatchDocs
  <2>6. /\ \A b \in Batches : Pending(b) => batch[b].pay[e] <= balance[e].owed
        /\ balance[e].owed + Confirmed(e) = Earned(e)
        /\ balance[e].settled = CreditedDirect(e) + Confirmed(e)
    BY <1>4, <2>1 DEF BalanceExact
  <2> DEFINE w == balance[e].owed  v == balance[e].settled  k == Confirmed(e)  x == Earned(e)
             y == CreditedDirect(e)  wp == balance'[e].owed  vp == balance'[e].settled
             xp == Earned(e)'  yp == CreditedDirect(e)'  kp == Confirmed(e)'
  <2>7. /\ w \in Nat /\ v \in Nat /\ k \in Int /\ x \in Int /\ y \in Int
        /\ wp = w + oA /\ vp = v + dA /\ xp = x + oA /\ yp = y + dA /\ kp = k
        /\ w + k = x /\ v = y + k
    BY <2>1, <2>2, <2>4, <2>5, <2>6
  <2> HIDE DEF w, v, k, x, y, wp, vp, xp, yp, kp
  <2>8. wp + kp = xp /\ vp = yp + kp /\ w <= wp /\ wp \in Int BY <2>3, <2>7
  <2>9. ASSUME NEW b \in Batches, Pending(b)' PROVE batch'[b].pay[e] <= wp
    <3>1. batch[b].pay[e] <= w /\ batch'[b].pay[e] = batch[b].pay[e] /\ batch[b].pay[e] \in Nat
      BY <1>2, <1>6, <2>5, <2>6, <2>9 DEF w
    <3> QED BY <2>7, <2>8, <3>1
  <2> QED BY <2>8, <2>9 DEF BalanceExact, wp, kp, xp, vp, yp
<1> QED BY <1>5, <1>7, <1>8, <1>9

LEMMA CreditEntries ==
  ASSUME PayInv, PayInv', \A e \in Educators : EntriesExact(e), NEW s \in Sales, CreditStep(s),
         NEW e \in Educators
  PROVE  EntriesExact(e)'
<1>1. PayTypes /\ PayTypes' /\ IsFiniteSet(ledger) /\ EntriesExact(e) BY DEF PayInv
<1>2. UNCHANGED <<batch, practice>>
  BY DEF CreditStep, CreditInSession, ReadBalance, SaveBalance, SaveEntry
<1>3. Confirmed(e)' = Confirmed(e) BY <1>2 DEF Confirmed
<1>4. \A t \in Sales \ {s} : credit'[t] = credit[t]
  BY <1>1 DEF CreditStep, CreditInSession, ReadBalance, SaveBalance, SaveEntry, PayTypes
<1>5. \A k : SalesRecorded(k, e)' = SalesRecorded(k, e) - AmountIf(s, Recorded(s, k, e))
                                                       + AmountIf(s, Recorded(s, k, e)')
  BY <1>4, SaleMoves
<1>6. (\A k : SalesRecorded(k, e) \in Int) /\ AmountOf[s] \in Int BY <1>1, SumsTyped, SalesKnown
<1>7. CASE ReadBalance(s) \/ SaveBalance(s)
  <2>1. ledger' = ledger /\ credit[s].pc # "done" /\ credit'[s].pc # "done"
    BY <1>1, <1>7 DEF ReadBalance, SaveBalance, PayTypes
  <2>2. \A k : ~Recorded(s, k, e) /\ ~Recorded(s, k, e)' BY <2>1 DEF Recorded
  <2>3. \A k : SalesRecorded(k, e)' = SalesRecorded(k, e) BY <1>5, <1>6, <2>2 DEF AmountIf
  <2>4. \A kind : Amounts(kind, e)' = Amounts(kind, e) BY <2>1, AmountsAreSums
  <2> QED BY <1>1, <1>2, <1>3, <2>3, <2>4 DEF EntriesExact
<1>8. CASE CreditInSession(s) \/ SaveEntry(s)
  <2> DEFINE y == SaleEntry(s)
  <2>1. ledger' = ledger \cup {y} /\ credit[s].pc # "done" /\ credit'[s].pc = "done"
    BY <1>1, <1>8 DEF CreditInSession, SaveEntry, PayTypes
  <2>2. /\ y \in Entries /\ y.kind \in SaleKinds /\ y.of = s
        /\ y.educator = EducatorOf[s] /\ y.amount = AmountOf[s]
    BY SalesKnown DEF SaleEntry, SaleKinds
  <2>3. y \notin ledger BY <2>1, <2>2 DEF PayInv, EntryStands
  <2>4. ledger \subseteq Entries /\ {y} \subseteq Entries /\ IsFiniteSet({y})
    BY <1>1, <2>2, FS_Singleton DEF PayTypes
  <2> DEFINE A == {y}
  <2>8. /\ A \subseteq Entries /\ IsFiniteSet(A) /\ ledger' = ledger \cup A /\ A \ {y} = {}
        /\ y \in A \ ledger /\ \A x \in A : x = y
    BY <2>1, <2>3, <2>4
  <2> HIDE DEF y, A
  <2>10. IsFiniteSet(ledger) /\ IsFiniteSet(A) /\ ledger \subseteq Entries /\ A \subseteq Entries
    BY <1>1, <2>4, <2>8
  <2>9. ASSUME NEW kind
        PROVE  /\ ~Fits(y, kind, e) => LedgerSum(ledger', kind, e) = LedgerSum(ledger, kind, e)
               /\ Fits(y, kind, e) =>
                    LedgerSum(ledger', kind, e) = LedgerSum(ledger, kind, e) + y.amount
    <3>1. ASSUME ~Fits(y, kind, e)
          PROVE  LedgerSum(ledger \cup A, kind, e) = LedgerSum(ledger, kind, e)
      <4>1. \A x \in A : ~Fits(x, kind, e) BY <2>8, <3>1
      <4> QED BY <2>10, <4>1, LedgerSkips
    <3>2. ASSUME Fits(y, kind, e)
          PROVE  LedgerSum(ledger \cup A, kind, e) = LedgerSum(ledger, kind, e) + y.amount
      <4>1. y \in A /\ y \notin ledger /\ \A x \in A : x # y => ~Fits(x, kind, e) BY <2>8
      <4>2. Grows(ledger, A, kind, e, y.amount) BY <2>10, <3>2, <4>1, LedgerGains
      <4> QED BY <4>2 DEF Grows
    <3> QED BY <2>8, <3>1, <3>2
  <2>5. Amounts("payout", e)' = Amounts("payout", e)
    <3>1. ~Fits(y, "payout", e) BY <2>2 DEF Fits, SaleKinds
    <3>2. LedgerSum(ledger', "payout", e) = LedgerSum(ledger, "payout", e)
      BY <2>9, <3>1
    <3> QED BY <2>1, <3>2, AmountsAreSums
  <2>6. ASSUME NEW k \in SaleKinds, Amounts(k, e) = SalesRecorded(k, e)
        PROVE  Amounts(k, e)' = SalesRecorded(k, e)'
    <3>0. y.kind = SaleEntry(s).kind BY DEF y
    <3>1. CASE EducatorOf[s] = e /\ y.kind = k
      <4>1. Fits(y, k, e) BY <2>2, <3>1 DEF Fits
      <4>2. Amounts(k, e)' = Amounts(k, e) + AmountOf[s]
        BY <2>1, <2>2, <2>9, <4>1, AmountsAreSums
      <4>3. ~Recorded(s, k, e) /\ Recorded(s, k, e)' BY <2>1, <3>0, <3>1 DEF Recorded, SaleEntry
      <4>4. SalesRecorded(k, e)' = SalesRecorded(k, e) + AmountOf[s]
        BY <1>5, <1>6, <4>3 DEF AmountIf
      <4> QED BY <2>6, <4>2, <4>4
    <3>2. CASE EducatorOf[s] # e \/ y.kind # k
      <4>1. ~Fits(y, k, e) BY <2>2, <3>2 DEF Fits
      <4>2. Amounts(k, e)' = Amounts(k, e) BY <2>1, <2>9, <4>1, AmountsAreSums
      <4>3. ~Recorded(s, k, e) /\ ~Recorded(s, k, e)' BY <3>0, <3>2 DEF Recorded, SaleEntry
      <4>4. SalesRecorded(k, e)' = SalesRecorded(k, e) BY <1>5, <1>6, <4>3 DEF AmountIf
      <4> QED BY <2>6, <4>2, <4>4
    <3> QED BY <3>1, <3>2
  <2> QED BY <1>1, <1>2, <1>3, <2>5, <2>6 DEF EntriesExact
<1> QED BY <1>7, <1>8 DEF CreditStep

LEMMA QuietEntries ==
  ASSUME UNCHANGED <<ledger, credit, practice>>, ConfirmedStays,
         NEW e \in Educators, EntriesExact(e)
  PROVE  EntriesExact(e)'
<1>1. \A k : Amounts(k, e)' = Amounts(k, e) BY AmountsAreSums
<1>2. \A k : SalesRecorded(k, e)' = SalesRecorded(k, e) BY DEF SalesRecorded, Recorded
<1> QED BY <1>1, <1>2 DEF EntriesExact, ConfirmedStays

-----------------------------------------------------------------------------
(***************************************************************************)
(* Careful operators: the settlement.  A batch paid in full is the one that *)
(* is pending, and what it pays becomes confirmed.                         *)
(***************************************************************************)
LEMMA SettleConfirms ==
  ASSUME PayInv, PayInv', CarefulInv, practice = "careful", NEW r \in Requests, Settle(r),
         NEW b \in Batches, b = req[r].batch
  PROVE  /\ Pending(b) /\ PaidInFull(b) /\ PaidInFull(b)' /\ batch[b].status \in {"built", "failed"}
         /\ batch'[b].status = "confirmed" /\ batch'[b].pay = batch[b].pay
         /\ \A d \in Batches \ {b} : batch'[d] = batch[d]
         /\ \A e \in Educators : Confirmed(e)' = Confirmed(e) + batch[b].pay[e]
<1>1. PayTypes /\ PayTypes' /\ OneBusy /\ SubmitKnows(r) BY DEF PayInv, CarefulInv
<1>2. Busy(r) /\ req[r].pc = "settling" BY DEF Settle, Busy
<1>3. batch[b].status \in {"built", "failed"} /\ PaidInFull(b) /\ Recipients(b) # {}
  BY <1>1, <1>2 DEF OneBusy, SubmitKnows, PayInv
<1>4. Pending(b)
  <2>1. PICK e \in Recipients(b) : PaidChunk(b, e) BY <1>3 DEF PaidInFull
  <2>2. ~Void(b) BY <2>1 DEF Void, Chunks, PaidChunk
  <2> QED BY <1>3, <2>2 DEF Pending
<1>5. batch' = [batch EXCEPT ![b].status = "confirmed"] BY DEF Settle
<1>6. \A d \in Batches :
         batch'[d] = IF d = b THEN [batch[b] EXCEPT !.status = "confirmed"] ELSE batch[d]
  BY <1>1, <1>5 DEF PayTypes
<1>7. batch'[b].status = "confirmed" /\ batch'[b].pay = batch[b].pay
      /\ \A d \in Batches \ {b} : batch'[d] = batch[d]
  <2>1. PICK d \in BatchDocs : d = batch[b] BY <1>1 DEF PayTypes
  <2>2. [d EXCEPT !.status = "confirmed"].status = "confirmed"
        /\ [d EXCEPT !.status = "confirmed"].pay = d.pay
    BY DEF BatchDocs
  <2> QED BY <1>6, <2>1, <2>2
<1>8. \A e \in Educators : Confirmed(e)' = Confirmed(e) + batch[b].pay[e]
  BY <1>1, <1>3, <1>7, BatchMoves
<1>9. BatchesKept BY <1>1, SubmitKeeps DEF SubmitStep
<1>10. PaidInFull(b)' BY <1>1, <1>3, <1>9, BuiltStays
<1> QED BY <1>3, <1>4, <1>7, <1>8, <1>10

LEMMA SettleCareful ==
  ASSUME PayInv, PayInv', CarefulInv, NEW r \in Requests, Settle(r)
  PROVE  CarefulInv'
<1> SUFFICES ASSUME practice = "careful"
             PROVE  OneBusy' /\ OnePending' /\ ConfirmedIsPaid'
                    /\ \A e \in Educators \ stale : BalanceExact(e)'
  BY DEF CarefulInv, Settle
<1>1. OneBusy /\ OnePending /\ ConfirmedIsPaid /\ \A e \in Educators \ stale : BalanceExact(e)
  BY DEF CarefulInv
<1>2. PayTypes /\ PayTypes' BY DEF PayInv
<1>b. PICK b \in Batches : b = req[r].batch BY DEF PayInv, SubmitKnows, Settle
<1>3. /\ Pending(b) /\ PaidInFull(b) /\ PaidInFull(b)' /\ batch[b].status \in {"built", "failed"}
      /\ batch'[b].status = "confirmed" /\ batch'[b].pay = batch[b].pay
      /\ \A d \in Batches \ {b} : batch'[d] = batch[d]
      /\ \A e \in Educators : Confirmed(e)' = Confirmed(e) + batch[b].pay[e]
  BY <1>b, SettleConfirms
<1>4. /\ UNCHANGED <<credit, chain, stale>> /\ Busy(r)
      /\ \A q \in Requests : Busy(q)' => q # r /\ Busy(q)
  BY <1>2 DEF Settle, Busy, PayTypes, Submissions
<1>5. OneBusy' BY <1>1, <1>4 DEF OneBusy
<1>6. ASSUME NEW d \in Batches PROVE ~Pending(d)'
  <2>1. SUFFICES ASSUME Pending(d)', d # b PROVE FALSE BY <1>3 DEF Pending
  <2>2. batch'[d] = batch[d] /\ chain' = chain BY <1>3, <1>4, <2>1
  <2>3. Void(d)' = Void(d) BY <2>2 DEF Void, Chunks, ChunkOf, Recipients
  <2>4. Pending(d) BY <2>1, <2>2, <2>3 DEF Pending
  <2> QED BY <1>1, <1>3, <2>1, <2>4 DEF OnePending
<1>7. OnePending' BY <1>6 DEF OnePending
<1>8. ConfirmedIsPaid'
  <2>1. ASSUME NEW d \in Batches, batch'[d].status = "confirmed" PROVE PaidInFull(d)'
    <3>1. CASE d = b BY <1>3, <3>1
    <3>2. CASE d # b
      <4>1. batch'[d] = batch[d] /\ chain' = chain BY <1>3, <1>4, <3>2
      <4>2. PaidInFull(d) BY <1>1, <2>1, <4>1 DEF ConfirmedIsPaid
      <4> QED BY <4>1, <4>2 DEF PaidInFull, PaidChunk, ChunkOf, Recipients
    <3> QED BY <3>1, <3>2
  <2> QED BY <2>1 DEF ConfirmedIsPaid
<1>9. ASSUME NEW e \in Educators \ stale PROVE BalanceExact(e)'
  <2> DEFINE p == batch[b].pay[e]  w == balance[e].owed  v == balance[e].settled
             wp == balance'[e].owed  vp == balance'[e].settled
             k == Confirmed(e)  x == Earned(e)  y == CreditedDirect(e)
             kp == Confirmed(e)'  xp == Earned(e)'  yp == CreditedDirect(e)'
  <2>1. Earned(e)' = Earned(e) BY <1>4 DEF Earned, Collected
  <2>2. CreditedDirect(e)' = CreditedDirect(e) BY <1>4 DEF CreditedDirect, DirectCredit
  <2>3. /\ p <= w /\ w + k = x /\ v = y + k /\ kp = k + p /\ xp = x /\ yp = y
    BY <1>1, <1>3, <2>1, <2>2 DEF BalanceExact
  <2>4. p \in Nat /\ w \in Nat /\ v \in Nat /\ k \in Int /\ x \in Int /\ y \in Int
    BY <1>2, SumsTyped DEF PayTypes, BatchDocs, Balances
  <2>5. balance'[e] = IF e \in Recipients(b) THEN Settled(b, e) ELSE balance[e]
    BY <1>b DEF Settle
  <2>6. wp = w - p /\ vp = v + p
    <3>1. CASE p > 0
      <4>1. e \in Recipients(b) BY <3>1 DEF Recipients
      <4> QED BY <2>3, <2>4, <2>5, <4>1 DEF Settled
    <3>2. CASE p = 0
      <4>1. e \notin Recipients(b) BY <3>2 DEF Recipients
      <4> QED BY <2>4, <2>5, <3>2, <4>1
    <3> QED BY <2>4, <3>1, <3>2
  <2> HIDE DEF p, w, v, wp, vp, k, x, y, kp, xp, yp
  <2>7. wp + kp = xp /\ vp = yp + kp BY <2>3, <2>4, <2>6
  <2> QED BY <1>6, <2>7 DEF BalanceExact, wp, vp, kp, xp, yp
<1> QED BY <1>5, <1>7, <1>8, <1>9

\* New entries of no such kind leave the educator's recorded amount as it is.
LEMMA AmountsKept ==
  ASSUME NEW A, IsFiniteSet(ledger), ledger \subseteq Entries, A \subseteq Entries,
         ledger' = ledger \cup A, NEW kind, NEW e, \A x \in A : ~Fits(x, kind, e)
  PROVE  Amounts(kind, e)' = Amounts(kind, e)
<1> DEFINE L == ledger
<1>1. LedgerSum(L \cup A, kind, e) = LedgerSum(L, kind, e) BY LedgerSkips
<1> QED BY <1>1, AmountsAreSums

LEMMA SettleEntries ==
  ASSUME PayInv, PayInv', CarefulInv, NEW r \in Requests, Settle(r),
         NEW e \in Educators, EntriesExact(e)
  PROVE  EntriesExact(e)'
<1>0. PICK A : A = PayoutEntries(r) OBVIOUS
<1>b. PICK b \in Batches : b = req[r].batch BY DEF PayInv, SubmitKnows, Settle
<1>1. /\ PayTypes /\ IsFiniteSet(ledger) /\ UNCHANGED <<credit, practice>>
      /\ ledger' = ledger \cup A /\ req[r].pc = "settling" /\ ledger \subseteq Entries
  BY <1>0 DEF PayInv, Settle, PayTypes
<1>2. A \subseteq Entries BY <1>1 DEF PayInv, PayTypes
<1>8. IsFiniteSet(ledger) /\ ledger \subseteq Entries /\ A \subseteq Entries BY <1>1, <1>2
<1>3. \A x \in A : \E d \in Recipients(b) :
         x = [kind |-> "payout", of |-> r, educator |-> d, amount |-> batch[b].pay[d]]
  BY <1>0, <1>b DEF PayoutEntries
<1>4. \A x \in A : x.kind = "payout" /\ x.of = r /\ x.educator \in Recipients(b) BY <1>3
<1>5. ASSUME NEW k \in SaleKinds PROVE Amounts(k, e)' = Amounts(k, e)
  <2>1. \A x \in A : ~Fits(x, k, e) BY <1>4 DEF Fits, SaleKinds
  <2> QED BY <1>1, <1>8, <2>1, AmountsKept
<1>6. \A k : SalesRecorded(k, e)' = SalesRecorded(k, e) BY <1>1 DEF SalesRecorded, Recorded
<1>7. ASSUME practice = "careful" PROVE Amounts("payout", e)' = Confirmed(e)'
  <2>1. Confirmed(e)' = Confirmed(e) + batch[b].pay[e] BY <1>7, <1>b, SettleConfirms
  <2>2. Amounts("payout", e) = Confirmed(e) BY <1>7 DEF EntriesExact
  <2>3. CASE e \in Recipients(b)
    <3> DEFINE y == [kind |-> "payout", of |-> r, educator |-> e, amount |-> batch[b].pay[e]]
    <3>1. y \in A BY <1>0, <1>b, <2>3 DEF PayoutEntries
    <3>2. y.kind = "payout" /\ y.of = r /\ y.educator = e /\ y.amount = batch[b].pay[e] OBVIOUS
    <3>3. \A x \in A : x # y => x.educator # e BY <1>3
    <3> HIDE DEF y
    <3>4. y \notin ledger BY <1>1, <3>2 DEF PayInv, EntryStands
    <3>5. Fits(y, "payout", e) /\ \A x \in A : x # y => ~Fits(x, "payout", e)
      BY <3>2, <3>3 DEF Fits
    <3>6. Grows(ledger, A, "payout", e, y.amount) BY <1>1, <1>2, <3>1, <3>4, <3>5, LedgerGains
    <3>7. LedgerSum(ledger', "payout", e) = LedgerSum(ledger, "payout", e) + y.amount
      BY <1>1, <3>6 DEF Grows
    <3> QED BY <2>1, <2>2, <3>2, <3>7, AmountsAreSums
  <2>4. CASE e \notin Recipients(b)
    <3>1. \A x \in A : ~Fits(x, "payout", e) BY <1>4, <2>4 DEF Fits
    <3>2. batch[b].pay[e] = 0 /\ Confirmed(e) \in Int
      BY <1>1, <2>4, SumsTyped DEF Recipients, PayTypes, BatchDocs
    <3>3. Confirmed(e)' = Confirmed(e) BY <2>1, <3>2
    <3>4. LedgerSum(ledger \cup A, "payout", e) = LedgerSum(ledger, "payout", e)
      BY <1>8, <3>1, LedgerSkips
    <3> QED BY <1>1, <2>2, <3>3, <3>4, AmountsAreSums
  <2> QED BY <2>3, <2>4
<1> QED BY <1>1, <1>5, <1>6, <1>7 DEF EntriesExact

-----------------------------------------------------------------------------
(***************************************************************************)
(* The books.                                                              *)
(***************************************************************************)
LEMMA NothingConfirmed ==
  ASSUME PayTypes, NEW e \in Educators, \A b \in Batches : batch[b].status # "confirmed",
         \A s \in Sales : credit[s].pc = "new"
  PROVE  Confirmed(e) = 0 /\ Earned(e) = 0 /\ CreditedDirect(e) = 0
         /\ \A k : SalesRecorded(k, e) = 0
<1>1. Confirmed(e) = 0
  <2> DEFINE f == [b \in Batches |-> IF batch[b].status = "confirmed" THEN batch[b].pay[e] ELSE 0]
  <2>1. (\A b \in Batches : f[b] = 0) /\ Confirmed(e) = SumOn(f, Batches) BY DEF Confirmed
  <2> HIDE DEF f
  <2> QED BY <2>1, FiniteAssumption, SumZero
<1>2. Earned(e) = 0
  <2> DEFINE f == [s \in Sales |-> IF Collected(s, e) THEN AmountOf[s] ELSE 0]
  <2>1. (\A s \in Sales : f[s] = 0) /\ Earned(e) = SumOn(f, Sales) BY DEF Earned, Collected, SumOn
  <2> HIDE DEF f
  <2> QED BY <2>1, FiniteAssumption, SumZero
<1>3. CreditedDirect(e) = 0
  <2> DEFINE f == [s \in Sales |-> IF DirectCredit(s, e) THEN AmountOf[s] ELSE 0]
  <2>1. (\A s \in Sales : f[s] = 0) /\ CreditedDirect(e) = SumOn(f, Sales)
    BY DEF CreditedDirect, DirectCredit
  <2> HIDE DEF f
  <2> QED BY <2>1, FiniteAssumption, SumZero
<1>4. ASSUME NEW k PROVE SalesRecorded(k, e) = 0
  <2> DEFINE f == [s \in Sales |-> IF Recorded(s, k, e) THEN AmountOf[s] ELSE 0]
  <2>1. (\A s \in Sales : f[s] = 0) /\ SalesRecorded(k, e) = SumOn(f, Sales)
    BY DEF SalesRecorded, Recorded
  <2> HIDE DEF f
  <2> QED BY <2>1, FiniteAssumption, SumZero
<1> QED BY <1>1, <1>2, <1>3, <1>4

LEMMA BooksInit == PayInit => BooksInv
<1> SUFFICES ASSUME PayInit PROVE BooksInv OBVIOUS
<1>1. PayTypes BY PayInitTypes
<1>2. /\ \A b \in Batches : batch[b].status = "none"
      /\ \A s \in Sales : credit[s].pc = "new"
      /\ \A r \in Requests : req[r].pc = "idle"
      /\ \A e \in Educators : balance[e].owed = 0 /\ balance[e].settled = 0
      /\ ledger = {}
  BY DEF PayInit, NoBatch, NoRequest, NoBalance
<1>3. PayInv
  <2>1. \A b \in Batches : Recipients(b) = {} BY DEF PayInit, NoBatch, Recipients
  <2> QED BY <1>1, <1>2, <2>1, FS_EmptySet DEF PayInv, SubmitKnows
<1>4. \A e \in Educators : Confirmed(e) = 0 /\ Earned(e) = 0 /\ CreditedDirect(e) = 0
                           /\ \A k : SalesRecorded(k, e) = 0
  BY <1>1, <1>2, NothingConfirmed
<1>5. \A kind, e : Amounts(kind, e) = 0
  <2>1. \A kind, e : {x \in {} : Fits(x, kind, e)} = {} OBVIOUS
  <2>2. \A kind, e : LedgerSum({}, kind, e) = 0 BY <2>1, SumEmpty DEF LedgerSum
  <2> QED BY <1>2, <2>2, AmountsAreSums
<1>6. \A e \in Educators : EntriesExact(e) BY <1>4, <1>5 DEF EntriesExact
<1>7. \A b \in Batches : ~Pending(b) BY <1>2 DEF Pending
<1>8. \A e \in Educators : BalanceExact(e)
  <2>1. \A e \in Educators : balance[e].owed + Confirmed(e) = Earned(e)
                             /\ balance[e].settled = CreditedDirect(e) + Confirmed(e)
    BY <1>2, <1>4
  <2> QED BY <1>7, <2>1 DEF BalanceExact
<1>9. OneBusy /\ OnePending /\ ConfirmedIsPaid
  BY <1>2, <1>7 DEF OneBusy, Busy, OnePending, ConfirmedIsPaid
<1> QED BY <1>3, <1>6, <1>8, <1>9 DEF BooksInv, CarefulInv

LEMMA BooksStep == BooksInv /\ [PayNext]_payVars => BooksInv'
<1> SUFFICES ASSUME BooksInv, [PayNext]_payVars PROVE BooksInv' OBVIOUS
<1>1. PayInv /\ CarefulInv /\ PayTypes /\ \A e \in Educators : EntriesExact(e)
  BY DEF BooksInv, PayInv
<1>2. ASSUME NEW s \in Sales, CreditStep(s) PROVE BooksInv'
  <2>1. PayInv' BY <1>1, <1>2, CreditKeeps
  <2>2. CarefulInv' BY <1>1, <1>2, <2>1, CreditCareful
  <2>3. \A e \in Educators : EntriesExact(e)' BY <1>1, <1>2, <2>1, CreditEntries
  <2> QED BY <2>1, <2>2, <2>3 DEF BooksInv
<1>3. ASSUME NEW b \in Batches, BatchStep(b) PROVE BooksInv'
  <2>1. PayInv' /\ BatchesKept BY <1>1, <1>3, BatchSafe, BatchKeeps
  <2>2. CarefulInv' /\ ConfirmedStays
    <3>1. ASSUME NEW x \in Educators, ReadOwed(b, x) PROVE CarefulInv' /\ ConfirmedStays
      BY <1>1, <2>1, <3>1, PlanCareful
    <3>2. ASSUME \A x \in Educators : ~ReadOwed(b, x) PROVE CarefulInv' /\ ConfirmedStays
      BY <1>1, <1>3, <2>1, <3>2, BatchCareful
    <3> QED BY <3>1, <3>2
  <2>3. UNCHANGED <<ledger, credit, practice>>
    BY <1>3 DEF BatchStep, ReadOwed, BuildBatch, Expire, NetworkApplies
  <2>4. \A e \in Educators : EntriesExact(e)' BY <1>1, <2>2, <2>3, QuietEntries
  <2> QED BY <2>1, <2>2, <2>4 DEF BooksInv
<1>4. ASSUME NEW r \in Requests, SubmitStep(r) PROVE BooksInv'
  <2>1. PayInv' /\ BatchesKept BY <1>1, <1>4, SubmitSafe, SubmitKeeps DEF PayInv
  <2>2. CASE Settle(r)
    <3>1. CarefulInv' BY <1>1, <2>1, <2>2, SettleCareful
    <3>2. \A e \in Educators : EntriesExact(e)' BY <1>1, <2>1, <2>2, SettleEntries
    <3> QED BY <2>1, <3>1, <3>2 DEF BooksInv
  <2>3. CASE ~Settle(r)
    <3>1. CarefulInv' /\ ConfirmedStays BY <1>1, <1>4, <2>1, <2>3, SubmitCareful
    <3>2. UNCHANGED <<ledger, credit, practice>>
      BY <1>4, <2>3
        DEF SubmitStep, OpenSubmit, SendChunk, ChunkVerified, ChunkFails, Revert, AbortSettle,
            LoseSubmit
    <3>3. \A e \in Educators : EntriesExact(e)' BY <1>1, <3>1, <3>2, QuietEntries
    <3> QED BY <2>1, <3>1, <3>3 DEF BooksInv
  <2> QED BY <2>2, <2>3
<1>5. CASE UNCHANGED payVars
  <2>1. PayInv' /\ BatchesKept
    <3>1. PayInv' BY <1>1, <1>5, BatchSafe
    <3> QED BY <1>5, <3>1 DEF BatchesKept, payVars
  <2>2. /\ Quiet /\ (OneBusy => OneBusy')
        /\ UNCHANGED <<balance, credit, practice, stale>> /\ UNCHANGED <<ledger, credit, practice>>
    BY <1>5 DEF payVars, Quiet, OneBusy, Busy
  <2>3. CarefulInv' /\ ConfirmedStays BY <1>1, <2>1, <2>2, CarefulQuiet DEF CarefulInv
  <2>4. \A e \in Educators : EntriesExact(e)' BY <1>1, <2>2, <2>3, QuietEntries
  <2> QED BY <2>1, <2>3, <2>4 DEF BooksInv
<1> QED BY <1>2, <1>3, <1>4, <1>5, PayoutSteps

LEMMA AuditHolds == BooksInv => BooksExact
<1> SUFFICES ASSUME BooksInv PROVE BooksExact OBVIOUS
<1>1. PayInv /\ CarefulInv /\ PayTypes BY DEF BooksInv, PayInv
<1>2. EntryIsPaid BY <1>1 DEF EntryIsPaid, PayInv, EntryStands
<1>3. ASSUME practice = "careful", NEW e \in Educators \ stale,
             \A s \in Sales : EducatorOf[s] = e => credit[s].pc \in {"new", "done"}
      PROVE  balance[e] = Computed(e)
  <2>1. SalesRecorded("collected", e) = Earned(e)
    <3> DEFINE f == [s \in Sales |-> IF Collected(s, e) THEN AmountOf[s] ELSE 0]
               h == [s \in Sales |-> IF Recorded(s, "collected", e) THEN AmountOf[s] ELSE 0]
    <3>1. \A s \in Sales : AmountOf[s] \in Int BY SalesKnown
    <3>2. \A s \in Sales : f[s] \in Int /\ h[s] \in Int /\ h[s] = f[s]
      BY <1>3, <3>1 DEF Collected, Recorded, SaleEntry
    <3>3. Earned(e) = SumOn(f, Sales) /\ SalesRecorded("collected", e) = SumOn(h, Sales)
      BY DEF Earned, SalesRecorded, SumOn
    <3> HIDE DEF f, h
    <3> QED BY <3>2, <3>3, FiniteAssumption, SumsCompare
  <2>2. SalesRecorded("direct", e) = CreditedDirect(e)
    <3> DEFINE g == [s \in Sales |-> IF DirectCredit(s, e) THEN AmountOf[s] ELSE 0]
               h == [s \in Sales |-> IF Recorded(s, "direct", e) THEN AmountOf[s] ELSE 0]
    <3>1. \A s \in Sales : AmountOf[s] \in Int BY SalesKnown
    <3>2. \A s \in Sales : g[s] \in Int /\ h[s] \in Int /\ h[s] = g[s]
      BY <1>3, <3>1 DEF DirectCredit, Recorded, SaleEntry
    <3>3. CreditedDirect(e) = SumOn(g, Sales) /\ SalesRecorded("direct", e) = SumOn(h, Sales)
      BY DEF CreditedDirect, SalesRecorded
    <3> HIDE DEF g, h
    <3> QED BY <3>2, <3>3, FiniteAssumption, SumsCompare
  <2>3. /\ Amounts("collected", e) = SalesRecorded("collected", e)
        /\ Amounts("direct", e) = SalesRecorded("direct", e)
        /\ Amounts("payout", e) = Confirmed(e)
    BY <1>3 DEF BooksInv, EntriesExact, SaleKinds
  <2>4. balance[e].owed + Confirmed(e) = Earned(e)
        /\ balance[e].settled = CreditedDirect(e) + Confirmed(e)
    BY <1>1, <1>3 DEF CarefulInv, BalanceExact
  <2>5. Earned(e) \in Int /\ CreditedDirect(e) \in Int /\ Confirmed(e) \in Int
        /\ balance[e] \in Balances
    BY <1>1, SumsTyped DEF PayTypes
  <2> DEFINE w == balance[e].owed  v == balance[e].settled  k == Confirmed(e)
             x == Earned(e)  y == CreditedDirect(e)
  <2>6. /\ w + k = x /\ v = y + k /\ w \in Int /\ k \in Int /\ x \in Int
    BY <2>4, <2>5 DEF Balances
  <2>7. balance[e] = [owed |-> w, settled |-> v] BY <2>5 DEF Balances
  <2>8. Computed(e) = [owed |-> x - k, settled |-> y + k] BY <2>1, <2>2, <2>3 DEF Computed
  <2> HIDE DEF w, v, k, x, y
  <2>9. w = x - k /\ v = y + k BY <2>6
  <2> QED BY <2>7, <2>8, <2>9
<1>4. AuditExact BY <1>3 DEF AuditExact
<1> QED BY <1>2, <1>4 DEF BooksExact

\* What moved is what is confirmed, and what the pending batch moved of what is owed.
LEMMA PaidIsEarned == BooksInv => EarnedOnce
<1> SUFFICES ASSUME BooksInv, practice = "careful", NEW e \in Educators \ stale
             PROVE  PaidTo(e) <= Earned(e) /\ Earned(e) <= PaidTo(e) + balance[e].owed
  BY DEF EarnedOnce, NeverOverpaid, NothingLost
<1>1. PayInv /\ PayTypes /\ OnePending /\ ConfirmedIsPaid /\ BalanceExact(e)
  BY DEF BooksInv, PayInv, CarefulInv
<1> DEFINE f == [b \in Batches |-> IF batch[b].status = "confirmed" THEN batch[b].pay[e] ELSE 0]
           g == [b \in Batches |-> IF PaidChunk(b, e) THEN batch[b].pay[e] ELSE 0]
           w == balance[e].owed
<1>2. Confirmed(e) = SumOn(f, Batches) /\ PaidTo(e) = SumOn(g, Batches)
  BY DEF Confirmed, PaidTo, SumOn
<1>3. \A b \in Batches : batch[b].pay[e] \in Nat BY <1>1 DEF PayTypes, BatchDocs
<1>4. w \in Nat BY <1>1 DEF PayTypes, Balances
<1>5. \A b \in Batches : f[b] \in Nat /\ g[b] \in Nat /\ f[b] \in Int /\ g[b] \in Int BY <1>3
<1>6. \A b \in Batches : f[b] <= g[b]
  <2>1. ASSUME NEW b \in Batches, batch[b].status = "confirmed", batch[b].pay[e] # 0
        PROVE  PaidChunk(b, e)
    BY <1>1, <1>3, <2>1 DEF ConfirmedIsPaid, PaidInFull, Recipients
  <2> QED BY <1>3, <2>1
<1>7. ASSUME NEW b \in Batches, ~Pending(b) PROVE g[b] <= f[b]
  <2>1. ASSUME PaidChunk(b, e) PROVE batch[b].status = "confirmed"
    <3>1. e \in Recipients(b) /\ chain[b][ChunkOf(b, e)] = "paid" BY <2>1 DEF PaidChunk
    <3>2. ~Void(b) BY <3>1 DEF Void, Chunks
    <3>3. batch[b].status # "none" BY <1>1, <3>1 DEF PayInv
    <3> QED BY <1>7, <3>2, <3>3 DEF Pending
  <2> QED BY <1>3, <2>1
<1>8. \A b \in Batches : Pending(b) => f[b] = 0 /\ g[b] <= w
  <2>1. ASSUME NEW b \in Batches, Pending(b)
        PROVE  batch[b].status # "confirmed" /\ batch[b].pay[e] <= w
    BY <1>1, <2>1 DEF Pending, BalanceExact
  <2> QED BY <1>3, <1>4, <2>1
<1>9. SumOn(f, Batches) + w = Earned(e)
  <2>1. balance[e].owed + Confirmed(e) = Earned(e) BY <1>1 DEF BalanceExact
  <2>2. Confirmed(e) \in Int BY <1>1, SumsTyped
  <2> DEFINE k == Confirmed(e)
  <2>3. w + k = k + w
    <3> HIDE DEF w, k
    <3> QED BY <1>4, <2>2 DEF k
  <2> QED BY <1>2, <2>1, <2>3
<1> HIDE DEF f, g, w
<1>10. SumOn(f, Batches) \in Int /\ SumOn(g, Batches) \in Int BY <1>5, FiniteAssumption, SumInt
<1>11. SumOn(f, Batches) <= SumOn(g, Batches) BY <1>5, <1>6, FiniteAssumption, SumsCompare
<1>12. SumOn(g, Batches) <= SumOn(f, Batches) + w
  <2>1. CASE \A b \in Batches : ~Pending(b)
    <3>1. SumOn(g, Batches) <= SumOn(f, Batches)
      BY <1>5, <1>7, <2>1, FiniteAssumption, SumsCompare
    <3> QED BY <1>4, <1>10, <3>1
  <2>2. CASE \E b \in Batches : Pending(b)
    <3>1. PICK p \in Batches : Pending(p) BY <2>2
    <3> DEFINE h == [b \in Batches |-> IF b = p THEN g[p] ELSE f[b]]
    <3>2. \A b \in Batches : b # p => ~Pending(b) BY <1>1, <3>1 DEF OnePending
    <3>3. /\ \A b \in Batches : f[b] \in Int /\ h[b] \in Int /\ g[b] \in Int /\ g[b] <= h[b]
          /\ \A b \in Batches \ {p} : h[b] = f[b]
          /\ h[p] = g[p] /\ f[p] = 0 /\ g[p] <= w
      BY <1>5, <1>7, <1>8, <3>1, <3>2
    <3> HIDE DEF h
    <3>4. SumOn(h, Batches) = SumOn(f, Batches) - f[p] + h[p] BY <3>3, FiniteAssumption, SumChanges
    <3>5. SumOn(g, Batches) <= SumOn(h, Batches) BY <3>3, FiniteAssumption, SumsCompare
    <3> QED BY <1>4, <1>10, <3>3, <3>4, <3>5
  <2> QED BY <2>1, <2>2
<1>13. PaidTo(e) <= Earned(e) BY <1>2, <1>9, <1>12
<1>14. Earned(e) <= PaidTo(e) + balance[e].owed
  <2> DEFINE a == SumOn(f, Batches)  c == SumOn(g, Batches)
  <2>1. a + w <= c + w
    <3>1. a \in Int /\ c \in Int /\ a <= c BY <1>10, <1>11
    <3> HIDE DEF a, c
    <3> QED BY <1>4, <3>1
  <2> QED BY <1>2, <1>9, <2>1 DEF w
<1> QED BY <1>13, <1>14

\* The operators' and the network's state is what the code writes: documents of the
\* shapes and statuses that it declares, owed and settled never negative.
THEOREM PayoutsTyped == PaySpec => []PayTypes
<1>1. PayInit => BooksInv BY BooksInit
<1>2. BooksInv /\ [PayNext]_payVars => BooksInv' BY BooksStep
<1>3. BooksInv => PayTypes BY DEF BooksInv, PayInv
<1> QED BY <1>1, <1>2, <1>3, PTL DEF PaySpec

\* The books say what moved: a payout entry names a payment that the network applied, for
\* the amount frozen at build time; with careful operators the audit finds no difference.
THEOREM BooksKept == PaySpec => []BooksExact
<1>1. PayInit => BooksInv BY BooksInit
<1>2. BooksInv /\ [PayNext]_payVars => BooksInv' BY BooksStep
<1>3. BooksInv => BooksExact BY AuditHolds
<1> QED BY <1>1, <1>2, <1>3, PTL DEF PaySpec

\* With careful operators what educators earned is paid once or still owed.
THEOREM EarnedKept == PaySpec => []EarnedOnce
<1>1. PayInit => BooksInv BY BooksInit
<1>2. BooksInv /\ [PayNext]_payVars => BooksInv' BY BooksStep
<1>3. BooksInv => EarnedOnce BY PaidIsEarned
<1> QED BY <1>1, <1>2, <1>3, PTL DEF PaySpec
=============================================================================
