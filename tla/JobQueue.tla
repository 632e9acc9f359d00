------------------------------ MODULE JobQueue ------------------------------
(***************************************************************************)
(* The MongoDB driver of src/jobs/queue.js: job documents deduplicated by  *)
(* idempotency key, a poll timer in every web process, retries with        *)
(* backoff, graceful shutdown, crashes and the recovery at boot.  One      *)
(* element of running is one handler invocation.                           *)
(***************************************************************************)
EXTENDS Integers, FiniteSets

CONSTANTS
    Nodes,        \* web processes that poll the queue
    Keys,         \* idempotency keys of the jobs
    None,         \* no child
    Child,        \* the job a handler enqueues before it returns, or None
    MaxAttempts,  \* attempts of each job
    MaxRestarts   \* bound: crashes and shutdowns

ASSUME NoneAssumption == None \notin Keys
ASSUME ChildAssumption == Child \in [Keys -> Keys \cup {None}]
ASSUME AttemptsAssumption == MaxAttempts \in [Keys -> Nat \ {0}]
ASSUME RestartsAssumption == MaxRestarts \in Nat

VARIABLES
    job,       \* the Job collection, by idempotency key
    due,       \* waiting jobs whose runAt has come
    node,      \* what each process is doing with the queue
    running,   \* handler invocations in progress
    done,      \* jobs whose handler did its work at least once
    restarts

vars == <<job, due, node, running, done, restarts>>

NoJob == [status |-> "absent", attempts |-> 0]

JobStatus == {"absent", "queued", "active", "retrying", "completed", "dead"}
Finished == {"completed", "dead"}

\* "claimed": findOneAndUpdate took the job, the handler is not started and
\* stopJobs does not know of it yet; "failed": the catch block is next.
Execution == [node : Nodes, key : Keys, attempt : Nat,
              pc : {"claimed", "working", "worked", "returned", "failed"}]

TypeOK ==
    /\ job \in [Keys -> [status : JobStatus, attempts : Nat]]
    /\ due \subseteq Keys
    /\ node \in [Nodes -> {"down", "up", "draining"}]
    /\ running \subseteq Execution
    /\ done \subseteq Keys
    /\ restarts \in 0..MaxRestarts

Init ==
    /\ job = [k \in Keys |-> NoJob]
    /\ due = {}
    /\ node = [n \in Nodes |-> "down"]
    /\ running = {}
    /\ done = {}
    /\ restarts = 0

-----------------------------------------------------------------------------
(* enqueue *)

Insert(k) ==
    IF job[k].status = "absent"
    THEN /\ job' = [job EXCEPT ![k].status = "queued"]
         /\ due' = due \cup {k}
    ELSE UNCHANGED <<job, due>>

Enqueue(n, k) ==
    /\ node[n] = "up"
    /\ Insert(k)
    /\ UNCHANGED <<node, running, done, restarts>>

-----------------------------------------------------------------------------
(* processNext *)

\* Mutant: the claim does not change the status.
MutClaim(n) ==
    /\ node[n] = "up"
    /\ \E k \in due :
         /\ job[k].attempts <= MaxAttempts[k]
         /\ job' = [job EXCEPT ![k].attempts = @ + 1]
         /\ running' = running \cup {[node |-> n, key |-> k, pc |-> "claimed",
                                      attempt |-> job[k].attempts + 1]}
    /\ UNCHANGED <<due, node, done, restarts>>

\* Of the due jobs the one with the earliest runAt is taken; which one that
\* is is left open here.
Claim(n) ==
    /\ node[n] = "up"
    /\ \E k \in due :
         /\ job' = [job EXCEPT ![k] = [status |-> "active", attempts |-> @.attempts + 1]]
         /\ due' = due \ {k}
         /\ running' = running \cup {[node |-> n, key |-> k, pc |-> "claimed",
                                      attempt |-> job[k].attempts + 1]}
    /\ UNCHANGED <<node, done, restarts>>

Goto(e, pc) == running' = (running \ {e}) \cup {[e EXCEPT !.pc = pc]}

Start(e) ==
    /\ e.pc = "claimed"
    /\ Goto(e, "working")
    /\ UNCHANGED <<job, due, node, done, restarts>>

Work(e) ==
    /\ e.pc = "working"
    /\ Goto(e, "worked")
    /\ done' = done \cup {e.key}
    /\ UNCHANGED <<job, due, node, restarts>>

\* Mutant: the handler does not wait for its enqueue, whose error is lost.
MutQueueChild(e) ==
    /\ e.pc = "worked"
    /\ IF node[e.node] = "up" /\ Child[e.key] # None
       THEN Insert(Child[e.key]) ELSE UNCHANGED <<job, due>>
    /\ Goto(e, "returned")
    /\ UNCHANGED <<node, done, restarts>>

\* The handler's own enqueue throws once stopJobs stopped accepting.
QueueChild(e) ==
    /\ e.pc = "worked"
    /\ CASE Child[e.key] = None -> UNCHANGED <<job, due>> /\ Goto(e, "returned")
         [] Child[e.key] # None /\ node[e.node] = "up" ->
              Insert(Child[e.key]) /\ Goto(e, "returned")
         [] OTHER -> UNCHANGED <<job, due>> /\ Goto(e, "failed")
    /\ UNCHANGED <<node, done, restarts>>

\* The handler throws, before or after some of its work, or the write of
\* "completed" does: both end in the catch block.
Throw(e) ==
    /\ e.pc \in {"working", "worked", "returned"}
    /\ Goto(e, "failed")
    /\ UNCHANGED <<job, due, node, done, restarts>>

\* The status writes name only the job's _id: what the document says does
\* not matter, and a pending runAt is overwritten.
Write(e, status) ==
    /\ job' = [job EXCEPT ![e.key].status = status]
    /\ due' = due \ {e.key}
    /\ running' = running \ {e}

Complete(e) ==
    /\ e.pc = "returned"
    /\ Write(e, "completed")
    /\ UNCHANGED <<node, done, restarts>>

Fail(e) ==
    /\ e.pc = "failed"
    /\ Write(e, IF e.attempt >= MaxAttempts[e.key] THEN "dead" ELSE "retrying")
    /\ UNCHANGED <<node, done, restarts>>

\* The backoff of a retried job is over.
Elapse(k) ==
    /\ job[k].status = "retrying"
    /\ k \notin due
    /\ due' = due \cup {k}
    /\ UNCHANGED <<job, node, running, done, restarts>>

-----------------------------------------------------------------------------
(* startJobs, stopJobs, crashes *)

Active == {k \in Keys : job[k].status = "active"}

\* Mutant: nothing is recovered at boot.
MutBoot(n) ==
    /\ node[n] = "down"
    /\ node' = [node EXCEPT ![n] = "up"]
    /\ UNCHANGED <<job, due, running, done, restarts>>

\* Every active job is made due again, whichever process runs it.
Boot(n) ==
    /\ node[n] = "down"
    /\ node' = [node EXCEPT ![n] = "up"]
    /\ job' = [k \in Keys |-> IF k \in Active THEN [job[k] EXCEPT !.status = "retrying"]
                                              ELSE job[k]]
    /\ due' = due \cup Active
    /\ UNCHANGED <<running, done, restarts>>

Drain(n) ==
    /\ node[n] = "up"
    /\ restarts < MaxRestarts
    /\ restarts' = restarts + 1
    /\ node' = [node EXCEPT ![n] = "draining"]
    /\ UNCHANGED <<job, due, running, done>>

Kill(n) ==
    /\ node' = [node EXCEPT ![n] = "down"]
    /\ running' = {e \in running : e.node # n}

\* stopJobs waited for what was in flight, which a claim still on its way
\* back from the database is not.
Exit(n) ==
    /\ node[n] = "draining"
    /\ \A e \in running : e.node = n => e.pc = "claimed"
    /\ Kill(n)
    /\ UNCHANGED <<job, due, done, restarts>>

\* A crash, a failed write of the catch block (an unhandled rejection exits
\* the process), or the forced exit ten seconds into a shutdown.
Crash(n) ==
    /\ node[n] \in {"up", "draining"}
    /\ restarts < MaxRestarts
    /\ restarts' = restarts + 1
    /\ Kill(n)
    /\ UNCHANGED <<job, due, done>>

-----------------------------------------------------------------------------
Handler(e) ==
    Start(e) \/ Work(e) \/ QueueChild(e) \/ Throw(e) \/ Complete(e) \/ Fail(e)

Next ==
    \/ \E n \in Nodes, k \in Keys : Enqueue(n, k)
    \/ \E n \in Nodes : Claim(n) \/ Boot(n) \/ Drain(n) \/ Exit(n) \/ Crash(n)
    \/ \E e \in running : Handler(e)
    \/ \E k \in Keys : Elapse(k)

Spec == Init /\ [][Next]_vars

(***************************************************************************)
(* The poll timer ticks, handlers settle, backoffs end, a process that     *)
(* stopped is started again.                                               *)
(***************************************************************************)
Fairness ==
    /\ \A n \in Nodes :
         /\ WF_vars(Claim(n)) /\ WF_vars(Boot(n)) /\ WF_vars(Exit(n))
         /\ WF_vars(\E e \in running : e.node = n /\ Handler(e))
    /\ \A k \in Keys : WF_vars(Elapse(k))

FairSpec == Spec /\ Fairness

-----------------------------------------------------------------------------
(* Properties *)

\* A job document that says active has one invocation of its handler, and no
\* other document has any, except for what a process that stopped left behind.
OneRunner == \A e \in running :
    /\ job[e.key].status = "active"
    /\ \A f \in running : f.key = e.key => f = e

\* The attempt number a handler is given is never given to another invocation:
\* the verify job's "last attempt" decision is taken once per attempt.
AttemptUnique ==
    \A e, f \in running : e.key = f.key /\ e.attempt = f.attempt => e = f

\* Dead letters used up their attempts.
DeadIsExhausted ==
    \A k \in Keys : job[k].status = "dead" => job[k].attempts >= MaxAttempts[k]

\* Completed means the handler did its work and what it had to enqueue exists,
\* also when the process was shutting down meanwhile.
CompletedIsDone ==
    \A k \in Keys : job[k].status = "completed" =>
        /\ k \in done
        /\ Child[k] # None => job[Child[k]].status # "absent"

\* A completed or dead job is never run again.
FinishedIsFinal ==
    [][\A k \in Keys : job[k].status \in Finished => job'[k] = job[k]]_vars

\* Work survives restarts: every enqueued job is completed or a dead letter.
EnqueuedFinishes ==
    \A k \in Keys : job[k].status # "absent" ~> job[k].status \in Finished
=============================================================================
