---------------------------- MODULE MCWorkers ----------------------------
(***************************************************************************)
(* Loops of the server in one run of TLC: a behaviour follows the job queue, *)
(* the pollers of one anchor transaction or the ingestion of payments.  They *)
(* share no state; the server boots in each, and what a behaviour does not  *)
(* follow then has nothing to do, so that its fairness asks nothing more.    *)
(* The queue has a verify job that enqueues a receipt.                      *)
(***************************************************************************)
EXTENDS JobQueue, SequenceTheorems, TLAPS

CONSTANTS n1, verify, receipt,
          Refreshes,
          Loops, Kinds, PageLimit, MaxPayments, MaxFaults

VARIABLES anchor, record, challenge, token, toml, pollDue, refresh,
          history, row, unreconciled, cursor, worker, logged, faults,
          loop    \* the loop this behaviour follows

MCChild == [k \in {verify, receipt} |-> IF k = verify THEN receipt ELSE None]
MCAttempts == [k \in {verify, receipt} |-> 2]

Anchor == INSTANCE Anchors WITH due <- pollDue
Ingest == INSTANCE Ingestion WITH Workers <- Loops

anchorVars == <<anchor, record, challenge, token, toml, pollDue, refresh>>
ingestVars == <<history, row, unreconciled, cursor, worker, logged, faults>>

-----------------------------------------------------------------------------
WorkersInit ==
    /\ loop \in {"jobs", "anchor", "ingestion"}
    /\ Init /\ Anchor!Init /\ Ingest!Init
    /\ loop # "anchor" => toml.issuer = "ours"

WorkersNext ==
    /\ UNCHANGED loop
    /\ \/ loop = "jobs" /\ Next /\ UNCHANGED <<anchorVars, ingestVars>>
       \/ loop # "jobs" /\ (\E n \in Nodes : Boot(n)) /\ UNCHANGED <<anchorVars, ingestVars>>
       \/ loop = "anchor" /\ Anchor!Next /\ UNCHANGED <<vars, ingestVars>>
       \/ loop = "ingestion" /\ Ingest!Next /\ UNCHANGED <<vars, anchorVars>>

WorkersSpec ==
    /\ WorkersInit /\ [][WorkersNext]_<<vars, anchorVars, ingestVars, loop>>
    /\ Fairness /\ Anchor!Fairness /\ Ingest!Fairness

-----------------------------------------------------------------------------
\* What a loop says of its work is so: a job has one runner and is completed
\* only with its work done, our record of a transaction is not ahead of the
\* anchor, and no payment behind the cursor is forgotten.
WorkIsTrue ==
    /\ loop = "jobs" => OneRunner /\ CompletedIsDone
    /\ loop = "anchor" => Anchor!NeverAhead
    /\ loop = "ingestion" => Ingest!Accounted

\* Our record of an anchor transaction gets to the anchor's last status.
AnchorResolves == Anchor!AnchorResolves

\* No payment holds up those behind it.
NothingBlocks == Ingest!NothingBlocks

-----------------------------------------------------------------------------
(***************************************************************************)
(* Proofs, for any jobs, processes and restarts: attempt numbers and dead  *)
(* letters; and, with one process, that a job has one handler and a        *)
(* finished job is never run again.                                        *)
(***************************************************************************)
\* An invocation was given an attempt its document has counted.
Counted == \A e \in running : e.attempt <= job[e.key].attempts

IInv == TypeOK /\ Counted /\ AttemptUnique /\ DeadIsExhausted

LEMMA InitIInv == Init => IInv
  BY RestartsAssumption DEF Init, IInv, TypeOK, NoJob, JobStatus, Execution, Counted,
     AttemptUnique, DeadIsExhausted

LEMMA ClaimIInv ==
  ASSUME IInv, NEW n \in Nodes, Claim(n)
  PROVE  IInv'
<1> USE DEF IInv, TypeOK, JobStatus
<1>1. PICK k \in due :
        /\ job' = [job EXCEPT ![k] = [status |-> "active", attempts |-> @.attempts + 1]]
        /\ due' = due \ {k}
        /\ running' = running \cup {[node |-> n, key |-> k, pc |-> "claimed",
                                     attempt |-> job[k].attempts + 1]}
  BY DEF Claim
<1>2. k \in Keys OBVIOUS
<1>3. job'[k] = [status |-> "active", attempts |-> job[k].attempts + 1] BY <1>1, <1>2
<1>4. \A i \in Keys \ {k} : job'[i] = job[i] BY <1>1
<1>5. TypeOK' BY <1>1, <1>2 DEF Claim, Execution
<1>6. Counted' BY <1>1, <1>2, <1>3, <1>4 DEF Counted, Execution
<1>7. AttemptUnique' BY <1>1, <1>2 DEF AttemptUnique, Counted, Execution
<1>8. DeadIsExhausted' BY <1>3, <1>4 DEF DeadIsExhausted
<1> QED BY <1>5, <1>6, <1>7, <1>8

LEMMA HandlerIInv ==
  ASSUME IInv, NEW e \in running, Handler(e)
  PROVE  IInv'
<1> USE AttemptsAssumption DEF IInv, TypeOK, JobStatus, Execution
<1>1. e \in Execution /\ e.key \in Keys OBVIOUS
<1>2. ASSUME NEW pc \in {"claimed", "working", "worked", "returned", "failed"}, Goto(e, pc)
      PROVE  /\ running' \subseteq Execution
             /\ AttemptUnique'
             /\ (\A k \in Keys : job'[k].attempts = job[k].attempts) => Counted'
  BY <1>1, <1>2 DEF Goto, AttemptUnique, Counted
<1>3. ASSUME NEW k \in Keys, Insert(k)
      PROVE  /\ job' \in [Keys -> [status : JobStatus, attempts : Nat]]
             /\ due' \subseteq Keys
             /\ DeadIsExhausted'
             /\ \A i \in Keys : job'[i].attempts = job[i].attempts
  BY <1>3 DEF Insert, DeadIsExhausted
<1>4. CASE Start(e) BY <1>2, <1>4 DEF Start, DeadIsExhausted
<1>5. CASE Work(e) BY <1>1, <1>2, <1>5 DEF Work, DeadIsExhausted
<1>6. CASE Throw(e) BY <1>2, <1>6 DEF Throw, DeadIsExhausted
<1>7. CASE QueueChild(e)
  <2>1. CASE job' = job /\ due' = due
    BY <1>2, <1>7, <2>1 DEF QueueChild, DeadIsExhausted
  <2>2. CASE Child[e.key] # None /\ Insert(Child[e.key]) /\ Goto(e, "returned")
    <3>1. Child[e.key] \in Keys BY <1>1, <2>2, ChildAssumption
    <3> QED BY <1>2, <1>3, <1>7, <2>2, <3>1 DEF QueueChild
  <2> QED BY <1>7, <2>1, <2>2 DEF QueueChild
<1>8. CASE Complete(e)
  BY <1>1, <1>8 DEF Complete, Write, Counted, AttemptUnique, DeadIsExhausted
<1>9. CASE Fail(e)
  BY <1>1, <1>9 DEF Fail, Write, Counted, AttemptUnique, DeadIsExhausted
<1> QED BY <1>4, <1>5, <1>6, <1>7, <1>8, <1>9 DEF Handler

LEMMA StepIInv == IInv /\ [Next]_vars => IInv'
<1> SUFFICES ASSUME IInv, [Next]_vars PROVE IInv' OBVIOUS
<1> USE RestartsAssumption DEF IInv, TypeOK, JobStatus, Counted, AttemptUnique, DeadIsExhausted
<1>1. CASE \E n \in Nodes, k \in Keys : Enqueue(n, k) BY <1>1 DEF Enqueue, Insert, Execution
<1>2. CASE \E n \in Nodes : Claim(n) BY <1>2, ClaimIInv
<1>3. CASE \E n \in Nodes : Boot(n)
  <2>1. \A k \in Keys : job'[k].attempts = job[k].attempts
                        /\ (job'[k].status = "dead" => job[k].status = "dead")
    BY <1>3 DEF Boot, Active
  <2>2. TypeOK' BY <1>3 DEF Boot, Active
  <2> QED BY <1>3, <2>1, <2>2 DEF Boot, Execution
<1>4. CASE \E n \in Nodes : Drain(n) BY <1>4 DEF Drain
<1>5. CASE \E n \in Nodes : Exit(n) \/ Crash(n) BY <1>5 DEF Exit, Crash, Kill
<1>6. CASE \E e \in running : Handler(e) BY <1>6, HandlerIInv
<1>7. CASE \E k \in Keys : Elapse(k) BY <1>7 DEF Elapse
<1>8. CASE UNCHANGED vars BY <1>8 DEF vars
<1> QED BY <1>1, <1>2, <1>3, <1>4, <1>5, <1>6, <1>7, <1>8 DEF Next

\* Every variable keeps its type.
THEOREM TypeCorrect == Spec => []TypeOK
<1>1. IInv => TypeOK BY DEF IInv
<1> QED BY <1>1, InitIInv, StepIInv, PTL DEF Spec

\* No two handler invocations are given the same attempt of a job, however
\* many processes poll, crash and recover.
THEOREM AttemptsUnique == Spec => []AttemptUnique
<1>1. IInv => AttemptUnique BY DEF IInv
<1> QED BY <1>1, InitIInv, StepIInv, PTL DEF Spec

\* A job becomes a dead letter only when its attempts are used up.
THEOREM DeadsExhausted == Spec => []DeadIsExhausted
<1>1. IInv => DeadIsExhausted BY DEF IInv
<1> QED BY <1>1, InitIInv, StepIInv, PTL DEF Spec

-----------------------------------------------------------------------------
(***************************************************************************)
(* One process: when it is down nothing runs, and what is due is waiting.  *)
(***************************************************************************)
Alone == \E n : Nodes = {n}

Waiting == \A k \in due : job[k].status \in {"queued", "retrying"}

DownIsIdle == \A n \in Nodes : node[n] = "down" => running = {}

SInv == IInv /\ OneRunner /\ Waiting /\ DownIsIdle

\* What a step may do to a finished job: nothing.
FinalKept == \A k \in Keys : job[k].status \in Finished => job'[k] = job[k]

LEMMA InitSInv == Init => SInv
  BY InitIInv DEF Init, SInv, OneRunner, Waiting, DownIsIdle

LEMMA ClaimSInv ==
  ASSUME Alone, SInv, NEW n \in Nodes, Claim(n)
  PROVE  OneRunner' /\ Waiting' /\ DownIsIdle' /\ FinalKept
<1> USE DEF SInv, IInv, TypeOK, Waiting, OneRunner, DownIsIdle, FinalKept, Finished
<1>1. PICK k \in due :
        /\ job' = [job EXCEPT ![k] = [status |-> "active", attempts |-> @.attempts + 1]]
        /\ due' = due \ {k}
        /\ running' = running \cup {[node |-> n, key |-> k, pc |-> "claimed",
                                     attempt |-> job[k].attempts + 1]}
  BY DEF Claim
<1>2. k \in Keys /\ job[k].status \in {"queued", "retrying"} OBVIOUS
<1>3. \A e \in running : e.key \in Keys /\ e.key # k BY <1>2 DEF Execution
<1>4. job'[k].status = "active" BY <1>1, <1>2
<1>5. \A i \in Keys \ {k} : job'[i] = job[i] BY <1>1
<1>6. node' = node BY DEF Claim
<1>7. OneRunner' BY <1>1, <1>3, <1>4, <1>5
<1>8. Waiting' BY <1>1, <1>5
<1>9. FinalKept BY <1>2, <1>5
<1>10. DownIsIdle' BY <1>6 DEF Claim, Alone
<1> QED BY <1>7, <1>8, <1>9, <1>10

LEMMA HandlerSInv ==
  ASSUME Alone, SInv, NEW e \in running, Handler(e)
  PROVE  OneRunner' /\ Waiting' /\ DownIsIdle' /\ FinalKept
<1> USE DEF SInv, IInv, TypeOK, Waiting, OneRunner, DownIsIdle, FinalKept, Finished, JobStatus
<1>1. e \in Execution /\ e.key \in Keys BY DEF Execution
<1>2. job[e.key].status = "active" OBVIOUS
<1>3. ASSUME NEW pc, Goto(e, pc), job' = job, due' = due, node' = node
      PROVE  OneRunner' /\ Waiting' /\ DownIsIdle' /\ FinalKept
  BY <1>1, <1>3 DEF Goto, Execution
<1>4. ASSUME NEW k \in Keys, Insert(k), Goto(e, "returned"), node' = node
      PROVE  OneRunner' /\ Waiting' /\ DownIsIdle' /\ FinalKept
  <2>1. \A i \in Keys : job[i].status # "absent" => job'[i] = job[i] BY <1>4 DEF Insert
  <2>2. Waiting' BY <1>4 DEF Insert
  <2> QED BY <1>1, <1>4, <2>1, <2>2 DEF Goto, Execution
<1>5. ASSUME NEW st \in {"completed", "dead", "retrying"}, Write(e, st), node' = node
      PROVE  OneRunner' /\ Waiting' /\ DownIsIdle' /\ FinalKept
  <2>1. \A i \in Keys \ {e.key} : job'[i] = job[i] BY <1>5 DEF Write
  <2>2. \A f \in running' : f \in running /\ f.key # e.key BY <1>5 DEF Write
  <2>3. OneRunner' BY <2>1, <2>2 DEF Execution
  <2>4. Waiting' BY <1>5, <2>1 DEF Write
  <2>5. DownIsIdle' BY <1>5 DEF Write
  <2> QED BY <1>2, <2>1, <2>3, <2>4, <2>5
<1>6. CASE Start(e) BY <1>3, <1>6 DEF Start
<1>7. CASE Work(e) BY <1>3, <1>7 DEF Work
<1>8. CASE Throw(e) BY <1>3, <1>8 DEF Throw
<1>9. CASE QueueChild(e)
  <2>1. CASE job' = job /\ due' = due BY <1>3, <1>9, <2>1 DEF QueueChild
  <2>2. CASE Child[e.key] # None /\ Insert(Child[e.key]) /\ Goto(e, "returned")
    <3>1. Child[e.key] \in Keys BY <1>1, <2>2, ChildAssumption
    <3> QED BY <1>4, <1>9, <2>2, <3>1 DEF QueueChild
  <2> QED BY <1>9, <2>1, <2>2 DEF QueueChild
<1>10. CASE Complete(e) BY <1>5, <1>10 DEF Complete
<1>11. CASE Fail(e) BY <1>5, <1>11 DEF Fail
<1> QED BY <1>6, <1>7, <1>8, <1>9, <1>10, <1>11 DEF Handler

LEMMA StepSInv == Alone /\ SInv /\ [Next]_vars => SInv' /\ FinalKept
<1> SUFFICES ASSUME Alone, SInv, [Next]_vars
             PROVE  OneRunner' /\ Waiting' /\ DownIsIdle' /\ FinalKept
  BY StepIInv DEF SInv
<1> USE DEF SInv, IInv, TypeOK, Waiting, OneRunner, DownIsIdle, FinalKept, Finished
<1>1. CASE \E n \in Nodes, k \in Keys : Enqueue(n, k)
  BY <1>1 DEF Enqueue, Insert, Execution
<1>2. CASE \E n \in Nodes : Claim(n) BY <1>2, ClaimSInv
<1>3. CASE \E n \in Nodes : Boot(n)
  <2>1. running = {} /\ running' = {} BY <1>3 DEF Boot
  <2>2. Waiting' /\ FinalKept BY <1>3 DEF Boot, Active
  <2> QED BY <2>1, <2>2
<1>4. CASE \E n \in Nodes : Drain(n) BY <1>4 DEF Drain
<1>5. CASE \E n \in Nodes : Exit(n) \/ Crash(n)
  <2>1. running' = {} BY <1>5 DEF Exit, Crash, Kill, Alone, Execution
  <2> QED BY <1>5, <2>1 DEF Exit, Crash
<1>6. CASE \E e \in running : Handler(e) BY <1>6, HandlerSInv
<1>7. CASE \E k \in Keys : Elapse(k) BY <1>7 DEF Elapse
<1>8. CASE UNCHANGED vars BY <1>8 DEF vars
<1> QED BY <1>1, <1>2, <1>3, <1>4, <1>5, <1>6, <1>7, <1>8 DEF Next

\* With one process, however often it crashes or is restarted, a job is run by
\* one handler at a time and only while its document says active.
THEOREM RunnerAlone == ASSUME Alone PROVE Spec => []OneRunner
<1>1. SInv /\ [Next]_vars => SInv' BY StepSInv
<1>2. SInv => OneRunner BY DEF SInv
<1> QED BY <1>1, <1>2, InitSInv, PTL DEF Spec

\* With one process a completed or dead job is never run again.
THEOREM FinishedFinal == ASSUME Alone PROVE Spec => FinishedIsFinal
<1>1. SInv /\ [Next]_vars => SInv' BY StepSInv
<1>2. SInv /\ [Next]_vars =>
        [\A k \in Keys : job[k].status \in Finished => job'[k] = job[k]]_vars
  BY StepSInv DEF FinalKept
<1> QED BY <1>1, <1>2, InitSInv, PTL DEF Spec, FinishedIsFinal

-----------------------------------------------------------------------------
(***************************************************************************)
(* What each loop says of its work, the three together.  First the queue:  *)
(* a handler that worked has done its job, and one that returned has       *)
(* enqueued what follows.                                                  *)
(***************************************************************************)
Followed(k) == Child[k] # None => job[Child[k]].status # "absent"

WorkDone ==
    /\ \A e \in running : /\ e.pc \in {"worked", "returned"} => e.key \in done
                          /\ e.pc = "returned" => Followed(e.key)
    /\ CompletedIsDone

\* What is done stays done, and a job that exists stays.
JobsKept ==
    /\ done \subseteq done'
    /\ \A k \in Keys : job[k].status # "absent" => job'[k].status # "absent"

LEMMA WorkKept ==
  ASSUME IInv, WorkDone, JobsKept,
         \A e \in running' : \/ e \in running
                             \/ e.pc \notin {"worked", "returned"}
                             \/ /\ e.key \in Keys /\ e.key \in done'
                                /\ e.pc = "returned" => Followed(e.key)',
         \A k \in Keys : job'[k].status = "completed" =>
             \/ job[k].status = "completed"
             \/ k \in done /\ Followed(k)
  PROVE  WorkDone'
<1>1. \A e \in running : e.key \in Keys BY DEF IInv, TypeOK, Execution
<1>2. \A k \in Keys : Followed(k) => Followed(k)'
  BY ChildAssumption DEF Followed, JobsKept
<1>3. CompletedIsDone' BY <1>2 DEF WorkDone, CompletedIsDone, JobsKept, Followed
<1>4. \A e \in running' : /\ e.pc \in {"worked", "returned"} => e.key \in done'
                          /\ e.pc = "returned" => Followed(e.key)'
  BY <1>1, <1>2 DEF WorkDone, JobsKept
<1> QED BY <1>3, <1>4 DEF WorkDone

LEMMA HandlerWorks ==
  ASSUME IInv, WorkDone, NEW e \in running, Handler(e)
  PROVE  WorkDone'
<1>1. e \in Execution /\ e.key \in Keys /\ job \in [Keys -> [status : JobStatus, attempts : Nat]]
  BY DEF IInv, TypeOK, Execution
<1>2. /\ e.pc \in {"worked", "returned"} => e.key \in done
      /\ e.pc = "returned" => Followed(e.key)
  BY DEF WorkDone
<1>3. ASSUME NEW pc, Goto(e, pc)
      PROVE  \A f \in running' : f \in running \/ (f.pc = pc /\ f.key = e.key)
  BY <1>1, <1>3 DEF Goto, Execution
<1>4. ASSUME NEW st \in JobStatus, Write(e, st),
             st = "completed" => e.key \in done /\ Followed(e.key), st # "absent",
             done' = done
      PROVE  WorkDone'
  <2>1. JobsKept BY <1>1, <1>4 DEF Write, JobsKept
  <2>2. \A k \in Keys : job'[k].status = "completed" =>
          job[k].status = "completed" \/ (k \in done /\ Followed(k))
    BY <1>1, <1>4 DEF Write
  <2> QED BY <1>4, <2>1, <2>2, WorkKept DEF Write
<1>5. CASE Start(e) \/ Throw(e)
  <2>1. JobsKept /\ job' = job BY <1>5 DEF Start, Throw, JobsKept
  <2>2. Goto(e, "working") \/ Goto(e, "failed") BY <1>5 DEF Start, Throw
  <2> QED BY <1>3, <2>1, <2>2, WorkKept
<1>6. CASE Work(e)
  <2>1. JobsKept /\ job' = job /\ e.key \in done' /\ Goto(e, "worked")
    BY <1>6 DEF Work, JobsKept
  <2> QED BY <1>1, <1>3, <2>1, WorkKept
<1>7. CASE QueueChild(e)
  <2>0. e.key \in done /\ done' = done BY <1>2, <1>7 DEF QueueChild
  <2>1. CASE job' = job /\ Goto(e, "failed")
    <3>1. JobsKept BY <2>0, <2>1 DEF JobsKept
    <3> QED BY <1>3, <2>1, <3>1, WorkKept
  <2>2. CASE job' = job /\ Child[e.key] = None /\ Goto(e, "returned")
    <3>1. JobsKept BY <2>0, <2>2 DEF JobsKept
    <3>2. Followed(e.key)' BY <2>2 DEF Followed
    <3> QED BY <1>1, <1>3, <2>0, <2>2, <3>1, <3>2, WorkKept
  <2>3. CASE Child[e.key] # None /\ Insert(Child[e.key]) /\ Goto(e, "returned")
    <3>0. Child[e.key] \in Keys BY <1>1, <2>3, ChildAssumption
    <3>1. JobsKept BY <1>1, <2>0, <2>3, <3>0 DEF JobsKept, Insert
    <3>2. Followed(e.key)' BY <1>1, <2>3, <3>0 DEF Followed, Insert
    <3>3. \A k \in Keys : job'[k].status = "completed" => job[k].status = "completed"
      BY <1>1, <2>3, <3>0 DEF Insert
    <3> QED BY <1>1, <1>3, <2>0, <2>3, <3>1, <3>2, <3>3, WorkKept
  <2> QED BY <1>7, <2>1, <2>2, <2>3 DEF QueueChild
<1>8. CASE Complete(e) BY <1>2, <1>4, <1>8 DEF Complete, JobStatus
<1>9. CASE Fail(e) BY <1>4, <1>9 DEF Fail, JobStatus
<1> QED BY <1>5, <1>6, <1>7, <1>8, <1>9 DEF Handler

LEMMA StepWorks == IInv /\ WorkDone /\ [Next]_vars => WorkDone'
<1> SUFFICES ASSUME IInv, WorkDone, [Next]_vars PROVE WorkDone' OBVIOUS
<1>0. job \in [Keys -> [status : JobStatus, attempts : Nat]] BY DEF IInv, TypeOK
<1>1. ASSUME NEW n \in Nodes, NEW k \in Keys, Enqueue(n, k) PROVE WorkDone'
  <2>1. /\ running' = running /\ done' = done
        /\ \A i \in Keys : /\ job[i].status # "absent" => job'[i].status # "absent"
                           /\ job'[i].status = "completed" => job[i].status = "completed"
    BY <1>0, <1>1 DEF Enqueue, Insert
  <2> QED BY <2>1, WorkKept DEF JobsKept
<1>2. ASSUME NEW n \in Nodes, Claim(n) PROVE WorkDone'
  <2>1. PICK k \in due :
          /\ job' = [job EXCEPT ![k] = [status |-> "active", attempts |-> @.attempts + 1]]
          /\ running' = running \cup {[node |-> n, key |-> k, pc |-> "claimed",
                                       attempt |-> job[k].attempts + 1]}
    BY <1>2 DEF Claim
  <2>2. /\ done' = done
        /\ \A i \in Keys : /\ job[i].status # "absent" => job'[i].status # "absent"
                           /\ job'[i].status = "completed" => job[i].status = "completed"
    BY <1>0, <1>2, <2>1 DEF Claim
  <2> QED BY <2>1, <2>2, WorkKept DEF JobsKept
<1>3. ASSUME NEW n \in Nodes, Boot(n) PROVE WorkDone'
  <2>1. /\ running' = running /\ done' = done
        /\ \A i \in Keys : /\ job[i].status # "absent" => job'[i].status # "absent"
                           /\ job'[i].status = "completed" => job[i].status = "completed"
    BY <1>0, <1>3 DEF Boot, Active
  <2> QED BY <2>1, WorkKept DEF JobsKept
<1>4. ASSUME NEW n \in Nodes, Drain(n) \/ Exit(n) \/ Crash(n) PROVE WorkDone'
  <2>1. running' \subseteq running /\ done' = done /\ job' = job
    BY <1>4 DEF Drain, Exit, Crash, Kill
  <2> QED BY <2>1, WorkKept DEF JobsKept
<1>5. ASSUME NEW k \in Keys, Elapse(k) PROVE WorkDone'
  <2>1. running' = running /\ done' = done /\ job' = job BY <1>5 DEF Elapse
  <2> QED BY <2>1, WorkKept DEF JobsKept
<1>6. CASE UNCHANGED vars
  <2>1. running' = running /\ done' = done /\ job' = job BY <1>6 DEF vars
  <2> QED BY <2>1, WorkKept DEF JobsKept
<1> QED BY <1>1, <1>2, <1>3, <1>4, <1>5, <1>6, HandlerWorks DEF Next

\* The anchor: what a record says, and what a refresh was told, the anchor was at.
Reached(status, at) == \E i \in 1..at : Anchor!Statuses[i] = status
Answers == {None, "incomplete", "pending_anchor", "completed"}

AnchorInv ==
    /\ anchor \in 0..3 /\ record \in Answers
    /\ refresh \in [Refreshes -> [doc : Answers, answer : Answers, polls : BOOLEAN]]
    /\ record # None => Reached(record, anchor)
    /\ \A f \in Refreshes : /\ refresh[f].doc # None => anchor > 0
                            /\ refresh[f].answer # None => Reached(refresh[f].answer, anchor)

LEMMA AnchorLater ==
  ASSUME NEW at \in Nat, NEW later \in Nat, at <= later, NEW status, Reached(status, at)
  PROVE  Reached(status, later) /\ later > 0
<1>1. PICK i \in 1..at : Anchor!Statuses[i] = status BY DEF Reached
<1>2. i \in 1..later OBVIOUS
<1> QED BY <1>1, <1>2 DEF Reached

\* A refresh is loaded, answered or over.
LEMMA RefreshMoves ==
  ASSUME AnchorInv, NEW f \in Refreshes,
         NEW k \in [doc : Answers, answer : Answers, polls : BOOLEAN],
         refresh' = [refresh EXCEPT ![f] = k], anchor' = anchor,
         k.doc # None => anchor > 0,
         k.answer # None => Reached(k.answer, anchor),
         record' = record \/ (record' \in Answers /\ Reached(record', anchor))
  PROVE  AnchorInv'
<1>1. /\ refresh' \in [Refreshes -> [doc : Answers, answer : Answers, polls : BOOLEAN]]
      /\ refresh'[f] = k /\ \A g \in Refreshes \ {f} : refresh'[g] = refresh[g]
  BY DEF AnchorInv
<1> QED BY <1>1 DEF AnchorInv

LEMMA AnchorRefreshes ==
  ASSUME AnchorInv, NEW f \in Refreshes,
         \/ Anchor!Claim(f) \/ Anchor!ReadTransaction(f) \/ Anchor!Ask(f)
         \/ Anchor!GiveUp(f) \/ Anchor!Save(f)
  PROVE  AnchorInv'
<1> DEFINE R == [doc : Answers, answer : Answers, polls : BOOLEAN]
<1>0. anchor \in Nat /\ refresh[f] \in R /\ record \in Answers
      /\ (record # None => anchor > 0 /\ Reached(record, anchor))
  BY AnchorLater DEF AnchorInv
<1>1. Anchor!Idle = [doc |-> None, answer |-> None, polls |-> FALSE] BY DEF Anchor!Idle
<1>2. Anchor!Idle \in R BY <1>1 DEF Answers
<1>3. CASE Anchor!Claim(f)
  <2> DEFINE k == [Anchor!Idle EXCEPT !.doc = record, !.polls = TRUE]
  <2>1. k \in R /\ k.answer = None
    <3>1. TRUE \in BOOLEAN /\ Anchor!Idle.answer = None BY <1>1
    <3> QED BY <1>0, <1>2, <3>1, Zenon
  <2>2. refresh' = [refresh EXCEPT ![f] = k] BY <1>3, Zenon DEF Anchor!Claim
  <2> HIDE DEF k
  <2>3. anchor' = anchor /\ record' = record /\ anchor > 0 BY <1>0, <1>3 DEF Anchor!Claim
  <2> QED BY <2>1, <2>2, <2>3, RefreshMoves
<1>4. CASE Anchor!ReadTransaction(f)
  <2> DEFINE k == [Anchor!Idle EXCEPT !.doc = record]
  <2>1. k \in R /\ k.answer = None BY <1>0, <1>1 DEF Answers
  <2>2. refresh' = [refresh EXCEPT ![f] = k] BY <1>4 DEF Anchor!ReadTransaction
  <2> HIDE DEF k
  <2>3. anchor' = anchor /\ record' = record /\ anchor > 0 BY <1>0, <1>4 DEF Anchor!ReadTransaction
  <2> QED BY <2>1, <2>2, <2>3, RefreshMoves
<1>5. CASE Anchor!Ask(f)
  <2> DEFINE s == Anchor!Statuses[anchor]
             k == [refresh[f] EXCEPT !.answer = s]
  <2>1. anchor > 0 /\ anchor \in 1..3 BY <1>5 DEF Anchor!Ask, AnchorInv
  <2>2. s \in Answers /\ Reached(s, anchor) BY <2>1 DEF Reached, Answers, Anchor!Statuses
  <2>3. refresh' = [refresh EXCEPT ![f] = k] BY <1>0, <1>5 DEF Anchor!Ask, AnchorInv
  <2> HIDE DEF s
  <2>4. k \in R /\ k.answer = s BY <1>0, <2>2
  <2> HIDE DEF k
  <2>5. anchor' = anchor /\ record' = record BY <1>5 DEF Anchor!Ask
  <2> QED BY <2>1, <2>2, <2>3, <2>4, <2>5, RefreshMoves
<1>6. CASE Anchor!GiveUp(f)
  <2>1. anchor' = anchor /\ record' = record /\ refresh' = [refresh EXCEPT ![f] = Anchor!Idle]
    BY <1>6 DEF Anchor!GiveUp
  <2>2. Anchor!Idle.doc = None /\ Anchor!Idle.answer = None BY <1>1
  <2> QED BY <1>2, <2>1, <2>2, RefreshMoves
<1>7. CASE Anchor!Save(f)
  <2>1. /\ anchor' = anchor /\ refresh' = [refresh EXCEPT ![f] = Anchor!Idle]
        /\ record' = record \/ record' = refresh[f].answer
        /\ refresh[f].answer # None
    BY <1>7 DEF Anchor!Save, Anchor!Saved
  <2>2. Anchor!Idle.doc = None /\ Anchor!Idle.answer = None BY <1>1
  <2>3. refresh[f].answer \in Answers /\ Reached(refresh[f].answer, anchor)
    BY <1>0, <2>1 DEF AnchorInv
  <2> QED BY <1>2, <2>1, <2>2, <2>3, RefreshMoves
<1> QED BY <1>3, <1>4, <1>5, <1>6, <1>7

LEMMA AnchorNext == AnchorInv /\ (Anchor!Next \/ UNCHANGED anchorVars) => AnchorInv'
<1> SUFFICES ASSUME AnchorInv, Anchor!Next \/ UNCHANGED anchorVars PROVE AnchorInv' OBVIOUS
<1>1. CASE UNCHANGED <<anchor, record, refresh>> BY <1>1 DEF AnchorInv
<1>2. CASE Anchor!StartInteractiveFlow \/ Anchor!AnchorMoves
  <2>1. anchor' \in 0..3 /\ anchor <= anchor' /\ anchor \in Nat /\ anchor' \in Nat
        /\ record' = record /\ refresh' = refresh
    BY <1>2 DEF Anchor!StartInteractiveFlow, Anchor!AnchorMoves, Anchor!Statuses, AnchorInv
  <2> QED BY <2>1, AnchorLater DEF AnchorInv
<1>3. CASE Anchor!CreateRecord
  <2>1. anchor' = anchor /\ refresh' = refresh /\ record' = "incomplete" /\ anchor > 0
    BY <1>3 DEF Anchor!CreateRecord
  <2>2. Anchor!Statuses[1] = "incomplete" BY DEF Anchor!Statuses
  <2>3. Reached("incomplete", anchor) BY <2>1, <2>2 DEF Reached, AnchorInv
  <2> QED BY <2>1, <2>3 DEF AnchorInv, Answers
<1>4. CASE UNCHANGED anchorVars BY <1>1, <1>4 DEF anchorVars
<1>5. CASE \/ Anchor!GetInfo \/ Anchor!TomlLapses \/ Anchor!Republish \/ Anchor!RequestChallenge
           \/ Anchor!Authenticate \/ Anchor!SignInFails \/ Anchor!TokenLapses \/ Anchor!BecomesDue
  BY <1>1, <1>5 DEF Anchor!GetInfo, Anchor!TomlLapses, Anchor!Republish, Anchor!RequestChallenge,
     Anchor!Authenticate, Anchor!SignInFails, Anchor!TokenLapses, Anchor!BecomesDue
<1> QED BY <1>2, <1>3, <1>4, <1>5, AnchorRefreshes DEF Anchor!Next

\* The ingestion: what lies behind the cursor or behind a loop on its page is settled.
Settled(p) == Ingest!isUsdcPayment(p) => Ingest!Recorded(p) \/ p \in logged

RowState == {"none", "submitted", "confirmed"}
LoopState == [pc : {"resting", "page"}, next : Nat, last : Nat]

IngestInv ==
    /\ history \in Seq(Kinds) /\ row \in Seq(RowState) /\ Len(row) = Len(history)
    /\ cursor \in 0..Len(history) /\ worker \in [Loops -> LoopState]
    /\ \A p \in 1..cursor : Settled(p)
    /\ \A w \in Loops : worker[w].pc = "page" =>
         /\ worker[w].last <= Len(history) /\ worker[w].next <= Len(history) + 1
         /\ \A p \in 1..(worker[w].next - 1) : Settled(p)

\* Payments keep their places, and what is settled stays so.
SettledStays ==
    /\ history' \in Seq(Kinds) /\ row' \in Seq(RowState) /\ Len(row') = Len(history')
    /\ Len(history) <= Len(history')
    /\ \A p \in 1..Len(history) : Settled(p) => Settled(p)'

LEMMA LoopMoves ==
  ASSUME IngestInv, SettledStays, NEW w \in Loops, NEW k \in LoopState,
         worker' = [worker EXCEPT ![w] = k], cursor' \in 0..Len(history),
         k.pc = "page" => /\ k.last <= Len(history) /\ k.next <= Len(history) + 1
                          /\ \A p \in 1..(k.next - 1) : Settled(p)',
         cursor' <= cursor \/ \A p \in 1..cursor' : Settled(p)
  PROVE  IngestInv'
<1>0. Len(history) \in Nat /\ Len(history') \in Nat /\ Len(history) <= Len(history')
      /\ cursor \in 0..Len(history)
  BY LenProperties DEF IngestInv, SettledStays
<1>1. /\ worker' \in [Loops -> LoopState] /\ worker'[w] = k
      /\ \A v \in Loops \ {w} : worker'[v] = worker[v]
  BY DEF IngestInv
<1>2. \A p \in 1..cursor' : Settled(p)'
  <2>1. \A p \in 1..cursor' : p \in 1..Len(history) /\ Settled(p) BY <1>0 DEF IngestInv
  <2> QED BY <2>1 DEF SettledStays
<1>3. ASSUME NEW v \in Loops, worker'[v].pc = "page"
      PROVE  /\ worker'[v].last <= Len(history') /\ worker'[v].next <= Len(history') + 1
             /\ \A p \in 1..(worker'[v].next - 1) : Settled(p)'
  <2>0. worker'[v] \in LoopState BY <1>1
  <2>1. worker'[v].last \in Nat /\ worker'[v].next \in Nat BY <2>0 DEF LoopState
  <2>2. CASE v = w BY <1>0, <1>1, <1>3, <2>1, <2>2
  <2>3. CASE v # w
    <3>1. /\ worker'[v] = worker[v] /\ worker[v].last <= Len(history)
          /\ worker[v].next <= Len(history) + 1
          /\ \A p \in 1..(worker[v].next - 1) : Settled(p)
      BY <1>1, <1>3, <2>3 DEF IngestInv
    <3>2. \A p \in 1..(worker[v].next - 1) : p \in 1..Len(history) BY <1>0, <2>1, <3>1
    <3>3. \A p \in 1..(worker[v].next - 1) : Settled(p)' BY <3>1, <3>2 DEF SettledStays
    <3> QED BY <1>0, <2>1, <3>1, <3>3
  <2> QED BY <2>2, <2>3
<1> QED BY <1>0, <1>1, <1>2, <1>3 DEF IngestInv, SettledStays

\* A payment is handed over, and the loop goes to the next one.
LEMMA LoopPasses ==
  ASSUME IngestInv, SettledStays, NEW w \in Loops, NEW p \in Ingest!Places,
         Ingest!OnPage(w, p), Ingest!Pass(w), cursor' = cursor, Settled(p)'
  PROVE  IngestInv'
<1> DEFINE k == [worker[w] EXCEPT !.next = @ + 1]
<1>1. /\ worker[w] \in LoopState /\ worker[w].pc = "page" /\ worker[w].next = p
      /\ worker[w].last <= Len(history) /\ p <= worker[w].last /\ Len(history) \in Nat
      /\ p \in Nat /\ worker[w].last \in Nat
      /\ \A q \in 1..(p - 1) : Settled(q)
  BY LenProperties DEF IngestInv, LoopState, Ingest!OnPage, Ingest!Places
<1>2. worker' = [worker EXCEPT ![w] = k] BY DEF Ingest!Pass, IngestInv
<1>3. k \in LoopState /\ k.next = p + 1 /\ k.last = worker[w].last
  BY <1>1 DEF LoopState
<1> HIDE DEF k
<1>4. \A q \in 1..p : Settled(q)'
  <2>1. \A q \in 1..(p - 1) : q \in 1..Len(history) BY <1>1
  <2>2. \A q \in 1..(p - 1) : Settled(q)' BY <1>1, <2>1 DEF SettledStays
  <2>3. \A q \in 1..p : q \in 1..(p - 1) \/ q = p BY <1>1
  <2> QED BY <2>2, <2>3
<1>5. k.last <= Len(history) /\ k.next <= Len(history) + 1 /\ k.next - 1 = p BY <1>1, <1>3
<1>6. cursor' <= cursor /\ cursor' \in 0..Len(history) BY <1>1 DEF IngestInv
<1> QED BY <1>2, <1>3, <1>4, <1>5, <1>6, LoopMoves

\* Rows change only to confirmed.
RowsConfirm(p) ==
    /\ p \in 1..Len(row) /\ row' = [row EXCEPT ![p] = "confirmed"]
    /\ UNCHANGED <<history, unreconciled, logged>>

LEMMA ConfirmsStay ==
  ASSUME IngestInv, NEW p, RowsConfirm(p)
  PROVE  SettledStays /\ Settled(p)'
<1>1. row \in Seq(RowState) /\ Len(row) = Len(history) /\ "confirmed" \in RowState
  BY DEF IngestInv, RowState
<1>2. /\ row' \in Seq(RowState) /\ Len(row') = Len(row) /\ row'[p] = "confirmed"
      /\ \A q \in 1..Len(row) : q # p => row'[q] = row[q]
  BY <1>1, ExceptSeq DEF RowsConfirm
<1>3. Len(history) \in Nat BY <1>1, LenProperties DEF IngestInv
<1> QED BY <1>1, <1>2, <1>3
   DEF SettledStays, Settled, RowsConfirm, IngestInv, Ingest!Recorded, Ingest!isUsdcPayment

\* Rows stay, and more may be recorded or logged.
LEMMA NotesStay ==
  ASSUME IngestInv, UNCHANGED <<history, row>>, unreconciled \subseteq unreconciled',
         logged \subseteq logged'
  PROVE  SettledStays
<1>1. Len(history) \in Nat BY LenProperties DEF IngestInv
<1> QED BY <1>1 DEF SettledStays, Settled, IngestInv, Ingest!Recorded, Ingest!isUsdcPayment

LEMMA LoopReconciles ==
  ASSUME IngestInv, NEW w \in Loops, NEW p \in Ingest!Places, Ingest!Reconcile(w, p)
  PROVE  IngestInv'
<1>1. Ingest!OnPage(w, p) /\ Ingest!Pass(w) /\ cursor' = cursor /\ history' = history
  BY DEF Ingest!Reconcile, Ingest!Skip, Ingest!Promote, Ingest!CreateDonation,
     Ingest!CreatePurchase, Ingest!RecordUnreconciled, Ingest!ReconcileThrows, Ingest!ParentMissing
<1>2. p \in 1..Len(row) BY DEF Ingest!Places, IngestInv
<1>3. CASE Ingest!Promote(w, p) \/ Ingest!CreateDonation(w, p)
  <2>1. RowsConfirm(p)
    BY <1>2, <1>3 DEF Ingest!Promote, Ingest!CreateDonation, RowsConfirm
  <2> QED BY <1>1, <2>1, ConfirmsStay, LoopPasses
<1>4. CASE \/ Ingest!Skip(w, p) \/ Ingest!CreatePurchase(w, p) \/ Ingest!RecordUnreconciled(w, p)
           \/ Ingest!ReconcileThrows(w, p) \/ Ingest!ParentMissing(w, p)
  <2>1. /\ UNCHANGED <<history, row>> /\ unreconciled \subseteq unreconciled'
        /\ logged \subseteq logged'
        /\ \/ ~Ingest!isUsdcPayment(p) \/ row[p] = "confirmed" \/ p \in logged'
           \/ p \in unreconciled'
    BY <1>4 DEF Ingest!Skip, Ingest!CreatePurchase, Ingest!RecordUnreconciled,
       Ingest!ReconcileThrows, Ingest!ParentMissing
  <2>2. Settled(p)' BY <2>1 DEF Settled, Ingest!Recorded, Ingest!isUsdcPayment
  <2> QED BY <1>1, <2>1, <2>2, NotesStay, LoopPasses
<1> QED BY <1>3, <1>4 DEF Ingest!Reconcile

\* A loop takes a page, moves the cursor past it, or starts again.
LEMMA LoopPages ==
  ASSUME IngestInv, NEW w \in Loops,
         Ingest!FetchPage(w) \/ Ingest!SaveCursor(w) \/ Ingest!Restart(w)
  PROVE  IngestInv'
<1>1. UNCHANGED <<history, row, unreconciled, logged>>
  BY DEF Ingest!FetchPage, Ingest!SaveCursor, Ingest!Restart
<1>2. SettledStays BY <1>1, NotesStay
<1>3. \A p : Settled(p) => Settled(p)' BY <1>1 DEF Settled, Ingest!Recorded, Ingest!isUsdcPayment
<1>4. Len(history) \in Nat /\ cursor \in 0..Len(history) /\ worker[w] \in LoopState
  BY LenProperties DEF IngestInv
<1>5. CASE Ingest!FetchPage(w)
  <2>1. PICK last \in cursor + 1 .. Len(history) :
          worker' = [worker EXCEPT ![w] = [pc |-> "page", next |-> cursor + 1, last |-> last]]
    BY <1>5 DEF Ingest!FetchPage
  <2> DEFINE k == [pc |-> "page", next |-> cursor + 1, last |-> last]
  <2>2. k \in LoopState /\ k.next = cursor + 1 /\ k.last = last BY <1>4, <2>1 DEF LoopState
  <2>3. worker' = [worker EXCEPT ![w] = k] /\ cursor' = cursor BY <1>5, <2>1 DEF Ingest!FetchPage
  <2> HIDE DEF k
  <2>4. \A p \in 1..(k.next - 1) : Settled(p)' BY <1>3, <1>4, <2>2 DEF IngestInv
  <2>5. k.last <= Len(history) /\ k.next <= Len(history) + 1 /\ cursor' <= cursor
    BY <1>4, <2>1, <2>2, <2>3
  <2> QED BY <1>2, <1>4, <2>2, <2>3, <2>4, <2>5, LoopMoves
<1>6. Ingest!Resting \in LoopState /\ Ingest!Resting.pc = "resting"
  BY DEF Ingest!Resting, LoopState
<1>7. CASE Ingest!SaveCursor(w)
  <2>1. /\ worker[w].pc = "page" /\ worker[w].next > worker[w].last /\ cursor' = worker[w].last
        /\ worker' = [worker EXCEPT ![w] = Ingest!Resting]
    BY <1>7 DEF Ingest!SaveCursor
  <2>2. worker[w].last \in Nat /\ worker[w].next \in Nat /\ worker[w].last <= Len(history)
    BY <1>4, <2>1 DEF IngestInv, LoopState
  <2>3. \A p \in 1..worker[w].last : p \in 1..(worker[w].next - 1) BY <2>1, <2>2
  <2>4. \A p \in 1..cursor' : Settled(p) BY <2>1, <2>3 DEF IngestInv
  <2>5. cursor' \in 0..Len(history) BY <1>4, <2>1, <2>2
  <2> QED BY <1>2, <1>6, <2>1, <2>4, <2>5, LoopMoves
<1>8. CASE Ingest!Restart(w)
  <2>1. cursor' = cursor /\ worker' = [worker EXCEPT ![w] = Ingest!Resting]
    BY <1>8 DEF Ingest!Restart
  <2>2. cursor' <= cursor BY <1>4, <2>1
  <2> QED BY <1>2, <1>4, <1>6, <2>1, <2>2, LoopMoves
<1> QED BY <1>5, <1>7, <1>8

\* Payments arrive, and are confirmed elsewhere: no loop moves.
LEMMA LoopsWait ==
  ASSUME IngestInv, SettledStays, UNCHANGED <<cursor, worker>>
  PROVE  IngestInv'
<1>1. Len(history) \in Nat /\ Len(history') \in Nat /\ Len(history) <= Len(history')
      /\ cursor \in 0..Len(history)
  BY LenProperties DEF IngestInv, SettledStays
<1>2. \A p \in 1..cursor : Settled(p)' BY <1>1 DEF IngestInv, SettledStays
<1>3. ASSUME NEW w \in Loops, worker[w].pc = "page"
      PROVE  /\ worker[w].last <= Len(history') /\ worker[w].next <= Len(history') + 1
             /\ \A p \in 1..(worker[w].next - 1) : Settled(p)'
  <2>1. /\ worker[w].last <= Len(history) /\ worker[w].next <= Len(history) + 1
        /\ worker[w].next \in Nat /\ worker[w].last \in Nat
        /\ \A p \in 1..(worker[w].next - 1) : Settled(p)
    BY <1>3 DEF IngestInv, LoopState
  <2>2. \A p \in 1..(worker[w].next - 1) : p \in 1..Len(history) BY <1>1, <2>1
  <2>3. \A p \in 1..(worker[w].next - 1) : Settled(p)' BY <2>1, <2>2 DEF SettledStays
  <2> QED BY <1>1, <2>1, <2>3
<1> QED BY <1>1, <1>2, <1>3 DEF IngestInv, SettledStays

LEMMA IngestNext == IngestInv /\ (Ingest!Next \/ UNCHANGED ingestVars) => IngestInv'
<1> SUFFICES ASSUME IngestInv, Ingest!Next \/ UNCHANGED ingestVars PROVE IngestInv' OBVIOUS
<1>0. Len(history) \in Nat BY LenProperties DEF IngestInv
<1>1. CASE UNCHANGED ingestVars
  <2>1. UNCHANGED <<history, row, unreconciled, logged, cursor, worker>> BY <1>1 DEF ingestVars
  <2> QED BY <2>1, NotesStay, LoopsWait
<1>2. ASSUME NEW kind \in Kinds, Ingest!Pay(kind) PROVE IngestInv'
  <2> DEFINE st == IF kind = "tracked" THEN "submitted" ELSE "none"
  <2>1. /\ history' = Append(history, kind) /\ row' = Append(row, st)
        /\ UNCHANGED <<unreconciled, cursor, worker, logged>> /\ st \in RowState
    BY <1>2 DEF Ingest!Pay, RowState
  <2> HIDE DEF st
  <2>2. history \in Seq(Kinds) /\ row \in Seq(RowState) /\ Len(row) = Len(history) BY DEF IngestInv
  <2>3. /\ history' \in Seq(Kinds) /\ Len(history') = Len(history) + 1
        /\ \A p \in 1..Len(history) : history'[p] = history[p]
    BY <2>1, <2>2, AppendProperties
  <2>4. /\ row' \in Seq(RowState) /\ Len(row') = Len(row) + 1
        /\ \A p \in 1..Len(row) : row'[p] = row[p]
    BY <2>1, <2>2, AppendProperties
  <2>5. SettledStays
    BY <1>0, <2>1, <2>2, <2>3, <2>4
       DEF SettledStays, Settled, Ingest!Recorded, Ingest!isUsdcPayment
  <2> QED BY <2>1, <2>5, LoopsWait
<1>3. ASSUME NEW p \in Ingest!Places, Ingest!ConfirmedElsewhere(p) PROVE IngestInv'
  <2>1. RowsConfirm(p) /\ UNCHANGED <<cursor, worker>>
    BY <1>3 DEF Ingest!ConfirmedElsewhere, RowsConfirm, Ingest!Places, IngestInv
  <2> QED BY <2>1, ConfirmsStay, LoopsWait
<1>4. ASSUME NEW w \in Loops, Ingest!Work(w) \/ Ingest!Restart(w) PROVE IngestInv'
  BY <1>4, LoopPages, LoopReconciles DEF Ingest!Work
<1> QED BY <1>1, <1>2, <1>3, <1>4 DEF Ingest!Next

\* With one process, as the recovery at boot supposes: a job has one runner and is
\* completed only with its work done, the record of an anchor transaction is not ahead of
\* the anchor, and no payment behind the cursor is forgotten, for any jobs, refreshes, loops
\* and payments.
THEOREM WorkTrue == ASSUME Alone PROVE WorkersSpec => []WorkIsTrue
<1> DEFINE I == SInv /\ WorkDone /\ AnchorInv /\ IngestInv
<1>1. WorkersInit => I
  <2>1. Init => WorkDone BY DEF Init, WorkDone, CompletedIsDone, NoJob
  <2>2. Anchor!Init => AnchorInv
    <3>1. Anchor!Idle = [doc |-> None, answer |-> None, polls |-> FALSE] BY DEF Anchor!Idle
    <3>2. /\ Anchor!Idle \in [doc : Answers, answer : Answers, polls : BOOLEAN]
          /\ Anchor!Idle.doc = None /\ Anchor!Idle.answer = None
      BY <3>1 DEF Answers
    <3> QED BY <3>2 DEF Anchor!Init, AnchorInv, Answers
  <2>3. Ingest!Init => IngestInv
    <3> SUFFICES ASSUME Ingest!Init PROVE IngestInv OBVIOUS
    <3>1. Ingest!Resting \in LoopState /\ Ingest!Resting.pc = "resting"
      BY DEF Ingest!Resting, LoopState
    <3>2. history = <<>> /\ row = <<>> /\ cursor = 0 BY DEF Ingest!Init
    <3>3. history \in Seq(Kinds) /\ row \in Seq(RowState) /\ Len(history) = 0 /\ Len(row) = 0
      BY <3>2
    <3>4. worker \in [Loops -> LoopState] /\ \A w \in Loops : worker[w].pc = "resting"
      BY <3>1 DEF Ingest!Init
    <3> QED BY <3>2, <3>3, <3>4 DEF IngestInv
  <2> QED BY <2>1, <2>2, <2>3, InitSInv DEF WorkersInit
<1>2. I /\ [WorkersNext]_<<vars, anchorVars, ingestVars, loop>> => I'
  <2> SUFFICES ASSUME I, [WorkersNext]_<<vars, anchorVars, ingestVars, loop>> PROVE I'
    OBVIOUS
  <2>1. [Next]_vars BY DEF WorkersNext, Next
  <2>2. Anchor!Next \/ UNCHANGED anchorVars BY DEF WorkersNext
  <2>3. Ingest!Next \/ UNCHANGED ingestVars BY DEF WorkersNext
  <2>4. IInv BY DEF SInv
  <2> QED BY <2>1, <2>2, <2>3, <2>4, StepSInv, StepWorks, AnchorNext, IngestNext
<1>3. I => WorkIsTrue
  BY DEF SInv, WorkDone, AnchorInv, Reached, IngestInv, Settled, WorkIsTrue,
     Anchor!NeverAhead, Ingest!Accounted
<1> QED BY <1>1, <1>2, <1>3, PTL DEF WorkersSpec
=============================================================================
