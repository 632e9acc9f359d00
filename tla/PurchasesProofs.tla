--------------------------- MODULE PurchasesProofs ---------------------------
(***************************************************************************)
(* The safety of the purchase flow for any number of documents, payments,  *)
(* requests, job executions, ingestion workers, crashes and replicas.      *)
(***************************************************************************)
EXTENDS Purchases, TLAPS

\* A hash is on a document exactly when money may have moved for it.
RowsOK == \A r \in Rows :
    /\ row[r].status \in {"none", "pending", "expired", "reaped"} => row[r].hash = None
    /\ row[r].status \in {"retrying", "confirmed"} => row[r].hash \in Txs

\* A request in flight owns a pending document, alone.
SessionsOK ==
    /\ \A s \in Sessions : session[s].pc = "opened" => session[s].row \in Rows
    /\ \A s \in Sessions : InFlight(s) =>
          /\ session[s].row \in Rows
          /\ session[s].tx \in Txs
          /\ row[session[s].row].status = "pending"
    /\ \A s, t \in Sessions :
          InFlight(s) /\ InFlight(t) /\ session[s].row = session[t].row => s = t

\* Jobs and workers act on documents that carry the hash they were given.
JobsOK == \A x \in Txs : job[x].status # "none" =>
    job[x].row \in Rows /\ row[job[x].row].hash = x

ProcsOK ==
    /\ \A p \in Procs : proc[p].pc # "idle" =>
          /\ proc[p].row \in Rows
          /\ proc[p].tx \in Txs
          /\ row[proc[p].row].hash = proc[p].tx
    /\ \A j \in Jobs : proc[j].pc # "idle" => job[proc[j].tx].status # "none"

IInv ==
    TypeOK /\ RowsOK /\ SessionsOK /\ JobsOK /\ ProcsOK /\ HashUnique /\ ConfirmedIsPaid

-----------------------------------------------------------------------------
(***************************************************************************)
(* Updating one entry of a typed function keeps the type.                  *)
(***************************************************************************)
LEMMA CountUpdate ==
  ASSUME NEW f \in [Txs -> Nat], NEW x \in Txs, NEW n \in Nat
  PROVE  [f EXCEPT ![x] = @ + n] \in [Txs -> Nat]
  OBVIOUS

LEMMA PhaseUpdate ==
  ASSUME NEW f \in [Procs -> ProcRecord], NEW p \in Procs, NEW c \in ProcPhase, NEW n \in Nat
  PROVE  /\ [f EXCEPT ![p].pc = c] \in [Procs -> ProcRecord]
         /\ [f EXCEPT ![p].pc = c, ![p].read = n] \in [Procs -> ProcRecord]
  BY DEF ProcRecord

LEMMA JobStatusUpdate ==
  ASSUME NEW f \in [Txs -> JobRecord], NEW x \in Txs,
         NEW st \in {"queued", "active", "completed", "dead"}
  PROVE  [f EXCEPT ![x].status = st] \in [Txs -> JobRecord]
  BY DEF JobRecord

LEMMA InitIInv == Init => IInv
<1> SUFFICES ASSUME Init PROVE IInv OBVIOUS
<1> USE NoneAssumption, BoundsAssumption DEF Init, NoRow, NoSession, NoJob, NoProc
<1>1. TypeOK BY DEF TypeOK, Document, SessionRecord, JobRecord, ProcRecord, Status,
               SessionPhase, ProcPhase
<1>2. RowsOK /\ HashUnique /\ ConfirmedIsPaid BY DEF RowsOK, HashUnique, ConfirmedIsPaid
<1>3. SessionsOK /\ JobsOK /\ ProcsOK
  BY DEF SessionsOK, JobsOK, ProcsOK, InFlight, Procs
<1> QED BY <1>1, <1>2, <1>3 DEF IInv

-----------------------------------------------------------------------------
(* Types *)

LEMMA NetworkType ==
  ASSUME TypeOK, NEW x \in Txs, WalletSends(x) \/ \E o \in {"paid", "failed"} : NetworkApplies(x, o)
  PROVE  TypeOK'
<1> USE NoneAssumption, BoundsAssumption
        DEF TypeOK, Document, SessionRecord, JobRecord, ProcRecord, Status,
           SessionPhase, ProcPhase
<1>1. CASE WalletSends(x) BY <1>1 DEF WalletSends
<1>2. CASE \E o \in {"paid", "failed"} : NetworkApplies(x, o)
  <2>1. PICK o \in {"paid", "failed"} : NetworkApplies(x, o) BY <1>2
  <2> QED BY <2>1 DEF NetworkApplies, CanApply
<1> QED BY <1>1, <1>2

LEMMA RequestType ==
  ASSUME TypeOK, NEW s \in Sessions, Request(s)
  PROVE  TypeOK'
<1> USE NoneAssumption, BoundsAssumption
        DEF TypeOK, Document, SessionRecord, JobRecord, ProcRecord, Status,
           SessionPhase, ProcPhase
<1>1. CASE OpenInitialize(s)
  <2>1. row' \in [Rows -> Document]
    <3>1. row' = row BY <1>1 DEF OpenInitialize
    <3>2. row \in [Rows -> Document] OBVIOUS
    <3> QED BY <3>1, <3>2
  <2>2. chain' \in [Txs -> {"unsent", "sent", "paid", "failed"}]
    BY <1>1 DEF OpenInitialize
  <2>3. session' \in [Sessions -> SessionRecord]
    BY <1>1 DEF OpenInitialize
  <2>4. job' \in [Txs -> JobRecord]
    BY <1>1 DEF OpenInitialize
  <2>5. proc' \in [Procs -> ProcRecord]
    BY <1>1 DEF OpenInitialize
  <2>6. sales' \in [Txs -> Nat] /\ owed' \in Nat /\ grants' \in [Txs -> Nat]
    BY <1>1 DEF OpenInitialize
  <2>7. faults' \in 0..MaxFaults /\ boots' \in 0..MaxBoots
    BY <1>1 DEF OpenInitialize
  <2> QED BY <2>1, <2>2, <2>3, <2>4, <2>5, <2>6, <2>7
<1>2. CASE \E r \in Rows : CommitInitialize(s, r)
  <2>1. PICK r \in Rows : CommitInitialize(s, r) BY <1>2
  <2> QED BY <2>1 DEF CommitInitialize, SetRow, EndSession, NoSession
<1>3. CASE \E r \in Rows, x \in Txs \cup {None} : OpenSubmit(s, r, x)
  <2>1. PICK r \in Rows, x \in Txs \cup {None} : OpenSubmit(s, r, x) BY <1>3
  <2> QED BY <2>1 DEF OpenSubmit
<1>4. CASE RejectXdr(s) BY <1>4 DEF RejectXdr, Writable, Locked, SetRow, EndSession, NoSession
<1>5. CASE MarkSubmitted(s) BY <1>5 DEF MarkSubmitted, Writable, Locked
<1>6. CASE SendToHorizon(s)
  <2>1. row' \in [Rows -> Document]
    BY <1>6 DEF SendToHorizon
  <2>2. chain' \in [Txs -> {"unsent", "sent", "paid", "failed"}]
    BY <1>6 DEF SendToHorizon
  <2>3. session' \in [Sessions -> SessionRecord]
    BY <1>6 DEF SendToHorizon
  <2>4. job' \in [Txs -> JobRecord]
    BY <1>6 DEF SendToHorizon
  <2>5. proc' \in [Procs -> ProcRecord]
    BY <1>6 DEF SendToHorizon
  <2>6. sales' \in [Txs -> Nat] /\ owed' \in Nat /\ grants' \in [Txs -> Nat]
    BY <1>6 DEF SendToHorizon
  <2>7. faults' \in 0..MaxFaults /\ boots' \in 0..MaxBoots
    BY <1>6 DEF SendToHorizon
  <2> QED BY <2>1, <2>2, <2>3, <2>4, <2>5, <2>6, <2>7
<1>7. CASE HorizonRejects(s) BY <1>7 DEF HorizonRejects, SetRow, EndSession, NoSession
<1>8. CASE HorizonAccepts(s) BY <1>8 DEF HorizonAccepts
<1>9. CASE RefuteInSession(s) BY <1>9 DEF RefuteInSession, HashFree, SetRow, EndSession, NoSession
<1>10. CASE DeferInSession(s) BY <1>10 DEF DeferInSession, HashFree, SetRow, EndSession, NoSession
<1>11. CASE ConfirmInSession(s)
  <2>1. session[s].tx \in Txs \cup {None} OBVIOUS
  <2>2. sales' \in [Txs -> Nat] BY <1>11 DEF ConfirmInSession, Confirmed
  <2>3. grants' \in [Txs -> Nat] BY <1>11, CountUpdate DEF ConfirmInSession, Confirmed
  <2>4. row' \in [Rows -> Document] BY <1>11, <2>1 DEF ConfirmInSession, Confirmed, SetRow
  <2> QED BY <1>11, <2>2, <2>3, <2>4 DEF ConfirmInSession, Confirmed, EndSession, NoSession
<1>12. CASE AbortSession(s) BY <1>12 DEF AbortSession, EndSession, NoSession
<1> QED BY <1>1, <1>2, <1>3, <1>4, <1>5, <1>6, <1>7, <1>8, <1>9, <1>10, <1>11, <1>12 DEF Request

LEMMA CloseType ==
  ASSUME TypeOK, NEW r \in Rows, CancelTransaction(r) \/ ReapPending(r)
  PROVE  TypeOK'
<1> USE NoneAssumption, BoundsAssumption
        DEF TypeOK, Document, SessionRecord, JobRecord, ProcRecord, Status,
           SessionPhase, ProcPhase
<1>1. CASE CancelTransaction(r) BY <1>1 DEF CancelTransaction, Close, Locked, SetRow
<1>2. CASE ReapPending(r) BY <1>2 DEF ReapPending, Close, Locked, SetRow
<1> QED BY <1>1, <1>2

LEMMA SettleType ==
  ASSUME TypeOK, NEW p \in Procs, Settle(p)
  PROVE  TypeOK'
<1> USE DEF TypeOK, ProcPhase
<1>1. CASE ConfirmRow(p)
  <2>1. proc[p].tx \in Txs \cup {None} BY DEF ProcRecord
  <2>2. row' \in [Rows -> Document] BY <1>1, <2>1 DEF ConfirmRow, SetRow, Document, Status
  <2>3. proc' \in [Procs -> ProcRecord] BY <1>1, PhaseUpdate DEF ConfirmRow
  <2> QED BY <1>1, <2>2, <2>3 DEF ConfirmRow
<1>2. CASE CheckLedger(p)
  <2>1. proc' \in [Procs -> ProcRecord] BY <1>2, PhaseUpdate DEF CheckLedger
  <2> QED BY <1>2, <2>1 DEF CheckLedger
<1>3. CASE ReadBalance(p)
  <2>1. proc' \in [Procs -> ProcRecord] BY <1>3, PhaseUpdate DEF ReadBalance
  <2> QED BY <1>3, <2>1 DEF ReadBalance
<1>4. CASE SaveBalance(p)
  <2>1. proc' \in [Procs -> ProcRecord] BY <1>4, PhaseUpdate DEF SaveBalance
  <2>2. proc[p].read \in Nat BY DEF ProcRecord
  <2>3. owed' \in Nat BY <1>4, <2>2 DEF SaveBalance
  <2> QED BY <1>4, <2>1, <2>3 DEF SaveBalance
<1>5. CASE SaveLedger(p)
  <2>1. proc' \in [Procs -> ProcRecord] BY <1>5, PhaseUpdate DEF SaveLedger
  <2>2. sales' \in [Txs -> Nat] BY <1>5, CountUpdate DEF SaveLedger
  <2> QED BY <1>5, <2>1, <2>2 DEF SaveLedger
<1>6. CASE GrantAccess(p)
  <2>1. NoProc \in ProcRecord BY DEF NoProc, ProcRecord
  <2>2. proc' \in [Procs -> ProcRecord] BY <1>6, <2>1, PhaseUpdate DEF GrantAccess
  <2>3. grants' \in [Txs -> Nat] BY <1>6, CountUpdate DEF GrantAccess
  <2> QED BY <1>6, <2>2, <2>3 DEF GrantAccess
<1> QED BY <1>1, <1>2, <1>3, <1>4, <1>5, <1>6 DEF Settle

LEMMA FinishType ==
  ASSUME TypeOK, NEW j, NEW st \in {"queued", "completed", "dead"}, FinishJob(j, st)
  PROVE  job' \in [Txs -> JobRecord] /\ proc' \in [Procs -> ProcRecord]
<1>1. NoProc \in ProcRecord BY DEF NoProc, ProcRecord, ProcPhase
<1>2. proc' \in [Procs -> ProcRecord] BY <1>1 DEF TypeOK, FinishJob
<1>3. job' \in [Txs -> JobRecord] BY JobStatusUpdate DEF TypeOK, FinishJob
<1> QED BY <1>2, <1>3

LEMMA JobType ==
  ASSUME TypeOK, NEW j \in Jobs, JobStep(j)
  PROVE  TypeOK'
<1> USE DEF TypeOK
<1>1. CASE \E x \in Txs : ClaimJob(j, x)
  <2>1. PICK x \in Txs : ClaimJob(j, x) BY <1>1
  <2>2. job[x] \in JobRecord OBVIOUS
  <2>3. job' \in [Txs -> JobRecord] BY <2>1, <2>2 DEF ClaimJob, ClaimAs, JobRecord
  <2>4. proc' \in [Procs -> ProcRecord]
    BY <2>1, <2>2 DEF ClaimJob, ClaimAs, JobRecord, ProcRecord, ProcPhase
  <2> QED BY <2>1, <2>3, <2>4 DEF ClaimJob, ClaimAs
<1>2. CASE JobRetries(j) BY <1>2, FinishType DEF JobRetries
<1>3. CASE JobFailsRow(j)
  <2>1. proc[j].tx \in Txs \cup {None} BY DEF ProcRecord, Procs
  <2>2. row' \in [Rows -> Document] BY <1>3, <2>1 DEF JobFailsRow, SetRow, Document, Status
  <2>3. proc' \in [Procs -> ProcRecord] BY <1>3, PhaseUpdate DEF JobFailsRow, ProcPhase
  <2> QED BY <1>3, <2>2, <2>3 DEF JobFailsRow
<1>4. CASE Settle(j) BY <1>4, SettleType DEF Procs
<1>5. CASE CompleteJob(j) BY <1>5, FinishType DEF CompleteJob
<1> QED BY <1>1, <1>2, <1>3, <1>4, <1>5 DEF JobStep

LEMMA ReconcilerType ==
  ASSUME TypeOK, NEW q \in Reconcilers, ReconcilerStep(q)
  PROVE  TypeOK'
<1> USE NoneAssumption, BoundsAssumption
        DEF TypeOK, Document, SessionRecord, JobRecord, ProcRecord, Status,
           SessionPhase, ProcPhase
<1>1. CASE \E x \in Txs : MatchPayment(q, x)
  <2>1. PICK x \in Txs : MatchPayment(q, x) BY <1>1
  <2> QED BY <2>1 DEF MatchPayment, Procs
<1>2. CASE SkipPayment(q) BY <1>2 DEF SkipPayment, NoProc, Procs
<1>3. CASE Settle(q) BY <1>3, SettleType DEF Procs
<1> QED BY <1>1, <1>2, <1>3 DEF ReconcilerStep

LEMMA FailureType ==
  ASSUME TypeOK, Failure
  PROVE  TypeOK'
<1> USE BoundsAssumption DEF TypeOK
<1>1. CASE \E p \in Procs : Crash(p)
  <2>1. NoProc \in ProcRecord BY DEF NoProc, ProcRecord, ProcPhase
  <2> QED BY <1>1, <2>1 DEF Crash
<1>2. CASE \E j \in Jobs : JobThrows(j) BY <1>2, FinishType DEF JobThrows
<1>3. CASE BootReset
  <2>1. job' \in [Txs -> JobRecord] BY <1>3 DEF BootReset, JobRecord
  <2> QED BY <1>3, <2>1 DEF BootReset
<1> QED BY <1>1, <1>2, <1>3 DEF Failure

LEMMA StepType == TypeOK /\ [Next]_vars => TypeOK'
<1> SUFFICES ASSUME TypeOK, [Next]_vars PROVE TypeOK'
  OBVIOUS
<1>1. CASE Network BY <1>1, NetworkType DEF Network
<1>2. CASE \E s \in Sessions : Request(s) BY <1>2, RequestType
<1>3. CASE \E r \in Rows : CancelTransaction(r) \/ ReapPending(r) BY <1>3, CloseType
<1>4. CASE \E j \in Jobs : JobStep(j) BY <1>4, JobType
<1>5. CASE \E q \in Reconcilers : ReconcilerStep(q) BY <1>5, ReconcilerType
<1>6. CASE Failure BY <1>6, FailureType
<1>7. CASE UNCHANGED vars BY <1>7 DEF vars, TypeOK
<1> QED BY <1>1, <1>2, <1>3, <1>4, <1>5, <1>6, <1>7 DEF Next

-----------------------------------------------------------------------------
(* The inductive invariant *)

\* The network and the wallet touch neither documents nor actors.
LEMMA NetworkStep ==
  ASSUME IInv, TypeOK', NEW x \in Txs, WalletSends(x) \/ \E o \in {"paid", "failed"} : NetworkApplies(x, o)
  PROVE  IInv'
<1> USE NoneAssumption, ActorsAssumption
        DEF IInv, TypeOK, Document, SessionRecord, JobRecord, ProcRecord, RowsOK, SessionsOK,
           JobsOK, ProcsOK, HashUnique, ConfirmedIsPaid, InFlight, Status, SessionPhase, ProcPhase
<1>1. CASE WalletSends(x) BY <1>1 DEF WalletSends
<1>2. CASE \E o \in {"paid", "failed"} : NetworkApplies(x, o)
  <2>1. PICK o \in {"paid", "failed"} : NetworkApplies(x, o) BY <1>2
  <2> QED BY <2>1 DEF NetworkApplies, CanApply
<1> QED BY <1>1, <1>2

\* A request writes only the document its transaction holds.
LEMMA RequestStep ==
  ASSUME IInv, TypeOK', NEW s \in Sessions, Request(s)
  PROVE  IInv'
<1> USE NoneAssumption, ActorsAssumption
        DEF IInv, TypeOK, Document, SessionRecord, JobRecord, ProcRecord, RowsOK, SessionsOK,
           JobsOK, ProcsOK, HashUnique, ConfirmedIsPaid, InFlight, Status, SessionPhase, ProcPhase
<1>1. CASE OpenInitialize(s) BY <1>1 DEF OpenInitialize
<1>2. CASE \E r \in Rows : CommitInitialize(s, r)
  <2>1. PICK r \in Rows : CommitInitialize(s, r) BY <1>2
  <2> QED BY <2>1 DEF CommitInitialize, SetRow, EndSession, NoSession
<1>3. CASE \E r \in Rows, x \in Txs \cup {None} : OpenSubmit(s, r, x)
  <2>1. PICK r \in Rows, x \in Txs \cup {None} : OpenSubmit(s, r, x) BY <1>3
  <2> QED BY <2>1 DEF OpenSubmit
<1>4. CASE RejectXdr(s) BY <1>4 DEF RejectXdr, Writable, Locked, SetRow, EndSession, NoSession
<1>5. CASE MarkSubmitted(s) BY <1>5 DEF MarkSubmitted, Writable, Locked
<1>6. CASE SendToHorizon(s) BY <1>6 DEF SendToHorizon
<1>7. CASE HorizonRejects(s) BY <1>7 DEF HorizonRejects, SetRow, EndSession, NoSession
<1>8. CASE HorizonAccepts(s) BY <1>8 DEF HorizonAccepts
<1>9. CASE RefuteInSession(s) BY <1>9 DEF RefuteInSession, HashFree, SetRow, EndSession, NoSession
<1>10. CASE DeferInSession(s) BY <1>10 DEF DeferInSession, HashFree, SetRow, EndSession, NoSession
<1>11. CASE ConfirmInSession(s) BY <1>11 DEF ConfirmInSession, Confirmed, HashFree, SetRow, EndSession, NoSession
<1>12. CASE AbortSession(s) BY <1>12 DEF AbortSession, EndSession, NoSession
<1> QED BY <1>1, <1>2, <1>3, <1>4, <1>5, <1>6, <1>7, <1>8, <1>9, <1>10, <1>11, <1>12 DEF Request

\* Cancelling and reaping take only documents nobody holds.
LEMMA CloseStep ==
  ASSUME IInv, TypeOK', NEW r \in Rows, CancelTransaction(r) \/ ReapPending(r)
  PROVE  IInv'
<1> USE NoneAssumption, ActorsAssumption
        DEF IInv, TypeOK, Document, SessionRecord, JobRecord, ProcRecord, RowsOK, SessionsOK,
           JobsOK, ProcsOK, HashUnique, ConfirmedIsPaid, InFlight, Status, SessionPhase, ProcPhase
<1>1. CASE CancelTransaction(r) BY <1>1 DEF CancelTransaction, Close, Locked, SetRow
<1>2. CASE ReapPending(r) BY <1>2 DEF ReapPending, Close, Locked, SetRow
<1> QED BY <1>1, <1>2

\* Confirming, crediting and granting keep the hash on the document.
LEMMA SettleStep ==
  ASSUME IInv, TypeOK', NEW p \in Procs, Settle(p)
  PROVE  IInv'
<1> USE NoneAssumption, ActorsAssumption
        DEF IInv, TypeOK, Document, SessionRecord, JobRecord, ProcRecord, RowsOK, SessionsOK,
           JobsOK, ProcsOK, HashUnique, ConfirmedIsPaid, InFlight, Status, SessionPhase, ProcPhase
<1>1. CASE ConfirmRow(p) BY <1>1 DEF ConfirmRow, SetRow
<1>2. CASE CheckLedger(p) BY <1>2 DEF CheckLedger
<1>3. CASE ReadBalance(p)
  <2>1. RowsOK' /\ HashUnique' /\ ConfirmedIsPaid' BY <1>3 DEF ReadBalance
  <2>2. SessionsOK' BY <1>3 DEF ReadBalance
  <2>3. JobsOK' BY <1>3 DEF ReadBalance
  <2>4. /\ \A o \in Procs : proc'[o].row = proc[o].row /\ proc'[o].tx = proc[o].tx
        /\ \A o \in Procs : proc'[o].pc # "idle" => proc[o].pc # "idle"
        /\ row' = row /\ job' = job
    BY <1>3 DEF ReadBalance
  <2>5. Jobs \subseteq Procs BY DEF Procs
  <2>6. ProcsOK' BY <2>4, <2>5
  <2> QED BY <2>1, <2>2, <2>3, <2>6
<1>4. CASE SaveBalance(p) BY <1>4 DEF SaveBalance
<1>5. CASE SaveLedger(p) BY <1>5 DEF SaveLedger
<1>6. CASE GrantAccess(p) BY <1>6 DEF GrantAccess, NoProc
<1> QED BY <1>1, <1>2, <1>3, <1>4, <1>5, <1>6 DEF Settle

\* A job acts on the document whose hash is in its key.
LEMMA VerifyJobStep ==
  ASSUME IInv, TypeOK', NEW j \in Jobs, JobStep(j)
  PROVE  IInv'
<1> USE NoneAssumption, ActorsAssumption
        DEF IInv, TypeOK, Document, SessionRecord, JobRecord, ProcRecord, RowsOK, SessionsOK,
           JobsOK, ProcsOK, HashUnique, ConfirmedIsPaid, InFlight, Status, SessionPhase, ProcPhase
<1>1. CASE \E x \in Txs : ClaimJob(j, x)
  <2>1. PICK x \in Txs : ClaimJob(j, x) BY <1>1
  <2> QED BY <2>1 DEF ClaimJob, ClaimAs, Procs
<1>2. CASE JobRetries(j) BY <1>2 DEF JobRetries, FinishJob, NoProc, Procs
<1>3. CASE JobFailsRow(j) BY <1>3 DEF JobFailsRow, SetRow, Procs
<1>4. CASE Settle(j) BY <1>4, SettleStep DEF Procs
<1>5. CASE CompleteJob(j) BY <1>5 DEF CompleteJob, FinishJob, NoProc, Procs
<1> QED BY <1>1, <1>2, <1>3, <1>4, <1>5 DEF JobStep

\* The ingestion worker acts on the document it matched by hash.
LEMMA IngestionStep ==
  ASSUME IInv, TypeOK', NEW q \in Reconcilers, ReconcilerStep(q)
  PROVE  IInv'
<1> USE NoneAssumption, ActorsAssumption
        DEF IInv, TypeOK, Document, SessionRecord, JobRecord, ProcRecord, RowsOK, SessionsOK,
           JobsOK, ProcsOK, HashUnique, ConfirmedIsPaid, InFlight, Status, SessionPhase, ProcPhase
<1>1. CASE \E x \in Txs : MatchPayment(q, x)
  <2>1. PICK x \in Txs : MatchPayment(q, x) BY <1>1
  <2> QED BY <2>1 DEF MatchPayment, Procs
<1>2. CASE SkipPayment(q) BY <1>2 DEF SkipPayment, NoProc, Procs
<1>3. CASE Settle(q) BY <1>3, SettleStep DEF Procs
<1> QED BY <1>1, <1>2, <1>3 DEF ReconcilerStep

\* Crashes, thrown errors and boots move no document.
LEMMA FailureStep ==
  ASSUME IInv, TypeOK', Failure
  PROVE  IInv'
<1> USE NoneAssumption, ActorsAssumption
        DEF IInv, TypeOK, Document, SessionRecord, JobRecord, ProcRecord, RowsOK, SessionsOK,
           JobsOK, ProcsOK, HashUnique, ConfirmedIsPaid, InFlight, Status, SessionPhase, ProcPhase
<1>1. CASE \E p \in Procs : Crash(p)
  <2>1. PICK p \in Procs : Crash(p) BY <1>1
  <2> QED BY <2>1 DEF Crash, NoProc, Procs
<1>2. CASE \E j \in Jobs : JobThrows(j)
  <2>1. PICK j \in Jobs : JobThrows(j) BY <1>2
  <2> QED BY <2>1 DEF JobThrows, FinishJob, NoProc, Procs
<1>3. CASE BootReset
  <2>1. RowsOK' /\ HashUnique' /\ ConfirmedIsPaid' BY <1>3 DEF BootReset
  <2>2. SessionsOK' BY <1>3 DEF BootReset
  <2>3. JobsOK' BY <1>3 DEF BootReset
  <2>4. /\ proc' = proc /\ row' = row
        /\ \A x \in Txs : job[x].status # "none" => job'[x].status # "none"
    BY <1>3 DEF BootReset
  <2>5. \A j \in Jobs : proc[j].pc # "idle" => proc[j].tx \in Txs BY DEF Procs
  <2>6. ProcsOK' BY <2>4, <2>5
  <2> QED BY <2>1, <2>2, <2>3, <2>6
<1> QED BY <1>1, <1>2, <1>3 DEF Failure

LEMMA StepIInv == IInv /\ [Next]_vars => IInv'
<1> SUFFICES ASSUME IInv, [Next]_vars PROVE IInv'
  OBVIOUS
<1>0. TypeOK' BY StepType DEF IInv
<1>1. CASE Network BY <1>0, <1>1, NetworkStep DEF Network
<1>2. CASE \E s \in Sessions : Request(s) BY <1>0, <1>2, RequestStep
<1>3. CASE \E r \in Rows : CancelTransaction(r) \/ ReapPending(r) BY <1>0, <1>3, CloseStep
<1>4. CASE \E j \in Jobs : JobStep(j) BY <1>0, <1>4, VerifyJobStep
<1>5. CASE \E q \in Reconcilers : ReconcilerStep(q) BY <1>0, <1>5, IngestionStep
<1>6. CASE Failure BY <1>0, <1>6, FailureStep
<1>7. CASE UNCHANGED vars
  BY <1>7 DEF vars, IInv, TypeOK, RowsOK, SessionsOK, JobsOK, ProcsOK, HashUnique,
              ConfirmedIsPaid, InFlight
<1> QED BY <1>1, <1>2, <1>3, <1>4, <1>5, <1>6, <1>7 DEF Next

\* Every write of a document keeps the hash that is already there.
HashKept == \A r \in Rows : row[r].hash # None => row'[r].hash = row[r].hash

LEMMA KeptWhenSame == ASSUME row' = row PROVE HashKept BY DEF HashKept

LEMMA KeptBySet ==
  ASSUME TypeOK, NEW r \in Rows, NEW st, NEW x, SetRow(r, st, x),
         row[r].hash \in {None, x}
  PROVE  HashKept
  BY DEF HashKept, SetRow, TypeOK

LEMMA RequestKeepsHash ==
  ASSUME IInv, NEW s \in Sessions, Request(s)
  PROVE  HashKept
<1> USE DEF IInv, RowsOK, SessionsOK, InFlight
<1>1. CASE \E r \in Rows : CommitInitialize(s, r)
  BY <1>1, KeptBySet DEF CommitInitialize
<1>2. CASE RejectXdr(s) BY <1>2, KeptBySet DEF RejectXdr, Writable
<1>3. CASE HorizonRejects(s) BY <1>3, KeptBySet DEF HorizonRejects
<1>4. CASE RefuteInSession(s) BY <1>4, KeptBySet DEF RefuteInSession
<1>5. CASE DeferInSession(s) BY <1>5, KeptBySet DEF DeferInSession
<1>6. CASE ConfirmInSession(s) BY <1>6, KeptBySet DEF ConfirmInSession, Confirmed
<1>7. CASE row' = row BY <1>7, KeptWhenSame
<1> QED BY <1>1, <1>2, <1>3, <1>4, <1>5, <1>6, <1>7
        DEF Request, OpenInitialize, OpenSubmit, MarkSubmitted, SendToHorizon,
            HorizonAccepts, AbortSession

LEMMA StepKeepsHash == IInv /\ [Next]_vars => HashKept
<1> SUFFICES ASSUME IInv, [Next]_vars PROVE HashKept OBVIOUS
<1> USE DEF IInv, RowsOK, ProcsOK
<1>1. CASE \E s \in Sessions : Request(s) BY <1>1, RequestKeepsHash
<1>2. CASE \E r \in Rows : CancelTransaction(r) \/ ReapPending(r)
  BY <1>2, KeptBySet DEF CancelTransaction, ReapPending, Close
<1>3. ASSUME NEW p \in Procs, ConfirmRow(p) PROVE HashKept
  BY <1>3, KeptBySet DEF ConfirmRow
<1>4. ASSUME NEW p \in Procs, Settle(p) PROVE HashKept
  BY <1>3, <1>4, KeptWhenSame
     DEF Settle, CheckLedger, ReadBalance, SaveBalance, SaveLedger, GrantAccess
<1>5. CASE \E j \in Jobs : JobStep(j)
  <2>1. PICK j \in Jobs : JobStep(j) BY <1>5
  <2>2. CASE JobFailsRow(j) BY <2>2, KeptBySet DEF JobFailsRow, Procs
  <2>3. CASE Settle(j) BY <2>3, <1>4 DEF Procs
  <2>4. CASE row' = row BY <2>4, KeptWhenSame
  <2> QED BY <2>1, <2>2, <2>3, <2>4 DEF JobStep, ClaimJob, ClaimAs, JobRetries, CompleteJob
<1>6. CASE \E q \in Reconcilers : ReconcilerStep(q)
  <2>1. PICK q \in Reconcilers : ReconcilerStep(q) BY <1>6
  <2>2. CASE Settle(q) BY <2>2, <1>4 DEF Procs
  <2>3. CASE row' = row BY <2>3, KeptWhenSame
  <2> QED BY <2>1, <2>2, <2>3 DEF ReconcilerStep, MatchPayment, SkipPayment
<1>7. CASE Network \/ Failure \/ UNCHANGED vars
  BY <1>7, KeptWhenSame
     DEF Network, WalletSends, NetworkApplies, Failure, Crash, JobThrows, BootReset, vars
<1> QED BY <1>1, <1>2, <1>5, <1>6, <1>7 DEF Next

-----------------------------------------------------------------------------
THEOREM InvariantHolds == Spec => []IInv
  BY InitIInv, StepIInv, PTL DEF Spec

\* Every variable keeps its type, for every size of the system.
THEOREM TypeCorrect == Spec => []TypeOK
<1>1. IInv => TypeOK BY DEF IInv
<1> QED BY <1>1, InvariantHolds, PTL

\* No two documents ever settle under one payment, whatever mixture of
\* requests, jobs, workers, crashes and replicas wrote them.
THEOREM HashesUnique == Spec => []HashUnique
<1>1. IInv => HashUnique BY DEF IInv
<1> QED BY <1>1, InvariantHolds, PTL

\* Whoever confirms a purchase, the network applied its payment.
THEOREM ConfirmedPaid == Spec => []ConfirmedIsPaid
<1>1. IInv => ConfirmedIsPaid BY DEF IInv
<1> QED BY <1>1, InvariantHolds, PTL

\* A checkout whose payment is on its way belongs to one request and stays open.
THEOREM CheckoutsHeld == Spec => []CheckoutHeld
<1>1. IInv => CheckoutHeld BY DEF IInv, SessionsOK, CheckoutHeld, InFlight
<1> QED BY <1>1, InvariantHolds, PTL

\* The record of moved money is never dropped: once a document carries an
\* on-chain hash no cancel, reaper, job or late save replaces or clears it.
THEOREM HashesPermanent == Spec => HashIsPermanent
<1>1. HashKept => (\A r \in Rows : row[r].hash # None => row'[r].hash = row[r].hash)
  BY DEF HashKept
<1>2. IInv /\ [Next]_vars =>
        [\A r \in Rows : row[r].hash # None => row'[r].hash = row[r].hash]_vars
  BY <1>1, StepKeepsHash
<1> QED BY <1>2, InvariantHolds, PTL DEF Spec, HashIsPermanent
-----------------------------------------------------------------------------
(***************************************************************************)
(* Interleavings alone never leave a confirmed purchase unserved, however  *)
(* many requests, job executions, ingestion workers and replicas there     *)
(* are: whoever confirms a document outside a session goes on to credit    *)
(* and grant, and only a crash or a database error stops it on the way.    *)
(***************************************************************************)
GrantingIsSold == \A p \in Procs : proc[p].pc = "granting" => sales[proc[p].tx] > 0

SettlingPhase == {"confirmed", "unsold", "crediting", "credited", "granting"}

FInv == IInv /\ GrantingIsSold /\ ServedWithoutFaults

\* Served of the next state, row by row.
SettlingNext(x) == \E p \in Procs : proc'[p].tx = x /\ proc'[p].pc \in SettlingPhase

ServedNext(r) ==
    \/ SettlingNext(row'[r].hash)
    \/ sales'[row'[r].hash] > 0 /\ grants'[row'[r].hash] > 0

LEMMA ServedByRows ==
  ASSUME \A r \in Rows : row'[r].status = "confirmed" => ServedNext(r)
  PROVE  Served'
  BY DEF Served, Settling, ServedNext, SettlingNext, SettlingPhase

\* The books only grow, nobody stops settling, no document is newly confirmed.
NoSetback ==
    /\ \A r \in Rows : row'[r].status = "confirmed" => row[r] = row'[r]
    /\ \A p \in Procs : proc[p].pc \in SettlingPhase =>
          proc'[p].pc \in SettlingPhase /\ proc'[p].tx = proc[p].tx
    /\ \A x \in Txs : sales'[x] >= sales[x] /\ grants'[x] >= grants[x]

LEMMA ServedKept ==
  ASSUME IInv, TypeOK', Served, NoSetback
  PROVE  Served'
<1> SUFFICES ASSUME NEW r \in Rows, row'[r].status = "confirmed"
             PROVE  ServedNext(r)
  BY ServedByRows
<1> DEFINE x == row[r].hash
<1>1. row'[r].hash = x /\ row[r].status = "confirmed" /\ x \in Txs
  BY DEF NoSetback, IInv, RowsOK
<1>2. CASE Settling(x)
  <2>1. PICK p \in Procs : proc[p].tx = x /\ proc[p].pc \in SettlingPhase
    BY <1>2 DEF Settling, SettlingPhase
  <2>2. proc'[p].tx = x /\ proc'[p].pc \in SettlingPhase BY <2>1 DEF NoSetback
  <2> QED BY <1>1, <2>2 DEF ServedNext, SettlingNext
<1>3. CASE sales[x] > 0 /\ grants[x] > 0
  <2>1. sales[x] \in Nat /\ sales'[x] \in Nat /\ grants[x] \in Nat /\ grants'[x] \in Nat
    BY <1>1 DEF IInv, TypeOK
  <2> QED BY <1>1, <1>3, <2>1 DEF NoSetback, ServedNext
<1> QED BY <1>1, <1>2, <1>3 DEF Served

LEMMA SoldKept ==
  ASSUME IInv, TypeOK', GrantingIsSold,
         \A x \in Txs : sales'[x] >= sales[x],
         \A p \in Procs : proc'[p].pc = "granting" =>
            proc[p].pc = "granting" /\ proc'[p].tx = proc[p].tx
  PROVE  GrantingIsSold'
<1> SUFFICES ASSUME NEW p \in Procs, proc'[p].pc = "granting" PROVE sales'[proc'[p].tx] > 0
  BY DEF GrantingIsSold
<1> DEFINE x == proc[p].tx
<1>1. proc[p].pc = "granting" /\ proc'[p].tx = x /\ x \in Txs BY DEF IInv, ProcsOK
<1>2. sales[x] > 0 /\ sales[x] \in Nat /\ sales'[x] \in Nat
  BY <1>1 DEF GrantingIsSold, IInv, TypeOK
<1> QED BY <1>1, <1>2

\* A request either serves what it confirms in the same commit or confirms nothing.
LEMMA RequestServes ==
  ASSUME FInv, TypeOK', NEW s \in Sessions, Request(s)
  PROVE  GrantingIsSold' /\ ServedWithoutFaults'
<1> USE DEF FInv, IInv, SessionsOK, InFlight
<1>1. proc' = proc /\ faults' = faults
  BY DEF Request, OpenInitialize, CommitInitialize, OpenSubmit, RejectXdr, MarkSubmitted,
         SendToHorizon, HorizonRejects, HorizonAccepts, RefuteInSession, DeferInSession,
         ConfirmInSession, Confirmed, AbortSession
<1>2. CASE ConfirmInSession(s)
  <2> DEFINE x == session[s].tx
             d == session[s].row
  <2>1. x \in Txs /\ d \in Rows BY <1>2 DEF ConfirmInSession, Confirmed
  <2>2. row' = [row EXCEPT ![d] = [status |-> "confirmed", hash |-> x]]
    BY <1>2 DEF ConfirmInSession, Confirmed, SetRow
  <2>3. sales' = [sales EXCEPT ![x] = IF @ = 0 THEN 1 ELSE @]
        /\ grants' = [grants EXCEPT ![x] = @ + 1]
    BY <1>2 DEF ConfirmInSession, Confirmed
  <2>4. \A y \in Txs : /\ sales'[y] >= sales[y] /\ grants'[y] >= grants[y]
                       /\ y = x => sales'[y] > 0 /\ grants'[y] > 0
    BY <2>1, <2>3 DEF TypeOK
  <2>5. GrantingIsSold' BY <1>1, <2>4, SoldKept
  <2>6. ASSUME Served PROVE Served'
    <3> SUFFICES ASSUME NEW r \in Rows, row'[r].status = "confirmed"
                 PROVE  ServedNext(r)
      BY ServedByRows
    <3>1. CASE r = d
      <4>1. row'[d].hash = x BY <2>1, <2>2 DEF TypeOK
      <4> QED BY <2>1, <2>4, <3>1, <4>1 DEF ServedNext
    <3>2. CASE r # d
      <4>1. row'[r] = row[r] BY <2>1, <2>2, <3>2 DEF TypeOK
      <4>2. row[r].hash \in Txs BY <4>1 DEF RowsOK
      <4>3. CASE Settling(row[r].hash)
        BY <1>1, <4>1, <4>3 DEF Settling, SettlingPhase, ServedNext, SettlingNext
      <4>4. CASE sales[row[r].hash] > 0 /\ grants[row[r].hash] > 0
        <5>1. /\ sales[row[r].hash] \in Nat /\ sales'[row[r].hash] \in Nat
              /\ grants[row[r].hash] \in Nat /\ grants'[row[r].hash] \in Nat
          BY <4>2 DEF TypeOK
        <5> QED BY <2>4, <4>1, <4>2, <4>4, <5>1 DEF ServedNext
      <4> QED BY <2>6, <4>1, <4>3, <4>4 DEF Served
    <3> QED BY <3>1, <3>2
  <2> QED BY <1>1, <2>5, <2>6 DEF ServedWithoutFaults
<1>3. CASE ~ConfirmInSession(s)
  <2>1. sales' = sales /\ grants' = grants
    BY <1>3 DEF Request, OpenInitialize, CommitInitialize, OpenSubmit, RejectXdr, MarkSubmitted,
           SendToHorizon, HorizonRejects, HorizonAccepts, RefuteInSession, DeferInSession,
           AbortSession
  <2>2. \A r \in Rows : row'[r].status = "confirmed" => row[r] = row'[r]
    BY <1>3 DEF Request, OpenInitialize, CommitInitialize, OpenSubmit, RejectXdr, MarkSubmitted,
           SendToHorizon, HorizonRejects, HorizonAccepts, RefuteInSession, DeferInSession,
           AbortSession, SetRow, TypeOK
  <2>3. \A x \in Txs : sales'[x] >= sales[x] /\ grants'[x] >= grants[x]
    BY <2>1 DEF TypeOK
  <2>4. NoSetback BY <1>1, <2>2, <2>3 DEF NoSetback
  <2>5. GrantingIsSold' BY <1>1, <2>3, SoldKept
  <2> QED BY <1>1, <2>4, <2>5, ServedKept DEF ServedWithoutFaults
<1> QED BY <1>2, <1>3

\* Who confirms a document is settling it until both books have the payment.
LEMMA SettleServes ==
  ASSUME FInv, TypeOK', NEW p \in Procs, Settle(p)
  PROVE  GrantingIsSold' /\ ServedWithoutFaults'
<1> USE DEF FInv, IInv
<1> DEFINE x == proc[p].tx
<1>1. x \in Txs /\ proc[p].row \in Rows /\ proc[p].pc \in SettlingPhase \cup {"verifying"}
  BY DEF ProcsOK, Settle, ConfirmRow, CheckLedger, ReadBalance, SaveBalance, SaveLedger,
         GrantAccess, SettlingPhase
<1>2. faults' = faults
  BY DEF Settle, ConfirmRow, CheckLedger, ReadBalance, SaveBalance, SaveLedger, GrantAccess
<1>3. \A o \in Procs \ {p} : proc'[o] = proc[o]
  BY DEF TypeOK, Settle, ConfirmRow, CheckLedger, ReadBalance, SaveBalance, SaveLedger,
         GrantAccess
<1>4. \A y \in Txs : sales'[y] >= sales[y] /\ grants'[y] >= grants[y]
  BY <1>1 DEF TypeOK, Settle, ConfirmRow, CheckLedger, ReadBalance, SaveBalance, SaveLedger,
         GrantAccess
<1>5. CASE ConfirmRow(p)
  <2>1. proc'[p].pc = "confirmed" /\ proc'[p].tx = x BY <1>5 DEF ConfirmRow, TypeOK, ProcRecord
  <2>2. row' = [row EXCEPT ![proc[p].row] = [status |-> "confirmed", hash |-> x]]
    BY <1>5 DEF ConfirmRow, SetRow
  <2>3. GrantingIsSold' BY <1>3, <1>4, <2>1, SoldKept
  <2>4. SettlingNext(x) BY <2>1 DEF SettlingNext, SettlingPhase
  <2>5. ASSUME Served PROVE Served'
    <3> SUFFICES ASSUME NEW r \in Rows, row'[r].status = "confirmed"
                 PROVE  ServedNext(r)
      BY ServedByRows
    <3>1. CASE r = proc[p].row
      <4>1. row'[r].hash = x BY <1>1, <2>2, <3>1 DEF TypeOK
      <4> QED BY <2>4, <4>1 DEF ServedNext
    <3>2. CASE r # proc[p].row
      <4>1. row'[r] = row[r] BY <1>1, <2>2, <3>2 DEF TypeOK
      <4>2. ASSUME Settling(row[r].hash) PROVE SettlingNext(row[r].hash)
        <5>1. PICK o \in Procs : proc[o].tx = row[r].hash /\ proc[o].pc \in SettlingPhase
          BY <4>2 DEF Settling, SettlingPhase
        <5>2. o # p BY <1>5, <5>1 DEF ConfirmRow, SettlingPhase
        <5> QED BY <1>3, <5>1, <5>2 DEF SettlingNext
      <4>3. sales' = sales /\ grants' = grants BY <1>5 DEF ConfirmRow
      <4> QED BY <2>5, <4>1, <4>2, <4>3 DEF Served, ServedNext
    <3> QED BY <3>1, <3>2
  <2> QED BY <1>2, <2>3, <2>5 DEF ServedWithoutFaults
<1>6. CASE CheckLedger(p) \/ ReadBalance(p) \/ SaveBalance(p) \/ SaveLedger(p)
  <2>1. row' = row
    BY <1>6 DEF CheckLedger, ReadBalance, SaveBalance, SaveLedger
  <2>2. proc'[p].pc \in SettlingPhase /\ proc'[p].tx = x
    BY <1>6 DEF CheckLedger, ReadBalance, SaveBalance, SaveLedger, SettlingPhase, TypeOK, ProcRecord
  <2>3. proc'[p].pc = "granting" => sales'[x] > 0
    <3>1. proc \in [Procs -> ProcRecord] /\ sales \in [Txs -> Nat] BY DEF TypeOK
    <3>2. CASE CheckLedger(p) BY <1>1, <3>1, <3>2 DEF CheckLedger, ProcRecord
    <3>3. CASE SaveLedger(p) BY <1>1, <3>1, <3>3 DEF SaveLedger
    <3>4. CASE ReadBalance(p) \/ SaveBalance(p)
      BY <3>1, <3>4 DEF ReadBalance, SaveBalance, ProcRecord
    <3> QED BY <1>6, <3>2, <3>3, <3>4
  <2>4. GrantingIsSold'
    <3> SUFFICES ASSUME NEW o \in Procs, proc'[o].pc = "granting" PROVE sales'[proc'[o].tx] > 0
      BY DEF GrantingIsSold
    <3>1. CASE o = p BY <2>2, <2>3, <3>1
    <3>2. CASE o # p
      <4>1. proc'[o] = proc[o] /\ proc[o].tx \in Txs BY <1>3, <3>2 DEF ProcsOK
      <4>2. sales[proc[o].tx] > 0 BY <4>1 DEF GrantingIsSold
      <4>3. sales[proc[o].tx] \in Nat /\ sales'[proc[o].tx] \in Nat BY <4>1 DEF TypeOK
      <4> QED BY <1>4, <4>1, <4>2, <4>3
    <3> QED BY <3>1, <3>2
  <2>5. NoSetback BY <1>3, <1>4, <2>1, <2>2 DEF NoSetback
  <2> QED BY <1>2, <2>4, <2>5, ServedKept DEF ServedWithoutFaults
<1>7. CASE GrantAccess(p)
  <2>1. row' = row /\ sales' = sales /\ grants' = [grants EXCEPT ![x] = @ + 1]
        /\ proc[p].pc = "granting" /\ proc'[p].pc \in {"done", "idle"}
    BY <1>7 DEF GrantAccess, TypeOK, NoProc
  <2>2. sales[x] > 0 BY <2>1 DEF GrantingIsSold
  <2>3. grants'[x] > 0 BY <1>1, <2>1 DEF TypeOK
  <2>4. GrantingIsSold' BY <1>3, <1>4, <2>1, SoldKept
  <2>5. ASSUME Served PROVE Served'
    <3> SUFFICES ASSUME NEW r \in Rows, row'[r].status = "confirmed"
                 PROVE  ServedNext(r)
      BY ServedByRows
    <3>1. CASE row[r].hash = x BY <2>1, <2>2, <2>3, <3>1 DEF ServedNext
    <3>2. CASE row[r].hash # x
      <4>1. ASSUME Settling(row[r].hash) PROVE SettlingNext(row[r].hash)
        <5>1. PICK o \in Procs : proc[o].tx = row[r].hash /\ proc[o].pc \in SettlingPhase
          BY <4>1 DEF Settling, SettlingPhase
        <5>2. o # p BY <3>2, <5>1
        <5> QED BY <1>3, <5>1, <5>2 DEF SettlingNext
      <4>2. row[r].hash \in Txs BY <2>1 DEF RowsOK
      <4>3. grants'[row[r].hash] = grants[row[r].hash] BY <2>1, <3>2, <4>2 DEF TypeOK
      <4> QED BY <2>1, <2>5, <4>1, <4>3 DEF Served, ServedNext
    <3> QED BY <3>1, <3>2
  <2> QED BY <1>2, <2>4, <2>5 DEF ServedWithoutFaults
<1> QED BY <1>5, <1>6, <1>7 DEF Settle

LEMMA ServedStep == FInv /\ [Next]_vars => FInv'
<1> SUFFICES ASSUME FInv, [Next]_vars PROVE GrantingIsSold' /\ ServedWithoutFaults'
  BY StepIInv DEF FInv
<1>1. IInv /\ IInv' BY StepIInv DEF FInv
<1>2. TypeOK /\ TypeOK' BY <1>1 DEF IInv
<1>3. \A n \in Nat : n >= n OBVIOUS
<1>4. ASSUME faults' = faults, sales' = sales, grants' = grants,
             \A r \in Rows : row'[r].status = "confirmed" => row[r] = row'[r],
             \A p \in Procs : proc'[p] = proc[p] \/ (/\ proc[p].pc \notin SettlingPhase
                                                     /\ proc'[p].pc \notin SettlingPhase)
      PROVE  GrantingIsSold' /\ ServedWithoutFaults'
  <2>1. \A x \in Txs : sales'[x] >= sales[x] /\ grants'[x] >= grants[x]
    BY <1>2, <1>3, <1>4 DEF TypeOK
  <2>2. NoSetback BY <1>4, <2>1 DEF NoSetback
  <2>3. GrantingIsSold'
    BY <1>1, <1>2, <1>4, <2>1, SoldKept DEF FInv, SettlingPhase
  <2> QED BY <1>1, <1>2, <1>4, <2>2, <2>3, ServedKept DEF FInv, ServedWithoutFaults
<1>5. CASE Network
  BY <1>4, <1>5 DEF Network, WalletSends, NetworkApplies
<1>6. CASE \E s \in Sessions : Request(s) BY <1>2, <1>6, RequestServes
<1>7. CASE \E r \in Rows : CancelTransaction(r) \/ ReapPending(r)
  BY <1>2, <1>4, <1>7 DEF CancelTransaction, ReapPending, Close, SetRow, TypeOK
<1>8. CASE \E j \in Jobs : JobStep(j)
  <2>1. PICK j \in Jobs : JobStep(j) BY <1>8
  <2>2. CASE \E x \in Txs : ClaimJob(j, x)
    BY <1>2, <1>4, <2>2 DEF ClaimJob, ClaimAs, SettlingPhase, TypeOK
  <2>3. CASE JobRetries(j) \/ CompleteJob(j)
    BY <1>2, <1>4, <2>3 DEF JobRetries, CompleteJob, FinishJob, NoProc, SettlingPhase, TypeOK
  <2>4. CASE JobFailsRow(j)
    BY <1>2, <1>4, <2>4 DEF JobFailsRow, SetRow, SettlingPhase, TypeOK
  <2>5. CASE Settle(j) BY <1>2, <2>5, SettleServes DEF Procs
  <2> QED BY <2>1, <2>2, <2>3, <2>4, <2>5 DEF JobStep
<1>9. CASE \E q \in Reconcilers : ReconcilerStep(q)
  <2>1. PICK q \in Reconcilers : ReconcilerStep(q) BY <1>9
  <2>2. CASE \E x \in Txs : MatchPayment(q, x)
    BY <1>2, <1>4, <2>2 DEF MatchPayment, SettlingPhase, TypeOK
  <2>3. CASE SkipPayment(q)
    BY <1>2, <1>4, <2>3 DEF SkipPayment, NoProc, SettlingPhase, TypeOK
  <2>4. CASE Settle(q) BY <1>2, <2>4, SettleServes DEF Procs
  <2> QED BY <2>1, <2>2, <2>3, <2>4 DEF ReconcilerStep
<1>10. CASE (\E p \in Procs : Crash(p)) \/ (\E j \in Jobs : JobThrows(j))
  <2>1. /\ sales' = sales
        /\ \A o \in Procs : proc'[o] = proc[o] \/ proc'[o].pc = "idle"
    <3>1. PICK p \in Procs : proc' = [proc EXCEPT ![p] = NoProc]
      BY <1>10 DEF Crash, JobThrows, FinishJob, Procs
    <3>2. sales' = sales BY <1>10 DEF Crash, JobThrows
    <3> QED BY <1>2, <3>1, <3>2 DEF NoProc, TypeOK
  <2>2. faults' # 0
    <3>1. faults \in Nat BY <1>2, BoundsAssumption DEF TypeOK
    <3>2. faults' = faults + 1 BY <1>10 DEF Crash, JobThrows
    <3> QED BY <3>1, <3>2
  <2>3. \A x \in Txs : sales'[x] >= sales[x] BY <1>2, <1>3, <2>1 DEF TypeOK
  <2>4. GrantingIsSold' BY <1>1, <1>2, <2>1, <2>3, SoldKept DEF FInv
  <2> QED BY <2>2, <2>4 DEF ServedWithoutFaults
<1>11. CASE BootReset BY <1>4, <1>11 DEF BootReset
<1>12. CASE UNCHANGED vars BY <1>4, <1>12 DEF vars
<1> QED BY <1>5, <1>6, <1>7, <1>8, <1>9, <1>10, <1>11, <1>12 DEF Next, Failure

\* Without a crash or a database error a confirmed purchase is credited and granted,
\* or somebody is at it: no race of requests, jobs and workers drops it.
THEOREM ServedUnlessFaults == Spec => []ServedWithoutFaults
<1>1. Init => FInv
  BY InitIInv DEF Init, FInv, GrantingIsSold, ServedWithoutFaults, Served, NoRow, NoProc
<1>2. FInv => ServedWithoutFaults BY DEF FInv
<1> QED BY <1>1, <1>2, ServedStep, PTL DEF Spec
-----------------------------------------------------------------------------
(***************************************************************************)
(* One server process and no ingestion worker: the flow implements         *)
(* Settlement.  With several replicas or with a worker it does not (a late *)
(* save of a second actor credits twice or takes a confirmation back), so  *)
(* both hypotheses are needed.                                             *)
(***************************************************************************)
OneServer == Reconcilers = {} /\ SingleReplica

Uncredited == {"confirmed", "unsold", "crediting", "credited"}

PaidFor(x) == \E r \in Rows : row[r].status = "confirmed" /\ row[r].hash = x

\* A running execution holds its job, alone, and its document waits for it.
ExecutionsOK ==
    /\ \A j \in Jobs : proc[j].pc # "idle" => job[proc[j].tx].status = "active"
    /\ \A j, k \in Jobs :
          proc[j].pc # "idle" /\ proc[k].pc # "idle" /\ proc[j].tx = proc[k].tx => j = k
    /\ \A j \in Jobs : proc[j].pc = "verifying" => row[proc[j].row].status = "retrying"
    /\ \A j \in Jobs : proc[j].pc \in SettlingPhase => row[proc[j].row].status = "confirmed"

\* The books know nothing of a payment no document is confirmed with, and of one that is
\* being settled exactly what its execution has written.
BooksOK ==
    /\ \A x \in Txs : ~PaidFor(x) => sales[x] = 0 /\ grants[x] = 0
    /\ \A j \in Jobs : proc[j].pc \in Uncredited =>
          sales[proc[j].tx] = 0 /\ grants[proc[j].tx] = 0
    /\ \A j \in Jobs : proc[j].pc = "granting" =>
          sales[proc[j].tx] = 1 /\ grants[proc[j].tx] = 0

RInv == IInv /\ ExecutionsOK /\ BooksOK

AbstractStep == Settled!SNext \/ UNCHANGED <<row, sales, grants>>

\* What is shown of every step.
Implements == ExecutionsOK' /\ BooksOK' /\ AbstractStep

\* Where nobody's document, books or execution changed, nothing is to be shown.
LEMMA IdleImplements ==
  ASSUME RInv, row' = row, sales' = sales, grants' = grants, proc' = proc,
         \A x \in Txs : job[x].status = "active" => job'[x].status = "active"
  PROVE  Implements
<1>1. \A j \in Jobs : proc[j].pc # "idle" => proc[j].tx \in Txs
  BY DEF RInv, IInv, ProcsOK, Procs
<1>2. ExecutionsOK' BY <1>1 DEF RInv, ExecutionsOK
<1>3. BooksOK' BY DEF RInv, BooksOK, PaidFor
<1> QED BY <1>2, <1>3 DEF Implements, AbstractStep

\* Writing a document that no execution works on and no book knows.
LEMMA OpenRowImplements ==
  ASSUME RInv, TypeOK', NEW d \in Rows, row[d].status \in {"none", "pending"},
         NEW st \in Status \ {"confirmed"}, NEW h, SetRow(d, st, h),
         sales' = sales, grants' = grants, proc' = proc,
         \A x \in Txs : job[x].status = "active" => job'[x].status = "active",
         Settled!SNext
  PROVE  Implements
<1> USE DEF RInv, IInv
<1>1. \A r \in Rows : r # d => row'[r] = row[r] BY DEF SetRow, TypeOK
<1>2. row'[d].status = st /\ row[d].status # "confirmed" /\ st # "confirmed"
  BY DEF SetRow, TypeOK
<1>3. \A j \in Jobs : proc[j].pc # "idle" =>
        proc[j].tx \in Txs /\ proc[j].row \in Rows /\ proc[j].row # d
  BY NoneAssumption DEF ProcsOK, Procs, RowsOK
<1>4. ExecutionsOK'
  BY <1>1, <1>3 DEF ExecutionsOK, SettlingPhase
<1>5. \A x \in Txs : PaidFor(x) => PaidFor(x)'
  BY <1>1, <1>2 DEF PaidFor
<1>6. BooksOK' BY <1>5 DEF BooksOK
<1> QED BY <1>4, <1>6 DEF Implements, AbstractStep

LEMMA RequestImplements ==
  ASSUME RInv, TypeOK', NEW s \in Sessions, Request(s)
  PROVE  Implements
<1> USE DEF RInv, IInv, SessionsOK, InFlight
<1> DEFINE d == session[s].row
           x == session[s].tx
<1>1. CASE \E r \in Rows : CommitInitialize(s, r)
  <2>1. PICK r \in Rows : CommitInitialize(s, r) BY <1>1
  <2>2. Settled!Open(r)
    BY <2>1 DEF CommitInitialize, SetRow, Settled!Open, Settled!Move
  <2>3. Settled!SNext BY <2>2 DEF Settled!SNext
  <2> QED BY <2>1, <2>3, OpenRowImplements DEF CommitInitialize, Status
<1>2. CASE RejectXdr(s) \/ HorizonRejects(s)
  <2>1. d \in Rows /\ row[d].status = "pending" /\ SetRow(d, "failed", None)
    BY <1>2 DEF RejectXdr, Writable, HorizonRejects
  <2>2. Settled!Abandon(d)
    BY <1>2, <2>1 DEF RejectXdr, HorizonRejects, SetRow, Settled!Abandon, Settled!Move
  <2>3. Settled!SNext BY <2>1, <2>2 DEF Settled!SNext
  <2> QED BY <1>2, <2>1, <2>3, OpenRowImplements DEF RejectXdr, HorizonRejects, Status
<1>3. CASE RefuteInSession(s)
  <2>1. d \in Rows /\ x \in Txs /\ row[d].status = "pending" /\ SetRow(d, "failed", x)
    BY <1>3 DEF RefuteInSession
  <2>2. Settled!Refuse(d, x)
    BY <1>3, <2>1
       DEF RefuteInSession, HashFree, SetRow, Settled!Refuse, Settled!Move, Settled!Unused
  <2>3. Settled!SNext BY <2>1, <2>2 DEF Settled!SNext
  <2> QED BY <1>3, <2>1, <2>3, OpenRowImplements DEF RefuteInSession, Status
<1>4. CASE DeferInSession(s)
  <2>1. d \in Rows /\ x \in Txs /\ row[d].status = "pending" /\ SetRow(d, "retrying", x)
    BY <1>4 DEF DeferInSession
  <2>2. Settled!Await(d, x)
    BY <1>4, <2>1
       DEF DeferInSession, HashFree, SetRow, Settled!Await, Settled!Move, Settled!Unused
  <2>3. Settled!SNext BY <2>1, <2>2 DEF Settled!SNext
  <2>4. \A y \in Txs : job[y].status = "active" => job'[y].status = "active"
    BY <1>4, <2>1 DEF DeferInSession, TypeOK
  <2> QED BY <1>4, <2>1, <2>3, <2>4, OpenRowImplements DEF DeferInSession, Status
<1>5. CASE ConfirmInSession(s)
  <2>1. d \in Rows /\ x \in Txs /\ row[d].status = "pending" /\ HashFree(x)
    BY <1>5 DEF ConfirmInSession, Confirmed
  <2>2. row' = [row EXCEPT ![d] = [status |-> "confirmed", hash |-> x]]
        /\ proc' = proc /\ job' = job
    BY <1>5 DEF ConfirmInSession, Confirmed, SetRow
  <2>3. sales[x] = 0 /\ grants[x] = 0 BY <2>1 DEF BooksOK, PaidFor, HashFree
  <2>4. sales' = [sales EXCEPT ![x] = 1] /\ grants' = [grants EXCEPT ![x] = 1]
    BY <1>5, <2>1, <2>3 DEF ConfirmInSession, Confirmed, TypeOK
  <2>5. Settled!Pay(d, x)
    BY <2>1, <2>2, <2>3, <2>4 DEF HashFree, Settled!Pay, Settled!Move, Settled!Unused
  <2>6. AbstractStep BY <2>1, <2>5 DEF AbstractStep, Settled!SNext
  <2>7. \A j \in Jobs : proc[j].pc # "idle" =>
          /\ proc[j].tx \in Txs /\ proc[j].row \in Rows
          /\ proc[j].row # d /\ proc[j].tx # x
    BY <2>1, NoneAssumption DEF ProcsOK, Procs, RowsOK, HashFree
  <2>8. ExecutionsOK' BY <2>1, <2>2, <2>7 DEF ExecutionsOK, SettlingPhase, TypeOK
  <2>9. ASSUME NEW y \in Txs, ~PaidFor(y)' PROVE sales'[y] = 0 /\ grants'[y] = 0
    <3>1. y # x /\ ~PaidFor(y) BY <2>1, <2>2, <2>9 DEF PaidFor, TypeOK
    <3> QED BY <2>4, <3>1 DEF BooksOK, TypeOK
  <2>10. \A j \in Jobs : proc[j].pc # "idle" =>
           sales'[proc[j].tx] = sales[proc[j].tx] /\ grants'[proc[j].tx] = grants[proc[j].tx]
    BY <2>4, <2>7 DEF TypeOK
  <2>11. BooksOK' BY <2>2, <2>9, <2>10 DEF BooksOK, Uncredited
  <2> QED BY <2>6, <2>8, <2>11 DEF Implements
<1>6. CASE row' = row /\ sales' = sales /\ grants' = grants /\ proc' = proc /\ job' = job
  BY <1>6, IdleImplements
<1> QED BY <1>1, <1>2, <1>3, <1>4, <1>5, <1>6
        DEF Request, OpenInitialize, OpenSubmit, MarkSubmitted, SendToHorizon,
            HorizonAccepts, AbortSession

LEMMA CloseImplements ==
  ASSUME RInv, TypeOK', NEW r \in Rows, CancelTransaction(r) \/ ReapPending(r)
  PROVE  Implements
<1>1. PICK st \in {"expired", "reaped"} : Close(r, {"pending"}, st)
  BY DEF CancelTransaction, ReapPending
<1>2. Settled!Abandon(r) BY <1>1 DEF Close, SetRow, Settled!Abandon, Settled!Move
<1>3. Settled!SNext BY <1>2 DEF Settled!SNext
<1> QED BY <1>1, <1>3, OpenRowImplements DEF Close, Status

\* The one execution of a job moves its document and its books.
LEMMA JobImplements ==
  ASSUME RInv, IInv', NEW j \in Jobs, JobStep(j)
  PROVE  Implements
<1> USE DEF RInv
<1> DEFINE x == proc[j].tx
           d == proc[j].row
<1>1. TypeOK /\ TypeOK' /\ Jobs \subseteq Procs BY DEF IInv, Procs
<1>2. proc[j].pc # "idle" => x \in Txs /\ d \in Rows /\ row[d].hash = x
  BY <1>1 DEF IInv, ProcsOK
<1>3. \A k \in Jobs : proc[k].pc # "idle" =>
        proc[k].tx \in Txs /\ proc[k].row \in Rows /\ row[proc[k].row].hash = proc[k].tx
  BY <1>1 DEF IInv, ProcsOK
<1>4. \A k \in Jobs \ {j} : proc[j].pc # "idle" /\ proc[k].pc # "idle" =>
        proc[k].tx # x /\ proc[k].row # d
  BY <1>2, <1>3 DEF ExecutionsOK
<1>5. CASE \E y \in Txs : ClaimJob(j, y)
  <2>1. PICK y \in Txs : ClaimJob(j, y) BY <1>5
  <2>2. row' = row /\ sales' = sales /\ grants' = grants BY <2>1 DEF ClaimJob, ClaimAs
  <2>3. /\ job[y].status = "queued" /\ job'[y].status = "active"
        /\ \A z \in Txs : z # y => job'[z] = job[z]
    BY <1>1, <2>1 DEF ClaimJob, ClaimAs, TypeOK, JobRecord
  <2>4. /\ proc'[j].tx = y /\ proc'[j].row = job[y].row
        /\ proc'[j].pc \in {"done", "verifying"}
        /\ proc'[j].pc = "verifying" => row[job[y].row].status \notin {"confirmed", "failed"}
        /\ \A k \in Jobs \ {j} : proc'[k] = proc[k]
    BY <1>1, <2>1 DEF ClaimJob, ClaimAs, TypeOK
  <2>5. job[y].row \in Rows /\ row[job[y].row].hash = y BY <2>3 DEF IInv, JobsOK
  <2>6. row[job[y].row].status \in {"retrying", "confirmed", "failed"}
    <3>1. row[job[y].row].hash # None BY <2>5, NoneAssumption
    <3>2. row[job[y].row].status \notin {"none", "pending", "expired", "reaped"}
      BY <2>5, <3>1 DEF IInv, RowsOK
    <3>3. row[job[y].row].status \in Status BY <1>1, <2>5 DEF TypeOK, Document
    <3> QED BY <3>2, <3>3 DEF Status
  <2>7. \A k \in Jobs \ {j} : proc[k].pc # "idle" => proc[k].tx # y BY <2>3 DEF ExecutionsOK
  <2>8. ExecutionsOK'
    <3>1. ASSUME NEW k \in Jobs, proc'[k].pc # "idle" PROVE job'[proc'[k].tx].status = "active"
      BY <1>3, <2>3, <2>4, <2>7, <3>1 DEF ExecutionsOK
    <3>2. ASSUME NEW k \in Jobs, NEW l \in Jobs, proc'[k].pc # "idle", proc'[l].pc # "idle",
                 proc'[k].tx = proc'[l].tx
          PROVE  k = l
      BY <2>4, <2>7, <3>2 DEF ExecutionsOK
    <3>3. ASSUME NEW k \in Jobs, proc'[k].pc = "verifying"
          PROVE  row'[proc'[k].row].status = "retrying"
      BY <2>2, <2>4, <2>6, <3>3 DEF ExecutionsOK
    <3>4. ASSUME NEW k \in Jobs, proc'[k].pc \in SettlingPhase
          PROVE  row'[proc'[k].row].status = "confirmed"
      BY <2>2, <2>4, <3>4 DEF ExecutionsOK, SettlingPhase
    <3> QED BY <3>1, <3>2, <3>3, <3>4 DEF ExecutionsOK
  <2>9. BooksOK' BY <2>2, <2>4 DEF BooksOK, PaidFor, Uncredited
  <2> QED BY <2>2, <2>8, <2>9 DEF Implements, AbstractStep
<1>6. CASE JobRetries(j) \/ CompleteJob(j)
  <2>1. row' = row /\ sales' = sales /\ grants' = grants /\ proc[j].pc # "idle"
    BY <1>6 DEF JobRetries, CompleteJob
  <2>2. proc'[j].pc = "idle" /\ \A k \in Jobs \ {j} : proc'[k] = proc[k]
    BY <1>1, <1>6 DEF JobRetries, CompleteJob, FinishJob, NoProc, TypeOK
  <2>3. \A z \in Txs : z # x => job'[z] = job[z]
    BY <1>1, <1>6 DEF JobRetries, CompleteJob, FinishJob, TypeOK
  <2>4. ExecutionsOK'
    BY <1>3, <1>4, <2>1, <2>2, <2>3 DEF ExecutionsOK, SettlingPhase
  <2>5. BooksOK' BY <2>1, <2>2 DEF BooksOK, PaidFor, Uncredited
  <2> QED BY <2>1, <2>4, <2>5 DEF Implements, AbstractStep
<1>7. CASE JobFailsRow(j)
  <2>1. /\ proc[j].pc = "verifying" /\ SetRow(d, "failed", x)
        /\ sales' = sales /\ grants' = grants /\ job' = job
    BY <1>7 DEF JobFailsRow
  <2>2. /\ proc'[j].pc = "done" /\ proc'[j].tx = x /\ proc'[j].row = d
        /\ \A k \in Jobs \ {j} : proc'[k] = proc[k]
    BY <1>1, <1>7 DEF JobFailsRow, TypeOK, ProcRecord
  <2>3. row[d] = [status |-> "retrying", hash |-> x]
    BY <1>1, <1>2, <2>1 DEF ExecutionsOK, TypeOK, Document
  <2>4. Settled!Refuse(d, x)
    BY <2>1, <2>3 DEF SetRow, Settled!Refuse, Settled!Move
  <2>5. AbstractStep BY <1>2, <2>1, <2>4 DEF AbstractStep, Settled!SNext
  <2>6. \A r \in Rows : r # d => row'[r] = row[r] BY <1>1, <2>1 DEF SetRow, TypeOK
  <2>7. ExecutionsOK'
    BY <1>3, <1>4, <2>1, <2>2, <2>6 DEF ExecutionsOK, SettlingPhase
  <2>8. \A y \in Txs : PaidFor(y) => PaidFor(y)' BY <2>3, <2>6 DEF PaidFor
  <2>9. BooksOK' BY <2>1, <2>2, <2>8 DEF BooksOK, Uncredited
  <2> QED BY <2>5, <2>7, <2>9 DEF Implements
<1>8. CASE ConfirmRow(j)
  <2>1. /\ proc[j].pc = "verifying" /\ SetRow(d, "confirmed", x)
        /\ sales' = sales /\ grants' = grants /\ job' = job
    BY <1>8 DEF ConfirmRow
  <2>2. /\ proc'[j].pc = "confirmed" /\ proc'[j].tx = x /\ proc'[j].row = d
        /\ \A k \in Jobs \ {j} : proc'[k] = proc[k]
    BY <1>1, <1>8 DEF ConfirmRow, TypeOK, ProcRecord
  <2>3. row[d] = [status |-> "retrying", hash |-> x]
    BY <1>1, <1>2, <2>1 DEF ExecutionsOK, TypeOK, Document
  <2>4. Settled!Pay(d, x)
    BY <2>1, <2>3 DEF SetRow, Settled!Pay, Settled!Move
  <2>5. AbstractStep BY <1>2, <2>1, <2>4 DEF AbstractStep, Settled!SNext
  <2>6. /\ \A r \in Rows : r # d => row'[r] = row[r]
        /\ row'[d].status = "confirmed"
    BY <1>1, <1>2, <2>1 DEF SetRow, TypeOK
  <2>7. ExecutionsOK'
    BY <1>3, <1>4, <2>1, <2>2, <2>6 DEF ExecutionsOK, SettlingPhase
  <2>8. \A y \in Txs : PaidFor(y) => PaidFor(y)' BY <2>3, <2>6 DEF PaidFor
  <2>9. ~PaidFor(x) BY <1>2, <2>1, <2>3, NoneAssumption DEF PaidFor, IInv, HashUnique
  <2>10. sales[x] = 0 /\ grants[x] = 0 BY <1>2, <2>1, <2>9 DEF BooksOK
  <2>11. BooksOK' BY <2>1, <2>2, <2>8, <2>10 DEF BooksOK, Uncredited
  <2> QED BY <2>5, <2>7, <2>11 DEF Implements
<1>9. CASE CheckLedger(j) \/ ReadBalance(j) \/ SaveBalance(j)
  <2>1. /\ row' = row /\ sales' = sales /\ grants' = grants /\ job' = job
        /\ proc[j].pc \in Uncredited
    BY <1>9 DEF CheckLedger, ReadBalance, SaveBalance, Uncredited
  <2>2. sales[x] = 0 BY <2>1 DEF BooksOK
  <2>3. /\ proc'[j].pc \in Uncredited /\ proc'[j].tx = x /\ proc'[j].row = d
        /\ \A k \in Jobs \ {j} : proc'[k] = proc[k]
    <3>1. proc \in [Procs -> ProcRecord] BY <1>1 DEF TypeOK
    <3>2. CASE CheckLedger(j)
      BY <1>1, <2>2, <3>1, <3>2 DEF CheckLedger, ProcRecord, Uncredited
    <3>3. CASE ReadBalance(j)
      BY <1>1, <3>1, <3>3 DEF ReadBalance, ProcRecord, Uncredited
    <3>4. CASE SaveBalance(j)
      BY <1>1, <3>1, <3>4 DEF SaveBalance, ProcRecord, Uncredited
    <3> QED BY <1>9, <3>2, <3>3, <3>4
  <2>4. ExecutionsOK'
    BY <1>3, <1>4, <2>1, <2>3 DEF ExecutionsOK, SettlingPhase, Uncredited
  <2>5. BooksOK' BY <2>1, <2>3 DEF BooksOK, PaidFor, Uncredited
  <2> QED BY <2>1, <2>4, <2>5 DEF Implements, AbstractStep
<1>10. CASE SaveLedger(j) \/ GrantAccess(j)
  <2>1. /\ row' = row /\ job' = job
        /\ proc[j].pc \in SettlingPhase /\ proc[j].pc # "idle"
    BY <1>10 DEF SaveLedger, GrantAccess, SettlingPhase
  <2>2. row[d] = [status |-> "confirmed", hash |-> x]
    BY <1>1, <1>2, <2>1 DEF ExecutionsOK, TypeOK, Document
  <2>3. Settled!Paid(x) /\ PaidFor(x) BY <1>2, <2>1, <2>2 DEF Settled!Paid, PaidFor
  <2>4. /\ proc'[j].pc \in {"granting", "done"} /\ proc'[j].tx = x /\ proc'[j].row = d
        /\ \A k \in Jobs \ {j} : proc'[k] = proc[k]
    BY <1>1, <1>10 DEF SaveLedger, GrantAccess, TypeOK, ProcRecord
  <2>5. \/ /\ proc'[j].pc = "granting" /\ sales[x] = 0 /\ grants[x] = 0
           /\ sales' = [sales EXCEPT ![x] = 1] /\ grants' = grants
        \/ /\ proc'[j].pc = "done" /\ sales[x] = 1 /\ grants[x] = 0
           /\ sales' = sales /\ grants' = [grants EXCEPT ![x] = 1]
    BY <1>1, <1>2, <1>10 DEF SaveLedger, GrantAccess, BooksOK, Uncredited, TypeOK, ProcRecord
  <2>6. Settled!Credit(x) \/ Settled!Grant(x)
    BY <2>1, <2>3, <2>5 DEF Settled!Credit, Settled!Grant
  <2>7. AbstractStep BY <1>2, <2>1, <2>6 DEF AbstractStep, Settled!SNext
  <2>8. ExecutionsOK'
    BY <1>3, <1>4, <2>1, <2>4 DEF ExecutionsOK, SettlingPhase
  <2>9. \A y \in Txs : y # x => sales'[y] = sales[y] /\ grants'[y] = grants[y]
    BY <1>1, <1>2, <2>1, <2>5 DEF TypeOK
  <2>10. \A y \in Txs : ~PaidFor(y)' => y # x /\ ~PaidFor(y) BY <2>1, <2>3 DEF PaidFor
  <2>11. proc'[j].pc = "granting" => sales'[x] = 1 /\ grants'[x] = 0
    BY <1>1, <1>2, <2>1, <2>5 DEF TypeOK
  <2>12. BooksOK'
    <3>1. ASSUME NEW k \in Jobs, proc'[k].pc \in Uncredited
          PROVE  sales'[proc'[k].tx] = 0 /\ grants'[proc'[k].tx] = 0
      BY <1>3, <1>4, <2>1, <2>4, <2>9, <3>1 DEF BooksOK, Uncredited
    <3>2. ASSUME NEW k \in Jobs, proc'[k].pc = "granting"
          PROVE  sales'[proc'[k].tx] = 1 /\ grants'[proc'[k].tx] = 0
      BY <1>3, <1>4, <2>1, <2>4, <2>9, <2>11, <3>2 DEF BooksOK
    <3>3. \A y \in Txs : ~PaidFor(y)' => sales'[y] = 0 /\ grants'[y] = 0
      BY <2>9, <2>10 DEF BooksOK
    <3> QED BY <3>1, <3>2, <3>3 DEF BooksOK
  <2> QED BY <2>7, <2>8, <2>12 DEF Implements
<1> QED BY <1>5, <1>6, <1>7, <1>8, <1>9, <1>10 DEF JobStep, Settle

\* A crash leaves the job held; a boot frees it when nobody runs it.
LEMMA FailureImplements ==
  ASSUME OneServer, RInv, Failure
  PROVE  Implements
<1> USE DEF RInv
<1>1. TypeOK /\ Procs = Jobs BY DEF IInv, Procs, OneServer
<1>2. row' = row /\ sales' = sales /\ grants' = grants
  BY DEF Failure, Crash, JobThrows, BootReset
<1>3. \A k \in Jobs : proc[k].pc # "idle" => proc[k].tx \in Txs
  BY <1>1 DEF IInv, ProcsOK
<1>4. CASE BootReset
  <2>1. proc' = proc /\ \A k \in Jobs : proc[k].pc = "idle" BY <1>4 DEF BootReset, OneServer
  <2>2. ExecutionsOK' BY <2>1 DEF ExecutionsOK, SettlingPhase
  <2>3. BooksOK' BY <1>2, <2>1 DEF BooksOK, PaidFor
  <2> QED BY <1>2, <2>2, <2>3 DEF Implements, AbstractStep
<1>5. CASE (\E p \in Procs : Crash(p)) \/ (\E j \in Jobs : JobThrows(j))
  <2>1. PICK j \in Jobs : /\ proc[j].pc # "idle" /\ proc' = [proc EXCEPT ![j] = NoProc]
                          /\ \A z \in Txs : z # proc[j].tx => job'[z] = job[z]
    BY <1>1, <1>5 DEF Crash, JobThrows, FinishJob, TypeOK
  <2>2. proc'[j].pc = "idle" /\ \A k \in Jobs \ {j} : proc'[k] = proc[k]
    BY <1>1, <2>1 DEF NoProc, TypeOK
  <2>3. \A k \in Jobs \ {j} : proc[k].pc # "idle" => proc[k].tx # proc[j].tx
    BY <2>1 DEF ExecutionsOK
  <2>4. ExecutionsOK'
    BY <1>2, <1>3, <2>1, <2>2, <2>3 DEF ExecutionsOK, SettlingPhase
  <2>5. BooksOK' BY <1>2, <2>2 DEF BooksOK, PaidFor, Uncredited
  <2> QED BY <1>2, <2>4, <2>5 DEF Implements, AbstractStep
<1> QED BY <1>4, <1>5 DEF Failure

LEMMA StepImplements == OneServer /\ RInv /\ [Next]_vars => RInv' /\ AbstractStep
<1> SUFFICES ASSUME OneServer, RInv, [Next]_vars PROVE Implements
  BY StepIInv DEF RInv, Implements
<1>1. IInv' /\ TypeOK' BY StepIInv DEF RInv, IInv
<1>2. CASE Network \/ UNCHANGED vars
  BY <1>2, IdleImplements DEF Network, WalletSends, NetworkApplies, vars
<1>3. CASE \E s \in Sessions : Request(s) BY <1>1, <1>3, RequestImplements
<1>4. CASE \E r \in Rows : CancelTransaction(r) \/ ReapPending(r)
  BY <1>1, <1>4, CloseImplements
<1>5. CASE \E j \in Jobs : JobStep(j) BY <1>1, <1>5, JobImplements
<1>6. CASE \E q \in Reconcilers : ReconcilerStep(q) BY <1>6 DEF OneServer
<1>7. CASE Failure BY <1>7, FailureImplements
<1> QED BY <1>2, <1>3, <1>4, <1>5, <1>6, <1>7 DEF Next

LEMMA InitRInv == Init => RInv /\ Settled!SInit
<1> SUFFICES ASSUME Init PROVE RInv /\ Settled!SInit OBVIOUS
<1>1. Settled!SInit BY DEF Init, NoRow, Settled!SInit
<1>2. Jobs \subseteq Procs BY DEF Procs
<1>3. ExecutionsOK BY <1>2 DEF Init, ExecutionsOK, NoProc, SettlingPhase
<1>4. BooksOK BY <1>2 DEF Init, BooksOK, NoProc, Uncredited
<1> QED BY <1>1, <1>3, <1>4, InitIInv DEF RInv

\* On one server process the purchase flow is Settlement: every order is paid by one
\* payment of its own or closed for good, and every payment is credited once and granted
\* once, only for an order confirmed with it, through crashes, errors and restarts.
THEOREM FlowImplementsSettlement == ASSUME OneServer PROVE Spec => ImplementsSettlement
<1>1. RInv /\ [Next]_vars => RInv' BY StepImplements
<1>2. RInv /\ [Next]_vars => [Settled!SNext]_(Settled!svars)
  BY StepImplements DEF AbstractStep, Settled!svars
<1> QED BY <1>1, <1>2, InitRInv, PTL DEF Spec, ImplementsSettlement, Settled!Spec

\* Earnings and access of one payment are booked at most once.
THEOREM BookedOnce == ASSUME OneServer PROVE Spec => []SoldOnce
<1> DEFINE Once == RInv /\ SoldOnce
<1>1. Init => Once BY InitRInv DEF Init, SoldOnce
<1>2. Once /\ [Next]_vars => Once'
  <2> SUFFICES ASSUME RInv, SoldOnce, [Next]_vars PROVE RInv' /\ SoldOnce' OBVIOUS
  <2>1. RInv' /\ AbstractStep BY StepImplements
  <2>2. TypeOK BY DEF RInv, IInv
  <2>3. CASE UNCHANGED <<row, sales, grants>> BY <2>1, <2>3 DEF SoldOnce
  <2>4. CASE Settled!SNext
    <3>1. \/ UNCHANGED <<sales, grants>>
          \/ \E x \in Txs : \/ sales' = [sales EXCEPT ![x] = 1] /\ grants' = grants
                            \/ grants' = [grants EXCEPT ![x] = 1] /\ sales' = sales
                            \/ /\ sales' = [sales EXCEPT ![x] = 1]
                               /\ grants' = [grants EXCEPT ![x] = 1]
      BY <2>4
         DEF Settled!SNext, Settled!Open, Settled!Abandon, Settled!Await,
             Settled!Refuse, Settled!Pay, Settled!Credit, Settled!Grant
    <3> QED BY <2>1, <2>2, <3>1 DEF SoldOnce, TypeOK
  <2> QED BY <2>1, <2>3, <2>4 DEF AbstractStep
<1> QED BY <1>1, <1>2, PTL DEF Spec
=============================================================================
