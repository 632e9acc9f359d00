------------------------------ MODULE Pledges ------------------------------
(***************************************************************************)
(* One recurring donation pledge: workers/pledgeScheduler.js, which creates *)
(* a cycle for every due date and lapses the unpaid ones,                   *)
(* controllers/stellar/pledgeController.js and submitDonation of            *)
(* donationController.js, by which the donor pays a cycle, and              *)
(* services/pledgeService.js, which books the payment.  Every web process   *)
(* runs a scheduler.                                                        *)
(*                                                                         *)
(* A unit of time is the 30 s of the scheduler's lock; cadence and payment  *)
(* window are a few units.                                                  *)
(***************************************************************************)
EXTENDS Naturals, FiniteSets

CONSTANTS
    Schedulers,        \* scheduler loops, one in each web process
    Calls,             \* overlapping updatePledgeStatus requests
    Cadence, Window,   \* distance of the due dates, PLEDGE_PAYMENT_WINDOW_MS
    MaxCycles, MaxTime, MaxStops,  \* bounds: due dates, the clock, lost processes
    Paying,            \* bound: the cycles the donor sets out to pay
    Ingest             \* whether the ingestion worker runs

Sized ==
    /\ {Cadence, Window, MaxCycles} \subseteq Nat \ {0}
    /\ {MaxTime, MaxStops} \subseteq Nat /\ Ingest \in BOOLEAN

ASSUME ConstantAssumption == Sized

VARIABLES
    now,
    pledge,    \* the Pledge document; next counts the due dates
    cycle,     \* status of the PledgeCycle of each due date
    donation,  \* the Transaction each cycle names, and whether it was paid
    told,      \* cycles the donor has been notified of
    scheduler, \* where each scheduler is
    submit,    \* where submitDonation is for each donation
    job,       \* the verifyPaymentOnChain job of each donation
    marker,    \* where markPledgeTransactionPaid is for each donation
    call,      \* the status each updatePledgeStatus is about to save
    stops

pledgeVars == <<now, pledge, cycle, donation, told, scheduler, submit, job, marker, call, stops>>

Cycles == 1 .. MaxCycles
PledgeLock == 1
DueAt(k) == k * Cadence
WindowEndsAt(k) == DueAt(k) + Window
Open(k) == cycle[k] \in {"due", "notified"}

NoDonation == [status |-> "none", landed |-> FALSE]
Resting == [pc |-> "idle", t |-> 0, lapsed |-> {}, k |-> 0]
NotMarking == [pc |-> "none", streak |-> 0, total |-> 0]

TickTo(w, pc) == scheduler' = [scheduler EXCEPT ![w].pc = pc]
TickAt(w, pc) == scheduler[w].pc = pc
SetCycle(k, status) == cycle' = [cycle EXCEPT ![k] = status]
SetDonation(k, status) == donation' = [donation EXCEPT ![k].status = status]

-----------------------------------------------------------------------------
(* tickPledgeScheduler *)

\* Mutant: only cycles that were never notified lapse.
MutStartTick(w) ==
    /\ TickAt(w, "idle")
    /\ LET over == {k \in Cycles : cycle[k] = "due" /\ WindowEndsAt(k) <= now} IN
       scheduler' = [scheduler EXCEPT ![w] = [pc |-> IF over = {} THEN "claim" ELSE "lapse",
                                              t |-> now, lapsed |-> over, k |-> 0]]
    /\ UNCHANGED <<now, pledge, cycle, donation, told, submit, job, marker, call, stops>>

\* PledgeCycle.find: the cycles whose window is over.
StartTick(w) ==
    /\ TickAt(w, "idle")
    /\ LET over == {k \in Cycles : Open(k) /\ WindowEndsAt(k) <= now} IN
       scheduler' = [scheduler EXCEPT ![w] = [pc |-> IF over = {} THEN "claim" ELSE "lapse",
                                              t |-> now, lapsed |-> over, k |-> 0]]
    /\ UNCHANGED <<now, pledge, cycle, donation, told, submit, job, marker, call, stops>>

\* updateMany by id: whatever the cycles are by now.
LapseCycles(w) ==
    /\ TickAt(w, "lapse") /\ TickTo(w, "reset")
    /\ cycle' = [k \in Cycles |-> IF k \in scheduler[w].lapsed THEN "lapsed" ELSE cycle[k]]
    /\ UNCHANGED <<now, pledge, donation, told, submit, job, marker, call, stops>>

ResetStreak(w) ==
    /\ TickAt(w, "reset") /\ TickTo(w, "claim")
    /\ pledge' = [pledge EXCEPT !.streak = 0]
    /\ UNCHANGED <<now, cycle, donation, told, submit, job, marker, call, stops>>

\* The filter of findOneAndUpdate, with the time the tick began.
Claimable(w) ==
    /\ pledge.status = "active" /\ pledge.next <= MaxCycles
    /\ DueAt(pledge.next) <= scheduler[w].t /\ pledge.lock <= scheduler[w].t

ClaimPledge(w) ==
    /\ TickAt(w, "claim") /\ Claimable(w)
    /\ pledge' = [pledge EXCEPT !.lock = scheduler[w].t + PledgeLock]
    /\ scheduler' = [scheduler EXCEPT ![w].pc = "upsert", ![w].k = pledge.next]
    /\ UNCHANGED <<now, cycle, donation, told, submit, job, marker, call, stops>>

EndTick(w) ==
    /\ TickAt(w, "claim") /\ ~Claimable(w)
    /\ scheduler' = [scheduler EXCEPT ![w] = Resting]
    /\ UNCHANGED <<now, pledge, cycle, donation, told, submit, job, marker, call, stops>>

UpsertCycle(w) ==
    LET k == scheduler[w].k IN
    /\ TickAt(w, "upsert")
    /\ IF cycle[k] = "none" THEN SetCycle(k, "due") ELSE UNCHANGED cycle
    /\ TickTo(w, IF cycle[k] \in {"none", "due"} THEN "notify" ELSE "advance")
    /\ UNCHANGED <<now, pledge, donation, told, submit, job, marker, call, stops>>

Notify(w) ==
    /\ TickAt(w, "notify") /\ TickTo(w, "save")
    /\ told' = told \cup {scheduler[w].k}
    /\ UNCHANGED <<now, pledge, cycle, donation, submit, job, marker, call, stops>>

\* cycle.save(): over whatever the cycle is by now.
SaveNotified(w) ==
    /\ TickAt(w, "save") /\ TickTo(w, "advance")
    /\ SetCycle(scheduler[w].k, "notified")
    /\ UNCHANGED <<now, pledge, donation, told, submit, job, marker, call, stops>>

Advance(w) ==
    /\ TickAt(w, "advance") /\ TickTo(w, "claim")
    /\ pledge' = IF pledge.next = scheduler[w].k
                 THEN [pledge EXCEPT !.next = @ + 1, !.lock = 0] ELSE pledge
    /\ UNCHANGED <<now, cycle, donation, told, submit, job, marker, call, stops>>

\* Mutant: the pledge moves on to its next due date all the same.
MutFailTick(w) ==
    /\ scheduler[w].pc \in {"upsert", "notify", "save", "advance"}
    /\ pledge' = [pledge EXCEPT !.lock = 0, !.next = scheduler[w].k + 1]
    /\ scheduler' = [scheduler EXCEPT ![w] = Resting]
    /\ UNCHANGED <<now, cycle, donation, told, submit, job, marker, call, stops>>

\* The database or the notification fails: unlock, whoever holds the lock, and rethrow.
FailTick(w) ==
    /\ scheduler[w].pc \in {"upsert", "notify", "save", "advance"}
    /\ pledge' = [pledge EXCEPT !.lock = 0]
    /\ scheduler' = [scheduler EXCEPT ![w] = Resting]
    /\ UNCHANGED <<now, cycle, donation, told, submit, job, marker, call, stops>>

SchedulerStep(w) ==
    \/ StartTick(w) \/ LapseCycles(w) \/ ResetStreak(w) \/ ClaimPledge(w) \/ EndTick(w)
    \/ UpsertCycle(w) \/ Notify(w) \/ SaveNotified(w) \/ Advance(w) \/ FailTick(w)

-----------------------------------------------------------------------------
(* updatePledgeStatus: the pledge is loaded and checked, then saved *)

UpdateStatus(c, status) ==
    /\ call[c] = "idle" /\ pledge.status # "cancelled" /\ status # pledge.status
    /\ call' = [call EXCEPT ![c] = status]
    /\ UNCHANGED <<now, pledge, cycle, donation, told, scheduler, submit, job, marker, stops>>

SaveStatus(c) ==
    /\ call[c] # "idle"
    /\ pledge' = [pledge EXCEPT !.status = call[c]]
    /\ call' = [call EXCEPT ![c] = "idle"]
    /\ UNCHANGED <<now, cycle, donation, told, scheduler, submit, job, marker, stops>>

-----------------------------------------------------------------------------
(* initializePledgeCycle (one session) and createDonationIntent *)

\* The payment window has ended.
RefuseLate(k) ==
    /\ Open(k) /\ pledge.status # "cancelled" /\ WindowEndsAt(k) <= now
    /\ SetCycle(k, "lapsed")
    /\ pledge' = [pledge EXCEPT !.streak = 0]
    /\ UNCHANGED <<now, donation, told, scheduler, submit, job, marker, call, stops>>

InitializeCycle(k) ==
    /\ Open(k) /\ pledge.status # "cancelled" /\ WindowEndsAt(k) > now
    /\ donation[k].status = "none" /\ k \in Paying
    /\ SetDonation(k, "pending")
    /\ UNCHANGED <<now, pledge, cycle, told, scheduler, submit, job, marker, call, stops>>

-----------------------------------------------------------------------------
(* submitPledgeCycle and submitDonation.  The session writes the donation    *)
(* before it sends, so that one request at a time gets past it.             *)

SubmitPledgeCycle(k) ==
    /\ submit[k] = "idle" /\ donation[k].status = "pending"
    /\ submit' = [submit EXCEPT ![k] = "send"]
    /\ UNCHANGED <<now, pledge, cycle, donation, told, scheduler, job, marker, call, stops>>

\* prepareSponsoredSubmission refuses: the donation stays pending, to be sent unsponsored.
SponsorRefuses(k) ==
    /\ submit[k] = "send"
    /\ submit' = [submit EXCEPT ![k] = "idle"]
    /\ UNCHANGED <<now, pledge, cycle, donation, told, scheduler, job, marker, call, stops>>

\* validateSignedPaymentXdr refuses the signed transaction.
SubmitInvalid(k) ==
    /\ submit[k] = "send"
    /\ submit' = [submit EXCEPT ![k] = "idle"] /\ SetDonation(k, "failed")
    /\ UNCHANGED <<now, pledge, cycle, told, scheduler, job, marker, call, stops>>

\* The network takes the payment; sending it again is answered the same.
SendPayment(k) ==
    /\ submit[k] = "send"
    /\ submit' = [submit EXCEPT ![k] = "sent"]
    /\ donation' = [donation EXCEPT ![k].landed = TRUE]
    /\ UNCHANGED <<now, pledge, cycle, told, scheduler, job, marker, call, stops>>

\* submitTransaction throws, before the payment landed or after.
SubmitFailed(k) ==
    /\ submit[k] \in {"send", "sent"}
    /\ submit' = [submit EXCEPT ![k] = "idle"] /\ SetDonation(k, "failed")
    /\ UNCHANGED <<now, pledge, cycle, told, scheduler, job, marker, call, stops>>

\* Mutant: the cycle is marked already.
MutUnverified(k) ==
    /\ submit[k] = "sent"
    /\ submit' = [submit EXCEPT ![k] = "idle"] /\ SetDonation(k, "retrying")
    /\ job' = [job EXCEPT ![k] = "queued"]
    /\ marker' = [marker EXCEPT ![k].pc = "find"]
    /\ UNCHANGED <<now, pledge, cycle, told, scheduler, call, stops>>

Unverified(k) ==
    /\ submit[k] = "sent"
    /\ submit' = [submit EXCEPT ![k] = "idle"] /\ SetDonation(k, "retrying")
    /\ job' = [job EXCEPT ![k] = "queued"]
    /\ UNCHANGED <<now, pledge, cycle, told, scheduler, marker, call, stops>>

\* The commit; markPledgeTransactionPaid is not awaited.
ConfirmDonation(k) ==
    /\ submit[k] = "sent"
    /\ submit' = [submit EXCEPT ![k] = "idle"] /\ SetDonation(k, "confirmed")
    /\ marker' = [marker EXCEPT ![k].pc = "find"]
    /\ UNCHANGED <<now, pledge, cycle, told, scheduler, job, call, stops>>

\* The session is aborted, or its process is lost: the donation stays pending.
AbortSubmit(k) ==
    /\ submit[k] # "idle" /\ stops < MaxStops /\ stops' = stops + 1
    /\ submit' = [submit EXCEPT ![k] = "idle"]
    /\ UNCHANGED <<now, pledge, cycle, donation, told, scheduler, job, marker, call>>

\* The TTL monitor removes the pending donation.
Reap(k) ==
    /\ donation[k].status = "pending" /\ submit[k] = "idle"
    /\ SetDonation(k, "reaped")
    /\ UNCHANGED <<now, pledge, cycle, told, scheduler, submit, job, marker, call, stops>>

-----------------------------------------------------------------------------
(* verifyPaymentOnChain and promoteTransaction *)

LoadDonation(k) ==
    /\ job[k] = "queued"
    /\ job' = [job EXCEPT ![k] = IF donation[k].status = "retrying" THEN "loaded" ELSE "none"]
    /\ UNCHANGED <<now, pledge, cycle, donation, told, scheduler, submit, marker, call, stops>>

JobConfirms(k) ==
    /\ job[k] = "loaded" /\ donation[k].landed
    /\ job' = [job EXCEPT ![k] = "none"] /\ SetDonation(k, "confirmed")
    /\ marker' = [marker EXCEPT ![k].pc = "find"]
    /\ UNCHANGED <<now, pledge, cycle, told, scheduler, submit, call, stops>>

\* Verification was unavailable to the last attempt.
JobGivesUp(k) ==
    /\ job[k] = "loaded"
    /\ job' = [job EXCEPT ![k] = "none"] /\ SetDonation(k, "failed")
    /\ UNCHANGED <<now, pledge, cycle, told, scheduler, submit, marker, call, stops>>

\* The ingestion worker meets the payment and knows its hash.
Promote(k) ==
    /\ Ingest /\ donation[k].status = "retrying"
    /\ SetDonation(k, "confirmed")
    /\ UNCHANGED <<now, pledge, cycle, told, scheduler, submit, job, marker, call, stops>>

-----------------------------------------------------------------------------
(* markPledgeTransactionPaid *)

MarkFind(k) ==
    /\ marker[k].pc = "find"
    /\ marker' = [marker EXCEPT ![k].pc = IF cycle[k] = "paid" THEN "none" ELSE "cycle"]
    /\ UNCHANGED <<now, pledge, cycle, donation, told, scheduler, submit, job, call, stops>>

MarkCycle(k) ==
    /\ marker[k].pc = "cycle" /\ SetCycle(k, "paid")
    /\ marker' = [marker EXCEPT ![k].pc = "load"]
    /\ UNCHANGED <<now, pledge, donation, told, scheduler, submit, job, call, stops>>

LoadStatistics(k) ==
    /\ marker[k].pc = "load"
    /\ marker' = [marker EXCEPT ![k] = [pc |-> "save", streak |-> pledge.streak,
                                        total |-> pledge.total]]
    /\ UNCHANGED <<now, pledge, cycle, donation, told, scheduler, submit, job, call, stops>>

SaveStatistics(k) ==
    /\ marker[k].pc = "save"
    /\ pledge' = [pledge EXCEPT !.streak = marker[k].streak + 1, !.total = marker[k].total + 1]
    /\ marker' = [marker EXCEPT ![k] = NotMarking]
    /\ UNCHANGED <<now, cycle, donation, told, scheduler, submit, job, call, stops>>

-----------------------------------------------------------------------------

\* The process of a scheduler is lost, and another takes its place.
StopWorker(w) ==
    /\ ~TickAt(w, "idle") /\ stops < MaxStops /\ stops' = stops + 1
    /\ scheduler' = [scheduler EXCEPT ![w] = Resting]
    /\ UNCHANGED <<now, pledge, cycle, donation, told, submit, job, marker, call>>

\* ... or the process that books a payment; a job that runs again finds it confirmed.
StopMarking(k) ==
    /\ marker[k].pc # "none" /\ stops < MaxStops /\ stops' = stops + 1
    /\ marker' = [marker EXCEPT ![k] = NotMarking]
    /\ UNCHANGED <<now, pledge, cycle, donation, told, scheduler, submit, job, call>>

PassTime ==
    /\ now < MaxTime /\ now' = now + 1
    /\ UNCHANGED <<pledge, cycle, donation, told, scheduler, submit, job, marker, call, stops>>

PledgeInit ==
    /\ now = 0
    /\ pledge = [status |-> "active", next |-> 1, lock |-> 0, streak |-> 0, total |-> 0]
    /\ cycle = [k \in Cycles |-> "none"]
    /\ donation = [k \in Cycles |-> NoDonation]
    /\ told = {}
    /\ scheduler = [w \in Schedulers |-> Resting]
    /\ submit = [k \in Cycles |-> "idle"]
    /\ job = [k \in Cycles |-> "none"]
    /\ marker = [k \in Cycles |-> NotMarking]
    /\ call = [c \in Calls |-> "idle"]
    /\ stops = 0

PaymentStep(k) ==
    \/ RefuseLate(k) \/ InitializeCycle(k) \/ Reap(k)
    \/ SubmitPledgeCycle(k) \/ SponsorRefuses(k) \/ SubmitInvalid(k)
    \/ SendPayment(k) \/ SubmitFailed(k)
    \/ Unverified(k) \/ ConfirmDonation(k) \/ AbortSubmit(k)
    \/ LoadDonation(k) \/ JobConfirms(k) \/ JobGivesUp(k) \/ Promote(k)
    \/ MarkFind(k) \/ MarkCycle(k) \/ LoadStatistics(k) \/ SaveStatistics(k)
    \/ StopMarking(k)

PledgeNext ==
    \/ \E w \in Schedulers : SchedulerStep(w) \/ StopWorker(w)
    \/ \E c \in Calls : SaveStatus(c)
    \/ \E c \in Calls, s \in {"active", "paused", "cancelled"} : UpdateStatus(c, s)
    \/ \E k \in Cycles : PaymentStep(k)
    \/ PassTime

PledgeSpec == PledgeInit /\ [][PledgeNext]_pledgeVars

\* The clock goes on, and so do the loops.
FairPledgeSpec == PledgeSpec /\ WF_pledgeVars(PassTime) /\ \A w \in Schedulers : WF_pledgeVars(SchedulerStep(w))

-----------------------------------------------------------------------------

CycleStatus == {"none", "due", "notified", "paid", "lapsed"}
PledgeRecord == [status : {"active", "paused", "cancelled"}, next : 1 .. MaxCycles + 1,
                 lock : 0 .. MaxTime + PledgeLock, streak : Nat, total : Nat]
DonationRecord == [status : {"none", "pending", "retrying", "confirmed", "failed", "reaped"},
                   landed : BOOLEAN]
OnCycle == {"upsert", "notify", "save", "advance"}
TickRecord ==
    {r \in [pc : {"idle", "lapse", "reset", "claim"} \cup OnCycle, t : 0 .. MaxTime,
            lapsed : SUBSET Cycles, k : 0 .. MaxCycles] : r.pc \in OnCycle => r.k \in Cycles}
MarkerRecord == [pc : {"none", "find", "cycle", "load", "save"}, streak : Nat, total : Nat]

\* Type invariant of the documents and of the processes.
PledgeTypes ==
    /\ now \in 0 .. MaxTime /\ stops \in 0 .. MaxStops /\ told \subseteq Cycles
    /\ pledge \in PledgeRecord
    /\ cycle \in [Cycles -> CycleStatus]
    /\ donation \in [Cycles -> DonationRecord]
    /\ scheduler \in [Schedulers -> TickRecord]
    /\ submit \in [Cycles -> {"idle", "send", "sent"}]
    /\ job \in [Cycles -> {"none", "queued", "loaded"}]
    /\ marker \in [Cycles -> MarkerRecord]
    /\ call \in [Calls -> {"idle", "active", "paused", "cancelled"}]

\* A cycle that reads paid has a donation that was confirmed and a payment on the ledger,
\* whatever became of it, its window and its pledge in between.
PaidIsConfirmed ==
    \A k \in Cycles : cycle[k] = "paid" => donation[k].status = "confirmed" /\ donation[k].landed

\* Schedulers that stop, fail and take over each other's locks skip no due date: once
\* nextDueAt is past it, its cycle exists, and the donor was told unless it was closed before.
NoneSkipped ==
    \A k \in Cycles : k < pledge.next => /\ cycle[k] # "none"
                                         /\ k \in told \/ cycle[k] \in {"paid", "lapsed"}

\* The cycles tell the truth, and all of it.
CyclesTrue == PaidIsConfirmed /\ NoneSkipped

\* Every cycle that was opened is closed in the end, though ticks fail again and again:
\* paid, or lapsed by some tick after its window (which has to end before the clock stops).
EventuallyClosed == \A k \in {c \in Cycles : WindowEndsAt(c) <= MaxTime} :
    Open(k) ~> cycle[k] \in {"paid", "lapsed"}

\* A cycle that was marked paid stays paid (docs/payments.md).  Not kept, see README.
PaidIsFinal == [][\A k \in Cycles : cycle[k] = "paid" => cycle'[k] = "paid"]_pledgeVars

\* On confirmation the cycle is marked paid (docs/payments.md): once neither the request nor
\* the job has anything left to do, a confirmed donation has its cycle paid.
\* Not kept, see README.
ConfirmedIsMarked ==
    \A k \in Cycles : donation[k].status = "confirmed" /\ job[k] = "none"
                      /\ marker[k].pc = "none" => cycle[k] = "paid"

\* Cancelled pledges cannot be resumed (updatePledgeStatus).  Not kept, see README.
CancelledIsFinal == [][pledge.status = "cancelled" => pledge'.status = "cancelled"]_pledgeVars
=============================================================================
