------------------------------ MODULE Campaign ------------------------------
(***************************************************************************)
(* controllers/stellar/scholarshipController.js over the scholarship escrow  *)
(* contract: donors and the arbiter have transactions built, sign them and   *)
(* submit them; the beneficiary reports a milestone, the arbiter reviews the *)
(* report and releases the milestone's share.                              *)
(*                                                                         *)
(* One milestone, the report on it and its ScholarshipContribution rows.  Of *)
(* the contract (EscrowContract) only what the handlers read is kept: has    *)
(* the milestone been released.                                            *)
(***************************************************************************)
EXTENDS Naturals, FiniteSets, Sequences

CONSTANTS
    Releases, Funds,   \* contribution rows: releases of the milestone, funds and refunds
    Senders,           \* requests that submit a row
    Reports,           \* requests that submit a report
    People,            \* users who may hold the beneficiary's or the arbiter's wallet
    Nobody

VARIABLES
    row,        \* per contribution: status, the order of creation, the report it releases
    ledgerTx,   \* per contribution: its transaction on the network
    milestoneReleased,  \* the contract's flag
    report,     \* the ScholarshipMilestoneReport
    sender,     \* per row and sender: where the submission is
    writer,     \* per report request: where it is and the status it read
    viewer,     \* the request that lists the reports
    poll        \* per row: the status request between its two writes

campaignVars == <<row, ledgerTx, milestoneReleased, report, sender, writer, viewer, poll>>

Rows == Releases \cup Funds
NoReport == [status |-> "none", by |-> Nobody, text |-> Nobody]

Init ==
    /\ row = [k \in Rows |-> [status |-> "none", order |-> 0, text |-> Nobody]]
    /\ ledgerTx = [k \in Rows |-> "absent"]
    /\ milestoneReleased = FALSE
    /\ report = NoReport
    /\ sender = [k \in Rows |-> [s \in Senders |-> "idle"]]
    /\ writer = [b \in Reports |-> [pc |-> "idle", saw |-> "none"]]
    /\ viewer = "idle"
    /\ poll = [k \in Rows |-> FALSE]

Answered == [pc |-> "done", saw |-> "none"]

-----------------------------------------------------------------------------
\* Mutants: what the definitions after them become under a plausible bug.
MutResubmit(b, u) ==
    /\ writer[b].pc = "seen" /\ writer[b].saw = "rejected"
    /\ writer' = [writer EXCEPT ![b] = Answered]
    /\ report' = [status |-> "submitted", by |-> u, text |-> b]
    /\ UNCHANGED <<row, ledgerTx, milestoneReleased, sender, viewer, poll>>
-----------------------------------------------------------------------------
\* submitScholarshipMilestoneReport: the milestone is looked up on the chain, ...
StartReport(b) ==
    /\ writer[b].pc = "idle" /\ ~milestoneReleased
    /\ writer' = [writer EXCEPT ![b].pc = "open"]
    /\ UNCHANGED <<row, ledgerTx, milestoneReleased, report, sender, viewer, poll>>

\* ... then the report; one that awaits review or was approved is not replaced.
ReadReport(b) ==
    /\ writer[b].pc = "open"
    /\ writer' = [writer EXCEPT ![b] =
            IF report.status \in {"none", "rejected"}
            THEN [pc |-> "seen", saw |-> report.status] ELSE Answered]
    /\ UNCHANGED <<row, ledgerTx, milestoneReleased, report, sender, viewer, poll>>

\* The first report is created; the unique index refuses a second.
CreateReport(b, u) ==
    /\ writer[b].pc = "seen" /\ writer[b].saw = "none"
    /\ writer' = [writer EXCEPT ![b] = Answered]
    /\ report' = IF report.status = "none"
                 THEN [status |-> "submitted", by |-> u, text |-> b] ELSE report
    /\ UNCHANGED <<row, ledgerTx, milestoneReleased, sender, viewer, poll>>

\* A rejected report is replaced, if it is (still, or again) rejected.
Resubmit(b, u) ==
    /\ writer[b].pc = "seen" /\ writer[b].saw = "rejected"
    /\ writer' = [writer EXCEPT ![b] = Answered]
    /\ report' = IF report.status = "rejected"
                 THEN [status |-> "submitted", by |-> u, text |-> b] ELSE report
    /\ UNCHANGED <<row, ledgerTx, milestoneReleased, sender, viewer, poll>>

\* reviewScholarshipMilestoneReport: one conditional update.
Review(u, decision) ==
    /\ report.status = "submitted" /\ report.by # u
    /\ report' = [report EXCEPT !.status = decision]
    /\ UNCHANGED <<row, ledgerTx, milestoneReleased, sender, writer, viewer, poll>>

-----------------------------------------------------------------------------
\* initializeScholarshipMilestoneApproval: the chain and the report are read, the
\* transaction is built over RPC, and only then the row is created.
BuildRelease(k) ==
    /\ k \in Releases /\ row[k].status = "none"
    /\ ~milestoneReleased /\ report.status = "approved"
    /\ row' = [row EXCEPT ![k] = [@ EXCEPT !.status = "building", !.text = report.text]]
    /\ UNCHANGED <<ledgerTx, milestoneReleased, report, sender, writer, viewer, poll>>

Ordinal == 1 + Cardinality({k \in Rows : row[k].order > 0})

\* The row of a release, or of a contribution or refund
\* (initializeScholarshipContribution, initializeScholarshipRefund).
CreateRow(k) ==
    /\ row[k].status = IF k \in Releases THEN "building" ELSE "none"
    /\ row' = [row EXCEPT ![k] = [@ EXCEPT !.status = "pending", !.order = Ordinal]]
    /\ UNCHANGED <<ledgerTx, milestoneReleased, report, sender, writer, viewer, poll>>

\* The TTL index drops a row that was not submitted in time.
ExpireRow(k) ==
    /\ row[k].status = "pending" /\ \A s \in Senders : sender[k][s] = "idle"
    /\ row' = [row EXCEPT ![k].status = "expired"]
    /\ UNCHANGED <<ledgerTx, milestoneReleased, report, sender, writer, viewer, poll>>

-----------------------------------------------------------------------------
\* submitScholarshipContribution: the row is found pending.  The filter names
\* submitted rows too, but their expiresAt is gone and the other half fails.
LoadRow(k, s) ==
    /\ row[k].status = "pending" /\ sender[k][s] = "idle"
    /\ sender' = [sender EXCEPT ![k][s] = "loaded"]
    /\ UNCHANGED <<row, ledgerTx, milestoneReleased, report, writer, viewer, poll>>

\* The row is saved submitted before the transaction is sent.
SaveSubmitted(k, s) ==
    /\ sender[k][s] = "loaded"
    /\ sender' = [sender EXCEPT ![k][s] = "saved"]
    /\ row' = [row EXCEPT ![k].status = "submitted"]
    /\ UNCHANGED <<ledgerTx, milestoneReleased, report, writer, viewer, poll>>

Send(k, s) ==
    /\ sender[k][s] = "saved"
    /\ sender' = [sender EXCEPT ![k][s] = "done"]
    /\ ledgerTx' = [ledgerTx EXCEPT ![k] = IF @ = "absent" THEN "sent" ELSE @]
    /\ UNCHANGED <<row, milestoneReleased, report, writer, viewer, poll>>

\* The RPC answers ERROR: the sequence number is taken, by the row's own first
\* copy for one.
SendRejected(k, s) ==
    /\ sender[k][s] = "saved"
    /\ sender' = [sender EXCEPT ![k][s] = "done"]
    /\ row' = [row EXCEPT ![k].status = "failed"]
    /\ UNCHANGED <<ledgerTx, milestoneReleased, report, writer, viewer, poll>>

\* The call throws, or the process dies: nothing is sent, the row stays submitted.
SendLost(k, s) ==
    /\ sender[k][s] \in {"loaded", "saved"}
    /\ sender' = [sender EXCEPT ![k][s] = "done"]
    /\ UNCHANGED <<row, ledgerTx, milestoneReleased, report, writer, viewer, poll>>

\* The network executes the transaction; approve_milestone succeeds once.
Execute(k) ==
    /\ ledgerTx[k] = "sent"
    /\ k \in Releases => ~milestoneReleased
    /\ ledgerTx' = [ledgerTx EXCEPT ![k] = "success"]
    /\ milestoneReleased' = (milestoneReleased \/ k \in Releases)
    /\ UNCHANGED <<row, report, sender, writer, viewer, poll>>

ExecuteFails(k) ==
    /\ ledgerTx[k] = "sent"
    /\ ledgerTx' = [ledgerTx EXCEPT ![k] = "failed"]
    /\ UNCHANGED <<row, milestoneReleased, report, sender, writer, viewer, poll>>

-----------------------------------------------------------------------------
\* getScholarshipContribution: a submitted row follows its transaction; a
\* confirmed release goes on to its report in a second write.
PollRow(k) ==
    /\ row[k].status = "submitted" /\ ledgerTx[k] \in {"success", "failed"}
    /\ row' = [row EXCEPT ![k].status = IF ledgerTx[k] = "success" THEN "confirmed" ELSE "failed"]
    /\ poll' = [poll EXCEPT ![k] = ledgerTx[k] = "success" /\ k \in Releases]
    /\ UNCHANGED <<ledgerTx, milestoneReleased, report, sender, writer, viewer>>

PollReport(k) ==
    /\ poll[k]
    /\ poll' = [poll EXCEPT ![k] = FALSE]
    /\ report' = IF report.status = "approved"
                 THEN [report EXCEPT !.status = "released"] ELSE report
    /\ UNCHANGED <<row, ledgerTx, milestoneReleased, sender, writer, viewer>>

\* The process dies between the two writes.
PollCrash(k) ==
    /\ poll[k]
    /\ poll' = [poll EXCEPT ![k] = FALSE]
    /\ UNCHANGED <<row, ledgerTx, milestoneReleased, report, sender, writer, viewer>>

\* getScholarshipMilestoneReports: the contract's flag repairs the report that the
\* second write missed.  The newest release row is taken for the one that did it.
ViewLoad ==
    /\ viewer = "idle" /\ milestoneReleased /\ report.status \notin {"none", "released"}
    /\ viewer' = "loaded"
    /\ UNCHANGED <<row, ledgerTx, milestoneReleased, report, sender, writer, poll>>

Newest(k) == /\ k \in Releases /\ row[k].order > 0 /\ row[k].status # "expired"
             /\ \A j \in Releases : row[j].status # "expired" => row[j].order <= row[k].order

ViewConfirm ==
    /\ viewer = "loaded"
    /\ viewer' = "confirmed"
    /\ row' = [k \in Rows |-> IF Newest(k) THEN [row[k] EXCEPT !.status = "confirmed"]
                                           ELSE row[k]]
    /\ UNCHANGED <<ledgerTx, milestoneReleased, report, sender, writer, poll>>

ViewSave ==
    /\ viewer = "confirmed"
    /\ viewer' = "idle"
    /\ report' = [report EXCEPT !.status = "released"]
    /\ UNCHANGED <<row, ledgerTx, milestoneReleased, sender, writer, poll>>

Next ==
    \/ \E b \in Reports : \/ StartReport(b) \/ ReadReport(b)
                          \/ \E u \in People : CreateReport(b, u) \/ Resubmit(b, u)
    \/ \E u \in People, d \in {"approved", "rejected"} : Review(u, d)
    \/ \E k \in Rows : \/ BuildRelease(k) \/ CreateRow(k) \/ ExpireRow(k)
                       \/ \E s \in Senders : \/ LoadRow(k, s) \/ SaveSubmitted(k, s)
                                             \/ Send(k, s) \/ SendRejected(k, s) \/ SendLost(k, s)
                       \/ Execute(k) \/ ExecuteFails(k)
                       \/ PollRow(k) \/ PollReport(k) \/ PollCrash(k)
    \/ ViewLoad \/ ViewConfirm \/ ViewSave

Spec == Init /\ [][Next]_campaignVars

-----------------------------------------------------------------------------
\* A transaction that releases the milestone pays for the very text the arbiter
\* approved: no resubmission, however it interleaves with the review, replaces
\* it, and a report is shown released only when the contract has released.
PaidForApproved ==
    /\ \A k \in Releases : row[k].text # Nobody =>
           report.text = row[k].text /\ report.status \in {"approved", "released"}
    /\ report.status = "released" => milestoneReleased
    /\ milestoneReleased => report.status \in {"approved", "released"}

\* A contribution or refund is shown confirmed only when its transaction succeeded.
FundsConfirmed == \A k \in Funds : row[k].status = "confirmed" => ledgerTx[k] = "success"

CampaignSound == PaidForApproved /\ FundsConfirmed

\* Not kept, see README: the same of releases.
ReleasesConfirmed == \A k \in Releases : row[k].status = "confirmed" => ledgerTx[k] = "success"

\* Not kept, see README: a row that failed did not succeed on the network.
FailedIsFailed == \A k \in Rows : row[k].status = "failed" => ledgerTx[k] # "success"
=============================================================================
