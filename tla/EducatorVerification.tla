------------------------ MODULE EducatorVerification ------------------------
(***************************************************************************)
(* The applications of one educator                                        *)
(* (src/controllers/educatorVerificationController.js), their reviews      *)
(* (src/controllers/admin/educatorVerificationAdminController.js) and the  *)
(* transitions and index of src/models/EducatorVerification.js.  Every     *)
(* handler reads an application, checks the transition on what it read and *)
(* saves without a version; only the review's two writes are one           *)
(* transaction.  Documents, notes and the audit entries are left out.      *)
(***************************************************************************)
EXTENDS Integers, FiniteSets

CONSTANTS
    Applications,   \* rows of the applicant, created or not
    Calls,          \* requests in progress, of the applicant and reviewers
    None

VARIABLES
    status,         \* each row's status, or None while it is not created
    verified,       \* the applicant's users.verifiedEducator
    call,           \* each slot: what it does next, on which row
    approvals       \* history: rows a reviewer approved

vars == <<status, verified, call, approvals>>

\* LEGAL_TRANSITIONS
Legal == [draft |-> {"pending"}, pending |-> {"approved", "rejected"},
          approved |-> {}, rejected |-> {"pending"}]
CanTransitionTo(from, to) == to \in Legal[from]

\* Mutant: the index covers drafts only.
MutFree(a, to) == to # "draft" \/ \A b \in Applications \ {a} : status[b] # to

\* The partial unique index on applicant and status.
Free(a, to) == to \notin {"draft", "pending"} \/ \A b \in Applications \ {a} : status[b] # to

Idle == [next |-> None, on |-> None]
Goes(c, next, a) == call' = [call EXCEPT ![c] = [next |-> next, on |-> a]]
Ends(c) == call' = [call EXCEPT ![c] = Idle]

\* submitApplication finds a draft or a rejected application, or sees that
\* there is none, and none pending or approved.
FindApplication(c) ==
    /\ call[c] = Idle
    /\ \/ \E a \in Applications :
             /\ status[a] \in {"draft", "rejected"}
             /\ CanTransitionTo(status[a], "pending")
             /\ Goes(c, "resubmit", a)
       \/ \E a \in Applications :
             /\ \A b \in Applications : status[b] = None
             /\ Goes(c, "create", a)
    /\ UNCHANGED <<status, verified, approvals>>

\* The save of the found row, refused by the index when it is not free.
Resubmit(c) ==
    /\ call[c].next = "resubmit"
    /\ status' = IF Free(call[c].on, "pending") THEN [status EXCEPT ![call[c].on] = "pending"]
                 ELSE status
    /\ Ends(c)
    /\ UNCHANGED <<verified, approvals>>

\* The insert of a new one.
Create(c) ==
    /\ call[c].next = "create"
    /\ \E a \in Applications :
          /\ status[a] = None
          /\ status' = IF Free(a, "pending") THEN [status EXCEPT ![a] = "pending"] ELSE status
    /\ Ends(c)
    /\ UNCHANGED <<verified, approvals>>

\* performReview checks the transition on the row it loads.
LoadForReview(c) ==
    \E a \in Applications, to \in {"approved", "rejected"} :
        /\ call[c] = Idle
        /\ status[a] # None
        /\ CanTransitionTo(status[a], to)
        /\ Goes(c, to, a)
        /\ UNCHANGED <<status, verified, approvals>>

\* Mutant: the user is updated outside the transaction, and that may fail.
MutReview(c) ==
    /\ call[c].next \in {"approved", "rejected"}
    /\ status' = [status EXCEPT ![call[c].on] = call[c].next]
    /\ verified' \in {verified, verified \/ call[c].next = "approved"}
    /\ approvals' = IF call[c].next = "approved" THEN approvals \cup {call[c].on} ELSE approvals
    /\ Ends(c)

\* The transaction writes the status and, for an approval, the user.
Review(c) ==
    /\ call[c].next \in {"approved", "rejected"}
    /\ status' = [status EXCEPT ![call[c].on] = call[c].next]
    /\ verified' = (verified \/ call[c].next = "approved")
    /\ approvals' = IF call[c].next = "approved" THEN approvals \cup {call[c].on} ELSE approvals
    /\ Ends(c)

\* The request fails, or its transaction aborts on a conflict.
Fail(c) == call[c] # Idle /\ Ends(c) /\ UNCHANGED <<status, verified, approvals>>

Init ==
    /\ status = [a \in Applications |-> None]
    /\ verified = FALSE
    /\ call = [c \in Calls |-> Idle]
    /\ approvals = {}

Next == \E c \in Calls :
            \/ FindApplication(c) \/ Resubmit(c) \/ Create(c)
            \/ LoadForReview(c) \/ Review(c) \/ Fail(c)

\* The applicant never waits for two reviews at once, an approved
\* application always comes with the mark on the user, and the mark only
\* with an approval: educatorVerificationController.js:146-157 and the
\* transaction of the review.
EducatorSound ==
    /\ Cardinality({a \in Applications : status[a] = "pending"}) <= 1
    /\ (\E a \in Applications : status[a] = "approved") => verified
    /\ verified => approvals # {}

\* Not kept, see README:
\* an approval is final, as LEGAL_TRANSITIONS has it
ApprovedIsFinal == [][\A a \in Applications : status[a] = "approved" => status'[a] = "approved"]_vars
=============================================================================
