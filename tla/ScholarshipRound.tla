-------------------------- MODULE ScholarshipRound --------------------------
(***************************************************************************)
(* One cycle of scholarship applications:                                   *)
(* controllers/stellar/scholarshipApplicationController.js over             *)
(* models/ScholarshipApplication.js.  Applicants submit, admins review and  *)
(* decide.  A review is one conditional update; a decision loads the        *)
(* application, judges what it loaded, and saves later.                     *)
(*                                                                         *)
(* A review's score is the sum of its four criteria, 4..20.                 *)
(***************************************************************************)
EXTENDS Integers, FiniteSets, FiniteSetsExt

CONSTANTS
    Applications,  \* application documents
    People,        \* applicants and admins (a subset of them); an admin may apply
    Admins,
    Scores,        \* the review totals to consider
    Decisions,     \* decision requests
    MinReviewers,  \* 2 in the code
    None

Verdicts == {"selected", "not_selected"}

VARIABLES
    application,  \* the documents
    request       \* decideScholarshipApplication calls and what they loaded

vars == <<application, request>>

NoApplication == [status |-> "none", applicant |-> None, reviews |-> {}]

NoDecision == [pc |-> "idle", on |-> None, verdict |-> None, loaded |-> {}]

Review == [reviewer : Admins, support : BOOLEAN, score : Scores]

Total(reviews) == MapThenSumSet(LAMBDA v : v.score, reviews)

Supporting(reviews) == {v \in reviews : v.support}

\* At least two supporters, a majority, and a mean of 3 out of 5 per criterion.
Qualified(reviews) ==
    /\ Cardinality(Supporting(reviews)) >= 2
    /\ 2 * Cardinality(Supporting(reviews)) > Cardinality(reviews)
    /\ Total(reviews) >= 3 * 4 * Cardinality(reviews)

-----------------------------------------------------------------------------
(* submitScholarshipApplication *)

Submit(a, p) ==
    /\ application[a] = NoApplication
    /\ \A o \in Applications : application[o].applicant # p
    /\ application' = [application EXCEPT ![a] =
                         [NoApplication EXCEPT !.status = "submitted", !.applicant = p]]
    /\ UNCHANGED request

-----------------------------------------------------------------------------
(* reviewScholarshipApplication *)

OpenTo(a, p) ==
    /\ application[a].status = "submitted"
    /\ application[a].applicant # p
    /\ \A v \in application[a].reviews : v.reviewer # p

AddReview(a, v) ==
    /\ OpenTo(a, v.reviewer)
    /\ application' = [application EXCEPT ![a].reviews = @ \cup {v}]
    /\ UNCHANGED request

-----------------------------------------------------------------------------
(* decideScholarshipApplication *)

\* Mutant: the majority is forgotten.
MutLoadMinority(d, a, verdict) ==
    LET reviews == application[a].reviews IN
    /\ request[d] = NoDecision /\ application[a].status = "submitted"
    /\ Cardinality(reviews) >= MinReviewers
    /\ verdict = "selected" => Total(reviews) >= 12 * Cardinality(reviews)
    /\ request' = [request EXCEPT ![d] = [pc |-> "judged", on |-> a,
                     verdict |-> verdict, loaded |-> reviews]]
    /\ UNCHANGED application

\* The loaded application is open and passes the checks.
Load(d, a, verdict) ==
    LET reviews == application[a].reviews IN
    /\ request[d] = NoDecision /\ application[a].status = "submitted"
    /\ Cardinality(reviews) >= MinReviewers
    /\ verdict = "selected" => Qualified(reviews)
    /\ request' = [request EXCEPT ![d] = [pc |-> "judged", on |-> a,
                     verdict |-> verdict, loaded |-> reviews]]
    /\ UNCHANGED application

\* Mutant: the index is missing.
MutMaySelect(a) == TRUE

\* The partial unique index on (cycle) where the status is selected.
MaySelect(a) == \A o \in Applications \ {a} : application[o].status # "selected"

\* save() names the document by its id alone.
Save(d) ==
    LET a == request[d].on IN
    /\ request[d].pc = "judged"
    /\ request[d].verdict = "selected" => MaySelect(a)
    /\ application' = [application EXCEPT ![a].status = request[d].verdict]
    /\ request' = [request EXCEPT ![d].pc = "done"]

\* A recipient was selected already: 409.
SaveRefused(d) ==
    /\ request[d].pc = "judged" /\ request[d].verdict = "selected"
    /\ ~MaySelect(request[d].on)
    /\ request' = [request EXCEPT ![d].pc = "done"]
    /\ UNCHANGED application

\* A database error (503) or a crash before the save.
Lose(d) ==
    /\ request[d].pc = "judged"
    /\ request' = [request EXCEPT ![d].pc = "done"]
    /\ UNCHANGED application

-----------------------------------------------------------------------------
Init ==
    /\ application = [a \in Applications |-> NoApplication]
    /\ request = [d \in Decisions |-> NoDecision]

Next ==
    \/ \E a \in Applications :
         \/ \E p \in People : Submit(a, p)
         \/ \E v \in Review : AddReview(a, v)
         \/ \E d \in Decisions, verdict \in Verdicts : Load(d, a, verdict)
    \/ \E d \in Decisions : Save(d) \/ SaveRefused(d) \/ Lose(d)

Spec == Init /\ [][Next]_vars

-----------------------------------------------------------------------------
TypeOK ==
    /\ application \in [Applications ->
         [status : {"none", "submitted"} \cup Verdicts, applicant : People \cup {None},
          reviews : SUBSET Review]]
    /\ request \in [Decisions ->
         [pc : {"idle", "judged", "done"}, on : Applications \cup {None},
          verdict : Verdicts \cup {None}, loaded : SUBSET Review]]

\* At most one recipient is selected in the cycle, however many admins decide.
OneRecipient ==
    \A a, o \in Applications :
        (application[a].status = "selected" /\ application[o].status = "selected") => a = o

\* A selected application was judged on reviews that qualify it, and they are
\* still among its reviews.
SelectedWasQualified ==
    \A a \in Applications : application[a].status = "selected" =>
        \E d \in Decisions :
            /\ request[d].pc = "done" /\ request[d].on = a
            /\ request[d].verdict = "selected"
            /\ request[d].loaded \subseteq application[a].reviews
            /\ Qualified(request[d].loaded)

\* One recipient, and a qualified one.
SelectionSound == OneRecipient /\ SelectedWasQualified

\* The published selection rule, of the reviews on record.  Not kept, see README.
SelectedQualifies ==
    \A a \in Applications :
        application[a].status = "selected" => Qualified(application[a].reviews)

\* Only an open application is decided ("Open application not found").
\* Not kept, see README.
DecidedOnce ==
    [][\A a \in Applications : application[a].status \in Verdicts =>
         application'[a] = application[a]]_vars
=============================================================================
