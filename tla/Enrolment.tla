------------------------------ MODULE Enrolment ------------------------------
(***************************************************************************)
(* One learner enrolling in courses, one at a time                         *)
(* (src/controllers/courses/courseController.js) or by a bundle            *)
(* (src/services/course-bundle.service.js).  An enrolment is recorded in   *)
(* the course, in the user and, for a bundle, as a progress row, by one    *)
(* save each: a handler loads a document, pushes to it and saves later,    *)
(* and may fail in between.  Prices and the discount are left out; the     *)
(* purchase of a single course is the module Purchases.                    *)
(***************************************************************************)
EXTENDS Integers, FiniteSets, Functions

CONSTANTS
    Prerequisites,  \* the prerequisites of each course: a function on the courses
    Bundle,         \* the courses of the bundle
    Requests,       \* slots of requests handled at once
    MaxRequests,    \* bound: requests started
    None

VARIABLES
    enrolled,       \* how often the learner is in each course's enrolledUsers
    bought,         \* how often each course is in the user's purchasedCourses
    stat,           \* the user's stat.coursesEnrolled
    progress,       \* courses with a progress row
    completed,      \* courses the learner has completed
    active,         \* the bundle is active
    req,            \* what each slot is doing
    started,        \* requests started so far
    bundled         \* history: courses a bundle enrolled the learner in

vars == <<enrolled, bought, stat, progress, completed, active, req, started, bundled>>

Courses == DOMAIN Prerequisites
Idle == [op |-> "idle", left |-> {}, on |-> None, enrolled |-> None, user |-> None]
User == [bought |-> bought, stat |-> stat]

Starts(r, next) ==
    /\ req[r] = Idle /\ started < MaxRequests
    /\ started' = started + 1
    /\ req' = [req EXCEPT ![r] = next]
Goes(r, next) == req' = [req EXCEPT ![r] = next] /\ UNCHANGED started
Answers(r) == Goes(r, Idle)

\* The learner completes a course, see Progress.
Complete(c) ==
    /\ completed' = completed \cup {c}
    /\ UNCHANGED <<enrolled, bought, stat, progress, active, req, started, bundled>>

\* enrollInCourse loads a course the learner is not in ...
LoadCourse(r) ==
    \E c \in Courses :
        /\ enrolled[c] = 0
        /\ Starts(r, [Idle EXCEPT !.op = "check", !.on = c])
        /\ UNCHANGED <<enrolled, bought, stat, progress, completed, active, bundled>>

\* Mutant: the prerequisites are not looked at.
MutMayEnrol(c) == TRUE

\* Every prerequisite has been completed.
MayEnrol(c) == Prerequisites[c] \subseteq completed

CheckPrerequisites(r) ==
    /\ req[r].op = "check"
    /\ IF MayEnrol(req[r].on) THEN Goes(r, [req[r] EXCEPT !.op = "enrol"]) ELSE Answers(r)
    /\ UNCHANGED <<enrolled, bought, stat, progress, completed, active, bundled>>

\* ... pushes the learner to it,
EnrolInCourse(r) ==
    /\ req[r].op = "enrol"
    /\ enrolled' = [enrolled EXCEPT ![req[r].on] = @ + 1]
    /\ Goes(r, [req[r] EXCEPT !.op = "user"])
    /\ UNCHANGED <<bought, stat, progress, completed, active, bundled>>

\* loads the user
LoadUser(r) ==
    /\ req[r].op = "user"
    /\ Goes(r, [req[r] EXCEPT !.op = "buy", !.user = User])
    /\ UNCHANGED <<enrolled, bought, stat, progress, completed, active, bundled>>

\* and pushes the course there unless it was found.
BuyCourse(r) ==
    /\ req[r].op = "buy"
    /\ bought' = IF req[r].user.bought[req[r].on] > 0 THEN bought
                 ELSE [bought EXCEPT ![req[r].on] = @ + 1]
    /\ Answers(r)
    /\ UNCHANGED <<enrolled, stat, progress, completed, active, bundled>>

-----------------------------------------------------------------------------
\* purchaseBundle loads the active bundle with its courses, then the user.
LoadBundle(r) ==
    /\ active
    /\ Starts(r, [Idle EXCEPT !.op = "bundle", !.left = Bundle, !.enrolled = enrolled])
    /\ UNCHANGED <<enrolled, bought, stat, progress, completed, active, bundled>>

LoadBundleUser(r) ==
    /\ req[r].op = "bundle" /\ req[r].user = None
    /\ Goes(r, [req[r] EXCEPT !.user = User])
    /\ UNCHANGED <<enrolled, bought, stat, progress, completed, active, bundled>>

\* Course by course, the learner is pushed where the document had none,
EnrolByBundle(r) ==
    /\ req[r].op = "bundle" /\ req[r].user # None
    /\ \E c \in req[r].left :
          /\ enrolled' = IF req[r].enrolled[c] > 0 THEN enrolled ELSE [enrolled EXCEPT ![c] = @ + 1]
          /\ bundled' = bundled \cup {c}
          /\ Goes(r, [req[r] EXCEPT !.op = "progress", !.on = c, !.left = @ \ {c}])
    /\ UNCHANGED <<bought, stat, progress, completed, active>>

\* and the progress row inserted where there is none.
StartProgress(r) ==
    /\ req[r].op = "progress"
    /\ progress' = progress \cup {req[r].on}
    /\ Goes(r, [req[r] EXCEPT !.op = "bundle"])
    /\ UNCHANGED <<enrolled, bought, stat, completed, active, bundled>>

\* Mutant: every course of the bundle is counted.
MutNewCourses(r) == Bundle

\* The courses the loaded user had not bought.
NewCourses(r) == {c \in Bundle : req[r].user.bought[c] = 0}

\* The user is saved last.
SaveBundleUser(r) ==
    /\ req[r].op = "bundle" /\ req[r].user # None /\ req[r].left = {}
    /\ bought' = [c \in Courses |-> IF c \in Bundle /\ req[r].user.bought[c] = 0 THEN bought[c] + 1
                                    ELSE bought[c]]
    /\ stat' = IF NewCourses(r) = {} THEN stat ELSE req[r].user.stat + Cardinality(NewCourses(r))
    /\ Answers(r)
    /\ UNCHANGED <<enrolled, progress, completed, active, bundled>>

\* deleteBundle deactivates it.
DeleteBundle ==
    /\ active
    /\ active' = FALSE
    /\ UNCHANGED <<enrolled, bought, stat, progress, completed, req, started, bundled>>

\* A request fails between two steps.
Fail(r) ==
    /\ req[r] # Idle
    /\ Answers(r)
    /\ UNCHANGED <<enrolled, bought, stat, progress, completed, active, bundled>>

Init ==
    /\ enrolled = [c \in Courses |-> 0] /\ bought = [c \in Courses |-> 0]
    /\ stat = 0 /\ progress = {} /\ completed = {} /\ active = TRUE
    /\ req = [r \in Requests |-> Idle] /\ started = 0 /\ bundled = {}

Next ==
    \/ DeleteBundle
    \/ \E c \in Courses : c \notin completed /\ Complete(c)
    \/ \E r \in Requests :
          \/ LoadCourse(r) \/ CheckPrerequisites(r) \/ EnrolInCourse(r) \/ LoadUser(r) \/ BuyCourse(r)
          \/ LoadBundle(r) \/ LoadBundleUser(r) \/ EnrolByBundle(r) \/ StartProgress(r)
          \/ SaveBundleUser(r) \/ Fail(r)

-----------------------------------------------------------------------------
\* Wherever a request stops and however two overlap, what the user has bought
\* the course knows of, progress exists only for an enrolment, a course of its
\* own choice has its prerequisites behind it, and the count of enrolments is
\* never more than the entries it counts.
EnrolmentSound ==
    /\ \A c \in Courses : bought[c] > 0 \/ c \in progress => enrolled[c] > 0
    /\ \A c \in Courses \ bundled : enrolled[c] > 0 => Prerequisites[c] \subseteq completed
    /\ stat <= SumFunctionOnSet(bought, Courses)

\* Not kept, see README:
\* nobody is in a course without its prerequisites,
PrerequisitesAlways == \A c \in Courses : enrolled[c] > 0 => Prerequisites[c] \subseteq completed
\* nor twice,
OneEntry == \A c \in Courses : enrolled[c] <= 1 /\ bought[c] <= 1
\* and the user knows of every enrolment.
EnrolledIsBought ==
    (\A r \in Requests : req[r] = Idle) => \A c \in Courses : enrolled[c] > 0 => bought[c] > 0
=============================================================================
