------------------------------ MODULE Progress ------------------------------
(***************************************************************************)
(* One learner's progress in courses and what it earns: the quiz attempts  *)
(* of src/services/quiz.service.js, the progress endpoint of               *)
(* src/controllers/analytics/analyticsController.js, the certificates      *)
(* (certificate.service.js), badges (badge.service.js) and experience      *)
(* points (gamification.js).                                               *)
(*                                                                         *)
(* Every handler reads, computes and writes in separate steps; rows are    *)
(* unique by index, and an insert that loses is answered with an error or  *)
(* ignored.  Questions are reduced to whether the attempt passed.  Nothing *)
(* in the code edits the lessons of a course, so they are constant.        *)
(***************************************************************************)
EXTENDS Integers, FiniteSets, FiniteSetsExt, Functions

CONSTANTS
    Requests,       \* slots of requests handled at once
    Lessons,        \* the lessons of each course: a function on the courses
    Quizzes,        \* <<course, lesson>> pairs some quiz gates
    Whole,          \* 100 per cent
    Awards,         \* thresholds of the badges, and of the achievements
    Xp,             \* the points of the achievement of each threshold
    LevelXp,        \* LEVEL_XP
    MaxRequests,    \* bound: requests started
    None

VARIABLES
    row,            \* CourseProgress of each course
    certificates,   \* courses with a certificate
    badges,         \* thresholds whose badge is owned
    earned,         \* thresholds whose achievement is owned
    profile,        \* GamificationProfile
    req,            \* what each slot is doing
    started,        \* requests started so far
    did             \* history: lessons marked, passed or watched

vars == <<row, certificates, badges, earned, profile, req, started, did>>

Courses == DOMAIN Lessons

ASSUME ProgressAssumption ==
    /\ IsFiniteSet(Courses) /\ \A c \in Courses : IsFiniteSet(Lessons[c])
    /\ \A q \in Quizzes : \E c \in Courses : \E l \in Lessons[c] : q = <<c, l>>
    /\ Whole \in Nat \ {0} /\ LevelXp \in Nat \ {0}
    /\ IsFiniteSet(Awards) /\ \A t \in Awards : t \in Nat /\ Xp[t] \in Nat

NoRow == [done |-> {}, percent |-> 0, completed |-> FALSE]
Idle == [op |-> "idle", on |-> None, doc |-> None]

\* Math.round(n / total * 100)
Percent(n, total) == (2 * Whole * n + total) \div (2 * total)
LevelForXp(xp) == CHOOSE n \in 1..(xp + 1) : (n - 1) * (n - 1) * LevelXp <= xp /\ n * n * LevelXp > xp

\* The query shared by certificates, badges and achievements.
IsComplete(p) == p.percent >= Whole \/ p.completed
Completed == {c \in Courses : IsComplete(row[c])}

Starts(r, op, on, doc) ==
    /\ req[r] = Idle /\ started < MaxRequests
    /\ started' = started + 1
    /\ req' = [req EXCEPT ![r] = [op |-> op, on |-> on, doc |-> doc]]
Goes(r, op, doc) ==
    req' = [req EXCEPT ![r] = [op |-> op, on |-> @.on, doc |-> doc]] /\ UNCHANGED started
Answers(r) == req' = [req EXCEPT ![r] = Idle] /\ UNCHANGED started

-----------------------------------------------------------------------------
\* submitAttempt: a passing attempt at a quiz goes on to completeLesson, which
\* reads the row.  A failing one leaves the progress alone.
SubmitAttempt(r) ==
    \E q \in Quizzes :
        /\ Starts(r, "mark", q, row[q[1]].done)
        /\ did' = did \cup {q}
        /\ UNCHANGED <<row, certificates, badges, earned, profile>>

\* updateCourseProgress does the same for any lesson of the course.
UpdateCourseProgress(r) ==
    \E c \in Courses : \E l \in Lessons[c] :
        /\ Starts(r, "mark", <<c, l>>, row[c].done)
        /\ did' = did \cup {<<c, l>>}
        /\ UNCHANGED <<row, certificates, badges, earned, profile>>

\* Mutant: the lesson is counted again.
MutMarked(done, c) ==
    LET percent == Min({Whole, Percent(Cardinality(done) + 1, Cardinality(Lessons[c]))})
    IN  [done |-> done, percent |-> percent, completed |-> percent >= Whole]

Marked(done, c) ==
    LET percent == Min({Whole, Percent(Cardinality(done), Cardinality(Lessons[c]))})
    IN  [done |-> done, percent |-> percent, completed |-> percent >= Whole]

\* Both upsert the row they computed from what they read.
WriteProgress(r) ==
    /\ req[r].op = "mark"
    /\ LET c == req[r].on[1]
       IN  row' = [row EXCEPT ![c] = Marked(req[r].doc \cup {req[r].on[2]}, c)]
    /\ Answers(r)
    /\ UNCHANGED <<certificates, badges, earned, profile, did>>

-----------------------------------------------------------------------------
\* generateCertificate finds none and a complete course ...
CheckCompletion(r) ==
    \E c \in Completed \ certificates :
        /\ Starts(r, "certify", c, None)
        /\ UNCHANGED <<row, certificates, badges, earned, profile, did>>

\* ... and inserts one, or fails on the index.
CreateCertificate(r) ==
    /\ req[r].op = "certify"
    /\ certificates' = certificates \cup {req[r].on}
    /\ Answers(r)
    /\ UNCHANGED <<row, badges, earned, profile, did>>

\* checkAndAwardBadges counts the completed courses and reads the badges owned,
CountForBadges(r) ==
    /\ Starts(r, "badges", None, {t \in Awards \ badges : Cardinality(Completed) >= t})
    /\ UNCHANGED <<row, certificates, badges, earned, profile, did>>

\* and inserts those that are due, one by one, past the ones it meets.
AwardBadge(r) ==
    /\ req[r].op = "badges"
    /\ \/ \E t \in req[r].doc :
             /\ badges' = badges \cup {t}
             /\ Goes(r, "badges", req[r].doc \ {t})
       \/ req[r].doc = {} /\ Answers(r) /\ UNCHANGED badges
    /\ UNCHANGED <<row, certificates, earned, profile, did>>

-----------------------------------------------------------------------------
\* evaluateUser counts, then reads the profile or creates it,
Evaluate(r) ==
    /\ Starts(r, "profile", <<Cardinality(Completed)>>, None)
    /\ UNCHANGED <<row, certificates, badges, earned, profile, did>>

LoadProfile(r) ==
    /\ req[r].op = "profile"
    /\ Goes(r, "grant", profile)
    /\ UNCHANGED <<row, certificates, badges, earned, profile, did>>

\* upserts every achievement that is due, in the order of the thresholds,
Grant(r) ==
    /\ req[r].op = "grant"
    /\ \E t \in Awards : /\ t <= req[r].on[1] /\ t \notin earned
                         /\ \A u \in Awards : u < t => u \in earned
                         /\ earned' = earned \cup {t}
    /\ UNCHANGED <<row, certificates, badges, profile, req, started, did>>

\* The points of all that is owned by now.
Points == SumFunctionOnSet(Xp, earned)

\* Mutant: the points are added to those of the profile.
MutTotal(r) ==
    /\ req[r].op = "grant"
    /\ \A t \in Awards : t <= req[r].on[1] => t \in earned
    /\ req' = [req EXCEPT ![r].op = "save",
                 ![r].on = <<profile.xp + Points>>]
    /\ UNCHANGED <<row, certificates, badges, earned, profile, started, did>>

\* adds up those points,
Total(r) ==
    /\ req[r].op = "grant"
    /\ \A t \in Awards : t <= req[r].on[1] => t \in earned
    /\ req' = [req EXCEPT ![r] = [op |-> "save", on |-> <<Points>>, doc |-> @.doc]]
    /\ UNCHANGED <<row, certificates, badges, earned, profile, started, did>>

\* and saves the fields that differ from the profile it read.
SaveProfile(r) ==
    /\ req[r].op = "save"
    /\ LET xp == req[r].on[1]
           old == req[r].doc
       IN  profile' = [xp |-> IF xp # old.xp THEN xp ELSE profile.xp,
                       level |-> IF LevelForXp(xp) # old.level THEN LevelForXp(xp) ELSE profile.level]
    /\ Answers(r)
    /\ UNCHANGED <<row, certificates, badges, earned, did>>

Init ==
    /\ row = [c \in Courses |-> NoRow]
    /\ certificates = {} /\ badges = {} /\ earned = {}
    /\ profile = [xp |-> 0, level |-> 1]
    /\ req = [r \in Requests |-> Idle]
    /\ started = 0
    /\ did = {}

Next == \E r \in Requests :
    \/ SubmitAttempt(r) \/ UpdateCourseProgress(r) \/ WriteProgress(r)
    \/ CheckCompletion(r) \/ CreateCertificate(r) \/ CountForBadges(r) \/ AwardBadge(r)
    \/ Evaluate(r) \/ LoadProfile(r) \/ Grant(r) \/ Total(r) \/ SaveProfile(r)

-----------------------------------------------------------------------------
\* Courses of which no more is missing than half a per cent, which rounds away: of fewer
\* than 200 lessons, nothing.
Finished == {c \in Courses : 2 * Whole * Cardinality({l \in Lessons[c] : <<c, l>> \notin did})
                                <= Cardinality(Lessons[c])}

\* A learner who overlaps requests may lose a lesson, never gain one: what is
\* certified, awarded or counted was really finished, and the points are never
\* more than those of the achievements owned.
ProgressEarned ==
    /\ \A c \in Courses : \A l \in row[c].done : <<c, l>> \in did
    /\ certificates \cup Completed \subseteq Finished
    /\ \A t \in badges \cup earned : t <= Cardinality(Finished)
    /\ profile.xp <= Points
    /\ profile.level <= LevelForXp(Points)

\* Not kept, see README:
\* a lesson that was written stays, and so does a course that is complete.
LessonsStay == [][\A c \in Courses : row[c].done \subseteq row'[c].done]_vars
=============================================================================
