------------------------------- MODULE Streaks -------------------------------
(***************************************************************************)
(* One learner's daily streak (src/services/streakTracker.ts): the         *)
(* activity of a day, the freezes that cover missed days, and the daily    *)
(* job.  Every one of them loads the row and saves the fields it changed   *)
(* later, on the same day or another.                                      *)
(***************************************************************************)
EXTENDS Integers, FiniteSets, FiniteSetsExt

CONSTANTS
    Requests,       \* slots of requests handled at once, and of the job
    Milestones,     \* 7, 30 and 100 days in the code
    Freezes,        \* the freezes of a new row, 1 in the code
    LastDay,        \* bound: days
    MaxRequests,    \* bound: requests started
    None

VARIABLES
    day,            \* today
    streak,         \* the row, or None
    req,            \* each slot: its row as loaded, and what it sets in it
    started,        \* requests started so far
    activeDays,     \* history: days on which an activity was recorded
    crossed         \* history: a request that had read the row was still to write at midnight

vars == <<day, streak, req, started, activeDays, crossed>>

Idle == [op |-> "idle", sets |-> None]
NewStreak == [current |-> 0, longest |-> 0, last |-> None, freezes |-> Freezes, reached |-> {}]

Midnight ==
    /\ day < LastDay
    /\ day' = day + 1
    /\ crossed' = (crossed \/ \E r \in Requests : req[r] # Idle)
    /\ UNCHANGED <<streak, req, started, activeDays>>

Starts(r, op, sets) ==
    /\ req[r] = Idle /\ started < MaxRequests
    /\ started' = started + 1
    /\ req' = [req EXCEPT ![r] = [op |-> op, sets |-> sets]]
    /\ UNCHANGED <<day, streak, crossed>>

\* The streak after an activity today, by the days since the last one.
Counted(s) ==
    LET gap == day - s.last - 1
    IN  IF s.last = None THEN [s EXCEPT !.current = 1]
        ELSE IF gap <= 0 THEN [s EXCEPT !.current = @ + 1]
        ELSE IF s.freezes >= gap THEN [s EXCEPT !.current = @ + 1, !.freezes = @ - gap]
        ELSE [s EXCEPT !.current = 1]

\* Mutant: the longest streak is taken before the day is counted.
MutRecorded(s) ==
    LET c == Counted(s)
    IN  [c EXCEPT !.last = day, !.longest = Max({@, s.current}),
                  !.reached = @ \cup {m \in Milestones : c.current >= m}]

Recorded(s) ==
    LET c == Counted(s)
    IN  [c EXCEPT !.last = day, !.longest = Max({@, c.current}),
                  !.reached = @ \cup {m \in Milestones : c.current >= m}]

\* recordActivity loads the row or makes one; a second activity of the day
\* returns.
RecordActivity(r) ==
    LET s == IF streak = None THEN NewStreak ELSE streak
    IN  /\ s.last # day
        /\ Starts(r, IF streak = None THEN "insert" ELSE "save", [old |-> s, new |-> Recorded(s)])
        /\ activeDays' = activeDays \cup {day}

\* getStreakStatus creates the row when there is none.
GetStreakStatus ==
    streak = None /\ streak' = NewStreak /\ UNCHANGED <<day, req, started, activeDays, crossed>>

\* useStreakFreeze
UseStreakFreeze(r) ==
    /\ streak # None /\ streak.freezes > 0
    /\ Starts(r, "save", [old |-> streak, new |-> [streak EXCEPT !.freezes = @ - 1]])
    /\ UNCHANGED activeDays

\* The row of checkDailyStreaksJob: the freezes pay for the days missed, or the
\* streak ends.
CheckDailyStreaks(r) ==
    LET gap == day - streak.last - 1
    IN  /\ streak # None /\ streak.last # None /\ gap > 0
        /\ Starts(r, "save", [old |-> streak,
                              new |-> IF streak.freezes >= gap THEN [streak EXCEPT !.freezes = @ - gap]
                                      ELSE [streak EXCEPT !.current = 0]])
        /\ UNCHANGED activeDays

\* Mutant: a freeze is taken from the row as it is now.
MutSaved(s, old, new) ==
    [f \in DOMAIN s |-> IF f = "freezes" THEN s.freezes - (old.freezes - new.freezes)
                        ELSE IF new[f] # old[f] THEN new[f] ELSE s[f]]

\* A save sets the fields that changed; milestones are pushed.
Saved(s, old, new) ==
    [f \in DOMAIN s |-> IF f = "reached" THEN s.reached \cup (new.reached \ old.reached)
                        ELSE IF new[f] # old[f] THEN new[f] ELSE s[f]]

Save(r) ==
    /\ req[r].op = "save"
    /\ streak' = Saved(streak, req[r].sets.old, req[r].sets.new)
    /\ req' = [req EXCEPT ![r] = Idle]
    /\ UNCHANGED <<day, started, activeDays, crossed>>

\* An insert fails when the user has a row by now.
Insert(r) ==
    /\ req[r].op = "insert"
    /\ streak' = IF streak = None THEN req[r].sets.new ELSE streak
    /\ req' = [req EXCEPT ![r] = Idle]
    /\ UNCHANGED <<day, started, activeDays, crossed>>

Init ==
    /\ day = 0 /\ streak = None /\ started = 0 /\ activeDays = {}
    /\ req = [r \in Requests |-> Idle] /\ crossed = FALSE

Next ==
    \/ Midnight \/ GetStreakStatus
    \/ \E r \in Requests : RecordActivity(r) \/ UseStreakFreeze(r)
                          \/ CheckDailyStreaks(r) \/ Save(r) \/ Insert(r)

-----------------------------------------------------------------------------
\* Requests may overlap with each other and with the job.  No freeze is owed, ever.  As
\* long as every request is over by the end of its day, no streak is longer than the
\* days the learner was active, the longest is never behind the current one, and a
\* milestone was within reach.  (A request that ends a day late may take the streak back
\* to its own day, and the day after is then counted again: see README.)
StreakEarned ==
    streak # None =>
        /\ streak.freezes \in 0..Freezes
        /\ ~crossed => /\ streak.current <= Cardinality(activeDays)
                       /\ streak.current <= streak.longest
                       /\ \A m \in streak.reached : m <= Cardinality(activeDays)
=============================================================================
