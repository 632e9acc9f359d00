--------------------------------- MODULE Rooms ---------------------------------
(***************************************************************************)
(* What people keep on the platform besides money and courses: a space and   *)
(* its lists (spaceController.js, SpaceRepository.js), the recording of one   *)
(* (spaceRecordingService.js), the comments and counters of a reel            *)
(* (reelController.js, ReelRepository.js), the quiz of a lesson               *)
(* (quiz.service.js), the preferences of a user (preferences.js) and her     *)
(* profile (userController.js); the videos of new reels, the prices of a      *)
(* bundle of courses (course-bundle.service.js), signing in with a wallet    *)
(* (sep10Service.js) and the sockets of the payment gateway                   *)
(* (paymentGateway.js).                                                       *)
(*                                                                         *)
(* A behaviour follows one of them.  A handler that loads a document works    *)
(* on a copy; an update operator is one step.                                *)
(***************************************************************************)
EXTENDS Integers, Sequences, FiniteSets, Functions

CONSTANTS
    Requests,   \* slots of requests handled at once
    Members,    \* people
    MaxAsks,    \* bound: requests started
    None

VARIABLES
    about,      \* "space", "recording", "reel", "upload", "quiz", "preferences", "profile",
                \* "bundle", "signin" or "sockets"
    held,       \* the document
    told,       \* history: what the requests that were answered did to it
    asking,     \* what each request does, where it is and what it loaded
    asks        \* requests started so far

roomVars == <<about, held, told, asking, asks>>

Idle == [op |-> "none", at |-> "idle", copy |-> None, body |-> None]

\* A request that is one update operator of the database.
Single(s) == about = s /\ asks < MaxAsks /\ asks' = asks + 1 /\ UNCHANGED <<about, asking>>

Ask(q, s, op, at, copy, body) ==
    /\ about = s /\ asking[q] = Idle /\ asks < MaxAsks
    /\ asks' = asks + 1
    /\ asking' = [asking EXCEPT ![q] = [op |-> op, at |-> at, copy |-> copy, body |-> body]]
    /\ UNCHANGED about

At(q, op, at) == asking[q].op = op /\ asking[q].at = at

Goes(q, at) == asking' = [asking EXCEPT ![q].at = at] /\ UNCHANGED <<about, asks>>
Answers(q) == asking' = [asking EXCEPT ![q] = Idle] /\ UNCHANGED <<about, asks>>

Others(q) == {p \in Requests \ {q} : asking[p] # Idle}

-----------------------------------------------------------------------------
(* A space: its status, and how often each person is on its two lists *)

Lists == {"members", "waiting"}
Statuses == {"upcoming", "live", "ended"}

NewSpace == [exists |-> TRUE, status |-> "upcoming",
             members |-> [m \in Members |-> 0], waiting |-> [m \in Members |-> 0]]

\* Mutant: the person is pushed, whoever is there.
MutAddTo(list, m) ==
    /\ Single("space") /\ held.exists
    /\ held' = [held EXCEPT ![list][m] = @ + 1]
    /\ told' = [told EXCEPT ![list] = @ \cup {m}]

\* addMember, addToWaitlist: $addToSet.
AddTo(list, m) ==
    /\ Single("space") /\ held.exists
    /\ held' = [held EXCEPT ![list][m] = IF @ = 0 THEN 1 ELSE @]
    /\ told' = [told EXCEPT ![list] = @ \cup {m}]

\* removeMember, removeFromWaitlist: $pull takes every occurrence.
RemoveFrom(list, m) ==
    /\ Single("space") /\ held.exists
    /\ held' = [held EXCEPT ![list][m] = 0]
    /\ told' = [told EXCEPT ![list] = @ \ {m}]

\* authorizeOwnership loads the space; the host changes its status, or sends a list that
\* she made from the one she saw.
LoadUpdate(q) ==
    /\ held.exists
    /\ \/ \E s \in Statuses : Ask(q, "space", "update", "write", held, [status |-> s])
       \/ \E l \in Lists, m \in Members :
            Ask(q, "space", "update", "write", held,
                [list |-> l, who |-> m, now |-> [held[l] EXCEPT ![m] = IF @ = 0 THEN 1 ELSE 0]])
    /\ UNCHANGED <<held, told>>

\* findByIdAndUpdate replaces the list; who joined or left meanwhile is overwritten.
UpdateSpace(q) ==
    LET body == asking[q].body IN
    /\ At(q, "update", "write")
    /\ IF ~held.exists THEN UNCHANGED <<held, told>>
       ELSE IF "status" \in DOMAIN body
       THEN held' = [held EXCEPT !.status = body.status] /\ UNCHANGED told
       ELSE /\ held' = [held EXCEPT ![body.list] = body.now]
            /\ told' = [told EXCEPT
                           ![body.list] = IF body.now[body.who] > 0 THEN @ \cup {body.who}
                                          ELSE @ \ {body.who},
                           !.overwrote = @ \/ asking[q].copy[body.list] # held[body.list]]
    /\ Answers(q)

DeleteSpace ==
    /\ Single("space") /\ held.exists
    /\ held' = [held EXCEPT !.exists = FALSE]
    /\ UNCHANGED told

\* getMembers, getWaitlist answer an empty list for a space that is gone; isMember,
\* isOnWaitlist count documents.
OnList(list) == IF held.exists THEN {m \in Members : held[list][m] > 0} ELSE {}
IsOn(list, m) == held.exists /\ held[list][m] > 0
CountOf(list) == IF held.exists THEN SumFunctionOnSet(held[list], Members) ELSE 0

-----------------------------------------------------------------------------
(* The recording of a space: its document and the assets of the media store *)

NoRecording == [exists |-> FALSE, ready |-> FALSE, asset |-> 0]

\* startRecording: the schema refuses an empty url, so the caller has one already; a
\* recording may come without an asset id.
StartRecording(asset) ==
    /\ Single("recording") /\ ~told.begun
    /\ held' = [held EXCEPT !.doc = [exists |-> TRUE, ready |-> FALSE, asset |-> asset]]
    /\ told' = [told EXCEPT !.begun = TRUE]

LoadToFinalise(q, asset) ==
    /\ held.doc.exists
    /\ Ask(q, "recording", "finalise", "save", held.doc, [asset |-> asset])
    /\ UNCHANGED <<held, told>>

\* Mutant: the document is written whether it still exists or not.
MutFinaliseRecording(q) ==
    LET asset == asking[q].body.asset IN
    /\ At(q, "finalise", "save")
    /\ held' = [held EXCEPT !.doc = [exists |-> TRUE, ready |-> TRUE,
                                     asset |-> IF asset = 0 THEN asking[q].copy.asset ELSE asset]]
    /\ Answers(q) /\ UNCHANGED told

\* save() sends the paths that changed; a document that is gone is an error.
FinaliseRecording(q) ==
    LET asset == asking[q].body.asset IN
    /\ At(q, "finalise", "save")
    /\ held' = IF ~held.doc.exists THEN held
               ELSE [held EXCEPT !.doc.ready = TRUE,
                                 !.doc.asset = IF asset \in {0, asking[q].copy.asset} THEN @ ELSE asset]
    /\ Answers(q) /\ UNCHANGED told

\* deleteRecording, by who recorded it.
LoadToDelete(q) ==
    /\ held.doc.exists
    /\ Ask(q, "recording", "delete", IF held.doc.asset = 0 THEN "delete" ELSE "destroy",
           held.doc, None)
    /\ UNCHANGED <<held, told>>

\* The media store fails or not; the document is deleted either way.
DestroyAsset(q, works) ==
    /\ At(q, "delete", "destroy")
    /\ held' = IF works THEN [held EXCEPT !.assets = @ \ {asking[q].copy.asset}] ELSE held
    /\ Goes(q, "delete") /\ UNCHANGED told

DeleteRecording(q) ==
    /\ At(q, "delete", "delete")
    /\ held' = [held EXCEPT !.doc = NoRecording]
    /\ told' = [told EXCEPT !.deleted = TRUE]
    /\ Answers(q)

\* The server stops, or the database fails, before the document is deleted.
DeleteStops(q) ==
    /\ At(q, "delete", "delete")
    /\ told' = [told EXCEPT !.stopped = TRUE]
    /\ Answers(q) /\ UNCHANGED held

\* listRecordingsForSpace shows what is ready.
ListedRecording == held.doc.exists /\ held.doc.ready

-----------------------------------------------------------------------------
(* A reel: its comments and its counters *)

\* addReelComment loads the reel and makes the comment.
LoadReel(q, m) ==
    /\ Ask(q, "reel", "comment", "save", held.comments, [n |-> asks, by |-> m])
    /\ UNCHANGED <<held, told>>

\* Mutant: the comments are saved as they were loaded, with the new one.
MutAddReelComment(q) ==
    LET c == asking[q].body IN
    /\ At(q, "comment", "save")
    /\ held' = [held EXCEPT !.comments = asking[q].copy \cup {c}]
    /\ told' = [told EXCEPT !.comments = @ \cup {c}]
    /\ Answers(q)

\* save() sends a push as a push.
AddReelComment(q) ==
    LET c == asking[q].body IN
    /\ At(q, "comment", "save")
    /\ held' = [held EXCEPT !.comments = @ \cup {c}]
    /\ told' = [told EXCEPT !.comments = @ \cup {c}]
    /\ Answers(q)

\* Its author or the reel's may ask for it (the reel's is no member here), and
\* deleteReelComment calls remove(), which a Mongoose 8 subdocument does not have: it
\* answers 500 and the comment stays.
DeleteReelComment(c, m) ==
    /\ Single("reel") /\ m \in {c.by, None}
    /\ UNCHANGED <<held, told>>

\* The repository's addComment; its removeComment pulls by id.
AddComment(m) ==
    /\ Single("reel")
    /\ held' = [held EXCEPT !.comments = @ \cup {[n |-> asks, by |-> m]}]
    /\ told' = [told EXCEPT !.comments = @ \cup {[n |-> asks, by |-> m]}]

RemoveComment(c) ==
    /\ Single("reel")
    /\ held' = [held EXCEPT !.comments = @ \ {c}]
    /\ told' = [told EXCEPT !.comments = @ \ {c}]

\* incrementViewCount, incrementShareCount: $inc.
Increment(counter, amount) ==
    /\ Single("reel")
    /\ held' = [held EXCEPT ![counter] = @ + amount]
    /\ told' = [told EXCEPT ![counter] = @ + amount]

\* registerReelView, registerReelShare: by one.
Register(counter) == Increment(counter, 1)

-----------------------------------------------------------------------------
(* The quiz of a lesson and the attempts at it (quiz.service.js).  A question is its id
   and its correct option; what an attempt does to the progress is in module Progress. *)

\* The bodies an author sends: how many options each question has and which is correct.
Question(options, correct) == [options |-> options, correct |-> correct]
Drafts == {<<>>, <<Question(1, 0)>>, <<Question(2, 2)>>, <<Question(2, 1)>>,
           <<Question(2, 0), Question(2, 1)>>}

\* validateQuestions
ValidQuestions(draft) ==
    draft # <<>> /\ \A i \in DOMAIN draft :
        draft[i].options >= 2 /\ draft[i].correct \in 0..(draft[i].options - 1)

\* Mutant: a question keeps the id of the one that was in its place.
MutNumbered(draft) == [i \in DOMAIN draft |-> [id |-> <<0, i>>, correct |-> draft[i].correct]]

\* The schema gives every question of a new array an id of its own.
Numbered(draft) == [i \in DOMAIN draft |-> [id |-> <<asks, i>>, correct |-> draft[i].correct]]

MayManage(user) == user \in {"admin", "author"}

\* createQuiz: a threshold that is not given becomes NaN, which the schema refuses.
CreateQuiz(user, draft, threshold, lesson) ==
    /\ Single("quiz") /\ held.quiz = None
    /\ MayManage(user) /\ ValidQuestions(draft) /\ threshold \in 0..100
    /\ held' = [held EXCEPT !.quiz = [questions |-> Numbered(draft), threshold |-> threshold,
                                      lesson |-> lesson]]
    /\ UNCHANGED told

\* updateQuiz: one $set of what is given, <<>> and None where it is not.
UpdateQuiz(user, draft, threshold) ==
    /\ Single("quiz") /\ held.quiz # None
    /\ MayManage(user) /\ (draft # <<>> => ValidQuestions(draft))
    /\ threshold \in (0..100) \cup {None}
    /\ held' = [held EXCEPT
           !.quiz.questions = IF draft = <<>> THEN @ ELSE Numbered(draft),
           !.quiz.threshold = IF threshold = None THEN @ ELSE threshold]
    /\ UNCHANGED told

\* deleteQuiz leaves the attempts.
DeleteQuiz(user) ==
    /\ Single("quiz") /\ held.quiz # None /\ MayManage(user)
    /\ held' = [held EXCEPT !.quiz = None]
    /\ UNCHANGED told

\* getQuizForLearner: the learner reads the questions and picks an option for some.
TakeQuiz(q) ==
    /\ about = "quiz" /\ held.quiz # None
    /\ \E answered \in SUBSET DOMAIN held.quiz.questions :
       \E picks \in [answered -> 0..1] :
          Ask(q, "quiz", "attempt", "answer", held.quiz.questions, picks)
    /\ UNCHANGED <<held, told>>

\* The option an answer of hers names for the question with this id, if there is one.
PickedFor(seen, picks, id) == {picks[i] : i \in {j \in DOMAIN picks : seen[j].id = id}}

\* scoreAttempt
ScoreOf(questions, seen, picks) ==
    Cardinality({i \in DOMAIN questions :
                    PickedFor(seen, picks, questions[i].id) = {questions[i].correct}})
Rounded(part, whole) == (200 * part + whole) \div (2 * whole)

\* submitAttempt scores the answers by the quiz as it is now,
SubmitAttempt(q) ==
    LET seen == asking[q].copy
        quiz == held.quiz
        score == ScoreOf(quiz.questions, seen, asking[q].body)
    IN
    /\ At(q, "attempt", "answer") /\ quiz # None
    /\ asking' = [asking EXCEPT ![q].at = "create", ![q].body =
           [seen |-> seen, picks |-> asking[q].body, quiz |-> quiz, score |-> score,
            passed |-> Rounded(score, Len(quiz.questions)) >= quiz.threshold]]
    /\ UNCHANGED <<about, held, told, asks>>

QuizIsGone(q) ==
    At(q, "attempt", "answer") /\ held.quiz = None /\ Answers(q) /\ UNCHANGED <<held, told>>

\* records the attempt,
CreateAttempt(q) ==
    LET a == asking[q].body IN
    /\ At(q, "attempt", "create")
    /\ held' = [held EXCEPT !.attempts = @ \cup
           {[answers |-> {<<a.quiz.questions[i].id, p>> : i \in DOMAIN a.quiz.questions, p \in 0..1}
                         \cap {<<a.seen[i].id, a.picks[i]>> : i \in DOMAIN a.picks},
             score |-> a.score, passed |-> a.passed]}]
    /\ told' = [told EXCEPT !.scored = @ \cup {a}]
    /\ IF a.passed /\ a.quiz.lesson THEN Goes(q, "complete") ELSE Answers(q)

\* and, passed, completes the lesson.
CompleteLesson(q) ==
    /\ At(q, "attempt", "complete")
    /\ held' = [held EXCEPT !.lesson = TRUE]
    /\ Answers(q) /\ UNCHANGED told

\* The server stops, or the database fails, between the two writes.
CompletionStops(q) ==
    /\ At(q, "attempt", "complete")
    /\ told' = [told EXCEPT !.stopped = TRUE]
    /\ Answers(q) /\ UNCHANGED held

\* getAttemptResult judges the stored answers by the questions of now.
JudgedRight(attempt) ==
    {x \in attempt.answers : \E i \in DOMAIN held.quiz.questions :
        held.quiz.questions[i].id = x[1] /\ held.quiz.questions[i].correct = x[2]}

-----------------------------------------------------------------------------
(* The preferences of a user, and the language in her profile *)

Groups == [theme |-> {"theme"}, language |-> {"language"}, notifications |-> {"email", "push"}]
Preferences == UNION {Groups[g] : g \in DOMAIN Groups}
Defaults == [p \in Preferences |-> 0]

\* validatePreferencesInput collects the errors; -1 stands for a value that is not allowed.
Errors(body) == {p \in DOMAIN body : body[p] = -1}
Bodies == {[p \in s |-> v] : s \in (SUBSET Preferences) \ {{}}, v \in {-1, 1, 2}}

\* getUserPreferences creates what it does not find; the unique index refuses a second.
LoadPreferences(q) ==
    /\ held.stored = None
    /\ Ask(q, "preferences", "get", "create", None, None)
    /\ UNCHANGED <<held, told>>

\* Mutant: the defaults are written over what is there.
MutCreatePreferences(q) ==
    /\ At(q, "get", "create")
    /\ held' = [held EXCEPT !.stored = Defaults]
    /\ Answers(q) /\ UNCHANGED told

CreatePreferences(q) ==
    /\ At(q, "get", "create")
    /\ held' = IF held.stored = None THEN [held EXCEPT !.stored = Defaults] ELSE held
    /\ Answers(q) /\ UNCHANGED told

Current == IF held.stored = None THEN Defaults ELSE held.stored

\* Mutant: a group is replaced by what the request says of it.
MutMerged(body) ==
    [p \in Preferences |->
        IF p \in DOMAIN body THEN body[p]
        ELSE IF \E g \in DOMAIN Groups : p \in Groups[g] /\ Groups[g] \cap DOMAIN body # {} THEN 0
        ELSE Current[p]]

\* $set of the single paths, on what is stored or on the defaults.
Merged(body) == [p \in Preferences |-> IF p \in DOMAIN body THEN body[p] ELSE Current[p]]

\* updateUserPreferences: one upsert, and then the language of the profile.
UpdatePreferences(q, body) ==
    /\ Errors(body) = {}
    /\ held' = [held EXCEPT !.stored = Merged(body)]
    /\ LET language == "language" \in DOMAIN body
           overlaps == \E p \in Requests : At(p, "set", "sync")
       IN /\ told' = [told EXCEPT !.last = [p \in Preferences |->
                                              IF p \in DOMAIN body THEN body[p] ELSE @[p]],
                                  !.drifted = @ \/ (language /\ overlaps)]
          /\ IF language
             THEN Ask(q, "preferences", "set", "sync", None, body)
             ELSE Single("preferences")

\* The write to the profile may fail: it is logged.
SyncLanguage(q, works) ==
    /\ At(q, "set", "sync")
    /\ held' = IF works THEN [held EXCEPT !.language = asking[q].body["language"]] ELSE held
    /\ told' = [told EXCEPT !.drifted = @ \/ ~works]
    /\ Answers(q)

-----------------------------------------------------------------------------
(* The profile: which of the fields updateUser takes are filled; three of them *)

Fields == {"bio", "country", "avatar"}

\* updateUser, by the user or an admin; an avatar goes to the media store first.
BeginProfile(q) ==
    \E fill, clear \in SUBSET (Fields \ {"avatar"}), upload \in BOOLEAN :
        /\ fill \cap clear = {}
        /\ Ask(q, "profile", "profile", IF upload THEN "upload" ELSE "write", None,
               [fill |-> IF upload THEN fill \cup {"avatar"} ELSE fill, clear |-> clear])
        /\ UNCHANGED <<held, told>>

AvatarUploaded(q) == At(q, "profile", "upload") /\ Goes(q, "write") /\ UNCHANGED <<held, told>>

\* It failed, or took ten seconds; or the write is refused: the e-mail is another's.
ProfileFails(q) ==
    asking[q].op = "profile" /\ Answers(q) /\ UNCHANGED <<held, told>>

\* Mutant: the document is written whole, as it was when the request came.
MutEdited(now, body) == [f \in Fields |-> f \in body.fill]

Edited(now, body) == [f \in Fields |-> f \in body.fill \/ (now[f] /\ f \notin body.clear)]

WriteProfile(q) ==
    /\ At(q, "profile", "write")
    /\ held' = Edited(held, asking[q].body)
    /\ told' = [f \in Fields |-> IF f \in asking[q].body.fill THEN TRUE
                                 ELSE IF f \in asking[q].body.clear THEN FALSE ELSE told[f]]
    /\ Answers(q)

-----------------------------------------------------------------------------
(* A new reel, or a duet or stitch of reel 0: the media store first, then the document *)

\* The clips a client sends with a stitch; the second ends before it starts.
Clips == {None, <<2, 1>>, <<1, 2>>}

\* createReel and createReelDuet look at the file, and the first at the description too.
BeginUpload(q, kind, of, clip) ==
    /\ kind # "stitch" => clip = None
    /\ Ask(q, "upload", "create", "upload", None, [kind |-> kind, of |-> of, clip |-> clip, n |-> asks + 1])
    /\ UNCHANGED <<held, told>>

VideoUploaded(q) ==
    /\ At(q, "create", "upload")
    /\ held' = [held EXCEPT !.store = @ \cup {asking[q].body.n}]
    /\ Goes(q, "validate") /\ UNCHANGED told

\* Mutant: the clip of a stitch is taken as it is.
MutAccepted(body) ==
    body.kind = "plain" \/ (body.kind \in {"duet", "stitch"} /\ body.of \in held.reels)

\* normalizeStitchClip
MakesSense(clip) == clip # None /\ clip[1] < clip[2]

\* isDuetType, the original and the clip; "solo" stands for a type that is neither.
Accepted(body) ==
    \/ body.kind = "plain"
    \/ body.kind = "duet" /\ body.of \in held.reels
    \/ body.kind = "stitch" /\ body.of \in held.reels /\ MakesSense(body.clip)

\* Reel.create; the counter of the original is in module Reels.
CreateReel(q) ==
    LET body == asking[q].body IN
    /\ At(q, "create", "validate") /\ Accepted(body)
    /\ held' = [held EXCEPT !.reels = @ \cup {body.n}]
    /\ told' = [told EXCEPT !.made = @ \cup {body}]
    /\ Answers(q)

\* What came with the video is refused, or the upload or the database fails: the video stays.
UploadRefused(q) ==
    /\ At(q, "create", "validate") \/ At(q, "create", "upload")
    /\ told' = [told EXCEPT !.refused = @ \cup {asking[q].body.n}]
    /\ Answers(q) /\ UNCHANGED held

-----------------------------------------------------------------------------
(* A bundle of courses: what it says it costs apart and how much it saves *)

Courses == 1..2

\* calculateDiscount, in hundredths of a percent.
CalculateDiscount(apart, price) ==
    [originalPrice |-> apart,
     discount |-> IF apart > 0 /\ price < apart
                  THEN (20000 * (apart - price) + apart) \div (2 * apart) ELSE 0]

Apart(courses) == SumFunctionOnSet(held.prices, courses)

\* createBundle: a course that is listed twice is found once, and so refused.
LoadCourses(q, ids, price) ==
    LET now == CalculateDiscount(Apart(Range(ids)), price) IN
    /\ held.bundle = None /\ ids # <<>> /\ Cardinality(Range(ids) \cap Courses) = Len(ids)
    /\ Ask(q, "bundle", "create", "create", None,
           [courses |-> Range(ids), price |-> price, version |-> 0,
            originalPrice |-> now.originalPrice, discount |-> now.discount])
    /\ UNCHANGED <<held, told>>

CreateBundle(q) ==
    /\ At(q, "create", "create") /\ held.bundle = None
    /\ held' = [held EXCEPT !.bundle = asking[q].body]
    /\ Answers(q) /\ UNCHANGED told

\* Mutant: a new price leaves what it saves as it was.
MutRecalculated(body) == "courses" \in DOMAIN body

Recalculated(body) == {"courses", "price"} \cap DOMAIN body # {}

\* updateBundle, by the author or an admin, loads the bundle and then the courses; a
\* body with neither courses nor price is assigned as it is.
LoadBundle(q, user, body) ==
    LET doc == held.bundle
        new == [f \in DOMAIN doc |-> IF f \in DOMAIN body THEN body[f] ELSE doc[f]]
        now == CalculateDiscount(Apart(new.courses), new.price)
    IN
    /\ doc # None /\ user \in {"author", "admin"} /\ new.courses \subseteq Courses
    /\ Ask(q, "bundle", "update", "save", [doc |-> doc, own |-> "discount" \in DOMAIN body],
           IF Recalculated(body)
           THEN [new EXCEPT !.originalPrice = now.originalPrice, !.discount = now.discount] ELSE new)
    /\ UNCHANGED <<held, told>>

\* save() sends the paths that changed; an array that was replaced goes only to the
\* version that was loaded, and raises it.
UpdateBundle(q) ==
    LET old == asking[q].copy.doc
        new == asking[q].body
        replaced == new.courses # old.courses
    IN
    /\ At(q, "update", "save")
    /\ IF replaced /\ held.bundle.version # old.version THEN UNCHANGED <<held, told>>
       ELSE /\ held' = [held EXCEPT !.bundle = [f \in DOMAIN new |->
                           IF f = "version" THEN IF replaced THEN @.version + 1 ELSE @.version
                           ELSE IF new[f] # old[f] THEN new[f] ELSE @[f]]]
            /\ told' = [told EXCEPT !.drifted = @ \/ held.bundle # old \/ asking[q].copy.own]
    /\ Answers(q)

\* updateCourse changes what a course costs.
Reprice(c, price) ==
    /\ Single("bundle") /\ held.prices[c] # price
    /\ held' = [held EXCEPT !.prices[c] = price]
    /\ told' = [told EXCEPT !.drifted = TRUE]

-----------------------------------------------------------------------------
(* Signing in with a wallet: challenges, and the ones this process remembers as used *)

ChallengeTimeout == 2
LastTick == 4       \* bound: how far the clock goes

Elapse ==
    /\ about = "signin" /\ held.clock < LastTick
    /\ held' = [held EXCEPT !.clock = @ + 1]
    /\ UNCHANGED <<about, told, asking, asks>>

\* buildChallenge: signed by the server, which keeps nothing of it.
BuildChallenge(m) == [n |-> asks, account |-> m, maxTime |-> held.clock + ChallengeTimeout]

\* getStellarChallenge hands it to the client.
GetStellarChallenge(m) ==
    /\ Single("signin")
    /\ held' = [held EXCEPT !.issued = @ \cup {BuildChallenge(m)}]
    /\ UNCHANGED told

\* readChallengeTx of the SDK checks the time bounds, both included.
InTime(c) == held.clock <= c.maxTime

\* Mutant: what is still good is forgotten.
MutUnexpired(consumed) == {c \in consumed : c.maxTime < held.clock}

\* pruneExpired
Unexpired(consumed) == {c \in consumed : c.maxTime > held.clock}

\* verifyChallenge up to its first await: the challenge is read, what is out of date is
\* forgotten, and a challenge that is remembered is refused.
ReadChallenge(q, c) ==
    /\ c \in held.issued /\ InTime(c)
    /\ held' = [held EXCEPT !.consumed = Unexpired(@)]
    /\ IF c \in Unexpired(held.consumed) THEN Single("signin") /\ UNCHANGED told
       ELSE /\ Ask(q, "signin", "verify", "account", None, [challenge |-> c, at |-> held.clock])
            /\ told' = [told EXCEPT !.raced = IF \E p \in Others(q) : asking[p].body.challenge = c
                                               THEN @ \cup {c} ELSE @]

\* The account is loaded, or is not found, and the signatures are checked against its
\* signers or its master key: they are good or not.
VerifySigned(q, good) ==
    /\ At(q, "verify", "account")
    /\ IF good
       THEN /\ held' = [held EXCEPT !.consumed = @ \cup {asking[q].body.challenge}]
            /\ Goes(q, "user")
       ELSE UNCHANGED held /\ Answers(q)
    /\ UNCHANGED told

\* verifyStellarChallenge: whose wallet it is gets a session, as after LogIn of module
\* Accounts; a wallet that is no one's gets none.
VerifyStellarChallenge(q, linked) ==
    /\ At(q, "verify", "user")
    /\ told' = IF linked THEN [told EXCEPT !.sessions = Append(@, asking[q].body)] ELSE told
    /\ Answers(q) /\ UNCHANGED held

\* The process restarts.
ForgetChallenges ==
    /\ Single("signin")  /\ \A q \in Requests : asking[q] = Idle
    /\ held' = [held EXCEPT !.consumed = {}]
    /\ told' = [told EXCEPT !.restarted = TRUE]

-----------------------------------------------------------------------------
(* The sockets of the payment gateway and the rooms they are in.  Payment 1 has a buyer
   and a creator, payment 2 is a donation of the buyer. *)

Sockets == 1..2
Payments == 1..2
Buyer == CHOOSE m \in Members : TRUE
PartiesOf(p) == IF p = 1 THEN Members ELSE {Buyer}

UserRoom(m) == <<"user", m>>
PaymentRoom(p) == <<"payment", p>>

\* authenticateSocket: the token is valid and its user exists; then she joins her room.
Connect(s, m) ==
    /\ Single("sockets") /\ held.user[s] = None
    /\ held' = [held EXCEPT !.user[s] = m, !.rooms[s] = {UserRoom(m)}]
    /\ UNCHANGED told

Disconnect(s) ==
    /\ about = "sockets" /\ held.user[s] \in Members
    /\ held' = [held EXCEPT !.user[s] = "gone", !.rooms[s] = {}]
    /\ UNCHANGED <<about, told, asking, asks>>

\* Mutant: whoever asks may follow.
MutIsParty(m, p) == TRUE

IsParty(m, p) == m \in PartiesOf(p)

\* handleSubscribe finds the payment by its id.  By its reference it does not: findById
\* casts the filter to an id, which throws.
LoadPayment(s, q, p) ==
    /\ held.user[s] \in Members
    /\ Ask(q, "sockets", "subscribe", "join", None, [socket |-> s, payment |-> p])
    /\ UNCHANGED <<held, told>>

\* A party joins; a socket that is gone joins nothing.
JoinPayment(q) ==
    LET s == asking[q].body.socket
        p == asking[q].body.payment
    IN
    /\ At(q, "subscribe", "join")
    /\ held' = IF held.user[s] \in Members /\ IsParty(held.user[s], p)
               THEN [held EXCEPT !.rooms[s] = @ \cup {PaymentRoom(p)}] ELSE held
    /\ Answers(q) /\ UNCHANGED told

\* handleUnsubscribe asks nothing.
Unsubscribe(s, p) ==
    /\ Single("sockets") /\ held.user[s] \in Members
    /\ held' = [held EXCEPT !.rooms[s] = @ \ {PaymentRoom(p)}]
    /\ UNCHANGED told

\* notifyPaymentStatus emits to one room after the other: how often a socket is told.
\* Nothing in the repository calls it yet.
TimesTold(s, p) ==
    Cardinality(held.rooms[s] \cap ({PaymentRoom(p)} \cup {UserRoom(m) : m \in PartiesOf(p)}))

-----------------------------------------------------------------------------
Init ==
    /\ asking = [q \in Requests |-> Idle] /\ asks = 0
    /\ \/ about = "space" /\ held = NewSpace
          /\ told = [members |-> {}, waiting |-> {}, overwrote |-> FALSE]
       \/ about = "recording" /\ held = [doc |-> NoRecording, assets |-> {1, 2}]
          /\ told = [begun |-> FALSE, stopped |-> FALSE, deleted |-> FALSE]
       \/ about = "reel" /\ held = [comments |-> {}, viewCount |-> 0, shareCount |-> 0]
          /\ told = [comments |-> {}, viewCount |-> 0, shareCount |-> 0]
       \/ about = "quiz" /\ held = [quiz |-> None, attempts |-> {}, lesson |-> FALSE]
          /\ told = [scored |-> {}, stopped |-> FALSE]
       \/ about = "preferences" /\ held = [stored |-> None, language |-> 0]
          /\ told = [last |-> Defaults, drifted |-> FALSE]
       \/ about = "profile" /\ held = [f \in Fields |-> FALSE] /\ told = held
       \/ about = "upload" /\ held = [store |-> {0}, reels |-> {0}]
          /\ told = [made |-> {}, refused |-> {}]
       \/ about = "bundle" /\ held = [prices |-> [c \in Courses |-> c], bundle |-> None]
          /\ told = [drifted |-> FALSE]
       \/ about = "signin" /\ held = [clock |-> 0, issued |-> {}, consumed |-> {}]
          /\ told = [sessions |-> <<>>, raced |-> {}, restarted |-> FALSE]
       \/ about = "sockets" /\ told = None
          /\ held = [user |-> [s \in Sockets |-> None], rooms |-> [s \in Sockets |-> {}]]

SpaceNext ==
    \/ \E l \in Lists, m \in Members : AddTo(l, m) \/ RemoveFrom(l, m)
    \/ \E q \in Requests : (about = "space" /\ LoadUpdate(q)) \/ UpdateSpace(q)
    \/ DeleteSpace

RecordingNext ==
    \/ \E asset \in 0..1 : StartRecording(asset)
    \/ \E q \in Requests :
        \/ about = "recording" /\ (LoadToDelete(q) \/ \E asset \in {0, 2} : LoadToFinalise(q, asset))
        \/ FinaliseRecording(q) \/ DeleteRecording(q) \/ DeleteStops(q)
        \/ \E works \in BOOLEAN : DestroyAsset(q, works)

ReelNext ==
    \/ \E m \in Members : AddComment(m)
    \/ about = "reel" /\ \E c \in held.comments :
          RemoveComment(c) \/ \E m \in Members \cup {None} : DeleteReelComment(c, m)
    \/ \E counter \in {"viewCount", "shareCount"} : Register(counter) \/ Increment(counter, 2)
    \/ \E q \in Requests : AddReelComment(q) \/ (about = "reel" /\ \E m \in Members : LoadReel(q, m))

QuizNext ==
    \/ about = "quiz" /\ \E user \in {"author", "other"}, draft \in Drafts :
        \/ \E threshold \in {50, 100, 101, None}, lesson \in BOOLEAN :
            CreateQuiz(user, draft, threshold, lesson)
        \/ \E threshold \in {100, 101, None} : UpdateQuiz(user, draft, threshold)
        \/ draft = <<>> /\ DeleteQuiz(user)
    \/ \E q \in Requests :
        \/ TakeQuiz(q) \/ SubmitAttempt(q) \/ QuizIsGone(q)
        \/ CreateAttempt(q) \/ CompleteLesson(q) \/ CompletionStops(q)

PreferencesNext == \E q \in Requests :
    \/ about = "preferences" /\ (LoadPreferences(q) \/ \E body \in Bodies : UpdatePreferences(q, body))
    \/ CreatePreferences(q)
    \/ \E works \in BOOLEAN : SyncLanguage(q, works)

ProfileNext == \E q \in Requests :
    BeginProfile(q) \/ AvatarUploaded(q) \/ WriteProfile(q) \/ ProfileFails(q)

UploadNext == \E q \in Requests :
    \/ VideoUploaded(q) \/ CreateReel(q) \/ UploadRefused(q)
    \/ about = "upload" /\ \E kind \in {"plain", "duet", "stitch", "solo"}, of \in {0, -1}, clip \in Clips :
        BeginUpload(q, kind, of, clip)

BundleNext ==
    \/ about = "bundle" /\ \E c \in Courses : Reprice(c, 3)
    \/ \E q \in Requests :
        \/ about = "bundle" /\
            \/ \E ids \in {<<1>>, <<1, 2>>, <<1, 1>>}, price \in 0..2 : LoadCourses(q, ids, price)
            \/ \E user \in {"author", "admin", "other"},
                  body \in {[price |-> 0], [price |-> 2], [courses |-> {1}], [courses |-> Courses],
                            [courses |-> {1, 3}], [discount |-> 5000]} : LoadBundle(q, user, body)
        \/ CreateBundle(q) \/ UpdateBundle(q)

SigninNext ==
    \/ Elapse \/ ForgetChallenges
    \/ \E m \in Members : GetStellarChallenge(m)
    \/ \E q \in Requests :
        \/ about = "signin" /\ \E c \in held.issued : ReadChallenge(q, c)
        \/ \E b \in BOOLEAN : VerifySigned(q, b) \/ VerifyStellarChallenge(q, b)

SocketsNext ==
    \/ \E s \in Sockets :
        \/ Disconnect(s) \/ \E m \in Members : Connect(s, m)
        \/ \E p \in Payments : Unsubscribe(s, p)
        \/ about = "sockets" /\ \E q \in Requests, p \in Payments : LoadPayment(s, q, p)
    \/ \E q \in Requests : JoinPayment(q)

Next ==
    \/ SpaceNext \/ RecordingNext \/ ReelNext \/ QuizNext \/ PreferencesNext \/ ProfileNext
    \/ UploadNext \/ BundleNext \/ SigninNext \/ SocketsNext

Spec == Init /\ [][Next]_roomVars

-----------------------------------------------------------------------------
Resting == \A q \in Requests : asking[q] = Idle

\* Who joined and did not leave is on the list, once, unless the host sent a list that
\* was made before it changed; and every way to ask says the same.
ListsKept ==
    /\ ~told.overwrote /\ held.exists => \A l \in Lists : OnList(l) = told[l]
    /\ \A l \in Lists : /\ CountOf(l) = Cardinality(OnList(l))
                        /\ \A m \in Members : IsOn(l, m) <=> m \in OnList(l)

\* At rest, a recording that is shown has its asset, unless a deletion stopped half-way;
\* what was deleted does not come back.
RecordingPlays ==
    /\ Resting /\ ~told.stopped /\ ListedRecording => held.doc.asset \in held.assets \cup {0}
    /\ told.deleted => ~held.doc.exists

\* No comment and no view is lost, and a comment that was removed stays removed.
ReelKept == held = told

\* An answer counts for the question its learner saw and for no other, however the author
\* edits meanwhile; who passes at 100 answered everything right; a review of unchanged
\* questions finds what was scored; a completed lesson was passed, and at rest a passed one
\* is completed unless the server stopped.
QuizKept ==
    /\ \A a \in told.scored :
         /\ a.score = Cardinality({i \in DOMAIN a.picks :
                         /\ a.seen[i] \in Range(a.quiz.questions)
                         /\ a.picks[i] = a.seen[i].correct})
         /\ a.passed /\ a.quiz.threshold = 100 => a.score = Len(a.quiz.questions)
         /\ held.quiz # None /\ held.quiz.questions = a.quiz.questions =>
                \E x \in held.attempts :
                    x.score = a.score /\ x.passed = a.passed /\ Cardinality(JudgedRight(x)) = a.score
    /\ held.lesson => \E a \in told.scored : a.passed /\ a.quiz.lesson
    /\ Resting /\ ~told.stopped /\ (\E a \in told.scored : a.passed /\ a.quiz.lesson) => held.lesson

\* Each preference is as its last accepted update said, whatever was created or updated
\* at once; at rest the profile has the same language, unless its write failed or two
\* updates of it overlapped.
PreferencesKept ==
    /\ held.stored # None => held.stored = told.last
    /\ held.stored = None => told.last = Defaults
    /\ Resting /\ ~told.drifted /\ told.last["language"] # 0 => held.language = told.last["language"]

\* An update touches the fields it names; one that failed touches none.
ProfileKept == held = told

\* A reel has a video of its own in the store, and a duet or stitch an original and a clip
\* that makes sense; a video without a reel is one of a request under way or refused.
UploadsKept ==
    /\ held.reels \subseteq held.store
    /\ \A b, c \in told.made : b.n = c.n => b = c
    /\ held.reels = {0} \cup {b.n : b \in told.made}
    /\ \A b \in told.made :
         /\ b.kind \in {"duet", "stitch"} => b.of \in held.reels \ {b.n}
         /\ b.kind = "stitch" => b.clip = <<1, 2>>
    /\ Resting => held.store \ held.reels \subseteq told.refused

\* What a bundle says of its price is so, unless a course was repriced since, two updates
\* overlapped, or its author sent the discount himself.
BundleTrue ==
    held.bundle # None /\ ~told.drifted =>
        LET now == CalculateDiscount(Apart(held.bundle.courses), held.bundle.price) IN
        held.bundle.originalPrice = now.originalPrice /\ held.bundle.discount = now.discount

\* A challenge starts one session, unless two requests verified it at once, the process
\* restarted, or it was used again at the very end of its time; what was used and could be
\* used again is remembered, and nothing else for longer than it has to be.
SigninSound ==
    /\ ~told.restarted => \A i, j \in DOMAIN told.sessions :
         LET s == told.sessions[i]
             t == told.sessions[j]
         IN  /\ s.challenge = t.challenge /\ s.challenge \notin told.raced
             /\ s.at < s.challenge.maxTime /\ t.at < t.challenge.maxTime
             => i = j
    /\ \A i \in DOMAIN told.sessions :
         LET s == told.sessions[i] IN
         /\ s.challenge \in held.issued /\ s.at <= s.challenge.maxTime
         /\ ~told.restarted /\ held.clock < s.challenge.maxTime => s.challenge \in held.consumed
    /\ held.consumed \subseteq held.issued

\* A socket is told of a payment when its user is a party to it and at no other time; and
\* whoever left has no room.
SocketsSound == \A s \in Sockets :
    /\ \A p \in Payments : TimesTold(s, p) > 0 <=> held.user[s] \in PartiesOf(p)
    /\ held.user[s] \notin Members => held.rooms[s] = {}

\* All of the above, for what the behaviour is about.
RoomsSound ==
    /\ about = "space" => ListsKept
    /\ about = "recording" => RecordingPlays
    /\ about = "reel" => ReelKept
    /\ about = "quiz" => QuizKept
    /\ about = "preferences" => PreferencesKept
    /\ about = "profile" => ProfileKept
    /\ about = "upload" => UploadsKept
    /\ about = "bundle" => BundleTrue
    /\ about = "signin" => SigninSound
    /\ about = "sockets" => SocketsSound

\* Not kept: an update of the host made from an older list takes people off it.
MembersStay ==
    about = "space" /\ held.exists => \A l \in Lists : OnList(l) = told[l]

\* Not kept: a question that is edited has a new id, so a review after the edit finds
\* nothing right of an attempt that passed.
ReviewAgrees == about = "quiz" /\ held.quiz # None =>
    \A x \in held.attempts : Cardinality(JudgedRight(x)) = x.score

\* Not kept: two requests that verify one challenge at once, or one that uses it a second
\* time in the last second of its time, when it is already forgotten, sign in twice.
SingleUse == about = "signin" /\ ~told.restarted => \A i, j \in DOMAIN told.sessions :
    told.sessions[i].challenge = told.sessions[j].challenge => i = j

\* Not kept: who follows a payment of hers is told of each change twice.
ToldOnce == about = "sockets" => \A s \in Sockets, p \in Payments : TimesTold(s, p) <= 1
=============================================================================
