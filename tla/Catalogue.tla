------------------------------ MODULE Catalogue ------------------------------
(***************************************************************************)
(* What is sold and what is said of it: a course of                         *)
(* courseController.js with its learners, a book of bookController.js with   *)
(* its uploads; the lists of BookRepository and CourseRepository, of spaces,  *)
(* users, reels and their comments; the statistics of courseAnalyticsService, *)
(* contentMetricsService, educatorAnalyticsController, creator-stats-service  *)
(* and search-analytics-service, and the completion of a profile.            *)
(*                                                                         *)
(* A behaviour follows the course, the book or the lists.  A request loads   *)
(* the document, works on its copy and writes what it changed.              *)
(***************************************************************************)
EXTENDS Integers, SequencesExt

CONSTANTS
    Visits,         \* slots of requests
    Learners, Author,
    Reviews,        \* reviews the course and the book have
    Lessons,        \* [a lesson -> its section's and its own order]
    Taxonomy,       \* the categories, all of them active
    Unknown,        \* a name that is none of them
    Prices,         \* of the course and of the book
    Stock,          \* books for the lists: author, category, ref, price, rating, file
    MaxVisits,      \* bound: requests started
    LastDay,
    None

VARIABLES
    topic,        \* "course", "book" or "lists"
    courseDoc,    \* Course: title, category, price, status, dated, views, enrolled
    progressDoc,  \* CourseProgress of each learner: done, percent, completed (a day, or 0)
    bookDoc,      \* Book: price, thumbnail, text, audio, audioId, duration, reads
    shelf,        \* [Learners -> purchasedCourses and purchasedBooks: the day, or 0]
    visit,        \* what each request does, where it is and what it loaded
    begun, day,   \* requests started, and the current day
    counted,      \* history: views recorded
    stored,       \* the media store: the kind of each upload, in order
    served        \* history: what readers were given

catalogueVars == <<topic, courseDoc, progressDoc, bookDoc, shelf, visit, begun, day,
                   counted, stored, served>>
courseVars == <<bookDoc, stored, served, topic>>
bookVars == <<courseDoc, progressDoc, day, topic>>

Idle == [op |-> "none", at |-> "idle", by |-> None, read |-> None, work |-> None]
NoBook == [price |-> -1]     \* not created
Deleted == [price |-> -2]
BookExists == bookDoc \notin {NoBook, Deleted}

At(v, op, at) == visit[v].op = op /\ visit[v].at = at

Starts(v, op, at, by, read, work) ==
    /\ visit[v] = Idle /\ begun < MaxVisits
    /\ begun' = begun + 1
    /\ visit' = [visit EXCEPT ![v] = [op |-> op, at |-> at, by |-> by, read |-> read, work |-> work]]

Goes(v, at, work) ==
    /\ visit' = [visit EXCEPT ![v].at = at, ![v].work = work]
    /\ UNCHANGED begun

Answers(v) == visit' = [visit EXCEPT ![v] = Idle] /\ UNCHANGED begun

-----------------------------------------------------------------------------
(* The course *)

\* resolveActiveCategory: a value outside the taxonomy is refused when there is one.
Accepted(category) == category \in Taxonomy \/ Taxonomy = {}

\* createCourse inserts a draft.
NewCourse(price, category) ==
    [price |-> price, category |-> category, status |-> "draft", dated |-> FALSE, views |-> 0,
     enrolled |-> {}]

\* getCourses shows what is published, and everything to a query by creator.
Listed(byCreator) == byCreator \/ courseDoc.status = "published"

\* authorizeOwnership loads the course; the handler refuses or changes its copy.
EditCourse(v) ==
    /\ \/ courseDoc.status # "published" /\ Starts(v, "publish", "save", Author, courseDoc, None)
       \/ courseDoc.status # "draft" /\ Starts(v, "unpublish", "save", Author, courseDoc, None)
       \/ \E price \in Prices, category \in {Unknown} \cup Taxonomy :
            /\ Accepted(category)
            /\ Starts(v, "update", "save", Author, courseDoc, [price |-> price, category |-> category])
    /\ UNCHANGED <<courseVars, courseDoc, progressDoc, shelf, counted, day>>

\* save() writes only the paths that differ from what was loaded.
Saved(v, current, path) ==
    IF visit[v].work[path] = visit[v].read[path] THEN current ELSE visit[v].work[path]

\* Mutant: the date stays when a course is taken back.
MutSaveEdit(v) ==
    /\ visit[v].at = "save"
    /\ courseDoc' =
         CASE visit[v].op = "publish" -> [courseDoc EXCEPT !.status = "published", !.dated = TRUE]
           [] visit[v].op = "unpublish" -> [courseDoc EXCEPT !.status = "draft"]
           [] visit[v].op = "update" -> [courseDoc EXCEPT !.price = Saved(v, @, "price"),
                                                          !.category = Saved(v, @, "category")]
    /\ Answers(v)
    /\ UNCHANGED <<courseVars, progressDoc, shelf, counted, day>>

SaveEdit(v) ==
    /\ visit[v].at = "save"
    /\ courseDoc' =
         CASE visit[v].op = "publish" -> [courseDoc EXCEPT !.status = "published", !.dated = TRUE]
           [] visit[v].op = "unpublish" -> [courseDoc EXCEPT !.status = "draft", !.dated = FALSE]
           [] visit[v].op = "update" -> [courseDoc EXCEPT !.price = Saved(v, @, "price"),
                                                          !.category = Saved(v, @, "category")]
    /\ Answers(v)
    /\ UNCHANGED <<courseVars, progressDoc, shelf, counted, day>>

\* getCourseById answers, and the view is counted later, if the write succeeds.
GetCourseById(v) ==
    /\ Starts(v, "view", "count", None, courseDoc.views, None)
    /\ UNCHANGED <<courseVars, courseDoc, progressDoc, shelf, counted, day>>

\* Mutant: the count that was read is written back.
MutRecordCourseView(v) ==
    /\ At(v, "view", "count")
    /\ courseDoc' = [courseDoc EXCEPT !.views = visit[v].read + 1]
    /\ counted' = counted + 1
    /\ Answers(v)
    /\ UNCHANGED <<courseVars, progressDoc, shelf, day>>

RecordCourseView(v) ==
    /\ At(v, "view", "count")
    /\ courseDoc' = [courseDoc EXCEPT !.views = @ + 1]
    /\ counted' = counted + 1
    /\ Answers(v)
    /\ UNCHANGED <<courseVars, progressDoc, shelf, day>>

\* The count, or the learner's list, is not written; what was written before stays.
WriteFails(v) ==
    /\ visit[v].at \in {"count", "shelve"}
    /\ Answers(v)
    /\ UNCHANGED <<courseVars, courseDoc, progressDoc, shelf, counted, day>>

\* enrollInCourse: the course first, then the learner's own list.
Enroll(v, u) ==
    /\ u \notin courseDoc.enrolled
    /\ Starts(v, "enroll", "shelve", u, None, None)
    /\ courseDoc' = [courseDoc EXCEPT !.enrolled = @ \cup {u}]
    /\ UNCHANGED <<courseVars, progressDoc, shelf, counted, day>>

Shelve(v) ==
    /\ At(v, "enroll", "shelve")
    /\ LET u == visit[v].by IN
       shelf' = IF shelf[u].course = 0 THEN [shelf EXCEPT ![u].course = day] ELSE shelf
    /\ Answers(v)
    /\ UNCHANGED <<courseVars, courseDoc, progressDoc, counted, day>>

\* Math.round of the percentage.
Percent(part, whole) == (200 * part + whole) \div (2 * whole)

\* Mutant: whether it is complete is decided before the lesson is added.
MutLearn(u, lesson) ==
    LET before == progressDoc[u].done
        done == before \cup {lesson}
        percent == Percent(Cardinality(done), Cardinality(DOMAIN Lessons))
    IN /\ lesson \notin before
       /\ progressDoc' = [progressDoc EXCEPT ![u] =
                            [done |-> done, percent |-> percent,
                             completed |-> IF before = DOMAIN Lessons THEN day ELSE 0]]
       /\ UNCHANGED <<courseVars, courseDoc, shelf, visit, begun, counted, day>>

\* updateCourseProgress; overlapping ones of one learner are the subject of Progress.
Learn(u, lesson) ==
    LET done == progressDoc[u].done \cup {lesson}
        percent == Percent(Cardinality(done), Cardinality(DOMAIN Lessons))
    IN /\ lesson \notin progressDoc[u].done
       /\ progressDoc' = [progressDoc EXCEPT ![u] =
                            [done |-> done, percent |-> percent,
                             completed |-> IF percent >= 100 THEN day ELSE 0]]
       /\ UNCHANGED <<courseVars, courseDoc, shelf, visit, begun, counted, day>>

NextDay ==
    /\ day < LastDay /\ day' = day + 1
    /\ UNCHANGED <<courseVars, courseDoc, progressDoc, shelf, visit, begun, counted>>

-----------------------------------------------------------------------------
(* The book *)

\* createBook needs a thumbnail and a text or an audio file, whose contents were checked.
CreateBook(v) ==
    /\ bookDoc = NoBook /\ \A w \in Visits : visit[w].op # "create"
    /\ \E files \in {<<"raw">>, <<"audio">>, <<"raw", "audio">>}, price \in Prices, reads \in {0, 3} :
         Starts(v, "create", "upload", Author, None,
                [left |-> <<"image">> \o files, got |-> [image |-> 0, raw |-> 0, audio |-> 0], price |-> price, reads |-> reads])
    /\ UNCHANGED <<bookVars, bookDoc, shelf, counted, stored, served>>

\* One file to the media store; the next one starts when it is there.
Upload(v) ==
    /\ At(v, "create", "upload")
    /\ LET work == visit[v].work IN
       /\ work.left # <<>>
       /\ stored' = Append(stored, work.left[1])
       /\ Goes(v, "upload", [work EXCEPT !.left = Tail(@), !.got[work.left[1]] = Len(stored')])
    /\ UNCHANGED <<bookVars, bookDoc, shelf, counted, served>>

\* An upload, a validation or a write of the handler fails: what was uploaded stays.
BookRequestFails(v) ==
    /\ visit[v].at \in {"upload", "attach", "count"}
    /\ Answers(v)
    /\ UNCHANGED <<bookVars, bookDoc, shelf, counted, stored, served>>

\* Book.create: the read count is the request's.
InsertBook(v) ==
    /\ At(v, "create", "upload") /\ visit[v].work.left = <<>>
    /\ LET work == visit[v].work IN
       /\ bookDoc' = [price |-> work.price, thumbnail |-> work.got.image, text |-> work.got.raw,
                      audio |-> work.got.audio, audioId |-> work.got.audio,
                      reads |-> work.reads]
       /\ counted' = work.reads
    /\ Answers(v)
    /\ UNCHANGED <<bookVars, shelf, stored, served>>

\* uploadBookAudio: the book is loaded, the audio goes to the store.
UploadAudio(v) ==
    /\ BookExists
    /\ Starts(v, "audio", "attach", Author, None, Len(stored) + 1)
    /\ stored' = Append(stored, "audio")
    /\ UNCHANGED <<bookVars, bookDoc, shelf, counted, served>>

\* Mutant: the book that was loaded is written back, deleted or not.
MutAttachAudio(v) ==
    /\ At(v, "audio", "attach")
    /\ bookDoc' = IF BookExists THEN [bookDoc EXCEPT !.audio = visit[v].work]
                  ELSE [price |-> 0, thumbnail |-> 0, text |-> 0, audio |-> visit[v].work,
                        audioId |-> visit[v].work, reads |-> counted]
    /\ Answers(v)
    /\ UNCHANGED <<bookVars, shelf, counted, stored, served>>

\* attachAudio: one update of address and public id, of the book that is still there.
AttachAudio(v) ==
    /\ At(v, "audio", "attach")
    /\ bookDoc' = IF BookExists THEN [bookDoc EXCEPT !.audio = visit[v].work,
                                                     !.audioId = visit[v].work]
                  ELSE bookDoc
    /\ Answers(v)
    /\ UNCHANGED <<bookVars, shelf, counted, stored, served>>

DeleteBook ==
    /\ BookExists
    /\ bookDoc' = Deleted
    /\ UNCHANGED <<bookVars, shelf, visit, begun, counted, stored, served>>

GetBook(v) ==
    /\ BookExists
    /\ Starts(v, "read", "count", None, bookDoc.reads, None)
    /\ UNCHANGED <<bookVars, bookDoc, shelf, counted, stored, served>>

\* recordBookView; a book deleted meanwhile has nothing to count.
RecordBookView(v) ==
    /\ At(v, "read", "count")
    /\ IF BookExists
       THEN bookDoc' = [bookDoc EXCEPT !.reads = @ + 1] /\ counted' = counted + 1
       ELSE UNCHANGED <<bookDoc, counted>>
    /\ Answers(v)
    /\ UNCHANGED <<bookVars, shelf, stored, served>>

\* purchaseBook puts the book on the learner's shelf; a confirmed refund takes it off.
TakeBook(u) ==
    /\ BookExists /\ shelf[u].book = 0
    /\ shelf' = [shelf EXCEPT ![u].book = 1]
    /\ UNCHANGED <<bookVars, bookDoc, visit, begun, counted, stored, served>>

RevokeBook(u) ==
    /\ shelf[u].book # 0
    /\ shelf' = [shelf EXCEPT ![u].book = 0]
    /\ UNCHANGED <<bookVars, bookDoc, visit, begun, counted, stored, served>>

\* streamBookAudio and streamBookPreview load the book, and answer when it lacks the file.
OpenBook(v) ==
    /\ BookExists
    /\ \E by \in Learners \cup {Author, None}, kind \in {"raw", "audio"} :
         LET file == IF kind = "raw" THEN bookDoc.text ELSE bookDoc.audio IN
         /\ file # 0
         /\ Starts(v, "stream", "check", by, bookDoc,
                   [kind |-> kind, file |-> IF kind = "raw" THEN file ELSE bookDoc.audioId])
    /\ UNCHANGED <<bookVars, bookDoc, shelf, counted, stored, served>>

HasAccess(by, book) ==
    book.price = 0 \/ by = Author \/ (by \in Learners /\ shelf[by].book # 0)

\* The reader's shelf as it is when it is read; the signed address is of the loaded file.
Stream(v) ==
    /\ At(v, "stream", "check")
    /\ served' = IF HasAccess(visit[v].by, visit[v].read)
                 THEN served \cup {[kind |-> visit[v].work.kind, file |-> visit[v].work.file,
                                    address |-> IF visit[v].work.kind = "raw" THEN visit[v].read.text
                                                ELSE visit[v].read.audio]}
                 ELSE served
    /\ Answers(v)
    /\ UNCHANGED <<bookVars, bookDoc, shelf, counted, stored>>

-----------------------------------------------------------------------------
Init ==
    /\ topic \in {"course", "book", "lists"}
    /\ \E category \in {Unknown} \cup Taxonomy :
         Accepted(category) /\ courseDoc = NewCourse(0, category)
    /\ progressDoc = [u \in Learners |-> [done |-> {}, percent |-> 0, completed |-> 0]]
    /\ bookDoc = NoBook
    /\ shelf = [u \in Learners |-> [course |-> 0, book |-> 0]]
    /\ visit = [v \in Visits |-> Idle] /\ begun = 0 /\ day = 1
    /\ counted = 0 /\ stored = <<>> /\ served = {}

CourseNext ==
    \/ \E v \in Visits :
         \/ EditCourse(v) \/ SaveEdit(v) \/ GetCourseById(v) \/ RecordCourseView(v) \/ WriteFails(v)
         \/ Shelve(v) \/ \E u \in Learners : Enroll(v, u)
    \/ \E u \in Learners, lesson \in DOMAIN Lessons : Learn(u, lesson)
    \/ NextDay

BookNext ==
    \/ \E v \in Visits :
         \/ CreateBook(v) \/ Upload(v) \/ BookRequestFails(v) \/ InsertBook(v)
         \/ UploadAudio(v) \/ AttachAudio(v) \/ GetBook(v) \/ RecordBookView(v)
         \/ OpenBook(v) \/ Stream(v)
    \/ DeleteBook
    \/ \E u \in Learners : TakeBook(u) \/ RevokeBook(u)

Next == (topic = "course" /\ CourseNext) \/ (topic = "book" /\ BookNext)

Spec == Init /\ [][Next]_catalogueVars

-----------------------------------------------------------------------------
(* The statistics of a course.  Rates are hundredths of a per cent. *)

Rate(part, whole) == IF whole <= 0 THEN 0 ELSE (20000 * part + whole) \div (2 * whole)

SumOver(S, f(_)) == FoldSet(LAMBDA x, sum : f(x) + sum, 0, S)

\* Every filter of the reports is a range of days; 0 is an open end.
InRange(d, from, to) == d # 0 /\ d >= from /\ (to = 0 \/ d <= to)

\* The learners who have a CourseProgress.
Started == {u \in Learners : progressDoc[u].done # {}}

IsUserEnrolled(u) == u \in courseDoc.enrolled
CountEnrollments == Cardinality(courseDoc.enrolled)

\* countEnrollmentsInRange looks at the learners' lists, enrollmentsTotal at the course's.
Enrolments(from, to) ==
    IF from = 0 /\ to = 0 THEN CountEnrollments
    ELSE Cardinality({u \in Learners : InRange(shelf[u].course, from, to)})

CompletionsBetween(from, to) ==
    Cardinality({u \in Started : InRange(progressDoc[u].completed, from, to)})

ConversionRate(from, to) == Rate(Enrolments(from, to), courseDoc.views)

\* contentMetricsService's and educatorAnalyticsController's counts of the same.
RowCompletions ==
    Cardinality({u \in Started : progressDoc[u].completed # 0 \/ progressDoc[u].percent >= 100})
EducatorCompletions == Cardinality({u \in Started : progressDoc[u].percent > 99})

\* Sections by their order, and the lessons of each by theirs.
FlattenLessons ==
    SetToSortSeq(DOMAIN Lessons,
                 LAMBDA a, b : \/ Lessons[a].section < Lessons[b].section
                               \/ /\ Lessons[a].section = Lessons[b].section
                                  /\ Lessons[a].order < Lessons[b].order)

ReachedBy(lesson) == Cardinality({u \in Started : lesson \in progressDoc[u].done})

\* Mutant: a lesson more learners finished than the one before makes up for a loss.
MutDropOffAt(lessons, i) ==
    IF i = 1 THEN 0 ELSE ReachedBy(lessons[i - 1]) - ReachedBy(lessons[i])

DropOffAt(lessons, i) ==
    LET lost == ReachedBy(lessons[i - 1]) - ReachedBy(lessons[i])
    IN  IF i = 1 \/ lost < 0 THEN 0 ELSE lost

\* The first of the lessons that lose most.
BiggestDropOff(lessons) ==
    CHOOSE i \in 2..Len(lessons) :
        /\ \A j \in 2..Len(lessons) : DropOffAt(lessons, j) <= DropOffAt(lessons, i)
        /\ \A j \in 2..(i - 1) : DropOffAt(lessons, j) < DropOffAt(lessons, i)

AveragePercent(people) ==
    IF people = {} THEN 0
    ELSE Rate(SumOver(people, LAMBDA u : progressDoc[u].percent), 100 * Cardinality(people))

InteractionRate(views) ==
    IF views <= 0 \/ Reviews <= 0 THEN 0
    ELSE IF Rate(Reviews, views) > 10000 THEN 10000 ELSE Rate(Reviews, views)

EngagementScore(completed, interaction, average) ==
    LET score == (40 * completed + 30 * interaction + 30 * average + 50) \div 100
    IN  IF score > 10000 THEN 10000 ELSE score

\* _courseRow of the comparison of all content.
CourseRow ==
    LET completed == Rate(RowCompletions, Cardinality(courseDoc.enrolled)) IN
    [views |-> courseDoc.views, completions |-> RowCompletions, rate |-> completed,
     score |-> EngagementScore(completed, InteractionRate(courseDoc.views),
                               AveragePercent(Started))]

\* getCreatorOverview adds up what getCourseAnalytics says of each course.
Overview(from, to) ==
    [views |-> courseDoc.views, enrolments |-> Enrolments(from, to),
     completions |-> CompletionsBetween(from, to)]

\* The dashboard of creator-stats: without an enrolment in the period, those of all time.
DashboardEnrolments(from, to) ==
    LET listed == Cardinality({u \in Learners : InRange(shelf[u].course, from, to)})
    IN  IF listed = 0 THEN Cardinality(courseDoc.enrolled) ELSE listed

Days == 0..LastDay

-----------------------------------------------------------------------------
(* The lists.  A book of the Stock has an author, a category, the id of its
   category, a price, a rating, a read count and perhaps a file. *)

Newest == SetToSortSeq(DOMAIN Stock, LAMBDA a, b : Stock[a].created > Stock[b].created)
MostRead(chosen) == SortSeq(chosen, LAMBDA a, b : Stock[a].reads > Stock[b].reads)
Find(Holds(_)) == SelectSeq(Newest, LAMBDA b : Holds(Stock[b]))

\* Mutant: the pages before it are not all skipped.
MutSkipped(page, limit) == page * limit - limit - (IF page > 2 THEN 1 ELSE 0)

Skipped(page, limit) == (page - 1) * limit

\* getBooks, getCourses and _applyOptions with a page and a limit.
PageOf(list, page, limit) ==
    SubSeq(list, Skipped(page, limit) + 1, Min({Len(list), Skipped(page, limit) + limit}))
HasMore(list, page, limit) ==
    Skipped(page, limit) + Len(PageOf(list, page, limit)) < Len(list)

\* Following hasMore from the first page.
Browsed(list, limit) ==
    LET from[page \in 1..(Len(list) + 1)] ==
            PageOf(list, page, limit)
            \o (IF HasMore(list, page, limit) THEN from[page + 1] ELSE <<>>)
    IN  from[1]

\* A bound that is None is not asked for.
Within(price, lowest, highest) ==
    (lowest = None \/ price >= lowest) /\ (highest = None \/ price <= highest)

FindAvailable(freeOnly, lowest, highest) ==
    Find(LAMBDA b : b.file /\ IF freeOnly THEN b.price = 0 ELSE Within(b.price, lowest, highest))
FindByAuthor(author) == Find(LAMBDA b : b.author = author)
\* An id is matched with the reference, a name with the text.
FindByCategory(value, isId) == Find(LAMBDA b : IF isId THEN b.ref = value ELSE b.category = value)
FindByTags(tags) == Find(LAMBDA b : b.category \in tags)
FindByPurchaseHistory(ids) == SelectSeq(Newest, LAMBDA b : b \in ids)

\* Mutant: the tags are asked for as well as the category.
MutFilterBooks(author, category, tags, lowest, highest, rating) ==
    Find(LAMBDA b : /\ author \in {None, b.author} /\ category \in {None, b.category}
                    /\ (tags = {} \/ b.category \in tags)
                    /\ Within(b.price, lowest, highest) /\ b.rating >= rating)

\* Given tags take the place of a given category.
FilterBooks(author, category, tags, lowest, highest, rating) ==
    Find(LAMBDA b : /\ author \in {None, b.author}
                    /\ IF tags # {} THEN b.category \in tags ELSE category \in {None, b.category}
                    /\ Within(b.price, lowest, highest) /\ b.rating >= rating)

\* Without interests the most read, else the most read of their categories: ten.
Recommended(interests) ==
    LET all == MostRead(IF interests = {} THEN Newest ELSE FindByTags(interests))
    IN  SubSeq(all, 1, Min({10, Len(all)}))

-----------------------------------------------------------------------------
(* calculateProfileCompletion: which fields are filled, as shares of their weight *)

\* DEFAULT_PROFILE_FIELDS and what each weighs.
Weight == [avatar |-> 20, bio |-> 20, country |-> 10, interests |-> 15, language |-> 10,
           gender |-> 5, age |-> 5, stellarWallet |-> 10, twoFactor |-> 5]
Fields == DOMAIN Weight
WeightOf(set) == MapThenSumSet(LAMBDA f : Weight[f], set)

\* getUserCompletion leaves the second factor out for others who are no admins.
Evaluated(forOthers) == IF forOthers THEN Fields \ {"twoFactor"} ELSE Fields

\* Mutant: the percentage is not rounded but cut, of all the weights there are.
MutPercentage(filled, fields) == WeightOf(filled \cap fields)

\* Math.round of the earned share.
Percentage(filled, fields) ==
    (200 * WeightOf(filled \cap fields) + WeightOf(fields)) \div (2 * WeightOf(fields))

Level(percentage) ==
    CASE percentage >= 100 -> "Complete"
      [] percentage \in 70..99 -> "Advanced"
      [] percentage \in 35..69 -> "Intermediate"
      [] OTHER -> "Beginner"

\* The missing field of most weight.
NextSteps(filled, fields) ==
    {f \in fields \ filled : \A g \in fields \ filled : Weight[g] <= Weight[f]}

-----------------------------------------------------------------------------
(* SpaceRepository: what its finders select, of a row [host, category, price, status,
   date]; 0 stands for a criterion that is not given, and today is day 1. *)

SpaceStatuses == {"upcoming", "live", "ended"}

SpaceRows == [host : 1..2, category : 1..2, price : 0..2, status : SpaceStatuses, date : 0..2]

Has(r, status) == status = None \/ r.status = status

ByOwner(r, owner, status) == r.host = owner /\ Has(r, status)
ByCategory(r, category, status) == r.category = category /\ Has(r, status)
Public(r, status) ==
    r.price = 0 /\ IF status = None THEN r.status \in {"live", "upcoming"} ELSE Has(r, status)
Upcoming(r) == r.status = "upcoming" /\ r.date >= 1
LiveSpace(r) == r.status = "live"

\* Mutant: a bound of zero counts as none.
MutSpaceFilter(r, host, category, statuses, prices, dates) ==
    /\ host # 0 => r.host = host
    /\ category # 0 => r.category = category
    /\ statuses # {} => r.status \in statuses
    /\ prices[1] \notin {None, 0} => r.price >= prices[1]
    /\ prices[2] \notin {None, 0} => r.price <= prices[2]
    /\ dates[1] # None => r.date >= dates[1]
    /\ dates[2] # None => r.date <= dates[2]

SpaceFilter(r, host, category, statuses, prices, dates) ==
    /\ host # 0 => r.host = host
    /\ category # 0 => r.category = category
    /\ statuses # {} => r.status \in statuses
    /\ prices[1] # None => r.price >= prices[1]
    /\ prices[2] # None => r.price <= prices[2]
    /\ dates[1] # None => r.date >= dates[1]
    /\ dates[2] # None => r.date <= dates[2]

\* An explicit skip wins over the page; a page needs a limit.
SpaceSkip(skip, page, limit) ==
    IF skip # None THEN skip
    ELSE IF page # None /\ limit # None THEN ((IF page < 1 THEN 1 ELSE page) - 1) * limit ELSE 0

-----------------------------------------------------------------------------
(* UserRepository, of a row [role, active, verified, educator, wallet]; a wallet that was
   disconnected is null, and its key is missing either way. *)

UserRows == [role : {"student", "mentor", "admin"}, active : BOOLEAN, verified : BOOLEAN,
             educator : BOOLEAN, wallet : BOOLEAN]

ByRole(r, roles) == r.role \in roles /\ r.active
Educator(r) == r.role = "mentor" /\ r.active
VerifiedEducator(r) == r.role = "mentor" /\ r.active /\ r.educator
Admin(r) == r.role = "admin" /\ r.active
WithWallet(r) == r.wallet

\* getStatsByRole groups the active ones; a key that is missing is not equal to null, so
\* everyone counts as having a wallet.
StatsOf(rows, role) ==
    LET group == {r \in rows : r.active /\ r.role = role} IN
    [count |-> Cardinality(group), verified |-> Cardinality({r \in group : r.verified}),
     withWallet |-> Cardinality(group)]

-----------------------------------------------------------------------------
(* ReelRepository, of a row [views, likes, loves, comments, day] *)

ReelRows == [views : {0, 5}, likes : 0..1, loves : 0..1, comments : 0..1, day : 0..2]

\* Mutant: what is left of the window is not looked at.
MutInWindow(r, days) == r.day <= days

\* Created in the last days, counted back from day 2.
InWindow(r, days) == r.day >= 2 - days

Score(r) == r.views + 2 * r.likes + 3 * r.loves + 4 * r.comments
Outranks(a, b) == Score(a) > Score(b) \/ (Score(a) = Score(b) /\ a.day > b.day)

\* findTrending.
Trending(rows, days, limit) ==
    LET ranked == SetToSortSeq({r \in rows : InWindow(r, days)}, Outranks)
    IN  SubSeq(ranked, 1, IF limit < Len(ranked) THEN limit ELSE Len(ranked))

\* filter: the thresholds one after the other.
ReelFilter(r, minViews, minLikes, minComments) ==
    /\ minViews # None => r.views >= minViews
    /\ minLikes # None => r.likes >= minLikes
    /\ minComments # None => r.comments >= minComments

-----------------------------------------------------------------------------
(* Recommendations, the dashboard, and the results of a poll *)

Most == 5

\* Mutant: the rest is taken from everything.
MutRest(all, matching) == all

Rest(all, matching) == all \ Range(matching)

Firsts(set, n) ==
    LET s == SetToSortSeq(set, <) IN SubSeq(s, 1, IF n < Len(s) THEN n ELSE Len(s))

\* getRecommendations: at most five that match an interest, filled up with others.
RecommendedCourses(all, matching) ==
    LET first == Firsts(matching, Most)
    IN  first \o Firsts(Rest(all, first), Most - Len(first))

\* getLearningDashboard: everything that is not asked for as completed is in progress.
OnDashboard(percent, status) == IF status = "completed" THEN percent >= 100 ELSE percent < 100

\* getPollResults: the votes for each option and their share, to one decimal.
PollVotes(votes, option) == Cardinality({m \in DOMAIN votes : votes[m] = option})
Tenths(part, whole) == IF whole = 0 THEN 0 ELSE (2000 * part + whole) \div (2 * whole)

-----------------------------------------------------------------------------
(* What the searches of some days were: a log of [query, user, found, day], the query
   in lower case, user 0 for no one *)

Searched == [query : 1..2, user : 0..1, found : BOOLEAN, day : 1..2]

\* startDate and endDate, each where it is given; the type would be one more filter.
SearchedWithin(log, from, to) ==
    SelectSeq(log, LAMBDA e : (from # None => e.day >= from) /\ (to # None => e.day <= to))

Times(log, Test(_)) == Len(SelectSeq(log, Test))
Queries(log) == {log[i].query : i \in DOMAIN log}

\* getTopSearchQueries: one row for each query, most frequent first; the order of equal
\* counts is the database's, and here the smaller query first.
TopQueries(log) ==
    LET count(w) == Times(log, LAMBDA e : e.query = w)
        row(w) == [query |-> w, count |-> count(w),
                   users |-> Cardinality({log[i].user : i \in {j \in DOMAIN log : log[j].query = w}})]
    IN  SetToSortSeq({row(w) : w \in Queries(log)},
                     LAMBDA a, b : a.count > b.count \/ (a.count = b.count /\ a.query < b.query))

\* Mutant: the pages are counted from zero.
MutQueriesOnPage(rows, page, limit) ==
    SubSeq(rows, page * limit + 1,
           IF page * limit + limit < Len(rows) THEN page * limit + limit ELSE Len(rows))

QueriesOnPage(rows, page, limit) ==
    SubSeq(rows, (page - 1) * limit + 1, IF page * limit < Len(rows) THEN page * limit ELSE Len(rows))

PagesOfQueries(rows, limit) == (Len(rows) + limit - 1) \div limit

\* getZeroResultSearches
ZeroResults(log) == TopQueries(SelectSeq(log, LAMBDA e : ~e.found))

\* getSearchSummary; the rate is in hundredths of a percent.
Summary(log) ==
    LET zero == Times(log, LAMBDA e : ~e.found) IN
    [total |-> Len(log), zero |-> zero, found |-> Times(log, LAMBDA e : e.found),
     queries |-> Cardinality(Queries(log)),
     rate |-> IF log = <<>> THEN 0 ELSE Percent(100 * zero, Len(log))]

\* getSearchTrends: one row for each day that has a search.
TrendOf(log, date) ==
    [total |-> Times(log, LAMBDA e : e.day = date),
     zero |-> Times(log, LAMBDA e : e.day = date /\ ~e.found)]

-----------------------------------------------------------------------------
(* The comments of a reel: each its number and author *)

\* getReelComments: newest first, one page, and whether there is more.
CommentPage(comments, page, limit) ==
    LET all == SetToSortSeq(comments, LAMBDA a, b : a.n > b.n)
        skip == (page - 1) * limit
    IN  SubSeq(all, skip + 1, IF skip + limit < Len(all) THEN skip + limit ELSE Len(all))
MoreComments(comments, page, limit) ==
    (page - 1) * limit + Len(CommentPage(comments, page, limit)) < Cardinality(comments)

-----------------------------------------------------------------------------
(* Properties *)

\* A course has a publication date while the public list shows it.
PublishedIsDated == Listed(FALSE) <=> courseDoc.dated

\* No view is lost or counted twice, however requests overlap.
ViewsKept ==
    /\ topic = "course" => courseDoc.views = counted
    /\ BookExists => bookDoc.reads = counted

\* The reports agree on who finished the course, however they ask; those who finished
\* in each part of a period are those who finished in it.
CompletionsAgree ==
    /\ CompletionsBetween(0, 0) = RowCompletions /\ RowCompletions = EducatorCompletions
    /\ \A d \in 1..(LastDay - 1) :
         CompletionsBetween(0, d) + CompletionsBetween(d + 1, 0) = CompletionsBetween(0, 0)

\* A learner whose list has the course is among the course's, so the enrolments of the
\* parts of a period are never more than the total; and the dashboard shows none only
\* when there are none at all.
EnrolmentsAgree ==
    /\ \A u \in Learners : shelf[u].course # 0 => IsUserEnrolled(u)
    /\ \A d \in 1..LastDay :
         Enrolments(1, d) + Overview(d + 1, LastDay).enrolments <= Enrolments(0, 0)
    /\ \A from, to \in Days : DashboardEnrolments(from, to) = 0 => courseDoc.enrolled = {}

\* The drop-offs account for every learner lost between the first lesson and any later
\* one, and exactly when no lesson gained; the biggest is where most were lost.
DropOffSound ==
    LET lessons == FlattenLessons
        lost(i) == SumOver(2..i, LAMBDA j : DropOffAt(lessons, j))
    IN /\ \A i \in 2..Len(lessons) :
            /\ lost(i) >= ReachedBy(lessons[1]) - ReachedBy(lessons[i])
            /\ (\A j \in 2..i : ReachedBy(lessons[j]) <= ReachedBy(lessons[j - 1]))
                 => lost(i) = ReachedBy(lessons[1]) - ReachedBy(lessons[i])
            /\ lost(i) <= Len(lessons) * DropOffAt(lessons, BiggestDropOff(lessons))
       /\ CourseRow.score <= 10000 /\ AveragePercent(Started) <= 10000

\* A book that is listed has a picture and something to read or hear, all of it in the
\* store and of its kind; the address of the audio and the id it is signed with are of
\* one upload; and readers are given a file of the kind they asked for.
BookWhole ==
    /\ BookExists =>
         /\ bookDoc.thumbnail # 0 /\ stored[bookDoc.thumbnail] = "image"
         /\ bookDoc.text # 0 \/ bookDoc.audio # 0
         /\ bookDoc.text # 0 => stored[bookDoc.text] = "raw"
         /\ bookDoc.audio # 0 => stored[bookDoc.audio] = "audio"
         /\ bookDoc.audioId = bookDoc.audio
    /\ \A s \in served : s.file # 0 /\ s.file = s.address /\ stored[s.file] = s.kind

\* Following hasMore lists everything once and in order, with any page size; the
\* finders agree where they ask the same; recommendations are the most read there are.
ListsSound ==
    LET categories == {Stock[b].category : b \in DOMAIN Stock}
        refs == {Stock[b].ref : b \in DOMAIN Stock}
        authors == {Stock[b].author : b \in DOMAIN Stock}
        prices == {Stock[b].price : b \in DOMAIN Stock}
    IN /\ \A limit \in 1..(Len(Newest) + 1), tags \in SUBSET categories :
            Browsed(FindByTags(tags), limit) = FindByTags(tags)
       /\ \A c \in categories, tags \in SUBSET categories, low, high \in prices \cup {None} :
            /\ FilterBooks(None, None, {c}, None, None, 0) = FindByCategory(c, FALSE)
            /\ ToSet(FilterBooks(None, c, tags, low, high, 0))
                 \subseteq ToSet(IF tags = {} THEN FindByCategory(c, FALSE) ELSE FindByTags(tags))
            /\ tags # {} => FilterBooks(None, c, tags, low, high, 0)
                              = FilterBooks(None, None, tags, low, high, 0)
            /\ ToSet(FindAvailable(FALSE, low, high))
                 \subseteq ToSet(FilterBooks(None, None, {}, low, high, 0))
            /\ FindAvailable(TRUE, low, high) = FindAvailable(FALSE, 0, 0)
       /\ UNION {ToSet(FindByCategory(r, TRUE)) : r \in refs} = DOMAIN Stock
       /\ \A a \in authors :
            FindByAuthor(a) = FindByPurchaseHistory({b \in DOMAIN Stock : Stock[b].author = a})
       /\ \A tags \in SUBSET categories, b \in DOMAIN Stock :
            \/ b \in ToSet(Recommended(tags))
            \/ tags # {} /\ Stock[b].category \notin tags
            \/ \A r \in ToSet(Recommended(tags)) : Stock[r].reads >= Stock[b].reads

\* Filling a field never lowers the percentage, it is complete when nothing is missing and
\* only then, and without the second factor others see at least what a user without it
\* sees of herself.
CompletionSound == \A filled \in SUBSET Fields :
    LET own == Percentage(filled, Fields)
        public == Percentage(filled, Evaluated(TRUE))
    IN /\ \A f \in Fields : /\ Percentage(filled \cup {f}, Fields) >= own
                            /\ Percentage(filled \cup {f}, Evaluated(TRUE)) >= public
       /\ Level(own) = "Complete" <=> filled = Fields
       /\ Level(public) = "Complete" <=> Evaluated(TRUE) \subseteq filled
       /\ NextSteps(filled, Fields) = {} <=> Level(own) = "Complete"
       /\ IF "twoFactor" \in filled THEN own >= public ELSE public >= own

\* The finders of spaces agree with the general filter, and of users with each other.
FindersAgree ==
    /\ \A r \in SpaceRows :
         LET filter(host, category, statuses, prices) ==
               SpaceFilter(r, host, category, statuses, prices, <<None, None>>)
         IN /\ \A o \in 1..2 : /\ ByOwner(r, o, None) <=> filter(o, 0, {}, <<None, None>>)
                               /\ ByCategory(r, o, "live") <=> filter(0, o, {"live"}, <<None, None>>)
            /\ Public(r, None) <=> filter(0, 0, {"live", "upcoming"}, <<None, 0>>)
            /\ Upcoming(r) <=> SpaceFilter(r, 0, 0, {"upcoming"}, <<None, None>>, <<1, None>>)
            /\ ~(Upcoming(r) /\ LiveSpace(r))
    /\ \A r \in UserRows :
         /\ Educator(r) <=> ByRole(r, {"mentor"})
         /\ Admin(r) <=> ByRole(r, {"admin"})
         /\ VerifiedEducator(r) => Educator(r)
    /\ \A role \in {"student", "mentor", "admin"} :
         LET stats == StatsOf(UserRows, role) IN
         /\ stats.count = Cardinality({r \in UserRows : ByRole(r, {role})})
         /\ stats.verified <= stats.count
    /\ \A page \in 0..3, limit \in 1..3 :
         SpaceSkip(None, page + 1, limit) =
             SpaceSkip(None, page, limit) + (IF page = 0 THEN 0 ELSE limit)

\* What is trending is of the window, in order, and nothing left out outranks it.
TrendingSound ==
    \A a, b, c \in {r \in ReelRows : r.views = 5 \/ r.likes = 1}, limit \in 1..2 :
        LET rows == {a, b, c}
            shown == Trending(rows, 1, limit)
            window == {r \in rows : r.day >= 1}
        IN /\ ToSet(shown) \subseteq window
           /\ \A i \in 1..(Len(shown) - 1) : ~Outranks(shown[i + 1], shown[i])
           /\ \A r \in window \ ToSet(shown) :
                Len(shown) = limit /\ \A i \in 1..Len(shown) : ~Outranks(r, shown[i])

\* Five different things or everything there is; something that matches no interest only
\* when everything that does is there.  Each course is on one of the two dashboards.
RecommendationsSound ==
    /\ \A matching \in SUBSET (1..7) :
         LET shown == RecommendedCourses(1..7, matching) IN
         /\ Len(shown) = Most /\ IsInjective(shown)
         /\ ToSet(shown) \subseteq matching \/ matching \subseteq ToSet(shown)
    /\ \A percent \in 0..101 :
         OnDashboard(percent, "completed") <=> ~OnDashboard(percent, "in-progress")

\* The votes of a poll add up, and their shares to a hundred but for the rounding.
PollSound == \A n \in 0..7, first, second \in 0..7 :
    first + second <= n =>
        LET votes == [i \in 1..n |-> IF i <= first THEN 0 ELSE IF i <= first + second THEN 1 ELSE 2]
            shares == [o \in 0..2 |-> Tenths(PollVotes(votes, o), n)]
        IN /\ PollVotes(votes, 0) + PollVotes(votes, 1) + PollVotes(votes, 2) = n
           /\ n > 0 => shares[0] + shares[1] + shares[2] \in 999..1001

\* The reports on searches agree: each search is in one row of the top queries, in one day of
\* the trends and in one of the two counts of the summary; the pages show every row once
\* when no two counts are equal.
SearchesAgree ==
    \A n \in 0..3 : \A all \in [1..n -> Searched] : \A from \in {None, 2} :
        LET log == SearchedWithin(all, from, None)
            top == TopQueries(log)
            none == ZeroResults(log)
            summary == Summary(log)
            countOf(rows) == MapThenSumSet(LAMBDA i : rows[i].count, DOMAIN rows)
        IN /\ countOf(top) = summary.total /\ countOf(none) = summary.zero
           /\ summary.zero + summary.found = summary.total
           /\ Len(top) = summary.queries /\ Len(none) <= Len(top)
           /\ MapThenSumSet(LAMBDA d : TrendOf(log, d).total, 1..2) = summary.total
           /\ MapThenSumSet(LAMBDA d : TrendOf(log, d).zero, 1..2) = summary.zero
           /\ summary.rate = 10000 <=> log # <<>> /\ none # <<>> /\ summary.found = 0
           /\ IsInjective([i \in DOMAIN top |-> top[i].count]) =>
                \A limit \in 1..2 :
                    FlattenSeq([p \in 1..PagesOfQueries(top, limit) |-> QueriesOnPage(top, p, limit)]) = top

\* The pages of the comments of a reel show every comment once.
CommentsPaged ==
    \A comments \in SUBSET [n : 1..3, by : 1..1] : \A limit \in 1..2 :
        LET pages == {p \in 1..4 : CommentPage(comments, p, limit) # <<>>} IN
        /\ UNION {ToSet(CommentPage(comments, p, limit)) : p \in pages} = comments
        /\ MapThenSumSet(LAMBDA p : Len(CommentPage(comments, p, limit)), pages)
             = Cardinality(comments)
        /\ \A p \in pages : MoreComments(comments, p, limit) <=> p + 1 \in pages

CatalogueSound ==
    /\ topic = "course" => PublishedIsDated /\ CompletionsAgree /\ EnrolmentsAgree /\ DropOffSound
    /\ topic = "book" => BookWhole
    /\ topic = "lists" =>
         /\ ListsSound /\ CompletionSound /\ FindersAgree /\ TrendingSound
         /\ RecommendationsSound /\ PollSound /\ SearchesAgree /\ CommentsPaged
    /\ ViewsKept

\* Not kept: withWallet of the statistics counts who has one.
WalletsCounted ==
    StatsOf(UserRows, "student").withWallet =
        Cardinality({r \in UserRows : ByRole(r, {"student"}) /\ WithWallet(r)})
=============================================================================
