------------------------------- MODULE Reviews -------------------------------
(***************************************************************************)
(* The reviews kept inside one course or book                              *)
(* (src/controllers/reviewController.js, src/utils/reviewStats.js,         *)
(* src/utils/reviewAuth.js).                                               *)
(*                                                                         *)
(* A handler loads the item, changes its reviews, recomputes the totals of *)
(* what it loaded and saves the item.  Mongoose sends a new review as a    *)
(* push, which raises the version and waits for none; an edited one by its *)
(* position, to the version that was loaded; and the array a review was    *)
(* spliced from whole, to that version, which it raises.  A total is sent  *)
(* when it differs from the one loaded.  Comments are left out.            *)
(***************************************************************************)
EXTENDS Integers, FiniteSets, FiniteSetsExt

CONSTANTS
    Users,          \* people who bought the item, or made it
    Ratings,        \* ratings given, of 1..5
    Requests,       \* slots of requests handled at once
    MaxRequests,    \* bound: requests started
    None

VARIABLES
    item,           \* reviews, numReviews, rating and version
    req,            \* each slot: the operation, its review and its document
    started         \* requests started so far, the source of new ids

vars == <<item, req, started>>

Idle == [op |-> "idle", review |-> None, doc |-> None]

IdsOf(reviews) == {v.id : v \in reviews}
Rounded(n, d) == (2 * n + d) \div (2 * d)

\* computeReviewStats: the mean in tenths.
ComputeStats(reviews) ==
    [num |-> Cardinality(reviews),
     rating |-> IF reviews = {} THEN 0
                ELSE Rounded(10 * MapThenSumSet(LAMBDA v : v.rating, reviews), Cardinality(reviews))]

\* The fields that differ from the document are set.
Totals(reviews, doc) ==
    LET stats == ComputeStats(reviews)
    IN  [num |-> IF stats.num # doc.stats.num THEN stats.num ELSE item.stats.num,
         rating |-> IF stats.rating # doc.stats.rating THEN stats.rating ELSE item.stats.rating]

Starts(r, op, review) ==
    /\ req[r] = Idle /\ started < MaxRequests
    /\ started' = started + 1
    /\ req' = [req EXCEPT ![r] = [op |-> op, review |-> review, doc |-> item]]
    /\ UNCHANGED item
Answers(r) == req' = [req EXCEPT ![r] = Idle] /\ UNCHANGED started

-----------------------------------------------------------------------------
\* createReviewHandler loads the item and finds no review of the user in it.
LoadToAdd(r) ==
    \E u \in Users, s \in Ratings :
        /\ \A v \in item.reviews : v.by # u
        /\ Starts(r, "add", [id |-> started + 1, by |-> u, rating |-> s])

Add(r) ==
    /\ req[r].op = "add"
    /\ LET doc == req[r].doc
           v == req[r].review
       IN  item' = [reviews |-> item.reviews \cup {v}, version |-> item.version + 1,
                    stats |-> Totals(doc.reviews \cup {v}, doc)]
    /\ Answers(r)

\* updateReviewHandler finds the review to edit.
LoadToEdit(r) ==
    \E v \in item.reviews, s \in Ratings : v.rating # s /\ Starts(r, "edit", [v EXCEPT !.rating = s])

\* A version that is not the loaded one answers 409.
Edit(r) ==
    /\ req[r].op = "edit"
    /\ LET doc == req[r].doc
           v == req[r].review
           Edited(reviews) == {w \in reviews : w.id # v.id} \cup {v}
       IN  item' = IF doc.version # item.version THEN item
                   ELSE [item EXCEPT !.reviews = Edited(@), !.stats = Totals(Edited(doc.reviews), doc)]
    /\ Answers(r)

\* deleteReviewHandler finds the review to splice.
LoadToDelete(r) == \E v \in item.reviews : Starts(r, "delete", v)

\* Mutant: the array is sent to any version.
MutDelete(r) ==
    /\ req[r].op = "delete"
    /\ LET rest == {v \in req[r].doc.reviews : v.id # req[r].review.id}
       IN  item' = [reviews |-> rest, version |-> item.version + 1,
                    stats |-> Totals(rest, req[r].doc)]
    /\ Answers(r)

Delete(r) ==
    /\ req[r].op = "delete"
    /\ LET rest == {v \in req[r].doc.reviews : v.id # req[r].review.id}
       IN  item' = IF req[r].doc.version # item.version THEN item
                   ELSE [reviews |-> rest, version |-> item.version + 1,
                         stats |-> Totals(rest, req[r].doc)]
    /\ Answers(r)

Init ==
    /\ item = [reviews |-> {}, stats |-> ComputeStats({}), version |-> 0]
    /\ req = [r \in Requests |-> Idle]
    /\ started = 0

Next == \E r \in Requests :
            \/ LoadToAdd(r) \/ Add(r) \/ LoadToEdit(r) \/ Edit(r) \/ LoadToDelete(r) \/ Delete(r)

-----------------------------------------------------------------------------
\* Only the request to delete a review takes it out of the item, and it takes
\* out no other; nothing but an addition of its own puts one in; and a rating
\* is always one its item was given.
Deleting(i) == \E r \in Requests : req[r].op = "delete" /\ req[r].review.id = i /\ req'[r] = Idle
Adding(i) == \E r \in Requests : req[r].op = "add" /\ req[r].review.id = i /\ req'[r] = Idle
ReviewsStep ==
    /\ \A i \in IdsOf(item.reviews) \ IdsOf(item'.reviews) : Deleting(i)
    /\ \A i \in IdsOf(item'.reviews) \ IdsOf(item.reviews) : Adding(i)
    /\ Cardinality(IdsOf(item'.reviews)) = Cardinality(item'.reviews)

\* Not kept, see README:
\* the totals are those of the reviews,
TotalsMatch == item.stats = ComputeStats(item.reviews)
\* a user has one review,
OnePerUser == \A v, w \in item.reviews : v.by = w.by => v = w
\* an edit that was answered with success stays.
EditsStay ==
    [][\A v \in item.reviews, w \in item'.reviews :
          v.id = w.id /\ v # w =>
              \E r \in Requests : req[r].op = "edit" /\ req[r].review = w /\ req'[r] = Idle]_vars
=============================================================================
