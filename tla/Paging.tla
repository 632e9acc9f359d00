------------------------------- MODULE Paging -------------------------------
(***************************************************************************)
(* Reading a collection page by page while others write it: by cursor       *)
(* (mongo/utils/cursorPagination.js) or by offset, through the functions of *)
(* mongo/utils/pagination.js, a repository (mongo/base/BaseRepository.js),  *)
(* the helpers of the controllers (src/utils/pagination.js) or the search   *)
(* (src/services/search/searchService.js).  The writers are a repository's. *)
(*                                                                         *)
(* One reader asks for page after page of the rows whose value is in its    *)
(* base filter.  A row is its _id and the value of one more field, 0 for    *)
(* null, which sorts first and compares with nothing but null.              *)
(***************************************************************************)
EXTENDS Integers, FiniteSets, SequencesExt

CONSTANTS
    Ids,            \* _ids, in the order they are generated
    Values,         \* what the field may hold, 0 for null
    Late,           \* rows that do not exist from the start
    Filters,        \* base filters: sets of values
    Limits,         \* page sizes a client may send, 0 for none or nonsense
    DefaultLimit,   \* at least 1, at most MaxLimit
    MaxLimit,
    MaxWrites,      \* bound: writes while the reader is at work
    None

VARIABLES
    rows,       \* the collection: [Ids -> value, or None for no document]
    reader,     \* what it asks for, the next cursor or offset, and what it got
    steady,     \* rows listed all through the traversal, at one place
    quiet,      \* nothing was written since it began
    writes      \* counts the writes

pagingVars == <<rows, reader, steady, quiet, writes>>

\* resolveLimit and parsePagination.
ResolveLimit(raw) ==
    LET limit == IF raw < 1 THEN DefaultLimit ELSE raw
    IN IF limit > MaxLimit THEN MaxLimit ELSE limit

Listed(filter) == {r \in Ids : rows[r] # None /\ rows[r] \in filter}

\* The key of a row: its place in the order, and what a cursor to it holds.
Cursor(r) == [id |-> r, v |-> rows[r]]

-----------------------------------------------------------------------------
(* The order and the seek predicate *)

Below(a, b, field) ==
    IF field = "_id" THEN a.id < b.id ELSE a.v < b.v \/ (a.v = b.v /\ a.id < b.id)

\* Mutant: a backward page is not fetched nearest first.
MutBuildSort(a, b) ==
    IF reader.order = 1 THEN Below(a, b, reader.field) ELSE Below(b, a, reader.field)

\* buildSort: ascending unless exactly one of order and direction turns it.
BuildSort(a, b) ==
    IF (reader.order = 1) = reader.forward
    THEN Below(a, b, reader.field) ELSE Below(b, a, reader.field)

\* Mutant: no tiebreaker.
MutBuildCursorFilter(a, b) ==
    LET greater == (reader.order = 1) = reader.forward
        Op(x, y) == IF greater THEN y > x ELSE y < x
    IN IF reader.field = "_id" THEN Op(a.id, b.id)
       ELSE a.v # 0 /\ b.v # 0 /\ Op(a.v, b.v)

\* buildCursorFilter: strictly beyond the cursor a; a comparison with null, or of
\* null, selects nothing.
BuildCursorFilter(a, b) ==
    LET greater == (reader.order = 1) = reader.forward
        Op(x, y) == IF greater THEN y > x ELSE y < x
    IN IF reader.field = "_id" THEN Op(a.id, b.id)
       ELSE \/ a.v # 0 /\ b.v # 0 /\ Op(a.v, b.v)
            \/ a.v = b.v /\ Op(a.id, b.id)

\* The base filter and the seek predicate together (mergeFilter).
Matching(cursor) ==
    {r \in Listed(reader.filter) : cursor = None \/ BuildCursorFilter(cursor, Cursor(r))}

\* applyCursorFilter of the search: below the last row's _id, whatever the sort.
ApplyCursorFilter(cursor) ==
    {r \in Listed(reader.filter) : cursor = None \/ r < cursor.id}

\* A set in an order that Before tells: the i-th has i - 1 before it.
Ranked(set, Before(_, _)) ==
    [i \in 1..Cardinality(set) |->
       CHOOSE r \in set : Cardinality({q \in set : Before(q, r)}) = i - 1]

InOrder(set) == Ranked(set, LAMBDA r, q : BuildSort(Cursor(r), Cursor(q)))

Shorter(m, n) == IF m < n THEN m ELSE n

-----------------------------------------------------------------------------
(* The reader *)

Start(reading) ==
    /\ reader.pc = "idle"
    /\ reader' = reading
    /\ quiet' = TRUE
    /\ UNCHANGED <<rows, writes>>

Reading(mode, field, order, raw, filter) ==
    [pc |-> "reading", mode |-> mode, field |-> field, order |-> order, filter |-> filter,
     limit |-> ResolveLimit(raw), forward |-> TRUE, from |-> None, cursor |-> None,
     offset |-> 0, got |-> 0, meta |-> "none", repository |-> FALSE, pages |-> <<>>]

\* paginateCursor, from the beginning or on either side of a row the client has a
\* cursor of.
OpenCursor(field, order, raw, filter, at, forward) ==
    LET from == IF at = None THEN None ELSE Cursor(at)
    IN /\ IF at = None THEN forward ELSE at \in Listed(filter)
       /\ Start([Reading("cursor", field, order, raw, filter) EXCEPT
                  !.from = from, !.cursor = from, !.forward = forward])
       /\ steady' = Listed(filter)

\* BaseRepository.paginateCursor lists by _id, forward, from the beginning at first.
OpenRepositoryCursor(order, raw, filter) ==
    /\ Start([Reading("cursor", "_id", order, raw, filter) EXCEPT !.repository = TRUE])
    /\ steady' = Listed(filter)

\* searchCollections and searchEducators without a sort: by cursor from the beginning,
\* the newest first, or by how well a row matches the words asked for (its value).
\* A limit below 1 is 1, and none is DefaultLimit.
SearchCollections(field, raw, filter) ==
    /\ Start([Reading("search", field, -1, raw, filter) EXCEPT
              !.limit = IF raw < 0 THEN 1 ELSE @])
    /\ steady' = Listed(filter)

SearchEducators(field, raw, filter) == SearchCollections(field, raw, filter)

\* By offset from page 1; the client learns whether to go on from meta: the number of
\* rows, the number of pages, or whether the page is full.
OpenOffset(field, order, raw, filter, meta) ==
    /\ Start([Reading("offset", field, order, raw, filter) EXCEPT !.meta = meta])
    /\ steady' = Listed(filter)

\* paginateOffset without a count.
OpenUncounted(field, order, raw, filter) == OpenOffset(field, order, raw, filter, "full")

\* BaseRepository.paginate, with one.
Paginate(field, order, raw, filter) == OpenOffset(field, order, raw, filter, "total")

\* The search sorted by price or by rating, a page and one row more at a time.
SearchSorted(order, raw, filter) == OpenOffset("value", order, raw, filter, "extra")

\* The listings of the ledger entries of an educator, of a user's payments and of
\* her notifications, the latter two by age, the newest first.
GetTransactionHistory(field, order, raw, filter) == OpenOffset(field, order, raw, filter, "pages")
GetPayments(raw, filter) == OpenOffset("value", -1, raw, filter, "pages")
GetUserNotifications(raw, filter) == OpenOffset("value", -1, raw, filter, "pages")

\* Listings whose page number and size the controller takes through parsePagination:
\* reading groups, the moderation queue and its history, the log of moderators, and the
\* reels of a hashtag; and the transactions with an anchor, which it parses alike.
GetGroups(raw, filter) == OpenOffset("value", -1, raw, filter, "pages")
GetModerationQueue(raw, filter) == GetGroups(raw, filter)
GetModerationHistory(raw, filter) == GetGroups(raw, filter)
GetModerationLogs(raw, filter) == GetGroups(raw, filter)
GetReelsByHashtag(raw, filter) == GetGroups(raw, filter)
GetTransactions(raw, filter) == GetGroups(raw, filter)

\* Listings that clamp what they parse, a size below 1 to 1: reels, and the duets and
\* stitches of one, which tell whether there is more; deliveries of a webhook,
\* applications of educators and the audit log, which count pages; the courses of a
\* category, also by price; and what a user did, the oldest first.
OpenClamped(order, raw, filter, meta) ==
    /\ Start([Reading("offset", "value", order, raw, filter) EXCEPT
              !.limit = IF raw < 0 THEN 1 ELSE @, !.meta = meta])
    /\ steady' = Listed(filter)

GetReels(raw, filter) == OpenClamped(-1, raw, filter, "total")
ListReelDerivatives(raw, filter) == GetReels(raw, filter)
ListDeliveries(raw, filter) == OpenClamped(-1, raw, filter, "pages")
ListApplications(raw, filter) == ListDeliveries(raw, filter)
ListAudit(raw, filter) == ListDeliveries(raw, filter)
GetCategory(order, raw, filter) == OpenClamped(order, raw, filter, "pages")
GetUserJourney(raw, filter) == OpenClamped(1, raw, filter, "pages")

CursorDue ==
    /\ reader.pc = "reading" /\ reader.mode = "cursor"
    /\ reader.repository => reader.cursor = None

\* Mutant: the next cursor is that of the first row.
MutRead == /\ CursorDue
           /\ LET found == InOrder(Matching(reader.cursor))
                  page == SubSeq(found, 1, Shorter(reader.limit, Len(found)))
              IN reader' = [reader EXCEPT !.pages = @ \o page,
                   !.cursor = IF page = <<>> THEN @ ELSE Cursor(page[1]),
                   !.pc = IF Len(found) > reader.limit THEN "reading" ELSE "done"]
           /\ UNCHANGED <<rows, steady, quiet, writes>>

\* paginate: one row more than asked for tells whether there is another page; the
\* next cursor is that of the last row in the direction of travel.
Read ==
    /\ CursorDue
    /\ LET found == InOrder(Matching(reader.cursor))
           page == SubSeq(found, 1, Shorter(reader.limit, Len(found)))
       IN reader' = [reader EXCEPT
            !.pages = @ \o page,
            !.cursor = IF page = <<>> THEN @ ELSE Cursor(Last(page)),
            !.pc = IF Len(found) > reader.limit THEN "reading" ELSE "done"]
    /\ UNCHANGED <<rows, steady, quiet, writes>>

\* A repository's paginateCursor checks the cursor it was given with _decodeCursor,
\* which takes a bare ObjectId, while the one it gave out holds JSON.
Refuse ==
    /\ reader.pc = "reading" /\ reader.repository /\ reader.cursor # None
    /\ reader' = [reader EXCEPT !.pc = "refused"]
    /\ UNCHANGED <<rows, steady, quiet, writes>>

\* The sort of an offset page names one field: rows with equal values come in any
\* order, another one with each query.
Orders == {s \in SetToSeqs(Listed(reader.filter)) :
             \A i, j \in DOMAIN s : i < j /\ reader.field # "_id" =>
               IF reader.order = 1 THEN rows[s[i]] <= rows[s[j]] ELSE rows[s[i]] >= rows[s[j]]}

OffsetOrders ==
    IF reader.field = "_id" THEN {InOrder(Listed(reader.filter))} ELSE Orders

\* Mutant: the newest row comes last.
MutSearchOrders(set) ==
    {s \in SetToSeqs(set) : \A i, j \in DOMAIN s : i < j => rows[s[i]] >= rows[s[j]]}

\* getSortOption: by createdAt, which follows _id, or by score alone.
SearchOrders(set) ==
    {s \in SetToSeqs(set) : \A i, j \in DOMAIN s : i < j =>
        IF reader.field = "_id" THEN s[i] > s[j] ELSE rows[s[i]] >= rows[s[j]]}

\* searchModel: a page, and the cursor of its last row if there is one row more.
SearchModel ==
    /\ reader.pc = "reading" /\ reader.mode = "search"
    /\ \E found \in SearchOrders(ApplyCursorFilter(reader.cursor)) :
         LET page == SubSeq(found, 1, Shorter(reader.limit, Len(found)))
         IN reader' = [reader EXCEPT
              !.pages = @ \o page,
              !.cursor = IF page = <<>> THEN @ ELSE Cursor(Last(page)),
              !.pc = IF Len(found) > reader.limit THEN "reading" ELSE "done"]
    /\ UNCHANGED <<rows, steady, quiet, writes>>

\* Mutant: pages overlap by one row.
MutSkip(page) == reader.offset + (IF page = <<>> THEN 0 ELSE Len(page) - 1)

\* Where the next page starts: (page - 1) * limit.
Skip(page) == reader.offset + reader.limit

\* find: skip and limit.
ReadOffset ==
    /\ reader.pc = "reading" /\ reader.mode = "offset"
    /\ \E found \in OffsetOrders :
         LET page == SubSeq(found, reader.offset + 1,
                            Shorter(reader.offset + reader.limit, Len(found)))
         IN reader' = [reader EXCEPT !.pages = @ \o page, !.offset = Skip(page),
                                     !.got = Len(page),
                                     !.pc = CASE reader.meta # "extra" -> "counting"
                                              [] Len(found) > Skip(page) -> "reading"
                                              [] OTHER -> "done"]
    /\ UNCHANGED <<rows, steady, quiet, writes>>

\* countDocuments, which runs beside the find and sees the collection at another
\* moment; here the later of the two.  A full page goes on without a count.
HasNext ==
    LET total == Cardinality(Listed(reader.filter))
        start == reader.offset - reader.limit
    IN CASE reader.meta = "total" -> start + reader.got < total
         [] reader.meta = "pages" ->
              reader.offset \div reader.limit <
                (total + reader.limit - 1) \div reader.limit
         [] OTHER -> reader.got >= reader.limit

CountRows ==
    /\ reader.pc = "counting"
    /\ reader' = [reader EXCEPT !.pc = IF HasNext THEN "reading" ELSE "done"]
    /\ UNCHANGED <<rows, steady, quiet, writes>>

-----------------------------------------------------------------------------
(* The writers: BaseRepository *)

\* _resolveFilter: the documents that an id, or a filter, may name.
ResolveFilter == {{r} \cap Listed(Values) : r \in Ids} \cup {Listed(f) : f \in Filters}

\* One document that matches, the first the database finds.
Write(r, value) ==
    /\ reader.pc \in {"reading", "counting"} /\ writes < MaxWrites
    /\ rows' = [rows EXCEPT ![r] = value]
    /\ writes' = writes + 1 /\ quiet' = FALSE
    /\ UNCHANGED reader

\* create; a duplicate key is refused.
InsertRow(r, v) == rows[r] = None /\ Write(r, v) /\ UNCHANGED steady

\* delete; it throws if nothing matches.
DeleteRow(found) ==
    \E r \in found : Write(r, None) /\ steady' = steady \ {r}

\* update, and the flag of a soft delete, the field being the one of the filter.  A row
\* keeps its place unless the listing is sorted by the field.
ChangeRow(found, v) ==
    \E r \in found :
      /\ rows[r] # v /\ Write(r, v)
      /\ steady' = IF v \in reader.filter /\ reader.field = "_id" THEN steady
                   ELSE steady \ {r}

-----------------------------------------------------------------------------
(* QueryBuilder: calls that build a query, and calls that run it.  The order is by  *)
(* _id; exists with a field is hidden by the method of the same name that runs.     *)

Query == [filter |-> Values, sort |-> 1, skip |-> 0, limit |-> 0]

\* where, equals, gt, gte, lt, lte, in, nin and regex, each another operator.
Where(q, values) == [q EXCEPT !.filter = @ \cap values]

SortBy(q, order) == [q EXCEPT !.sort = order]

\* A negative number is ignored, and a limit of 0 is none.
LimitTo(q, n) == IF n >= 0 THEN [q EXCEPT !.limit = n] ELSE q
SkipOver(q, n) == IF n >= 0 THEN [q EXCEPT !.skip = n] ELSE q

\* Mutant: the first page starts after a page of rows.
MutPaginateQuery(q, page, perPage) ==
    LET n == IF perPage = 0 THEN DefaultLimit ELSE IF perPage < 1 THEN 1 ELSE perPage
    IN [q EXCEPT !.skip = page * n, !.limit = n]

\* paginate: page 1 and DefaultLimit rows for what is no number.
PaginateQuery(q, page, perPage) ==
    LET n == IF perPage = 0 THEN DefaultLimit ELSE IF perPage < 1 THEN 1 ELSE perPage
    IN [q EXCEPT !.skip = IF page < 1 THEN 0 ELSE (page - 1) * n, !.limit = n]

Chosen(q) == Ranked(Listed(q.filter), LAMBDA a, b : IF q.sort = 1 THEN a < b ELSE b < a)

Exec(q) ==
    LET found == Chosen(q)
        end == IF q.limit = 0 THEN Len(found) ELSE Shorter(q.skip + q.limit, Len(found))
    IN SubSeq(found, q.skip + 1, end)

\* one: a findOne of the conditions and the sort, without skip and limit.
One(q) == IF Chosen(q) = <<>> THEN None ELSE Chosen(q)[1]

\* count, exists and distinct, of the conditions alone.
CountQuery(q) == Cardinality(Listed(q.filter))
ExistsQuery(q) == \E r \in Ids : rows[r] # None /\ rows[r] \in q.filter
Distinct(q) == {rows[r] : r \in Listed(q.filter)}

-----------------------------------------------------------------------------
Init ==
    /\ \E f \in [Ids -> Values] : rows = [r \in Ids |-> IF r \in Late THEN None ELSE f[r]]
    /\ reader = [pc |-> "idle"]
    /\ steady = {} /\ quiet = TRUE /\ writes = 0

Open ==
    /\ reader.pc = "idle"
    /\ \E order \in {1, -1}, raw \in Limits, filter \in Filters :
           \/ OpenRepositoryCursor(order, raw, filter)
           \/ GetPayments(raw, filter) \/ GetUserNotifications(raw, filter)
           \/ GetGroups(raw, filter) \/ GetModerationQueue(raw, filter)
           \/ GetModerationHistory(raw, filter) \/ GetModerationLogs(raw, filter)
           \/ GetReelsByHashtag(raw, filter) \/ GetTransactions(raw, filter)
           \/ GetReels(raw, filter) \/ ListReelDerivatives(raw, filter)
           \/ ListDeliveries(raw, filter) \/ ListApplications(raw, filter)
           \/ ListAudit(raw, filter) \/ GetUserJourney(raw, filter)
           \/ GetCategory(order, raw, filter) \/ SearchSorted(order, raw, filter)
           \/ \E field \in {"_id", "score"} :
                SearchCollections(field, raw, filter) \/ SearchEducators(field, raw, filter)
           \/ \E field \in {"_id", "value"} :
                \/ OpenUncounted(field, order, raw, filter)
                \/ Paginate(field, order, raw, filter)
                \/ GetTransactionHistory(field, order, raw, filter)
                \/ \E at \in Ids \cup {None}, forward \in BOOLEAN :
                     OpenCursor(field, order, raw, filter, at, forward)

Next ==
    \/ Open \/ Read \/ Refuse \/ ReadOffset \/ CountRows \/ SearchModel
    \/ \E r \in Ids, v \in Values : InsertRow(r, v)
    \/ \E found \in ResolveFilter : DeleteRow(found) \/ \E v \in Values : ChangeRow(found, v)

Spec == Init /\ [][Next]_pagingVars

-----------------------------------------------------------------------------
Times(r) == Cardinality({i \in DOMAIN reader.pages : reader.pages[i] = r})

\* "A cursor is anchored to a concrete document, so concurrent writes never corrupt
\* the traversal": each row that stays where it is comes exactly once, in order,
\* from where the traversal began to where it ends.  Sorted by a field that may be
\* null this is not so, see README.
CursorComplete ==
    reader.pc = "done" /\ reader.mode \in {"cursor", "search"}
        /\ (reader.field = "_id" \/ (reader.field = "value" /\ 0 \notin reader.filter)) =>
      LET due == {r \in steady : reader.from = None \/ BuildCursorFilter(reader.from, Cursor(r))}
      IN /\ \A r \in due : Times(r) = 1
         /\ \A i, j \in DOMAIN reader.pages :
              i < j /\ {reader.pages[i], reader.pages[j]} \subseteq due =>
                BuildSort(Cursor(reader.pages[i]), Cursor(reader.pages[j]))

\* Sorted by _id no row comes twice, whatever is written meanwhile.
NoRepeats ==
    reader.pc # "idle" /\ reader.mode \in {"cursor", "search"} /\ reader.field = "_id" =>
      \A r \in Ids : Times(r) <= 1

\* By offset that holds as long as nobody writes, and sorted by _id only.
OffsetComplete ==
    reader.pc = "done" /\ reader.mode = "offset" /\ quiet /\ reader.field = "_id" =>
      reader.pages = InOrder(Listed(reader.filter))

\* What a chain of calls builds, its pages one after the other are the whole listing,
\* one is the first of it, and count, exists and distinct agree with it; on every
\* collection that a traversal may start from.
QuerySound ==
    reader.pc = "idle" => \A filter \in Filters, order \in {1, -1}, perPage \in Limits :
      LET q == SortBy(Where(Query, filter), order)
          Page(n) == Exec(PaginateQuery(q, n, perPage))
          Place(n, k) == (n - 1) * PaginateQuery(q, n, perPage).limit + k
      IN /\ \A n \in 1..Cardinality(Ids) : \A k \in DOMAIN Page(n) :
              Place(n, k) \in DOMAIN Exec(q) /\ Page(n)[k] = Exec(q)[Place(n, k)]
         /\ \A i \in DOMAIN Exec(q) :
              \E n \in 1..Cardinality(Ids) : \E k \in DOMAIN Page(n) : i = Place(n, k)
         /\ CountQuery(q) = Len(Exec(q))
         /\ ExistsQuery(q) = (One(q) # None)
         /\ One(q) # None => One(q) = Exec(q)[1]
         /\ \A n \in DOMAIN Exec(q) : Exec(LimitTo(SkipOver(q, n - 1), 1)) = <<Exec(q)[n]>>
         /\ Distinct(q) = {rows[r] : r \in ToSet(Exec(q))}

PagesComplete == CursorComplete /\ NoRepeats /\ OffsetComplete /\ QuerySound

\* A traversal by offset reaches every row that stays.  Not kept, see README.
OffsetAlways ==
    reader.pc = "done" /\ reader.mode = "offset" => \A r \in steady : Times(r) = 1

\* Searching for words "results won't repeat" (searchService.js).  Not kept, see README.
SearchNoRepeats ==
    reader.pc # "idle" /\ reader.mode = "search" => \A r \in Ids : Times(r) <= 1

\* A traversal sorted by a field reaches every row that stays.  Not kept, see README.
NullsListed ==
    reader.pc = "done" /\ reader.mode = "cursor" /\ reader.from = None =>
      \A r \in steady : Times(r) = 1
=============================================================================
