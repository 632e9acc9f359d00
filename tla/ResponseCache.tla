---------------------------- MODULE ResponseCache ---------------------------
(***************************************************************************)
(* The cache in front of the read routes (src/utils/cache.js,              *)
(* src/middlewares/cache.js): one key and the row it is computed from.  A  *)
(* reader that misses computes its answer, answers, and stores it without  *)
(* waiting; a writer changes the row and then deletes the keys that match  *)
(* its pattern, which it lists first.  Every Redis call is skipped while   *)
(* Redis is away.  An answer is stored whatever its status is.             *)
(***************************************************************************)
EXTENDS Integers

CONSTANTS
    Readers,        \* GET requests
    Writers,        \* POST, PUT and DELETE requests
    MaxWrites,      \* bound: changes of the row
    None

VARIABLES
    row,            \* the row's version; 0 while it does not exist
    entry,          \* what Redis holds under the key, or None
    ready,          \* isRedisReady()
    reader,         \* each reader: Idle, Missed, or the answer to store
    writer          \* each writer: where it is, and whether its listing had the key

vars == <<row, entry, ready, reader, writer>>

Idle == -2
Missed == -1

\* cacheMiddleware: a hit is answered from the entry.
Miss(r) ==
    /\ reader[r] = Idle
    /\ ~ready \/ entry = None
    /\ reader' = [reader EXCEPT ![r] = Missed]
    /\ UNCHANGED <<row, entry, ready, writer>>

\* The handler computes the answer, an error when there is no row.
Compute(r) ==
    /\ reader[r] = Missed
    /\ reader' = [reader EXCEPT ![r] = row]
    /\ UNCHANGED <<row, entry, ready, writer>>

\* setCache; "late" marks, for the property, an answer older than the row.
Store(r) ==
    /\ reader[r] \in 0..MaxWrites
    /\ entry' = IF ready THEN [answer |-> reader[r], late |-> reader[r] # row] ELSE entry
    /\ reader' = [reader EXCEPT ![r] = Idle]
    /\ UNCHANGED <<row, ready, writer>>

At(w, at) == writer' = [writer EXCEPT ![w] = at]

\* Mutant: the route has no invalidation.
MutWrite(w) ==
    /\ writer[w] = "idle" /\ row < MaxWrites
    /\ row' = row + 1
    /\ UNCHANGED <<entry, ready, reader, writer>>

Write(w) ==
    /\ writer[w] = "idle" /\ row < MaxWrites
    /\ row' = row + 1
    /\ At(w, "written")
    /\ UNCHANGED <<entry, ready, reader>>

\* deleteCachePattern lists the keys; away, it leaves a stale entry behind.
ListKeys(w) ==
    /\ writer[w] = "written"
    /\ At(w, IF ready /\ entry # None THEN "delete" ELSE "idle")
    /\ entry' = IF ~ready /\ entry # None THEN [entry EXCEPT !.late = TRUE] ELSE entry
    /\ UNCHANGED <<row, ready, reader>>

DeleteKeys(w) ==
    /\ writer[w] = "delete"
    /\ entry' = IF ready \/ entry = None THEN None ELSE [entry EXCEPT !.late = TRUE]
    /\ At(w, "idle")
    /\ UNCHANGED <<row, ready, reader>>

Expire == entry # None /\ entry' = None /\ UNCHANGED <<row, ready, reader, writer>>
Toggle == ready' = ~ready /\ UNCHANGED <<row, entry, reader, writer>>

Init ==
    /\ row \in {0, 1} /\ entry = None /\ ready \in BOOLEAN
    /\ reader = [r \in Readers |-> Idle]
    /\ writer = [w \in Writers |-> "idle"]

Next ==
    \/ \E r \in Readers : Miss(r) \/ Compute(r) \/ Store(r)
    \/ \E w \in Writers : Write(w) \/ ListKeys(w) \/ DeleteKeys(w)
    \/ Expire \/ Toggle

\* An entry older than the row is on its way out, or was stored by a reader
\* that overlapped a writer, or outlived a time without Redis.
FreshUnlessRaced ==
    entry # None /\ entry.answer # row =>
        entry.late \/ \E w \in Writers : writer[w] # "idle"

\* Not kept, see README:
\* an answer in the cache is one the row gave with status 200
ErrorsNotCached == entry # None => entry.answer # 0
=============================================================================
