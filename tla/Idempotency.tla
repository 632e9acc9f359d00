---------------------------- MODULE Idempotency ----------------------------
(***************************************************************************)
(* middlewares/idempotency.js: requests of one user that carry the same     *)
(* Idempotency-Key to the same endpoint, so that they share one record of   *)
(* the unique index on (key, userId, endpoint).                             *)
(*                                                                         *)
(* The response is sent before the record is completed or deleted: that     *)
(* write is not awaited, and its failure is only logged.                    *)
(***************************************************************************)
EXTENDS Naturals, FiniteSets

CONSTANTS
    Requests,
    BodyOf,         \* the request body, as far as its hash tells
    Disconnects,    \* whether clients may hang up
    WritesFail,     \* whether the un-awaited writes may fail
    HandlersFail,   \* whether a handler may answer 5xx
    KeysExpire,     \* whether the 24 h TTL may pass between requests
    None            \* no request

VARIABLES
    record,     \* the IdempotencyKey document: who inserted it, and its answer
    pc,         \* where each request stands
    captured,   \* the response was captured (the flag of captureResponse)
    writing,    \* writes to the record on their way: <<kind, request>>
    executed,   \* the requests whose handler has made its changes
    answer,     \* what each client was told
    released    \* requests whose record was deleted again

vars == <<record, pc, captured, writing, executed, answer, released>>

Handling == {"handling", "mutated"}

NoAnswer == [kind |-> "none", by |-> None]

Reply(r, kind, by) ==
    /\ answer' = [answer EXCEPT ![r] = [kind |-> kind, by |-> by]]
    /\ pc' = [pc EXCEPT ![r] = "done"]

-----------------------------------------------------------------------------
(* The middleware *)

\* Mutant: without the unique index every insert succeeds.
MutInsert(r) ==
    /\ pc[r] = "new"
    /\ record' = [by |-> r, status |-> "in_progress"]
    /\ pc' = [pc EXCEPT ![r] = "handling"]
    /\ UNCHANGED <<captured, writing, executed, answer, released>>

Insert(r) ==
    /\ pc[r] = "new" /\ record = None
    /\ record' = [by |-> r, status |-> "in_progress"]
    /\ pc' = [pc EXCEPT ![r] = "handling"]
    /\ UNCHANGED <<captured, writing, executed, answer, released>>

\* The insert fails with a duplicate key; the record is looked up later.
Collide(r) ==
    /\ pc[r] = "new" /\ record # None
    /\ pc' = [pc EXCEPT ![r] = "collided"]
    /\ UNCHANGED <<record, captured, writing, executed, answer, released>>

\* Mutant: another body is not noticed.
MutMatches(r) == TRUE

Matches(r) == BodyOf[record.by] = BodyOf[r]

Lookup(r) ==
    /\ pc[r] = "collided"
    /\ \/ record = None /\ Reply(r, "error", None)
       \/ record # None /\ ~Matches(r) /\ Reply(r, "mismatch", None)
       \/ record # None /\ Matches(r) /\ record.status = "in_progress" /\ Reply(r, "busy", None)
       \/ record # None /\ Matches(r) /\ record.status = "completed" /\ Reply(r, "replayed", record.by)
    /\ UNCHANGED <<record, captured, writing, executed, released>>

-----------------------------------------------------------------------------
(* The handler behind it, and the captured response *)

Mutate(r) ==
    /\ pc[r] = "handling"
    /\ executed' = executed \cup {r}
    /\ pc' = [pc EXCEPT ![r] = "mutated"]
    /\ UNCHANGED <<record, captured, writing, answer, released>>

\* A 4xx answer changes nothing and is stored like a success.
Respond(r) ==
    /\ pc[r] \in Handling
    /\ writing' = writing \cup {<<"complete", r>>}
    /\ captured' = captured \cup {r}
    /\ Reply(r, "answered", r)
    /\ UNCHANGED <<record, executed, released>>

\* The handler throws, before or after its changes, and the error handler
\* answers 5xx.
RespondFailed(r) ==
    /\ HandlersFail /\ pc[r] \in Handling
    /\ writing' = writing \cup {<<"delete", r>>}
    /\ captured' = captured \cup {r}
    /\ Reply(r, "failed", r)
    /\ UNCHANGED <<record, executed, released>>

\* The connection closes before anything was captured; the handler goes on.
Close(r) ==
    /\ Disconnects /\ pc[r] \in Handling /\ r \notin captured
    /\ <<"delete", r>> \notin writing /\ r \notin released
    /\ writing' = writing \cup {<<"delete", r>>}
    /\ UNCHANGED <<record, pc, captured, executed, answer, released>>

\* updateOne and deleteOne name the record by its id: they miss a later one.
CompleteRecord(r) ==
    /\ <<"complete", r>> \in writing
    /\ writing' = writing \ {<<"complete", r>>}
    /\ record' = IF record # None /\ record.by = r
                 THEN [record EXCEPT !.status = "completed"] ELSE record
    /\ UNCHANGED <<pc, captured, executed, answer, released>>

DeleteRecord(r) ==
    /\ <<"delete", r>> \in writing
    /\ writing' = writing \ {<<"delete", r>>}
    /\ record' = IF record # None /\ record.by = r THEN None ELSE record
    /\ released' = released \cup {r}
    /\ UNCHANGED <<pc, captured, executed, answer>>

LoseWrite(r) ==
    /\ WritesFail
    /\ \E kind \in {"complete", "delete"} :
         /\ <<kind, r>> \in writing
         /\ writing' = writing \ {<<kind, r>>}
    /\ UNCHANGED <<record, pc, captured, executed, answer, released>>

\* The process dies under the handler; the record stays in progress.
Crash(r) ==
    /\ WritesFail /\ pc[r] \in Handling
    /\ pc' = [pc EXCEPT ![r] = "dead"]
    /\ UNCHANGED <<record, captured, writing, executed, answer, released>>

\* The TTL index removes the record, 24 h later: no handler still runs.
ExpireKey ==
    /\ KeysExpire /\ record # None
    /\ pc[record.by] \notin Handling /\ \A w \in writing : w[2] # record.by
    /\ released' = released \cup {record.by}
    /\ record' = None
    /\ UNCHANGED <<pc, captured, writing, executed, answer>>

-----------------------------------------------------------------------------
Init ==
    /\ record = None
    /\ pc = [r \in Requests |-> "new"]
    /\ captured = {} /\ writing = {} /\ executed = {} /\ released = {}
    /\ answer = [r \in Requests |-> NoAnswer]

Step(r) ==
    \/ Insert(r) \/ Collide(r) \/ Lookup(r)
    \/ Mutate(r) \/ Respond(r) \/ RespondFailed(r) \/ Close(r)
    \/ CompleteRecord(r) \/ DeleteRecord(r) \/ LoseWrite(r) \/ Crash(r)

Next == ExpireKey \/ \E r \in Requests : Step(r)

Spec == Init /\ [][Next]_vars

-----------------------------------------------------------------------------
TypeOK ==
    /\ record \in [by : Requests, status : {"in_progress", "completed"}] \cup {None}
    /\ pc \in [Requests -> Handling \cup {"new", "collided", "done", "dead"}]
    /\ writing \subseteq {"complete", "delete"} \X Requests
    /\ {captured, executed, released} \subseteq SUBSET Requests
    /\ answer \in [Requests -> [kind : {"none", "error", "mismatch", "busy", "replayed",
                                        "answered", "failed"},
                                by : Requests \cup {None}]]

\* No two handlers run at once unless the earlier one lost its client.
OneHandler ==
    \A r, q \in Requests :
        (r # q /\ pc[r] \in Handling /\ pc[q] \in Handling) => released \cap {r, q} # {}

\* A replay tells the client what a request with the same body was answered.
ReplayIsAnswer ==
    \A r \in Requests : answer[r].kind = "replayed" =>
        /\ answer[answer[r].by].kind = "answered"
        /\ BodyOf[answer[r].by] = BodyOf[r]

\* docs/idempotency.md: subsequent requests are replayed "without
\* re-executing controller logic".  Not kept, see README.
ExecutedOnce ==
    \A r, q \in executed : BodyOf[r] = BodyOf[q] => r = q

\* docs/idempotency.md: upon handler completion the response is persisted, so
\* that a later retry is replayed; here, a completed handler is remembered.
\* Not kept, see README.
AnswerIsKept ==
    \A r \in executed :
        (answer[r].kind = "answered" /\ \A w \in writing : w[2] # r)
            => record # None /\ record.by = r /\ record.status = "completed"
=============================================================================
