--------------------------- MODULE HorizonClient ---------------------------
(***************************************************************************)
(* services/stellar/horizonClient.js: a call goes to the first of several   *)
(* Horizon endpoints whose circuit breaker lets it through, and is retried  *)
(* at the next one.  Reads are retried blindly; a submission is sent again  *)
(* only after a time-out, once, and only when a look at the ledger does not *)
(* find it (stellarService.submitTransaction).                             *)
(*                                                                         *)
(* The calls share the breakers and nothing else.  Time is what the breaker *)
(* sees of it: an open endpoint has cooled down or it has not.              *)
(***************************************************************************)
EXTENDS Naturals, FiniteSets

CONSTANTS
    NumEndpoints,    \* HORIZON_URLS
    Readers,         \* execute(fn) in mode "read"
    Submitters,      \* execute(fn) in mode "submit", one transaction each
    RetryLimits,     \* values of HORIZON_MAX_RETRIES
    Threshold        \* HORIZON_CB_THRESHOLD

ASSUME HorizonAssumption ==
    /\ NumEndpoints \in Nat \ {0}
    /\ Threshold \in Nat \ {0}
    /\ RetryLimits \subseteq Nat
    /\ Readers \cap Submitters = {}

VARIABLES
    breaker,     \* per endpoint: state and consecutiveFailures
    cooled,      \* per endpoint: now - openedAt >= cbCooldownMs
    call,        \* per call: program counter, attempt, endpointIndex, endpoint
    ledger,      \* per submitter: what became of its transaction
    sent,        \* per submitter: how often Horizon was given the transaction
    maxRetries   \* the configured limit of this process

horizonVars == <<breaker, cooled, call, ledger, sent, maxRetries>>

Endpoints == 0 .. NumEndpoints - 1
Calls == Readers \cup Submitters
Running == {"loop", "calling", "verifying"}

-----------------------------------------------------------------------------
Init ==
    /\ breaker = [e \in Endpoints |-> [state |-> "closed", failures |-> 0]]
    /\ cooled = [e \in Endpoints |-> FALSE]
    /\ call = [c \in Calls |-> [pc |-> "loop", attempt |-> 0, next |-> 0, at |-> 0]]
    /\ ledger = [s \in Submitters |-> "absent"]
    /\ sent = [s \in Submitters |-> 0]
    /\ maxRetries \in RetryLimits

-----------------------------------------------------------------------------
\* Mutants: what the definitions after them become under a plausible bug.
MutRecordFailure(e) ==
    /\ breaker' = [breaker EXCEPT ![e] =
                      [state |-> IF @.failures >= Threshold THEN "open" ELSE @.state,
                       failures |-> @.failures + 1]]
    /\ UNCHANGED cooled
MutAnswerTimeoutSubmit(s) ==
    /\ s \in Submitters /\ call[s].pc = "calling"
    /\ call' = [call EXCEPT ![s].pc = "verifying"]
    /\ UNCHANGED <<breaker, cooled, ledger, sent, maxRetries>>
-----------------------------------------------------------------------------
\* getNextEndpoint: the first endpoint, from endpointIndex on, that is not
\* open or has cooled down.
Usable(e) == breaker[e].state # "open" \/ cooled[e]
Offset(e, start) == (e + NumEndpoints - start) % NumEndpoints
FirstUsable(start) ==
    CHOOSE e \in Endpoints : /\ Usable(e)
                             /\ \A d \in Endpoints : Usable(d) =>
                                    Offset(e, start) <= Offset(d, start)

\* recordFailure: a probe that fails, or one failure too many, opens the breaker.
RecordFailure(e) ==
    LET failures == breaker[e].failures + 1
        opens == breaker[e].state = "half-open" \/ failures >= Threshold
    IN  /\ breaker' = [breaker EXCEPT ![e] =
                          [state |-> IF opens THEN "open" ELSE @.state, failures |-> failures]]
        /\ cooled' = [cooled EXCEPT ![e] = IF opens THEN FALSE ELSE @]

RecordSuccess(e) ==
    /\ breaker' = [breaker EXCEPT ![e] = [state |-> "closed", failures |-> 0]]
    /\ cooled' = [cooled EXCEPT ![e] = FALSE]

-----------------------------------------------------------------------------
\* One turn of the loop of execute, up to the await of the call.
Attempt(c) ==
    /\ call[c].pc = "loop" /\ call[c].attempt <= maxRetries
    /\ \E e \in Endpoints : Usable(e)
    /\ LET e == FirstUsable(call[c].next)
       IN  /\ call' = [call EXCEPT ![c] = [@ EXCEPT !.pc = "calling", !.at = e,
                                                     !.next = (e + 1) % NumEndpoints]]
           /\ breaker' = [breaker EXCEPT ![e].state = IF @ = "open" THEN "half-open" ELSE @]
    /\ sent' = [s \in Submitters |-> IF s = c THEN sent[s] + 1 ELSE sent[s]]
    /\ UNCHANGED <<cooled, ledger, maxRetries>>

\* AllEndpointsOpenError.
AllOpen(c) ==
    /\ call[c].pc = "loop" /\ call[c].attempt <= maxRetries
    /\ \A e \in Endpoints : ~Usable(e)
    /\ call' = [call EXCEPT ![c].pc = "failed"]
    /\ UNCHANGED <<breaker, cooled, ledger, sent, maxRetries>>

\* The loop runs out of attempts and execute returns nothing: a submission that
\* timed out where no retry is configured.  Its caller reads a property of
\* undefined and fails.
RunOut(c) ==
    /\ call[c].pc = "loop" /\ call[c].attempt > maxRetries
    /\ call' = [call EXCEPT ![c].pc = "failed"]
    /\ UNCHANGED <<breaker, cooled, ledger, sent, maxRetries>>

\* The endpoint answers; a submission's answer is good once the transaction
\* is in a ledger and succeeded there.
AnswerOk(c) ==
    /\ call[c].pc = "calling"
    /\ c \in Submitters => ledger[c] = "landed"
    /\ RecordSuccess(call[c].at)
    /\ call' = [call EXCEPT ![c].pc = "ok"]
    /\ UNCHANGED <<ledger, sent, maxRetries>>

\* classifyError: a time-out, a 5xx, a 429 or no answer at all is retriable.
FailRetriable(r) ==
    /\ r \in Readers /\ call[r].pc = "calling"
    /\ RecordFailure(call[r].at)
    /\ call' = [call EXCEPT ![r] = IF @.attempt = maxRetries
                                   THEN [@ EXCEPT !.pc = "failed"]
                                   ELSE [@ EXCEPT !.pc = "loop", !.attempt = call[r].attempt + 1]]
    /\ UNCHANGED <<ledger, sent, maxRetries>>

\* classifyError: a 404 or a 400 with result codes is final.
FailFinal(r) ==
    /\ r \in Readers /\ call[r].pc = "calling"
    /\ call' = [call EXCEPT ![r].pc = "failed"]
    /\ UNCHANGED <<breaker, cooled, ledger, sent, maxRetries>>

\* A submission that times out the first time is looked up before it is resent.
AnswerTimeoutSubmit(s) ==
    /\ s \in Submitters /\ call[s].pc = "calling"
    /\ call' = [call EXCEPT ![s].pc = IF call[s].attempt = 0 THEN "verifying" ELSE "failed"]
    /\ UNCHANGED <<breaker, cooled, ledger, sent, maxRetries>>

\* Every other failure of a submission is thrown at once; the breaker does not
\* count it.
AnswerErrorSubmit(s) ==
    /\ s \in Submitters /\ call[s].pc = "calling"
    /\ call' = [call EXCEPT ![s].pc = "failed"]
    /\ UNCHANGED <<breaker, cooled, ledger, sent, maxRetries>>

\* verifyFn: verifyTransaction finds the transaction landed, or anything else
\* that is not a success and lets the loop resubmit.
Verify(s) ==
    /\ s \in Submitters /\ call[s].pc = "verifying"
    /\ IF ledger[s] = "landed"
       THEN call' = [call EXCEPT ![s].pc = "ok"]
       ELSE call' = [call EXCEPT ![s] = [@ EXCEPT !.pc = "loop", !.attempt = call[s].attempt + 1]]
    /\ UNCHANGED <<breaker, cooled, ledger, sent, maxRetries>>

\* verifyTransaction throws, and its error leaves execute.
VerifyFails(s) ==
    /\ s \in Submitters /\ call[s].pc = "verifying"
    /\ call' = [call EXCEPT ![s].pc = "failed"]
    /\ UNCHANGED <<breaker, cooled, ledger, sent, maxRetries>>

\* The network: a transaction given to Horizon enters a ledger, or never does.
Land(s) ==
    /\ sent[s] > 0 /\ ledger[s] = "absent"
    /\ ledger' = [ledger EXCEPT ![s] = "landed"]
    /\ UNCHANGED <<breaker, cooled, call, sent, maxRetries>>

\* ... with a result that is not a success.
LandFailed(s) ==
    /\ sent[s] > 0 /\ ledger[s] = "absent"
    /\ ledger' = [ledger EXCEPT ![s] = "unsuccessful"]
    /\ UNCHANGED <<breaker, cooled, call, sent, maxRetries>>

CoolDown(e) ==
    /\ breaker[e].state = "open" /\ ~cooled[e]
    /\ cooled' = [cooled EXCEPT ![e] = TRUE]
    /\ UNCHANGED <<breaker, call, ledger, sent, maxRetries>>

Next ==
    \/ \E c \in Calls : Attempt(c) \/ AllOpen(c) \/ RunOut(c) \/ AnswerOk(c)
    \/ \E r \in Readers : FailRetriable(r) \/ FailFinal(r)
    \/ \E s \in Submitters : \/ AnswerTimeoutSubmit(s) \/ AnswerErrorSubmit(s)
                             \/ Verify(s) \/ VerifyFails(s)
                             \/ Land(s) \/ LandFailed(s)
    \/ \E e \in Endpoints : CoolDown(e)

Spec == Init /\ [][Next]_horizonVars

-----------------------------------------------------------------------------
\* A submission is given to Horizon at most twice, whatever times out, and what
\* its caller is told is a success has landed.
SentAtMostTwice ==
    \A s \in Submitters : sent[s] <= 2 /\ (call[s].pc = "ok" => ledger[s] = "landed")

\* A closed breaker has room for a failure: late answers of calls that started
\* before it opened, and late successes, keep its count and its state together.
ClosedHasRoom ==
    \A e \in Endpoints :
        /\ breaker[e].state = "closed" => breaker[e].failures < Threshold
        /\ cooled[e] => breaker[e].state # "closed"

HorizonSound == SentAtMostTwice /\ ClosedHasRoom

\* Not kept, see README: a half-open endpoint is probed by one call.
OneProbe ==
    \A e \in Endpoints : breaker[e].state = "half-open" =>
        Cardinality({c \in Calls : call[c].pc = "calling" /\ call[c].at = e}) <= 1

\* Not kept, see README: a submission reported failed has not landed.
FailedIsAbsent == \A s \in Submitters : call[s].pc = "failed" => ledger[s] # "landed"
=============================================================================
