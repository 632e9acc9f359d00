------------------------------- MODULE Anchors ------------------------------
(***************************************************************************)
(* One deposit or withdrawal at a SEP-24 anchor: the interactive flow      *)
(* (src/controllers/stellar/anchorController.js), the poller that refreshes *)
(* its record (src/jobs/anchorPoller.js), and the anchor's token and its    *)
(* stellar.toml, both kept in Redis (src/services/stellar/anchorService.js). *)
(* The anchor is external: its transaction only moves forward, and the USDC *)
(* issuer it publishes may change.  A refresh asks the anchor and          *)
(* saves later what differs from the record it loaded; the poller's claim  *)
(* postpones the record by less than the three requests may take, and its  *)
(* interval does not wait for the last tick, so refreshes overlap.         *)
(***************************************************************************)
EXTENDS Integers, Sequences

CONSTANTS
    Refreshes,      \* refreshes in progress: ticks of pollers, and readers
    None

VARIABLES
    anchor,         \* index of the status the anchor has, 0 before the flow
    record,         \* our record, or None
    challenge,      \* the user has a challenge to sign
    token,          \* Redis has the token of a session with the anchor
    toml,           \* the issuer the anchor publishes, and the one in Redis or None
    due,            \* nextPollAt has passed
    refresh         \* each refresh: the record it loaded, and the answer

vars == <<anchor, record, challenge, token, toml, due, refresh>>

\* Statuses in the order the anchor takes; the last is terminal.
Statuses == <<"incomplete", "pending_anchor", "completed">>
Terminal(s) == s = "completed"

Idle == [doc |-> None, answer |-> None, polls |-> FALSE]

-----------------------------------------------------------------------------
\* getAnchorInfo: the allowlisted anchor's stellar.toml, cached, names the platform's own
\* USDC issuer, and /info answers.  The cache is filled whether it does or not.
Published == IF toml.cached = None THEN toml.issuer ELSE toml.cached
Trusted == Published = "ours"
CacheToml == toml' = [toml EXCEPT !.cached = Published]

\* A request that ends there: the anchor's info, or one it is refused.
GetInfo ==
    /\ toml.cached = None
    /\ CacheToml
    /\ UNCHANGED <<anchor, record, challenge, token, due, refresh>>

TomlLapses ==
    /\ toml.cached # None
    /\ toml' = [toml EXCEPT !.cached = None]
    /\ UNCHANGED <<anchor, record, challenge, token, due, refresh>>

\* The anchor publishes another issuer, or the platform's.
Republish ==
    /\ toml' \in [issuer : {"ours", "other"} \ {toml.issuer}, cached : {toml.cached}]
    /\ UNCHANGED <<anchor, record, challenge, token, due, refresh>>

\* fetchAndValidateChallenge: a challenge that the anchor signed, for its own domain and
\* this account, ...
Valid(answer) == Trusted /\ answer = "own"

\* ... and only that one is given to the user to sign.
RequestChallenge ==
    /\ ~challenge /\ ~token
    /\ \E answer \in {"own", "another's", "none"} : challenge' = Valid(answer)
    /\ CacheToml
    /\ UNCHANGED <<anchor, record, token, due, refresh>>

\* submitChallengeResponse: the anchor answers the signed challenge with a token that says
\* when it lapses ...
Answered == challenge /\ Trusted

\* ... which verifyChallenge stores, when Redis is there.
Authenticate ==
    /\ Answered
    /\ challenge' = FALSE /\ token' \in BOOLEAN /\ CacheToml
    /\ UNCHANGED <<anchor, record, due, refresh>>

\* The user gives up, or the anchor refuses.
SignInFails ==
    /\ challenge
    /\ challenge' = FALSE
    /\ UNCHANGED <<anchor, record, token, toml, due, refresh>>

\* The token lapses, or Redis loses it.
TokenLapses ==
    /\ token
    /\ token' = FALSE
    /\ UNCHANGED <<anchor, record, challenge, toml, due, refresh>>

\* initiateInteractiveFlow: with a session and an anchor that is trusted ...
Startable == token /\ Trusted

\* ... the anchor starts a transaction ...
StartInteractiveFlow ==
    /\ anchor = 0 /\ Startable
    /\ anchor' = 1 /\ CacheToml
    /\ UNCHANGED <<record, challenge, token, due, refresh>>

\* ... and the record is created, unless the server stops in between.
CreateRecord ==
    /\ anchor > 0 /\ record = None
    /\ record' = "incomplete"
    /\ due' = TRUE
    /\ UNCHANGED <<anchor, challenge, token, toml, refresh>>

AnchorMoves ==
    /\ anchor \in 1..Len(Statuses) - 1
    /\ anchor' = anchor + 1
    /\ UNCHANGED <<record, challenge, token, toml, due, refresh>>

\* Time passes until the record is due.
BecomesDue ==
    /\ record # None /\ ~due
    /\ due' = TRUE
    /\ UNCHANGED <<anchor, record, challenge, token, toml, refresh>>

\* claimDueRecord postpones the record and returns it.
Claim(f) ==
    /\ refresh[f] = Idle
    /\ record # None /\ ~Terminal(record) /\ due
    /\ due' = FALSE
    /\ refresh' = [refresh EXCEPT ![f] = [Idle EXCEPT !.doc = record, !.polls = TRUE]]
    /\ UNCHANGED <<anchor, record, challenge, token, toml>>

\* getTransactionById refreshes a record that is not terminal and is stale.
ReadTransaction(f) ==
    /\ refresh[f] = Idle
    /\ record # None /\ ~Terminal(record)
    /\ refresh' = [refresh EXCEPT ![f] = [Idle EXCEPT !.doc = record]]
    /\ UNCHANGED <<anchor, record, challenge, token, toml, due>>

\* fetchAnchorTransactionStatus, with the token, of an anchor that is trusted.
Ask(f) ==
    /\ refresh[f].doc # None /\ refresh[f].answer = None
    /\ token /\ Trusted
    /\ refresh' = [refresh EXCEPT ![f].answer = Statuses[anchor]]
    /\ CacheToml
    /\ UNCHANGED <<anchor, record, challenge, token, due>>

\* No token, or any failure: the poller backs off, a reader answers.
GiveUp(f) ==
    /\ refresh[f].doc # None /\ refresh[f].answer = None
    /\ refresh' = [refresh EXCEPT ![f] = Idle]
    /\ UNCHANGED <<anchor, record, challenge, token, toml, due>>

\* Mutant: a terminal answer is dropped.
MutSaved(f) == IF refresh[f].answer = "completed" THEN record ELSE refresh[f].answer

\* The save writes the status where the answer differs from the loaded one.
Saved(f) == IF refresh[f].answer = refresh[f].doc THEN record ELSE refresh[f].answer

Save(f) ==
    /\ refresh[f].answer # None
    /\ record' = Saved(f)
    /\ due' = (due /\ ~refresh[f].polls)
    /\ refresh' = [refresh EXCEPT ![f] = Idle]
    /\ UNCHANGED <<anchor, challenge, token, toml>>

-----------------------------------------------------------------------------
Init ==
    /\ anchor = 0 /\ record = None /\ challenge = FALSE /\ token = FALSE /\ due = FALSE
    /\ toml \in [issuer : {"ours", "other"}, cached : {None}]
    /\ refresh = [f \in Refreshes |-> Idle]

Next ==
    \/ GetInfo \/ TomlLapses \/ Republish
    \/ RequestChallenge \/ Authenticate \/ SignInFails \/ TokenLapses
    \/ StartInteractiveFlow \/ CreateRecord \/ AnchorMoves \/ BecomesDue
    \/ \E f \in Refreshes : Claim(f) \/ ReadTransaction(f) \/ Ask(f) \/ GiveUp(f) \/ Save(f)

\* The poller ticks while the server runs; a request to the anchor ends, and
\* of those that keep being made some succeed.  What is cached lapses.
Fairness ==
    /\ WF_vars(BecomesDue) /\ WF_vars(TomlLapses)
    /\ \A f \in Refreshes :
          /\ SF_vars(Claim(f)) /\ WF_vars(Save(f))
          /\ WF_vars(Ask(f) \/ GiveUp(f)) /\ SF_vars(Ask(f))

\* The record never runs ahead of the anchor.
NeverAhead == record # None => \E i \in 1..anchor : Statuses[i] = record

\* Once the anchor is done and stays trusted and the user's token stays, the record says so,
\* however many late answers were saved over it: an answer that is saved
\* last over a terminal one makes the record due again.
AnchorResolves ==
    <>[](token /\ toml.issuer = "ours") /\ <>(record # None /\ anchor = Len(Statuses)) =>
        <>[](record # None /\ Terminal(record))

\* Not kept, see README:
\* a terminal record stays terminal
TerminalStays == [][record # None /\ Terminal(record) => Terminal(record')]_vars
\* a transaction is started only with an anchor that still publishes the platform's issuer
StartedTrusted == [][anchor = 0 /\ anchor' = 1 => toml.issuer = "ours"]_vars
=============================================================================
