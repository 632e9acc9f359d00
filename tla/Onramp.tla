------------------------------- MODULE Onramp -------------------------------
(***************************************************************************)
(* One fiat purchase at MoonPay: the record of the session                 *)
(* (src/controllers/stellar/onrampController.js), and the webhooks of the  *)
(* provider, which is external: it moves the purchase forward, and sends   *)
(* every status any number of times, in any order and late.  A handler     *)
(* loads the record and saves the paths it changed.                        *)
(***************************************************************************)
EXTENDS Integers

CONSTANTS
    Handlers,       \* webhook requests in progress
    None

VARIABLES
    provider,       \* the provider's status of the purchase
    reported,       \* statuses it has sent, every one deliverable again
    record,         \* our record, or None before the session
    handler         \* each webhook request: its status and the record it loaded

vars == <<provider, reported, record, handler>>

Idle == [status |-> None, doc |-> None]

\* createOnrampSession; nothing is saved when the widget cannot be built.
CreateSession ==
    /\ record = None
    /\ record' = [status |-> "created", completedAt |-> FALSE]
    /\ UNCHANGED <<provider, reported, handler>>

\* The provider takes the purchase on, and reports what it did.
ProviderMoves ==
    /\ record # None
    /\ \E s \in {"waitingPayment", "pending", "waitingAuthorization", "completed", "failed"} :
          /\ provider \notin {"completed", "failed"} /\ provider # s
          /\ provider' = s
          /\ reported' = reported \cup {s}
    /\ UNCHANGED <<record, handler>>

\* mapProviderStatus
MapProviderStatus(s) == IF s \in {"completed", "failed"} THEN s ELSE "pending"

\* handleWebhook finds the record ...
Receive(h) ==
    /\ handler[h] = Idle
    /\ \E s \in reported :
           handler' = [handler EXCEPT ![h] = [status |-> MapProviderStatus(s), doc |-> record]]
    /\ UNCHANGED <<provider, reported, record>>

\* Mutant: the time is written on the first webhook only.
MutApplied(doc, s) ==
    [status |-> IF doc.status = s THEN record.status ELSE s,
     completedAt |-> record.completedAt \/ (s = "completed" /\ doc.status = "created")]

\* ... and writes the status when it differs from the loaded one, and the
\* time when the record is completed and has none.
Applied(doc, s) ==
    [status |-> IF doc.status = s THEN record.status ELSE s,
     completedAt |-> record.completedAt \/ (s = "completed" /\ ~doc.completedAt)]

Apply(h) ==
    /\ handler[h] # Idle
    /\ record' = Applied(handler[h].doc, handler[h].status)
    /\ handler' = [handler EXCEPT ![h] = Idle]
    /\ UNCHANGED <<provider, reported>>

Init ==
    /\ provider = "new" /\ reported = {} /\ record = None
    /\ handler = [h \in Handlers |-> Idle]

Next == CreateSession \/ ProviderMoves \/ \E h \in Handlers : Receive(h) \/ Apply(h)

\* A record that says completed has its completion time, and one that says
\* so or has the time was completed by the provider, whatever the order and
\* the overlap of the webhooks.
OnrampSound ==
    record # None =>
        /\ record.status = "completed" => record.completedAt
        /\ record.completedAt => provider = "completed"
        /\ record.status = "failed" => provider = "failed"

\* Not kept, see README:
\* a completed record stays completed
CompletedStays ==
    [][record # None /\ record.status = "completed" => record'.status = "completed"]_vars
=============================================================================
