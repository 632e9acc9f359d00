----------------------------- MODULE MCNetwork -----------------------------
(***************************************************************************)
(* What crosses the network, in one run of TLC: a behaviour follows the     *)
(* calls to Horizon, sponsored submissions, one payment's amounts, a         *)
(* scholarship milestone, a fiat purchase, a listing read page by page, or   *)
(* notifications on their way to open tabs.  They share no state.            *)
(***************************************************************************)
EXTENDS HorizonClient, TLC, Sums, SequenceTheorems

CONSTANTS s1, s2, s3, u1, u2, None,
          Submissions, Operations, InnerFees, FeeSetting, DailySetting, PerUserSetting, LastDay,
          Decimals, Quotes, Percents, SendMaxes, Creator, Platform,
          Releases, Funds, Senders, Reports, People, Nobody,
          Handlers,
          Ids, Values, Late, Filters, Limits, DefaultLimit, MaxLimit, MaxWrites,
          Nodes, Streams, Recipients, MaxSent, MaxRuns, MaxFaults

VARIABLES today, spend, sub, float,
          stage, offer, checkout, signed, holder,
          row, ledgerTx, milestoneReleased, report, sender, writer, viewer, poll,
          provider, reported, record, handler,
          rows, reader, steady, quiet, writes,
          redis, subscribed, subscribing, stream, connections, notes, dispatching, channel,
          written, job, due, doubled, faults,
          part    \* the part this behaviour follows

\* Two of the submissions are of one user.
UserOf == s1 :> u1 @@ s2 :> u1 @@ s3 :> u2
Sponsor == INSTANCE FeeSponsor
Amounts == INSTANCE Amounts
Campaign == INSTANCE Campaign
Onramp == INSTANCE Onramp

MCLimits == {-1, 0, 5}
P == INSTANCE Paging
N == INSTANCE Notifications

sponsorVars == <<today, spend, sub, float>>
amountVars == <<stage, offer, checkout, signed, holder>>
campaignVars == <<row, ledgerTx, milestoneReleased, report, sender, writer, viewer, poll>>
onrampVars == <<provider, reported, record, handler>>
pagingVars == <<rows, reader, steady, quiet, writes>>
noteVars == <<redis, subscribed, subscribing, stream, connections, notes, dispatching,
              channel, written, job, due, doubled, faults>>
paymentVars == <<horizonVars, sponsorVars, amountVars, campaignVars, onrampVars>>
readerVars == <<pagingVars, noteVars>>
allVars == <<paymentVars, readerVars, part>>

Symmetric == Permutations(Reports) \cup Permutations(Releases)

-----------------------------------------------------------------------------
\* The parts a behaviour does not follow stay in one of their initial states.
NetworkInit ==
    /\ part \in {"horizon", "sponsor", "amounts", "campaign", "onramp", "paging",
                "notifications"}
    /\ IF part = "horizon" THEN Init ELSE Init /\ maxRetries = 0
    /\ IF part = "sponsor" THEN Sponsor!Init
       ELSE Sponsor!Init /\ float /\ \A s \in Submissions : sub[s].ops = 1 /\ sub[s].inner = 1
    /\ IF part = "amounts" THEN Amounts!Init
       ELSE /\ Amounts!Init
            /\ offer = [price |-> None, code |-> "other", wallet |-> None, collect |-> "off",
                        percent |-> 0, sendMax |-> 0]
    /\ Campaign!Init
    /\ Onramp!Init
    /\ P!Init /\ (part # "paging" => \A r \in Ids : rows[r] \in {None, 1})
    /\ N!Init /\ (part # "notifications" => job.pc = "none")

PaymentNext ==
    \/ /\ part = "horizon" /\ Next
       /\ UNCHANGED <<sponsorVars, amountVars, campaignVars, onrampVars>>
    \/ /\ part = "sponsor" /\ Sponsor!Next
       /\ UNCHANGED <<horizonVars, amountVars, campaignVars, onrampVars>>
    \/ /\ part = "amounts" /\ Amounts!Next
       /\ UNCHANGED <<horizonVars, sponsorVars, campaignVars, onrampVars>>
    \/ /\ part = "campaign" /\ Campaign!Next
       /\ UNCHANGED <<horizonVars, sponsorVars, amountVars, onrampVars>>
    \/ /\ part = "onramp" /\ Onramp!Next
       /\ UNCHANGED <<horizonVars, sponsorVars, amountVars, campaignVars>>

ReaderNext ==
    \/ part = "paging" /\ P!Next /\ UNCHANGED noteVars
    \/ part = "notifications" /\ N!Next /\ UNCHANGED pagingVars

NetworkNext ==
    /\ UNCHANGED part
    /\ \/ PaymentNext /\ UNCHANGED readerVars
       \/ ReaderNext /\ UNCHANGED paymentVars

NetworkSpec == NetworkInit /\ [][NetworkNext]_allVars

-----------------------------------------------------------------------------
\* Limits that concurrent calls could pass: a submission reaches Horizon at most
\* twice and a closed breaker has room for a failure (HorizonClient); no day's
\* sponsored fees or counts pass their caps, no fee-bump its ceiling (FeeSponsor).
LimitsHold ==
    /\ part = "horizon" => HorizonSound
    /\ part = "sponsor" => Sponsor!SponsorSound

\* The destination, the fee split, the preflight, the transaction built, what is refused
\* of what was signed and what is verified agree with each other (Amounts), and an
\* on-ramp record with the provider's purchase (Onramp).
AmountsHold ==
    /\ part = "amounts" => Amounts!AmountsSound
    /\ part = "onramp" => Onramp!OnrampSound

\* initializePayment: "direct payments settle in the item's own currency"
\* (paymentController.js:428-431) and a path payment's XDR is to be signed (593-595): what
\* it built and the wallet signed as it is passes validateSignedPaymentXdr (Amounts).  It
\* does not, see README.
BuiltPays == ~Amounts!Rejected(checkout)

\* A milestone's release pays for the very report the arbiter approved, and a
\* contribution is confirmed only when it succeeded (Campaign).
CampaignSound == Campaign!CampaignSound

\* A reader gets every row that stays, once, and an open tab the notifications of its
\* user, whatever is written, closed or restarted meanwhile.
ReadersServed ==
    /\ part = "paging" => P!PagesComplete
    /\ part = "notifications" => N!NotificationsSound

-----------------------------------------------------------------------------
(* Calls to Horizon. *)

Breaker == [state : {"closed", "open", "half-open"}, failures : Nat]
HorizonCall == [pc : Running \cup {"ok", "failed"}, attempt : Nat, next : Endpoints, at : Endpoints]

\* What a submission's attempt and where it is say of how often it was sent.
SentSoFar(k, n, l) ==
    /\ n <= k.attempt + (IF k.pc = "loop" THEN 0 ELSE 1)
    /\ k.attempt <= 1
    /\ k.pc = "verifying" => k.attempt = 0
    /\ k.pc = "ok" => l = "landed"
HasRoom(b, c) ==
    /\ b.state = "closed" => b.failures < Threshold
    /\ c => b.state # "closed"

HorizonTypes ==
    /\ breaker \in [Endpoints -> Breaker] /\ cooled \in [Endpoints -> BOOLEAN]
    /\ call \in [Calls -> HorizonCall]
    /\ ledger \in [Submitters -> {"absent", "landed", "unsuccessful"}]
    /\ sent \in [Submitters -> Nat] /\ maxRetries \in Nat
HorizonInv ==
    /\ HorizonTypes
    /\ \A s \in Submitters : SentSoFar(call[s], sent[s], ledger[s])
    /\ \A e \in Endpoints : HasRoom(breaker[e], cooled[e])

\* An endpoint that lets a call through is found whenever there is one.
LEMMA FirstUsableIs ==
  ASSUME NEW start \in Endpoints, \E e \in Endpoints : Usable(e)
  PROVE  FirstUsable(start) \in Endpoints /\ Usable(FirstUsable(start))
<1> DEFINE Offsets == {n \in Nat : \E e \in Endpoints : Usable(e) /\ n = Offset(e, start)}
<1>1. ASSUME NEW e \in Endpoints PROVE Offset(e, start) \in Nat
  <2>1. NumEndpoints \in Nat \ {0} /\ e \in Int /\ start \in Int /\ start < NumEndpoints /\ e >= 0
    BY HorizonAssumption DEF Endpoints
  <2> QED BY <2>1 DEF Offset
<1>2. Offsets # {} BY <1>1
<1>3. PICK n \in Offsets : \A m \in Offsets : ~(m < n)
  <2>1. Offsets \subseteq Nat OBVIOUS
  <2> HIDE DEF Offsets
  <2> QED BY <1>2, <2>1, Descent
<1>4. PICK e \in Endpoints : Usable(e) /\ n = Offset(e, start) BY <1>3
<1>5. \A d \in Endpoints : Usable(d) => Offset(e, start) <= Offset(d, start)
  <2>1. ASSUME NEW d \in Endpoints, Usable(d) PROVE Offset(e, start) <= Offset(d, start)
    <3>1. Offset(d, start) \in Offsets /\ Offset(d, start) \in Nat /\ n \in Nat BY <1>1, <2>1
    <3> HIDE DEF Offsets
    <3>2. ~(Offset(d, start) < n) BY <1>3, <3>1
    <3> QED BY <1>4, <3>1, <3>2
  <2> QED BY <2>1
<1> QED BY <1>4, <1>5 DEF FirstUsable

LEMMA BreakerMoves ==
  ASSUME HorizonTypes, NEW e \in Endpoints, \A d \in Endpoints : HasRoom(breaker[d], cooled[d])
  PROVE  /\ RecordFailure(e) \/ RecordSuccess(e) =>
               /\ breaker' \in [Endpoints -> Breaker] /\ cooled' \in [Endpoints -> BOOLEAN]
               /\ \A d \in Endpoints : HasRoom(breaker'[d], cooled'[d])
<1>1. breaker \in [Endpoints -> Breaker] /\ cooled \in [Endpoints -> BOOLEAN] /\ Threshold \in Nat
  BY HorizonAssumption DEF HorizonTypes
<1>2. CASE RecordSuccess(e)
  <2>1. [state |-> "closed", failures |-> 0] \in Breaker BY DEF Breaker
  <2> QED BY <1>1, <1>2, <2>1, HorizonAssumption DEF RecordSuccess, HasRoom
<1>3. CASE RecordFailure(e)
  <2> DEFINE n == breaker[e].failures + 1
             opens == breaker[e].state = "half-open" \/ n >= Threshold
             b == [state |-> IF opens THEN "open" ELSE breaker[e].state, failures |-> n]
  <2>1. breaker' = [breaker EXCEPT ![e] = b] /\ cooled' = [cooled EXCEPT ![e] = IF opens THEN FALSE ELSE @]
    BY <1>3 DEF RecordFailure
  <2>2. b \in Breaker BY <1>1 DEF Breaker
  <2>3. HasRoom(b, cooled'[e]) BY <1>1, <2>1 DEF HasRoom, Breaker
  <2>4. breaker' \in [Endpoints -> Breaker] /\ cooled' \in [Endpoints -> BOOLEAN]
    <3> HIDE DEF b
    <3> QED BY <1>1, <2>1, <2>2
  <2>5. ASSUME NEW d \in Endpoints PROVE HasRoom(breaker'[d], cooled'[d])
    <3> HIDE DEF b, opens
    <3>1. d # e => breaker'[d] = breaker[d] /\ cooled'[d] = cooled[d] BY <1>1, <2>1
    <3>2. breaker'[e] = b BY <1>1, <2>1
    <3> QED BY <2>3, <3>1, <3>2
  <2> QED BY <2>4, <2>5
<1> QED BY <1>2, <1>3

LEMMA AttemptMoves ==
  ASSUME HorizonInv, NEW c \in Calls, Attempt(c)
  PROVE  HorizonInv'
<1> DEFINE e == FirstUsable(call[c].next)
           k == [call[c] EXCEPT !.pc = "calling", !.at = e, !.next = (e + 1) % NumEndpoints]
<1>1. /\ breaker \in [Endpoints -> Breaker] /\ cooled \in [Endpoints -> BOOLEAN]
      /\ call \in [Calls -> HorizonCall] /\ sent \in [Submitters -> Nat]
      /\ ledger \in [Submitters -> {"absent", "landed", "unsuccessful"}] /\ maxRetries \in Nat
      /\ \A s \in Submitters : SentSoFar(call[s], sent[s], ledger[s])
      /\ \A d \in Endpoints : HasRoom(breaker[d], cooled[d])
  BY DEF HorizonInv, HorizonTypes
<1>2. call[c].next \in Endpoints /\ call[c] \in HorizonCall /\ call[c].pc = "loop"
  BY <1>1 DEF HorizonCall, Attempt
<1>3. e \in Endpoints /\ Usable(e) BY <1>2, FirstUsableIs DEF Attempt
<1>4. /\ call' = [call EXCEPT ![c] = k]
      /\ breaker' = [breaker EXCEPT ![e].state = IF @ = "open" THEN "half-open" ELSE @]
      /\ sent' = [s \in Submitters |-> IF s = c THEN sent[s] + 1 ELSE sent[s]]
      /\ UNCHANGED <<cooled, ledger, maxRetries>>
  BY DEF Attempt
<1>5. (e + 1) % NumEndpoints \in Endpoints BY <1>3, HorizonAssumption DEF Endpoints
<1> HIDE DEF e
<1>6. k \in HorizonCall /\ k.pc = "calling" /\ k.attempt = call[c].attempt
  BY <1>2, <1>3, <1>5 DEF HorizonCall, Running
<1> HIDE DEF k
<1>7. HorizonTypes'
  <2>1. breaker' \in [Endpoints -> Breaker] BY <1>1, <1>3, <1>4 DEF Breaker
  <2>2. call' \in [Calls -> HorizonCall] BY <1>1, <1>4, <1>6
  <2>3. sent' \in [Submitters -> Nat] BY <1>1, <1>4
  <2> QED BY <1>1, <1>4, <2>1, <2>2, <2>3 DEF HorizonTypes
<1>8. ASSUME NEW s \in Submitters PROVE SentSoFar(call[s], sent[s], ledger[s])'
  <2>1. s \in Calls /\ call[s] \in HorizonCall /\ sent[s] \in Nat BY <1>1 DEF Calls
  <2>2. CASE s # c BY <1>1, <1>4, <2>1, <2>2
  <2>3. CASE s = c
    <3>1. call'[s] = k /\ sent'[s] = sent[s] + 1 BY <1>1, <1>4, <2>1, <2>3
    <3>2. k.attempt \in Nat /\ SentSoFar(call[s], sent[s], ledger[s]) /\ call[s].pc = "loop"
      BY <1>1, <1>2, <1>6, <2>3 DEF HorizonCall
    <3> QED BY <1>6, <2>1, <2>3, <3>1, <3>2 DEF SentSoFar
  <2> QED BY <2>2, <2>3
<1>9. ASSUME NEW d \in Endpoints PROVE HasRoom(breaker[d], cooled[d])'
  <2>1. /\ breaker[d] \in Breaker
        /\ breaker'[d] = IF d = e THEN [breaker[d] EXCEPT !.state = IF @ = "open" THEN "half-open" ELSE @]
                         ELSE breaker[d]
    BY <1>1, <1>4
  <2>2. breaker'[d].failures = breaker[d].failures
        /\ (breaker'[d].state = breaker[d].state \/ breaker'[d].state = "half-open")
    BY <2>1 DEF Breaker
  <2> QED BY <1>1, <1>4, <2>2 DEF HasRoom
<1> QED BY <1>7, <1>8, <1>9 DEF HorizonInv

\* A call that ends or is retried.
Goes(h, p) == [h EXCEPT !.pc = p]
Again(h) == [h EXCEPT !.pc = "loop", !.attempt = h.attempt + 1]
LEMMA CallForms ==
  ASSUME NEW h \in HorizonCall
  PROVE  /\ h.at \in Endpoints /\ h.attempt \in Nat
         /\ \A p \in {"loop", "ok", "failed", "verifying"} :
                Goes(h, p) \in HorizonCall /\ Goes(h, p).pc = p /\ Goes(h, p).attempt = h.attempt
         /\ Again(h) \in HorizonCall /\ Again(h).pc = "loop" /\ Again(h).attempt = h.attempt + 1
<1>1. h.attempt + 1 \in Nat BY DEF HorizonCall
<1> QED BY <1>1 DEF HorizonCall, Running, Goes, Again

\* Every other step of a call.
LEMMA CallMoves ==
  ASSUME HorizonInv, NEW c \in Calls, NEW k \in HorizonCall, call' = [call EXCEPT ![c] = k],
         c \in Submitters => SentSoFar(k, sent[c], ledger[c]),
         UNCHANGED <<breaker, cooled>> \/ \E e \in Endpoints : RecordFailure(e) \/ RecordSuccess(e),
         UNCHANGED <<ledger, sent, maxRetries>>
  PROVE  HorizonInv'
<1>1. /\ breaker \in [Endpoints -> Breaker] /\ cooled \in [Endpoints -> BOOLEAN]
      /\ call \in [Calls -> HorizonCall] /\ sent \in [Submitters -> Nat]
      /\ ledger \in [Submitters -> {"absent", "landed", "unsuccessful"}] /\ maxRetries \in Nat
      /\ \A s \in Submitters : SentSoFar(call[s], sent[s], ledger[s])
      /\ \A d \in Endpoints : HasRoom(breaker[d], cooled[d])
  BY DEF HorizonInv, HorizonTypes
<1>2. call' \in [Calls -> HorizonCall] BY <1>1
<1>3. /\ breaker' \in [Endpoints -> Breaker] /\ cooled' \in [Endpoints -> BOOLEAN]
      /\ \A d \in Endpoints : HasRoom(breaker'[d], cooled'[d])
  <2>1. CASE UNCHANGED <<breaker, cooled>> BY <1>1, <2>1
  <2>2. CASE \E e \in Endpoints : RecordFailure(e) \/ RecordSuccess(e)
    <3>1. HorizonTypes BY DEF HorizonInv
    <3> QED BY <1>1, <2>2, <3>1, BreakerMoves
  <2> QED BY <2>1, <2>2
<1>4. ASSUME NEW s \in Submitters PROVE SentSoFar(call'[s], sent'[s], ledger'[s])
  <2>1. s \in Calls BY DEF Calls
  <2>2. call'[s] = IF s = c THEN k ELSE call[s] BY <1>1, <2>1
  <2> QED BY <1>1, <2>2
<1> QED BY <1>1, <1>2, <1>3, <1>4 DEF HorizonInv, HorizonTypes

LEMMA HorizonSteps == ASSUME HorizonInv, Next PROVE HorizonInv'
<1>1. /\ breaker \in [Endpoints -> Breaker] /\ cooled \in [Endpoints -> BOOLEAN]
      /\ call \in [Calls -> HorizonCall] /\ sent \in [Submitters -> Nat]
      /\ ledger \in [Submitters -> {"absent", "landed", "unsuccessful"}] /\ maxRetries \in Nat
      /\ \A s \in Submitters : SentSoFar(call[s], sent[s], ledger[s])
      /\ \A d \in Endpoints : HasRoom(breaker[d], cooled[d])
  BY DEF HorizonInv, HorizonTypes
<1>2. ASSUME NEW c \in Calls
      PROVE  /\ call[c] \in HorizonCall /\ call[c].at \in Endpoints
             /\ c \in Submitters => SentSoFar(call[c], sent[c], ledger[c]) /\ sent[c] \in Nat
             /\ call[c].attempt \in Nat
  BY <1>1, CallForms
<1>3. ASSUME NEW c \in Calls, Attempt(c) \/ AllOpen(c) \/ RunOut(c) \/ AnswerOk(c)
      PROVE  HorizonInv'
  <2>1. CASE Attempt(c) BY <2>1, AttemptMoves
  <2>2. CASE AllOpen(c) \/ RunOut(c)
    <3> DEFINE k == Goes(call[c], "failed")
    <3>1. call' = [call EXCEPT ![c] = k] /\ call[c].pc = "loop" /\ UNCHANGED <<breaker, cooled, ledger, sent, maxRetries>>
      BY <2>2 DEF AllOpen, RunOut, Goes
    <3>2. k \in HorizonCall /\ k.pc = "failed" /\ k.attempt = call[c].attempt BY <1>2, CallForms
    <3> HIDE DEF k
    <3>3. c \in Submitters => SentSoFar(k, sent[c], ledger[c]) BY <1>2, <3>1, <3>2 DEF SentSoFar
    <3> QED BY <3>1, <3>2, <3>3, CallMoves
  <2>3. CASE AnswerOk(c)
    <3> DEFINE k == Goes(call[c], "ok")
    <3>1. /\ call' = [call EXCEPT ![c] = k] /\ call[c].pc = "calling" /\ UNCHANGED <<ledger, sent, maxRetries>>
          /\ c \in Submitters => ledger[c] = "landed"
          /\ RecordSuccess(call[c].at)
      BY <2>3 DEF AnswerOk, Goes
    <3>2. k \in HorizonCall /\ k.pc = "ok" /\ k.attempt = call[c].attempt BY <1>2, CallForms
    <3> HIDE DEF k
    <3>3. c \in Submitters => SentSoFar(k, sent[c], ledger[c]) BY <1>2, <3>1, <3>2 DEF SentSoFar
    <3>4. call[c].at \in Endpoints BY <1>2
    <3> QED BY <3>1, <3>2, <3>3, <3>4, CallMoves
  <2> QED BY <1>3, <2>1, <2>2, <2>3
<1>4. ASSUME NEW r \in Readers, FailRetriable(r) \/ FailFinal(r) PROVE HorizonInv'
  <2>1. r \in Calls /\ r \notin Submitters BY HorizonAssumption DEF Calls
  <2> DEFINE f == Goes(call[r], "failed")
             g == Again(call[r])
  <2>2. f \in HorizonCall /\ g \in HorizonCall BY <1>2, <2>1, CallForms
  <2>3. /\ call' = [call EXCEPT ![r] = f] \/ call' = [call EXCEPT ![r] = g]
        /\ UNCHANGED <<breaker, cooled>> \/ RecordFailure(call[r].at)
        /\ UNCHANGED <<ledger, sent, maxRetries>>
    <3>1. CASE FailRetriable(r)
      <4>1. call' = [call EXCEPT ![r] = IF @.attempt = maxRetries THEN f ELSE g]
        BY <3>1 DEF FailRetriable, Goes, Again
      <4> HIDE DEF f, g
      <4> QED BY <3>1, <4>1 DEF FailRetriable
    <3>2. CASE FailFinal(r) BY <3>2 DEF FailFinal, Goes
    <3> QED BY <1>4, <3>1, <3>2
  <2>4. call[r].at \in Endpoints BY <1>2, <2>1
  <2> HIDE DEF f, g
  <2> QED BY <2>1, <2>2, <2>3, <2>4, CallMoves
<1>5. ASSUME NEW s \in Submitters, \/ AnswerTimeoutSubmit(s) \/ AnswerErrorSubmit(s)
                                   \/ Verify(s) \/ VerifyFails(s)
      PROVE  HorizonInv'
  <2>1. s \in Calls BY DEF Calls
  <2>2. PICK k \in HorizonCall :
            /\ call' = [call EXCEPT ![s] = k]
            /\ \/ /\ k.pc = "failed" /\ call[s].pc \in {"calling", "verifying"}
                  /\ k.attempt = call[s].attempt
               \/ /\ k.pc = "verifying" /\ call[s].pc = "calling" /\ call[s].attempt = 0
                  /\ k.attempt = call[s].attempt
               \/ /\ k.pc = "ok" /\ ledger[s] = "landed" /\ call[s].pc = "verifying"
                  /\ k.attempt = call[s].attempt
               \/ k.pc = "loop" /\ call[s].pc = "verifying" /\ k.attempt = call[s].attempt + 1
    <3> DEFINE h == call[s]
    <3>1. h \in HorizonCall BY <1>2, <2>1
    <3>2. \/ /\ call' = [call EXCEPT ![s] = Goes(h, "failed")]
             /\ h.pc \in {"calling", "verifying"}
          \/ call' = [call EXCEPT ![s] = Goes(h, "verifying")] /\ h.pc = "calling" /\ h.attempt = 0
          \/ /\ call' = [call EXCEPT ![s] = Goes(h, "ok")]
             /\ h.pc = "verifying" /\ ledger[s] = "landed"
          \/ call' = [call EXCEPT ![s] = Again(h)] /\ h.pc = "verifying"
      <4>1. CASE AnswerTimeoutSubmit(s) BY <4>1 DEF AnswerTimeoutSubmit, Goes
      <4>2. CASE AnswerErrorSubmit(s) BY <4>2 DEF AnswerErrorSubmit, Goes
      <4>3. CASE Verify(s) BY <4>3 DEF Verify, Goes, Again
      <4>4. CASE VerifyFails(s) BY <4>4 DEF VerifyFails, Goes
      <4> QED BY <1>5, <4>1, <4>2, <4>3, <4>4
    <3> HIDE DEF h
    <3> QED BY <3>1, <3>2, CallForms DEF h
  <2>3. UNCHANGED <<breaker, cooled, ledger, sent, maxRetries>>
    BY <1>5 DEF AnswerTimeoutSubmit, AnswerErrorSubmit, Verify, VerifyFails
  <2>4. SentSoFar(k, sent[s], ledger[s])
    <3>1. /\ SentSoFar(call[s], sent[s], ledger[s]) /\ sent[s] \in Nat /\ call[s].attempt \in Nat
          /\ k.attempt \in Nat
      BY <1>2, <2>1, CallForms
    <3> QED BY <2>2, <3>1 DEF SentSoFar
  <2> QED BY <2>1, <2>2, <2>3, <2>4, CallMoves
<1>6. ASSUME NEW s \in Submitters, Land(s) \/ LandFailed(s) PROVE HorizonInv'
  <2>1. /\ ledger[s] = "absent" /\ UNCHANGED <<breaker, cooled, call, sent, maxRetries>>
        /\ ledger' = [ledger EXCEPT ![s] = "landed"] \/ ledger' = [ledger EXCEPT ![s] = "unsuccessful"]
    BY <1>6 DEF Land, LandFailed
  <2>2. ASSUME NEW t \in Submitters PROVE SentSoFar(call'[t], sent'[t], ledger'[t])
    <3>1. ledger'[t] = ledger[t] \/ (ledger[t] = "absent") BY <1>1, <2>1
    <3>2. call'[t] = call[t] /\ sent'[t] = sent[t] /\ SentSoFar(call[t], sent[t], ledger[t])
      BY <1>1, <2>1
    <3> QED BY <3>1, <3>2 DEF SentSoFar
  <2>3. ledger' \in [Submitters -> {"absent", "landed", "unsuccessful"}] BY <1>1, <2>1
  <2> QED BY <1>1, <2>1, <2>2, <2>3 DEF HorizonInv, HorizonTypes
<1>7. ASSUME NEW e \in Endpoints, CoolDown(e) PROVE HorizonInv'
  <2>1. cooled' = [cooled EXCEPT ![e] = TRUE] /\ breaker[e].state = "open"
        /\ UNCHANGED <<breaker, call, ledger, sent, maxRetries>>
    BY <1>7 DEF CoolDown
  <2>2. ASSUME NEW d \in Endpoints PROVE HasRoom(breaker'[d], cooled'[d])
    BY <1>1, <2>1 DEF HasRoom
  <2> QED BY <1>1, <2>1, <2>2 DEF HorizonInv, HorizonTypes
<1> QED BY <1>3, <1>4, <1>5, <1>6, <1>7 DEF Next

LEMMA HorizonInit == Init => HorizonInv
<1> SUFFICES ASSUME Init PROVE HorizonInv OBVIOUS
<1>1. Threshold \in Nat \ {0} /\ 0 \in Endpoints /\ maxRetries \in Nat
  BY HorizonAssumption DEF Init, Endpoints
<1>2. breaker \in [Endpoints -> Breaker] /\ \A e \in Endpoints : HasRoom(breaker[e], cooled[e])
  BY <1>1 DEF Init, Breaker, HasRoom
<1>3. call \in [Calls -> HorizonCall] BY <1>1 DEF Init, HorizonCall, Running
<1>4. \A s \in Submitters : SentSoFar(call[s], sent[s], ledger[s])
  BY DEF Init, SentSoFar, Calls
<1> QED BY <1>1, <1>2, <1>3, <1>4 DEF Init, HorizonInv, HorizonTypes

LEMMA HorizonHolds == HorizonInv => HorizonSound
<1> SUFFICES ASSUME HorizonInv PROVE HorizonSound OBVIOUS
<1>1. ASSUME NEW s \in Submitters PROVE sent[s] <= 2 /\ (call[s].pc = "ok" => ledger[s] = "landed")
  <2>1. s \in Calls BY DEF Calls
  <2>2. call[s].attempt \in Nat /\ sent[s] \in Nat /\ SentSoFar(call[s], sent[s], ledger[s])
    BY <2>1 DEF HorizonInv, HorizonTypes, HorizonCall
  <2> QED BY <2>2 DEF SentSoFar
<1> QED BY <1>1 DEF HorizonInv, HorizonSound, SentAtMostTwice, ClosedHasRoom, HasRoom

-----------------------------------------------------------------------------
(* Sponsored submissions. *)

ASSUME SponsorAssumption ==
    /\ IsFiniteSet(Submissions) /\ LastDay \in Nat
    /\ Operations \subseteq Nat \ {0} /\ InnerFees \subseteq Nat

Doc == [total : Nat, count : [Sponsor!Users -> Nat], writes : Nat]
Open == {"begun", "capped", "landed", "recorded"}
Submission ==
    [pc : Open \cup {"idle", "refused", "failed", "lost", "settled"},
     ops : Operations, inner : InnerFees, snapshot : [Sponsor!Days -> Doc],
     maxFee : Nat, fee : Nat, day : Sponsor!Days]

SponsorTypes ==
    /\ today \in Sponsor!Days /\ spend \in [Sponsor!Days -> Doc]
    /\ sub \in [Submissions -> Submission] /\ float \in BOOLEAN

\* A snapshot is of an earlier state of a document that only grows.
Follows(old, new) == old.writes <= new.writes /\ (old.writes = new.writes => old = new)

\* What a submission k of user u relies on, on day n, when the documents are f.  Caps
\* are checked on one day and the spend recorded on that day or on a later one, of which
\* the snapshot has nothing.
SubHolds(k, u, n, f) ==
    /\ k.maxFee > 0 => k.maxFee = Sponsor!FeeBump(k.ops) /\ Sponsor!CeilingCovers(k.ops, k.inner)
    /\ k.pc \in Open => \A d \in Sponsor!Days : Follows(k.snapshot[d], f[d])
    /\ k.pc \in {"capped", "landed"} =>
           \A d \in Sponsor!Days : n <= d => Sponsor!WithinCaps(k.snapshot[d], u, k.maxFee)
    /\ k.pc \in {"landed", "recorded"} => k.fee <= k.maxFee
    /\ k.pc = "recorded" => /\ k.day <= n /\ Sponsor!WithinCaps(k.snapshot[k.day], u, k.maxFee)
                            /\ k.snapshot[k.day].writes = f[k.day].writes

OneRecorded(f) ==
    \A s, t \in Submissions :
        f[s].pc = "recorded" /\ f[t].pc = "recorded" /\ f[s].day = f[t].day => s = t
DocHolds(x) == /\ x.total <= Sponsor!DailyCap
               /\ \A u \in Sponsor!Users : x.count[u] <= Sponsor!PerUserDailyLimit

Fees(f) == [s \in Submissions |-> f[s].fee]
SettledOn(f, d) == {s \in Submissions : f[s].pc = "settled" /\ f[s].day = d}

SponsorInv ==
    /\ SponsorTypes
    /\ \A s \in Submissions : SubHolds(sub[s], UserOf[s], today, spend)
    /\ OneRecorded(sub)
    /\ \A d \in Sponsor!Days : /\ DocHolds(spend[d])
                               /\ today < d => spend[d] = Sponsor!NoDocument
                               /\ spend[d].total = SumOn(Fees(sub), SettledOn(sub, d))

LEMMA SponsorSums == \A f, T : Sponsor!SumFunctionOnSet(f, T) = SumOn(f, T)
BY DEF Sponsor!SumFunctionOnSet, Sponsor!FoldFunctionOnSet, Sponsor!MapThenFoldSet,
       SumOn, SumFunctionOnSet, FoldFunctionOnSet, MapThenFoldSet

LEMMA MaxOfTwo == ASSUME NEW a \in Int, NEW b \in Int
                  PROVE  Sponsor!Max({a, b}) = IF a >= b THEN a ELSE b
BY DEF Sponsor!Max

LEMMA Settings ==
    /\ Sponsor!MaxFee \in Nat \ {0} /\ Sponsor!DailyCap \in Nat \ {0}
    /\ Sponsor!PerUserDailyLimit \in Nat \ {0}
BY DEF Sponsor!MaxFee, Sponsor!DailyCap, Sponsor!PerUserDailyLimit, Sponsor!Setting

\* computeFeeBumpFee, of any number of operations: what is shared among the operations and
\* the wrapper never adds up to more than the ceiling, and covers the inner fee.
LEMMA FeeBumpFits ==
  ASSUME NEW ops \in Operations, NEW inner \in InnerFees, Sponsor!CeilingCovers(ops, inner)
  PROVE  /\ Sponsor!FeeBump(ops) \in Nat /\ Sponsor!FeeBump(ops) <= Sponsor!MaxFee
         /\ Sponsor!FeeBump(ops) * ops >= inner * Sponsor!Units(ops)
         /\ Sponsor!FeeBump(ops) >= Sponsor!MinBaseFee * Sponsor!Units(ops)
<1> DEFINE M == Sponsor!MaxFee   n == ops + 1   q == M \div n   i == (inner + ops - 1) \div ops
<1>1. M \in Nat /\ n \in Nat \ {0} /\ ops \in Nat \ {0} /\ inner \in Nat
  BY Settings, SponsorAssumption
<1>2. /\ Sponsor!FeeBump(ops) = q * n /\ Sponsor!Units(ops) = n /\ Sponsor!MinBaseFee = 1
      /\ q >= Sponsor!Max({1, i})
  BY DEF Sponsor!FeeBump, Sponsor!PerOpCeiling, Sponsor!Units, Sponsor!CeilingCovers,
         Sponsor!MinPerOp, Sponsor!MinBaseFee, Sponsor!InnerPerOp
<1> HIDE DEF M
<1>3. q \in Nat /\ q * n <= M BY <1>1
<1>4. i \in Nat /\ inner <= i * ops BY <1>1
<1> HIDE DEF q, i, n
<1>5. q >= 1 /\ q >= i BY <1>2, <1>3, <1>4, MaxOfTwo
<1>6. q * n \in Nat /\ q * n >= 1 * n BY <1>1, <1>3, <1>5
<1>7. inner * n <= (q * n) * ops
  <2>1. i * ops <= q * ops /\ q * ops \in Nat BY <1>1, <1>3, <1>4, <1>5
  <2>2. inner <= q * ops BY <1>1, <1>4, <2>1
  <2>3. inner * n <= (q * ops) * n BY <1>1, <2>1, <2>2
  <2>4. (q * ops) * n = (q * n) * ops BY <1>1, <1>3
  <2> QED BY <2>3, <2>4
<1> QED BY <1>2, <1>3, <1>6, <1>7 DEF M

LEMMA SponsorKnows ==
  ASSUME SponsorInv
  PROVE  /\ today \in Sponsor!Days /\ spend \in [Sponsor!Days -> Doc]
         /\ sub \in [Submissions -> Submission] /\ float \in BOOLEAN
         /\ \A s \in Submissions : SubHolds(sub[s], UserOf[s], today, spend)
         /\ OneRecorded(sub)
         /\ \A d \in Sponsor!Days : /\ DocHolds(spend[d])
                                    /\ today < d => spend[d] = Sponsor!NoDocument
                                    /\ spend[d].total = SumOn(Fees(sub), SettledOn(sub, d))
BY DEF SponsorInv, SponsorTypes

\* What was settled is not touched when a submission that was not moves.
LEMMA SettledStay ==
  ASSUME NEW f \in [Submissions -> Submission], NEW s \in Submissions, NEW k \in Submission,
         f[s].pc # "settled", k.pc # "settled", NEW d \in Sponsor!Days,
         NEW g, g = [f EXCEPT ![s] = k]
  PROVE  SumOn(Fees(g), SettledOn(g, d)) = SumOn(Fees(f), SettledOn(f, d))
<1> DEFINE T == SettledOn(f, d)
<1>1. SettledOn(g, d) = T BY DEF SettledOn
<1>2. IsFiniteSet(T) BY SponsorAssumption, FS_Subset DEF SettledOn
<1>3. ASSUME NEW t \in T PROVE Fees(f)[t] \in Int /\ Fees(g)[t] \in Int /\ Fees(g)[t] = Fees(f)[t]
  <2>1. t \in Submissions /\ t # s BY <1>3 DEF SettledOn
  <2>2. g[t] = f[t] /\ f[t].fee \in Nat BY <2>1 DEF Submission
  <2> QED BY <2>1, <2>2 DEF Fees
<1> DEFINE A == Fees(f)   B == Fees(g)
<1>4. \A t \in T : A[t] \in Int /\ B[t] \in Int /\ B[t] = A[t] BY <1>3
<1> HIDE DEF T, A, B
<1>5. SumOn(B, T) = SumOn(A, T) BY <1>2, <1>4, SumsCompare
<1> QED BY <1>1, <1>5 DEF T, A, B

\* A submission moves, and nothing is added to the day's document.
LEMMA SubMoves ==
  ASSUME SponsorInv, NEW s \in Submissions, NEW k \in Submission, sub' = [sub EXCEPT ![s] = k],
         SubHolds(k, UserOf[s], today, spend), sub[s].pc # "settled", k.pc # "settled",
         k.pc = "recorded" => \A t \in Submissions : sub[t].pc = "recorded" => sub[t].day # k.day,
         UNCHANGED <<today, spend>>, float' \in BOOLEAN
  PROVE  SponsorInv'
<1>1. /\ today \in Sponsor!Days /\ spend \in [Sponsor!Days -> Doc]
      /\ sub \in [Submissions -> Submission]
      /\ \A t \in Submissions : SubHolds(sub[t], UserOf[t], today, spend)
      /\ OneRecorded(sub)
      /\ \A d \in Sponsor!Days : /\ DocHolds(spend[d])
                                 /\ today < d => spend[d] = Sponsor!NoDocument
                                 /\ spend[d].total = SumOn(Fees(sub), SettledOn(sub, d))
  BY SponsorKnows
<1>2. sub' \in [Submissions -> Submission]
      /\ \A t \in Submissions : sub'[t] = IF t = s THEN k ELSE sub[t]
  BY <1>1
<1>3. SponsorTypes' BY <1>1, <1>2 DEF SponsorTypes
<1>4. \A t \in Submissions : SubHolds(sub'[t], UserOf[t], today', spend') BY <1>1, <1>2
<1>5. OneRecorded(sub') BY <1>1, <1>2 DEF OneRecorded
<1>6. ASSUME NEW d \in Sponsor!Days
      PROVE  SumOn(Fees(sub'), SettledOn(sub', d)) = SumOn(Fees(sub), SettledOn(sub, d))
  BY <1>1, SettledStay
<1>7. \A d \in Sponsor!Days : /\ DocHolds(spend'[d])
                              /\ today' < d => spend'[d] = Sponsor!NoDocument
                              /\ spend'[d].total = SumOn(Fees(sub'), SettledOn(sub', d))
  BY <1>1, <1>6
<1> QED BY <1>3, <1>4, <1>5, <1>7 DEF SponsorInv

\* The day's document grows by one submission: the one whose snapshot is the document.
LEMMA CommitHolds ==
  ASSUME SponsorInv, NEW s \in Submissions, Sponsor!Commit(s)
  PROVE  SponsorInv'
<1> DEFINE k == [sub[s] EXCEPT !.pc = "settled"]
           d == sub[s].day
           u == UserOf[s]
           x == Sponsor!Added(spend[d], u, sub[s].fee)
<1>1. /\ today \in Sponsor!Days /\ spend \in [Sponsor!Days -> Doc]
      /\ sub \in [Submissions -> Submission] /\ float \in BOOLEAN
      /\ \A t \in Submissions : SubHolds(sub[t], UserOf[t], today, spend)
      /\ OneRecorded(sub)
      /\ \A e \in Sponsor!Days : /\ DocHolds(spend[e])
                                 /\ today < e => spend[e] = Sponsor!NoDocument
                                 /\ spend[e].total = SumOn(Fees(sub), SettledOn(sub, e))
  BY SponsorKnows
<1>2. /\ sub[s].pc = "recorded" /\ spend' = [spend EXCEPT ![d] = x] /\ sub' = [sub EXCEPT ![s] = k]
      /\ today' = today /\ float' = float
  BY DEF Sponsor!Commit
<1>3. /\ sub[s] \in Submission /\ d \in Sponsor!Days /\ sub[s].fee \in Nat /\ sub[s].maxFee \in Nat
      /\ u \in Sponsor!Users
  BY <1>1 DEF Submission, Sponsor!Users
<1>4. /\ k \in Submission /\ k.pc = "settled" /\ k.day = d /\ k.fee = sub[s].fee
      /\ k.maxFee = sub[s].maxFee /\ k.ops = sub[s].ops /\ k.inner = sub[s].inner
  BY <1>3 DEF Submission
<1>5. /\ sub[s].fee <= sub[s].maxFee /\ d <= today /\ SubHolds(sub[s], u, today, spend)
      /\ spend[d] = sub[s].snapshot[d] /\ Sponsor!WithinCaps(spend[d], u, sub[s].maxFee)
  <2>1. SubHolds(sub[s], u, today, spend) /\ sub[s].pc \in Open BY <1>1, <1>2 DEF Open
  <2>2. Follows(sub[s].snapshot[d], spend[d]) BY <1>3, <2>1 DEF SubHolds
  <2> QED BY <1>2, <2>1, <2>2 DEF SubHolds, Follows
<1>6. spend[d] \in Doc /\ spend[d].total \in Nat /\ spend[d].writes \in Nat
      /\ spend[d].count \in [Sponsor!Users -> Nat]
  BY <1>1, <1>3 DEF Doc
<1>7. /\ x.total = spend[d].total + sub[s].fee /\ x.writes = spend[d].writes + 1
      /\ x.count = [spend[d].count EXCEPT ![u] = @ + 1] /\ x \in Doc
  <2>1. /\ x.total = spend[d].total + sub[s].fee /\ x.writes = spend[d].writes + 1
        /\ x.count = [spend[d].count EXCEPT ![u] = @ + 1]
    BY DEF Sponsor!Added
  <2>2. x.total \in Nat /\ x.writes \in Nat /\ x.count \in [Sponsor!Users -> Nat]
    <3> HIDE DEF x, u, d
    <3> QED BY <1>3, <1>6, <2>1
  <2>3. x = [total |-> x.total, count |-> x.count, writes |-> x.writes] BY DEF Sponsor!Added
  <2> QED BY <2>1, <2>2, <2>3 DEF Doc
<1> HIDE DEF x, k, d, u
<1>8. DocHolds(x)
  <2>1. spend[d].count[u] < Sponsor!PerUserDailyLimit
        /\ spend[d].total + sub[s].maxFee <= Sponsor!DailyCap
    BY <1>5 DEF Sponsor!WithinCaps
  <2>2. x.total <= Sponsor!DailyCap BY <1>3, <1>5, <1>6, <1>7, <2>1, Settings
  <2>3. ASSUME NEW v \in Sponsor!Users PROVE x.count[v] <= Sponsor!PerUserDailyLimit
    <3>1. x.count[v] = IF v = u THEN spend[d].count[u] + 1 ELSE spend[d].count[v]
      BY <1>6, <1>7
    <3>2. spend[d].count[v] <= Sponsor!PerUserDailyLimit /\ spend[d].count[u] \in Nat
      BY <1>1, <1>3, <1>6 DEF DocHolds
    <3> QED BY <2>1, <3>1, <3>2, Settings
  <2> QED BY <2>2, <2>3 DEF DocHolds
<1>9. /\ sub' \in [Submissions -> Submission] /\ spend' \in [Sponsor!Days -> Doc]
      /\ \A t \in Submissions : sub'[t] = IF t = s THEN k ELSE sub[t]
      /\ \A e \in Sponsor!Days : spend'[e] = IF e = d THEN x ELSE spend[e]
  BY <1>1, <1>2, <1>4, <1>7
<1>10. SponsorTypes' BY <1>1, <1>2, <1>9 DEF SponsorTypes
<1>11. ASSUME NEW t \in Submissions PROVE SubHolds(sub'[t], UserOf[t], today', spend')
  <2>1. CASE t = s
    <3>1. sub'[t] = k BY <1>9, <2>1
    <3> QED BY <1>4, <1>5, <3>1 DEF SubHolds, Open
  <2>2. CASE t # s
    <3>1. sub'[t] = sub[t] /\ SubHolds(sub[t], UserOf[t], today, spend) /\ sub[t] \in Submission
      BY <1>1, <1>9, <2>2
    <3>2. ASSUME NEW e \in Sponsor!Days, sub[t].pc \in Open PROVE Follows(sub[t].snapshot[e], spend'[e])
      <4>1. Follows(sub[t].snapshot[e], spend[e]) BY <3>1, <3>2 DEF SubHolds
      <4>2. sub[t].snapshot[e].writes \in Nat BY <3>1 DEF Submission, Doc
      <4> QED BY <1>6, <1>7, <1>9, <4>1, <4>2 DEF Follows
    <3>3. sub[t].pc = "recorded" => sub[t].day # d /\ sub[t].day \in Sponsor!Days
      BY <1>1, <1>2, <2>2, <3>1 DEF OneRecorded, Submission, d
    <3>4. sub[t].pc = "recorded" => spend'[sub[t].day] = spend[sub[t].day] BY <1>9, <3>3
    <3> QED BY <1>2, <3>1, <3>2, <3>4 DEF SubHolds
  <2> QED BY <2>1, <2>2
<1>12. OneRecorded(sub') BY <1>1, <1>4, <1>9 DEF OneRecorded
<1>13. ASSUME NEW e \in Sponsor!Days
       PROVE  spend'[e].total = SumOn(Fees(sub'), SettledOn(sub', e))
  <2> DEFINE T == SettledOn(sub, e)   T1 == SettledOn(sub', e)
  <2>1. IsFiniteSet(T) /\ IsFiniteSet(T1) /\ s \notin T
    BY <1>2, SponsorAssumption, FS_Subset DEF SettledOn
  <2>2. \A t \in Submissions : Fees(sub)[t] \in Int /\ Fees(sub')[t] \in Int
    BY <1>1, <1>9 DEF Fees, Submission
  <2>3. \A t \in T : Fees(sub')[t] = Fees(sub)[t] BY <1>9, <2>1 DEF Fees, SettledOn
  <2>4. T \subseteq Submissions /\ T1 \subseteq Submissions BY DEF SettledOn
  <2>5. T1 = IF e = d THEN T \cup {s} ELSE T BY <1>2, <1>4, <1>9 DEF SettledOn
  <2>6. Fees(sub')[s] = sub[s].fee BY <1>4, <1>9 DEF Fees
  <2>7. spend[e].total = SumOn(Fees(sub), T) BY <1>1
  <2> HIDE DEF T, T1
  <2>8. SumOn(Fees(sub'), T) = SumOn(Fees(sub), T) /\ SumOn(Fees(sub), T) \in Int
    <3>1. \A t \in T : Fees(sub)[t] \in Int /\ Fees(sub')[t] \in Int BY <2>2, <2>4
    <3>2. \A t \in T : Fees(sub)[t] \in Int BY <3>1
    <3> QED BY <2>1, <2>3, <3>1, <3>2, SumsCompare, SumInt
  <2>9. CASE e # d
    <3>1. T1 = T /\ spend'[e] = spend[e] BY <1>9, <2>5, <2>9
    <3> QED BY <2>7, <2>8, <3>1 DEF T1
  <2>10. CASE e = d
    <3>1. s \in T1 /\ T1 \ {s} = T BY <2>1, <2>5, <2>10
    <3>2. \A t \in T1 : Fees(sub')[t] \in Int BY <2>2, <2>4
    <3>3. SumOn(Fees(sub'), T1) = Fees(sub')[s] + SumOn(Fees(sub'), T1 \ {s})
      BY <2>1, <3>1, <3>2, SumRemove
    <3>4. SumOn(Fees(sub'), T1) = sub[s].fee + spend[d].total BY <2>6, <2>7, <2>8, <2>10, <3>1, <3>3
    <3>5. spend'[e].total = spend[d].total + sub[s].fee BY <1>7, <1>9, <2>10
    <3> QED BY <1>3, <1>6, <3>4, <3>5 DEF T1
  <2> QED BY <2>9, <2>10
<1>14. ASSUME NEW e \in Sponsor!Days
       PROVE  DocHolds(spend'[e]) /\ (today' < e => spend'[e] = Sponsor!NoDocument)
  <2>1. e = d => ~(today < e) BY <1>1, <1>3, <1>5 DEF Sponsor!Days
  <2> QED BY <1>1, <1>2, <1>8, <1>9, <2>1
<1> QED BY <1>10, <1>11, <1>12, <1>13, <1>14 DEF SponsorInv

\* Begin, the caps, the submission and its record, each on its own.
LEMMA BeginHolds == ASSUME SponsorInv, NEW s \in Submissions, Sponsor!Begin(s) PROVE SponsorInv'
<1> DEFINE k == [sub[s] EXCEPT !.pc = "begun", !.snapshot = spend]
<1>1. spend \in [Sponsor!Days -> Doc] /\ sub[s] \in Submission /\ float \in BOOLEAN
      /\ SubHolds(sub[s], UserOf[s], today, spend)
  BY SponsorKnows
<1>2. sub' = [sub EXCEPT ![s] = k] /\ sub[s].pc = "idle" /\ UNCHANGED <<today, spend, float>>
  BY DEF Sponsor!Begin
<1>3. /\ k \in Submission /\ k.pc = "begun" /\ k.maxFee = sub[s].maxFee /\ k.ops = sub[s].ops
      /\ k.inner = sub[s].inner /\ k.snapshot = spend
  BY <1>1 DEF Submission, Open
<1> HIDE DEF k
<1>4. \A d \in Sponsor!Days : spend[d].writes \in Nat BY <1>1 DEF Doc
<1>5. SubHolds(k, UserOf[s], today, spend) BY <1>1, <1>3, <1>4 DEF SubHolds, Follows
<1> QED BY <1>1, <1>2, <1>3, <1>5, SubMoves

LEMMA PrepareHolds == ASSUME SponsorInv, NEW s \in Submissions, Sponsor!Prepare(s) PROVE SponsorInv'
<1> DEFINE n == Sponsor!FeeBump(sub[s].ops)
           k == [sub[s] EXCEPT !.pc = "capped", !.maxFee = n]
           u == UserOf[s]
<1>1. /\ spend \in [Sponsor!Days -> Doc] /\ sub[s] \in Submission /\ float \in BOOLEAN
      /\ SubHolds(sub[s], u, today, spend) /\ today \in Sponsor!Days
      /\ \A d \in Sponsor!Days : today < d => spend[d] = Sponsor!NoDocument
  BY SponsorKnows
<1>2. /\ sub' = [sub EXCEPT ![s] = k] /\ sub[s].pc = "begun" /\ UNCHANGED <<today, spend, float>>
      /\ Sponsor!CeilingCovers(sub[s].ops, sub[s].inner)
      /\ Sponsor!WithinCaps(sub[s].snapshot[today], u, n)
  BY DEF Sponsor!Prepare
<1>3. n \in Nat BY <1>1, <1>2, FeeBumpFits DEF Submission
<1>4. /\ k \in Submission /\ k.pc = "capped" /\ k.maxFee = n /\ k.ops = sub[s].ops
      /\ k.inner = sub[s].inner /\ k.snapshot = sub[s].snapshot
  BY <1>1, <1>3 DEF Submission, Open
<1> HIDE DEF k
<1>5. ASSUME NEW d \in Sponsor!Days, today <= d
      PROVE  Sponsor!WithinCaps(sub[s].snapshot[d], u, n)
  <2>1. CASE d = today BY <1>2, <2>1
  <2>2. CASE d # today
    <3>1. today < d BY <1>1, <1>5, <2>2 DEF Sponsor!Days
    <3>2. spend[d] = Sponsor!NoDocument BY <1>1, <3>1
    <3>3. Follows(sub[s].snapshot[d], spend[d]) /\ sub[s].snapshot[d] \in Doc
      BY <1>1, <1>2 DEF SubHolds, Open, Submission
    <3>4. sub[s].snapshot[d] = Sponsor!NoDocument
      BY <3>2, <3>3 DEF Follows, Doc, Sponsor!NoDocument
    <3>5. sub[s].snapshot[today].total \in Nat /\ sub[s].snapshot[today].total + n <= Sponsor!DailyCap
      BY <1>1, <1>2 DEF Submission, Doc, Sponsor!WithinCaps
    <3>6. Sponsor!NoDocument.total = 0 /\ Sponsor!NoDocument.count[u] = 0
      BY DEF Sponsor!NoDocument, Sponsor!Users, u
    <3> HIDE DEF n
    <3> QED BY <1>3, <3>4, <3>5, <3>6, Settings DEF Sponsor!WithinCaps
  <2> QED BY <2>1, <2>2
<1> HIDE DEF n
<1>6. SubHolds(k, u, today, spend) BY <1>1, <1>2, <1>4, <1>5 DEF SubHolds, Open, n
<1> QED BY <1>1, <1>2, <1>4, <1>6, SubMoves DEF u

LEMMA LandHolds == ASSUME SponsorInv, NEW s \in Submissions, Sponsor!Land(s) PROVE SponsorInv'
<1>1. /\ sub[s] \in Submission /\ SubHolds(sub[s], UserOf[s], today, spend)
  BY SponsorKnows
<1>2. PICK fee \in Sponsor!MinBaseFee * Sponsor!Units(sub[s].ops) .. sub[s].maxFee :
          sub' = [sub EXCEPT ![s] = [sub[s] EXCEPT !.pc = "landed", !.fee = fee]]
  BY DEF Sponsor!Land
<1> DEFINE k == [sub[s] EXCEPT !.pc = "landed", !.fee = fee]
<1>3. sub[s].pc = "capped" /\ UNCHANGED <<today, spend>> /\ float' \in BOOLEAN
  BY DEF Sponsor!Land
<1>4. fee \in Nat /\ fee <= sub[s].maxFee
  <2>1. sub[s].ops \in Nat /\ sub[s].maxFee \in Nat BY <1>1, SponsorAssumption DEF Submission
  <2> QED BY <2>1 DEF Sponsor!MinBaseFee, Sponsor!Units
<1>5. /\ k \in Submission /\ k.pc = "landed" /\ k.maxFee = sub[s].maxFee /\ k.ops = sub[s].ops
      /\ k.inner = sub[s].inner /\ k.fee = fee /\ k.snapshot = sub[s].snapshot
  BY <1>1, <1>4 DEF Submission, Open
<1>6. sub' = [sub EXCEPT ![s] = k] BY <1>2
<1> HIDE DEF k
<1>7. SubHolds(k, UserOf[s], today, spend) BY <1>1, <1>3, <1>4, <1>5 DEF SubHolds, Open
<1> QED BY <1>3, <1>5, <1>6, <1>7, SubMoves

\* recordSponsorshipSpend meets no conflict: the document is the one of the snapshot.
LEMMA RecordHolds == ASSUME SponsorInv, NEW s \in Submissions, Sponsor!Record(s) PROVE SponsorInv'
<1> DEFINE p == IF Sponsor!Conflicts(s, today) THEN "lost" ELSE "recorded"
           k == [sub[s] EXCEPT !.pc = p, !.day = today]
<1>1. /\ sub[s] \in Submission /\ SubHolds(sub[s], UserOf[s], today, spend) /\ float \in BOOLEAN
      /\ today \in Sponsor!Days
  BY SponsorKnows
<1>2. sub' = [sub EXCEPT ![s] = k] /\ sub[s].pc = "landed" /\ UNCHANGED <<today, spend, float>>
  BY DEF Sponsor!Record
<1>3. p \in Open \cup {"lost"} BY DEF Open
<1>4. /\ k \in Submission /\ k.pc = p /\ k.day = today /\ k.maxFee = sub[s].maxFee
      /\ k.ops = sub[s].ops /\ k.inner = sub[s].inner /\ k.fee = sub[s].fee
      /\ k.snapshot = sub[s].snapshot
  <2> HIDE DEF p
  <2> QED BY <1>1, <1>3 DEF Submission, Open
<1> HIDE DEF k
<1>5. p = "recorded" =>
          /\ spend[today].writes = sub[s].snapshot[today].writes
          /\ \A t \in Submissions : sub[t].pc = "recorded" => sub[t].day # today
  BY DEF Sponsor!Conflicts
<1>6. today <= today BY <1>1 DEF Sponsor!Days
<1>7. p # "settled" /\ (p # "recorded" => p = "lost") OBVIOUS
<1> HIDE DEF p
<1>8. SubHolds(k, UserOf[s], today, spend) BY <1>1, <1>2, <1>4, <1>5, <1>6, <1>7 DEF SubHolds, Open
<1> QED BY <1>1, <1>2, <1>4, <1>5, <1>7, <1>8, SubMoves

LEMMA SponsorSteps == ASSUME SponsorInv, Sponsor!Next PROVE SponsorInv'
<1>1. /\ today \in Sponsor!Days /\ spend \in [Sponsor!Days -> Doc]
      /\ sub \in [Submissions -> Submission] /\ float \in BOOLEAN
      /\ \A t \in Submissions : SubHolds(sub[t], UserOf[t], today, spend)
      /\ OneRecorded(sub)
      /\ \A e \in Sponsor!Days : /\ DocHolds(spend[e])
                                 /\ today < e => spend[e] = Sponsor!NoDocument
                                 /\ spend[e].total = SumOn(Fees(sub), SettledOn(sub, e))
  BY SponsorKnows
<1>2. ASSUME NEW s \in Submissions,
             Sponsor!Refuse(s) \/ Sponsor!Underfunded(s) \/ Sponsor!SubmitFails(s) \/ Sponsor!Abort(s)
      PROVE  SponsorInv'
  <2>1. PICK p \in {"refused", "failed", "lost"} : sub' = [sub EXCEPT ![s] = [sub[s] EXCEPT !.pc = p]]
    BY <1>2 DEF Sponsor!Refuse, Sponsor!Underfunded, Sponsor!SubmitFails, Sponsor!Abort
  <2>2. sub[s].pc # "settled" /\ UNCHANGED <<today, spend, float>>
    BY <1>2 DEF Sponsor!Refuse, Sponsor!Underfunded, Sponsor!SubmitFails, Sponsor!Abort
  <2> DEFINE k == [sub[s] EXCEPT !.pc = p]
  <2>3. /\ k \in Submission /\ k.pc = p /\ k.maxFee = sub[s].maxFee /\ k.ops = sub[s].ops
        /\ k.inner = sub[s].inner
    BY <1>1 DEF Submission, Open
  <2>4. sub' = [sub EXCEPT ![s] = k] BY <2>1
  <2> HIDE DEF k
  <2>5. SubHolds(k, UserOf[s], today, spend) BY <1>1, <2>3 DEF SubHolds, Open
  <2> QED BY <1>1, <2>2, <2>3, <2>4, <2>5, SubMoves
<1>3. ASSUME Sponsor!TopUp PROVE SponsorInv'
  BY <1>3 DEF Sponsor!TopUp, SponsorInv, SponsorTypes
<1>4. ASSUME Sponsor!Midnight PROVE SponsorInv'
  <2>1. today' = today + 1 /\ today < LastDay /\ UNCHANGED <<spend, sub, float>>
    BY <1>4 DEF Sponsor!Midnight
  <2>2. today \in Nat /\ today' \in Sponsor!Days
    BY <1>1, <2>1, SponsorAssumption DEF Sponsor!Days
  <2>3. ASSUME NEW t \in Submissions PROVE SubHolds(sub[t], UserOf[t], today', spend)
    <3>1. \A d \in Sponsor!Days : /\ today' <= d => today <= d
                                  /\ d <= today => d <= today'
      BY <2>1, <2>2 DEF Sponsor!Days
    <3>2. SubHolds(sub[t], UserOf[t], today, spend) /\ sub[t].day \in Sponsor!Days
      BY <1>1 DEF Submission
    <3> QED BY <3>1, <3>2 DEF SubHolds
  <2>4. \A e \in Sponsor!Days : today' < e => today < e BY <2>1, <2>2 DEF Sponsor!Days
  <2> QED BY <1>1, <2>1, <2>2, <2>3, <2>4 DEF SponsorInv, SponsorTypes
<1> QED BY <1>2, <1>3, <1>4, BeginHolds, PrepareHolds, LandHolds, RecordHolds, CommitHolds
        DEF Sponsor!Next

LEMMA SponsorInit == Sponsor!Init => SponsorInv
<1> SUFFICES ASSUME Sponsor!Init PROVE SponsorInv OBVIOUS
<1>1. Sponsor!NoDocument \in Doc /\ 0 \in Sponsor!Days
  BY SponsorAssumption DEF Sponsor!NoDocument, Doc, Sponsor!Days
<1>2. today = 0 /\ spend = [d \in Sponsor!Days |-> Sponsor!NoDocument] BY DEF Sponsor!Init
<1>3. spend \in [Sponsor!Days -> Doc] BY <1>1, <1>2
<1>4. ASSUME NEW s \in Submissions
      PROVE  /\ sub[s] \in Submission /\ sub[s].pc = "idle" /\ sub[s].maxFee = 0
  BY <1>1, <1>3 DEF Sponsor!Init, Submission
<1>5. sub \in [Submissions -> Submission] /\ float \in BOOLEAN
  <2>1. sub = [s \in Submissions |-> sub[s]] /\ float \in BOOLEAN BY DEF Sponsor!Init
  <2> QED BY <1>4, <2>1
<1>6. \A s \in Submissions : SubHolds(sub[s], UserOf[s], today, spend)
  BY <1>4 DEF SubHolds, Open
<1>7. ASSUME NEW d \in Sponsor!Days
      PROVE  DocHolds(spend[d]) /\ spend[d].total = SumOn(Fees(sub), SettledOn(sub, d))
  <2>1. SettledOn(sub, d) = {} BY <1>4 DEF SettledOn
  <2>2. spend[d] = Sponsor!NoDocument BY <1>2
  <2>3. DocHolds(Sponsor!NoDocument) /\ Sponsor!NoDocument.total = 0
    BY Settings DEF DocHolds, Sponsor!NoDocument
  <2> QED BY <2>1, <2>2, <2>3, SumEmpty
<1> QED BY <1>1, <1>2, <1>3, <1>4, <1>5, <1>6, <1>7 DEF SponsorInv, SponsorTypes, OneRecorded

LEMMA SponsorHolds == SponsorInv => Sponsor!SponsorSound
<1> SUFFICES ASSUME SponsorInv PROVE Sponsor!SponsorSound OBVIOUS
<1>1. /\ today \in Sponsor!Days /\ spend \in [Sponsor!Days -> Doc]
      /\ \A d \in Sponsor!Days : /\ DocHolds(spend[d])
                                 /\ spend[d].total = SumOn(Fees(sub), SettledOn(sub, d))
  BY SponsorKnows
<1>2. Sponsor!CapsHold BY <1>1 DEF Sponsor!CapsHold, DocHolds
<1>3. ASSUME NEW s \in Submissions, sub[s].maxFee > 0
      PROVE  /\ sub[s].maxFee <= Sponsor!MaxFee
             /\ sub[s].maxFee * sub[s].ops >= sub[s].inner * Sponsor!Units(sub[s].ops)
             /\ sub[s].maxFee >= Sponsor!MinBaseFee * Sponsor!Units(sub[s].ops)
  <2>1. sub[s] \in Submission /\ SubHolds(sub[s], UserOf[s], today, spend) BY SponsorKnows
  <2>2. sub[s].ops \in Operations /\ sub[s].inner \in InnerFees BY <2>1 DEF Submission
  <2>3. /\ sub[s].maxFee = Sponsor!FeeBump(sub[s].ops)
        /\ Sponsor!CeilingCovers(sub[s].ops, sub[s].inner)
    BY <1>3, <2>1 DEF SubHolds
  <2> QED BY <2>2, <2>3, FeeBumpFits
<1>4. Sponsor!WithinCeiling BY <1>3 DEF Sponsor!WithinCeiling
<1>5. Sponsor!SpendIsExact BY <1>1, SponsorSums DEF Sponsor!SpendIsExact, Fees, SettledOn
<1>6. Sponsor!StatusExact
  <2>1. spend[today].total \in Nat /\ spend[today].total <= Sponsor!DailyCap
    BY <1>1 DEF Doc, DocHolds
  <2>2. Sponsor!DailyCap \in Nat BY Settings
  <2> DEFINE c == Sponsor!DailyCap   t == spend[today].total
  <2>3. Sponsor!Remaining = Sponsor!Max({0, c - t}) BY DEF Sponsor!Remaining
  <2> HIDE DEF c, t
  <2>4. c \in Nat /\ t \in Nat /\ t <= c /\ c - t \in Int BY <2>1, <2>2 DEF c, t
  <2>5. Sponsor!Max({0, c - t}) = c - t BY <2>4, MaxOfTwo
  <2>6. Sponsor!Remaining + t = c BY <2>3, <2>4, <2>5
  <2> QED BY <2>6 DEF Sponsor!StatusExact, c, t
<1> QED BY <1>2, <1>4, <1>5, <1>6 DEF Sponsor!SponsorSound

\* For any number of endpoints, calls, submissions and days, and any settings: no submission
\* is given to Horizon a third time, no breaker closes on a full count, and no day's fees
\* pass the cap, however the calls overlap and wherever midnight falls.
THEOREM LimitsKept == NetworkSpec => []LimitsHold
<1> DEFINE Inv == HorizonInv /\ SponsorInv
<1>1. NetworkInit => Inv BY HorizonInit, SponsorInit DEF NetworkInit
<1>2. HorizonInv /\ UNCHANGED horizonVars => HorizonInv'
  BY DEF HorizonInv, HorizonTypes, horizonVars
<1>3. SponsorInv /\ UNCHANGED sponsorVars => SponsorInv'
  BY DEF SponsorInv, SponsorTypes, sponsorVars
<1>4. [NetworkNext]_allVars => /\ Next \/ UNCHANGED horizonVars
                               /\ Sponsor!Next \/ UNCHANGED sponsorVars
  BY DEF NetworkNext, PaymentNext, ReaderNext, paymentVars, allVars
<1>5. Inv /\ [NetworkNext]_allVars => Inv' BY <1>2, <1>3, <1>4, HorizonSteps, SponsorSteps
<1>6. Inv => LimitsHold BY HorizonHolds, SponsorHolds DEF LimitsHold
<1> QED BY <1>1, <1>5, <1>6, PTL DEF NetworkSpec

-----------------------------------------------------------------------------
(* The scholarship milestone. *)

ASSUME CampaignAssumption ==
    /\ IsFiniteSet(Releases) /\ IsFiniteSet(Funds) /\ Releases \cap Funds = {}
    /\ Nobody \notin Reports

Rows == Campaign!Rows
Contribution ==
    [status : {"none", "building", "pending", "expired", "submitted", "confirmed", "failed"},
     order : Nat, text : Reports \cup {Nobody}]
Paying == {"approved", "released"}
Report == [status : Paying \cup {"none", "submitted", "rejected"}, by : People \cup {Nobody},
           text : Reports \cup {Nobody}]
Idle == [s \in Senders |-> "idle"]

\* What a release r, its transaction l, its pending poll p and its senders say of the
\* report e and of the contract's flag m: it was built for the report that was approved,
\* before anybody could submit it.
ReleaseHolds(r, l, p, sn, e, m) ==
    /\ r.status # "none" \/ r.order # 0 \/ l # "absent" \/ sn # Idle => r.text # Nobody
    /\ r.text # Nobody => e.text = r.text /\ e.status \in Paying
    /\ l = "success" => m
    /\ p => m

\* ... and a contribution or refund: no poll goes on from it to the report.
FundHolds(r, l, p) == (r.status = "confirmed" => l = "success") /\ ~p

ReportHolds(e, m, v) ==
    /\ e.status # "none" => e.text # Nobody
    /\ e.status = "released" => m
    /\ m => e.status \in Paying
    /\ v # "idle" => m

CampaignTypes ==
    /\ row \in [Rows -> Contribution] /\ report \in Report /\ milestoneReleased \in BOOLEAN
    /\ ledgerTx \in [Rows -> {"absent", "sent", "success", "failed"}]
    /\ poll \in [Rows -> BOOLEAN]
    /\ sender \in [Rows -> [Senders -> {"idle", "loaded", "saved", "done"}]]
RowHolds(k, r, l, p, sn, e, m) ==
    /\ k \in Releases => ReleaseHolds(r, l, p, sn, e, m)
    /\ k \in Funds => FundHolds(r, l, p)
CampaignInv ==
    /\ CampaignTypes
    /\ \A k \in Rows : RowHolds(k, row[k], ledgerTx[k], poll[k], sender[k], report, milestoneReleased)
    /\ ReportHolds(report, milestoneReleased, viewer)

LEMMA CampaignKnows ==
  ASSUME CampaignInv
  PROVE  /\ row \in [Rows -> Contribution] /\ report \in Report /\ milestoneReleased \in BOOLEAN
         /\ ledgerTx \in [Rows -> {"absent", "sent", "success", "failed"}]
         /\ poll \in [Rows -> BOOLEAN]
         /\ sender \in [Rows -> [Senders -> {"idle", "loaded", "saved", "done"}]]
         /\ \A k \in Rows : RowHolds(k, row[k], ledgerTx[k], poll[k], sender[k], report,
                                     milestoneReleased)
         /\ ReportHolds(report, milestoneReleased, viewer)
BY DEF CampaignInv, CampaignTypes

\* One row moves, with its transaction, its poll and its senders.
RowBecomes(k, r, l, sn, p) ==
    /\ row' = [row EXCEPT ![k] = r] /\ ledgerTx' = [ledgerTx EXCEPT ![k] = l]
    /\ sender' = [sender EXCEPT ![k] = sn] /\ poll' = [poll EXCEPT ![k] = p]
LEMMA RowMoves ==
  ASSUME CampaignInv, NEW k \in Rows, NEW r \in Contribution,
         NEW l \in {"absent", "sent", "success", "failed"}, NEW p \in BOOLEAN,
         NEW sn \in [Senders -> {"idle", "loaded", "saved", "done"}],
         RowBecomes(k, r, l, sn, p), report' \in Report, report'.text = report.text,
         report.status \in Paying => report'.status \in Paying,
         milestoneReleased' \in BOOLEAN, milestoneReleased => milestoneReleased',
         RowHolds(k, r, l, p, sn, report', milestoneReleased'),
         ReportHolds(report', milestoneReleased', viewer')
  PROVE  CampaignInv'
<1>1. /\ row \in [Rows -> Contribution] /\ milestoneReleased \in BOOLEAN
      /\ ledgerTx \in [Rows -> {"absent", "sent", "success", "failed"}]
      /\ poll \in [Rows -> BOOLEAN]
      /\ sender \in [Rows -> [Senders -> {"idle", "loaded", "saved", "done"}]]
      /\ \A j \in Rows : RowHolds(j, row[j], ledgerTx[j], poll[j], sender[j], report,
                                  milestoneReleased)
  BY CampaignKnows
<1>2. CampaignTypes'
  <2>1. row' \in [Rows -> Contribution] BY <1>1 DEF RowBecomes
  <2>2. ledgerTx' \in [Rows -> {"absent", "sent", "success", "failed"}] BY <1>1 DEF RowBecomes
  <2>3. poll' \in [Rows -> BOOLEAN] BY <1>1 DEF RowBecomes
  <2>4. sender' \in [Rows -> [Senders -> {"idle", "loaded", "saved", "done"}]] BY <1>1 DEF RowBecomes
  <2> QED BY <2>1, <2>2, <2>3, <2>4 DEF CampaignTypes, Rows, Campaign!Rows
<1>3. ASSUME NEW j \in Rows
      PROVE  RowHolds(j, row'[j], ledgerTx'[j], poll'[j], sender'[j], report', milestoneReleased')
  <2>1. CASE j = k
    <3>1. row'[j] = r /\ ledgerTx'[j] = l /\ poll'[j] = p /\ sender'[j] = sn
      BY <1>1, <2>1 DEF RowBecomes
    <3> QED BY <2>1, <3>1
  <2>2. CASE j # k
    <3>1. /\ row'[j] = row[j] /\ ledgerTx'[j] = ledgerTx[j] /\ poll'[j] = poll[j]
          /\ sender'[j] = sender[j]
          /\ RowHolds(j, row[j], ledgerTx[j], poll[j], sender[j], report, milestoneReleased)
      BY <1>1, <2>2 DEF RowBecomes
    <3> QED BY <3>1 DEF RowHolds, ReleaseHolds
  <2> QED BY <2>1, <2>2
<1> QED BY <1>2, <1>3 DEF CampaignInv, Rows, Campaign!Rows

\* A report that pays nobody yet is replaced or reviewed: no release was built for it.
LEMMA ReportMoves ==
  ASSUME CampaignInv, report.status \notin Paying, NEW e \in Report, report' = e,
         e.status # "none" => e.text # Nobody, e.status # "released",
         UNCHANGED <<row, ledgerTx, milestoneReleased, sender, viewer, poll>>
  PROVE  CampaignInv'
<1>1. CampaignTypes' BY DEF CampaignInv, CampaignTypes, Rows, Campaign!Rows
<1>2. ReportHolds(report, milestoneReleased, viewer) /\ ~milestoneReleased
  BY CampaignKnows DEF ReportHolds
<1>3. ReportHolds(e, milestoneReleased, viewer) BY <1>2 DEF ReportHolds
<1>4. ASSUME NEW k \in Rows
      PROVE  RowHolds(k, row[k], ledgerTx[k], poll[k], sender[k], e, milestoneReleased)
  <2>1. RowHolds(k, row[k], ledgerTx[k], poll[k], sender[k], report, milestoneReleased)
    BY CampaignKnows
  <2> QED BY <2>1 DEF RowHolds, ReleaseHolds
<1> QED BY <1>1, <1>3, <1>4 DEF CampaignInv, Rows, Campaign!Rows

LEMMA ReportSteps ==
  ASSUME CampaignInv,
         \/ \E b \in Reports : \/ Campaign!StartReport(b) \/ Campaign!ReadReport(b)
                               \/ \E u \in People : Campaign!CreateReport(b, u) \/ Campaign!Resubmit(b, u)
         \/ \E u \in People, d \in {"approved", "rejected"} : Campaign!Review(u, d)
  PROVE  CampaignInv'
<1>1. report \in Report /\ ReportHolds(report, milestoneReleased, viewer) BY CampaignKnows
<1>2. UNCHANGED <<row, ledgerTx, milestoneReleased, sender, viewer, poll>>
  BY DEF Campaign!StartReport, Campaign!ReadReport, Campaign!CreateReport, Campaign!Resubmit,
         Campaign!Review
<1>3. CASE report' = report
  BY <1>2, <1>3 DEF CampaignInv, CampaignTypes, Rows, Campaign!Rows
<1>4. CASE \E b \in Reports, u \in People :
              /\ report.status \in {"none", "rejected"}
              /\ report' = [status |-> "submitted", by |-> u, text |-> b]
  <2>1. PICK b \in Reports, u \in People :
            /\ report.status \in {"none", "rejected"}
            /\ report' = [status |-> "submitted", by |-> u, text |-> b]
    BY <1>4
  <2> DEFINE e == [status |-> "submitted", by |-> u, text |-> b]
  <2>2. e \in Report /\ e.text # Nobody /\ e.status = "submitted" BY CampaignAssumption DEF Report
  <2>3. report' = e /\ report.status \notin Paying BY <2>1 DEF Paying
  <2> HIDE DEF e
  <2> QED BY <1>2, <2>2, <2>3, ReportMoves
<1>5. ASSUME NEW u \in People, NEW d \in {"approved", "rejected"}, Campaign!Review(u, d)
      PROVE  CampaignInv'
  <2> DEFINE e == [report EXCEPT !.status = d]
  <2>1. report' = e /\ report.status = "submitted" BY <1>5 DEF Campaign!Review
  <2>2. e \in Report /\ e.status = d /\ e.text = report.text BY <1>1 DEF Report, Paying
  <2>3. report.text # Nobody BY <1>1, <2>1 DEF ReportHolds
  <2> HIDE DEF e
  <2> QED BY <1>2, <2>1, <2>2, <2>3, ReportMoves DEF Paying
<1> QED BY <1>3, <1>4, <1>5
        DEF Campaign!StartReport, Campaign!ReadReport, Campaign!CreateReport, Campaign!Resubmit

\* A release row is built for the approved report; any other step of a row or of its
\* senders needs one that was built.
RowStep(k, f, g, h) ==
    /\ RowBecomes(k, f, g, h, poll[k])
    /\ f \in Contribution /\ g \in {"absent", "sent", "success", "failed"}
    /\ h \in [Senders -> {"idle", "loaded", "saved", "done"}]
    /\ \/ k \in Releases /\ report.status = "approved" /\ f.text = report.text
       \/ /\ f.text = row[k].text
          /\ k \in Releases => row[k].status # "none" \/ sender[k] # Idle
    /\ f.status = "confirmed" => f.status = row[k].status
    /\ g # ledgerTx[k] => ledgerTx[k] = "absent" /\ g = "sent"

LEMMA RowStepHolds ==
  ASSUME CampaignInv, NEW k \in Rows, NEW f, NEW g, NEW h, RowStep(k, f, g, h),
         UNCHANGED <<milestoneReleased, report, viewer, poll>>
  PROVE  CampaignInv'
<1>1. /\ report \in Report /\ milestoneReleased \in BOOLEAN /\ poll \in [Rows -> BOOLEAN]
      /\ RowHolds(k, row[k], ledgerTx[k], poll[k], sender[k], report, milestoneReleased)
      /\ ReportHolds(report, milestoneReleased, viewer)
  BY CampaignKnows
<1>2. poll' = [poll EXCEPT ![k] = poll[k]] /\ poll[k] \in BOOLEAN BY <1>1
<1>3. RowHolds(k, f, g, poll[k], h, report, milestoneReleased)
  <2>1. CASE k \in Releases
    <3>1. /\ ReleaseHolds(row[k], ledgerTx[k], poll[k], sender[k], report, milestoneReleased)
          /\ k \notin Funds
      BY <1>1, <2>1, CampaignAssumption DEF RowHolds
    <3>2. f.text # Nobody /\ f.text = report.text /\ report.status \in Paying
      BY <1>1, <2>1, <3>1 DEF RowStep, ReleaseHolds, ReportHolds, Paying
    <3> QED BY <3>1, <3>2 DEF RowStep, ReleaseHolds, RowHolds
  <2>2. CASE k \notin Releases
    <3>1. k \in Funds => FundHolds(row[k], ledgerTx[k], poll[k]) BY <1>1 DEF RowHolds
    <3> QED BY <2>2, <3>1 DEF RowStep, RowHolds, FundHolds
  <2> QED BY <2>1, <2>2
<1>4. /\ f \in Contribution /\ g \in {"absent", "sent", "success", "failed"}
      /\ h \in [Senders -> {"idle", "loaded", "saved", "done"}] /\ RowBecomes(k, f, g, h, poll[k])
  BY <1>2 DEF RowStep, RowBecomes
<1> QED BY <1>1, <1>2, <1>3, <1>4, RowMoves

LEMMA RowsCounted == \A s : Campaign!Cardinality(s) = Cardinality(s)
BY DEF Campaign!Cardinality, Cardinality

LEMMA RowSteps ==
  ASSUME CampaignInv, NEW k \in Rows,
         \/ Campaign!BuildRelease(k) \/ Campaign!CreateRow(k) \/ Campaign!ExpireRow(k)
         \/ \E s \in Senders : \/ Campaign!LoadRow(k, s) \/ Campaign!SaveSubmitted(k, s)
                               \/ Campaign!Send(k, s) \/ Campaign!SendRejected(k, s)
                               \/ Campaign!SendLost(k, s)
  PROVE  CampaignInv'
<1>1. /\ row \in [Rows -> Contribution] /\ report \in Report
      /\ ledgerTx \in [Rows -> {"absent", "sent", "success", "failed"}]
      /\ sender \in [Rows -> [Senders -> {"idle", "loaded", "saved", "done"}]]
  BY CampaignKnows
<1>2. UNCHANGED <<milestoneReleased, report, viewer, poll>>
  BY DEF Campaign!BuildRelease, Campaign!CreateRow, Campaign!ExpireRow, Campaign!LoadRow,
         Campaign!SaveSubmitted, Campaign!Send, Campaign!SendRejected, Campaign!SendLost
<1>3. /\ row[k] \in Contribution /\ sender[k] \in [Senders -> {"idle", "loaded", "saved", "done"}]
      /\ row = [row EXCEPT ![k] = row[k]] /\ ledgerTx = [ledgerTx EXCEPT ![k] = ledgerTx[k]]
      /\ sender = [sender EXCEPT ![k] = sender[k]]
      /\ ledgerTx[k] \in {"absent", "sent", "success", "failed"}
      /\ poll = [poll EXCEPT ![k] = poll[k]]
  BY <1>1, CampaignKnows
<1>4. ASSUME NEW q \in {"expired", "submitted", "failed"}
      PROVE  LET f == [row[k] EXCEPT !.status = q]
             IN  f \in Contribution /\ f.text = row[k].text /\ f.status = q
  BY <1>3 DEF Contribution
<1>5. ASSUME NEW s \in Senders, NEW v \in {"loaded", "saved", "done"}
      PROVE  /\ [sender EXCEPT ![k][s] = v] = [sender EXCEPT ![k] = [sender[k] EXCEPT ![s] = v]]
             /\ [sender[k] EXCEPT ![s] = v] \in [Senders -> {"idle", "loaded", "saved", "done"}]
  BY <1>3
<1>6. \A s \in Senders : sender[k][s] # "idle" => sender[k] # Idle BY DEF Idle
<1>7. ASSUME Campaign!BuildRelease(k) PROVE CampaignInv'
  <2> DEFINE f == [row[k] EXCEPT !.status = "building", !.text = report.text]
  <2>1. /\ k \in Releases /\ report.status = "approved" /\ row' = [row EXCEPT ![k] = f]
        /\ UNCHANGED <<ledgerTx, sender>>
    BY <1>7 DEF Campaign!BuildRelease
  <2>2. report.text \in Reports \cup {Nobody} BY <1>1 DEF Report
  <2>3. f \in Contribution /\ f.text = report.text /\ f.status = "building"
    BY <1>3, <2>2 DEF Contribution
  <2> HIDE DEF f
  <2>4. RowStep(k, f, ledgerTx[k], sender[k])
    <3>1. RowBecomes(k, f, ledgerTx[k], sender[k], poll[k]) BY <1>2, <1>3, <2>1 DEF RowBecomes
    <3> QED BY <1>3, <2>1, <2>3, <3>1 DEF RowStep
  <2> QED BY <1>2, <2>4, RowStepHolds
<1>8. ASSUME Campaign!CreateRow(k) PROVE CampaignInv'
  <2> DEFINE n == Campaign!Ordinal
             f == [row[k] EXCEPT !.status = "pending", !.order = n]
  <2>1. /\ k \in Releases => row[k].status = "building" /\ row' = [row EXCEPT ![k] = f]
        /\ row' = [row EXCEPT ![k] = f] /\ UNCHANGED <<ledgerTx, sender>>
    BY <1>8 DEF Campaign!CreateRow
  <2>2. n \in Nat
    <3>1. IsFiniteSet({j \in Campaign!Rows : row[j].order > 0})
      BY CampaignAssumption, FS_Union, FS_Subset DEF Campaign!Rows
    <3> QED BY <3>1, FS_CardinalityType, RowsCounted DEF Campaign!Ordinal
  <2> HIDE DEF n
  <2>3. f \in Contribution /\ f.text = row[k].text /\ f.status = "pending"
    BY <1>3, <2>2 DEF Contribution
  <2> HIDE DEF f
  <2>4. RowStep(k, f, ledgerTx[k], sender[k])
    <3>1. RowBecomes(k, f, ledgerTx[k], sender[k], poll[k]) BY <1>2, <1>3, <2>1 DEF RowBecomes
    <3> QED BY <1>3, <2>1, <2>3, <3>1 DEF RowStep
  <2> QED BY <1>2, <2>4, RowStepHolds
<1>9. ASSUME Campaign!ExpireRow(k) PROVE CampaignInv'
  <2> DEFINE f == [row[k] EXCEPT !.status = "expired"]
  <2>1. /\ row[k].status # "none" /\ row' = [row EXCEPT ![k] = f] /\ UNCHANGED <<ledgerTx, sender>>
    BY <1>9 DEF Campaign!ExpireRow
  <2>2. f \in Contribution /\ f.text = row[k].text /\ f.status = "expired" BY <1>4
  <2> HIDE DEF f
  <2>4. RowStep(k, f, ledgerTx[k], sender[k])
    <3>1. RowBecomes(k, f, ledgerTx[k], sender[k], poll[k]) BY <1>2, <1>3, <2>1 DEF RowBecomes
    <3> QED BY <1>3, <2>1, <2>2, <3>1 DEF RowStep
  <2> QED BY <1>2, <2>4, RowStepHolds
<1>10. ASSUME NEW s \in Senders, Campaign!LoadRow(k, s) PROVE CampaignInv'
  <2> DEFINE h == [sender[k] EXCEPT ![s] = "loaded"]
  <2>1. /\ row[k].status # "none" /\ sender' = [sender EXCEPT ![k] = h] /\ UNCHANGED <<row, ledgerTx>>
    BY <1>5, <1>10 DEF Campaign!LoadRow
  <2>2. h \in [Senders -> {"idle", "loaded", "saved", "done"}] BY <1>5
  <2> HIDE DEF h
  <2>3. RowStep(k, row[k], ledgerTx[k], h)
    <3>1. RowBecomes(k, row[k], ledgerTx[k], h, poll[k]) BY <1>2, <1>3, <2>1 DEF RowBecomes
    <3> QED BY <1>3, <2>1, <2>2, <3>1 DEF RowStep
  <2> QED BY <1>2, <2>3, RowStepHolds
<1>11. ASSUME NEW s \in Senders, Campaign!SaveSubmitted(k, s) PROVE CampaignInv'
  <2> DEFINE h == [sender[k] EXCEPT ![s] = "saved"]
             f == [row[k] EXCEPT !.status = "submitted"]
  <2>1. /\ sender[k][s] # "idle" /\ sender' = [sender EXCEPT ![k] = h]
        /\ row' = [row EXCEPT ![k] = f] /\ UNCHANGED ledgerTx
    BY <1>5, <1>11 DEF Campaign!SaveSubmitted
  <2>2. h \in [Senders -> {"idle", "loaded", "saved", "done"}] BY <1>5
  <2>3. f \in Contribution /\ f.text = row[k].text /\ f.status = "submitted" BY <1>4
  <2> HIDE DEF h, f
  <2>4. RowStep(k, f, ledgerTx[k], h)
    <3>1. RowBecomes(k, f, ledgerTx[k], h, poll[k]) BY <1>2, <1>3, <2>1 DEF RowBecomes
    <3> QED BY <1>3, <1>6, <2>1, <2>2, <2>3, <3>1 DEF RowStep
  <2> QED BY <1>2, <2>4, RowStepHolds
<1>12. ASSUME NEW s \in Senders, Campaign!Send(k, s) PROVE CampaignInv'
  <2> DEFINE h == [sender[k] EXCEPT ![s] = "done"]
             g == IF ledgerTx[k] = "absent" THEN "sent" ELSE ledgerTx[k]
  <2>1. /\ sender[k][s] # "idle" /\ sender' = [sender EXCEPT ![k] = h]
        /\ ledgerTx' = [ledgerTx EXCEPT ![k] = g] /\ UNCHANGED row
    BY <1>5, <1>12 DEF Campaign!Send
  <2>2. h \in [Senders -> {"idle", "loaded", "saved", "done"}] BY <1>5
  <2> HIDE DEF h
  <2>3. /\ g \in {"absent", "sent", "success", "failed"}
        /\ g # ledgerTx[k] => ledgerTx[k] = "absent" /\ g = "sent"
    BY <1>3
  <2> HIDE DEF g
  <2>4. RowStep(k, row[k], g, h)
    <3>1. RowBecomes(k, row[k], g, h, poll[k]) BY <1>2, <1>3, <2>1 DEF RowBecomes
    <3> QED BY <1>3, <1>6, <2>1, <2>2, <2>3, <3>1 DEF RowStep
  <2> QED BY <1>2, <2>4, RowStepHolds
<1>13. ASSUME NEW s \in Senders, Campaign!SendRejected(k, s) PROVE CampaignInv'
  <2> DEFINE h == [sender[k] EXCEPT ![s] = "done"]
             f == [row[k] EXCEPT !.status = "failed"]
  <2>1. /\ sender[k][s] # "idle" /\ sender' = [sender EXCEPT ![k] = h]
        /\ row' = [row EXCEPT ![k] = f] /\ UNCHANGED ledgerTx
    BY <1>5, <1>13 DEF Campaign!SendRejected
  <2>2. h \in [Senders -> {"idle", "loaded", "saved", "done"}] BY <1>5
  <2>3. f \in Contribution /\ f.text = row[k].text /\ f.status = "failed" BY <1>4
  <2> HIDE DEF h, f
  <2>4. RowStep(k, f, ledgerTx[k], h)
    <3>1. RowBecomes(k, f, ledgerTx[k], h, poll[k]) BY <1>2, <1>3, <2>1 DEF RowBecomes
    <3> QED BY <1>3, <1>6, <2>1, <2>2, <2>3, <3>1 DEF RowStep
  <2> QED BY <1>2, <2>4, RowStepHolds
<1>14. ASSUME NEW s \in Senders, Campaign!SendLost(k, s) PROVE CampaignInv'
  <2> DEFINE h == [sender[k] EXCEPT ![s] = "done"]
  <2>1. /\ sender[k][s] # "idle" /\ sender' = [sender EXCEPT ![k] = h] /\ UNCHANGED <<row, ledgerTx>>
    BY <1>5, <1>14 DEF Campaign!SendLost
  <2>2. h \in [Senders -> {"idle", "loaded", "saved", "done"}] BY <1>5
  <2> HIDE DEF h
  <2>3. RowStep(k, row[k], ledgerTx[k], h)
    <3>1. RowBecomes(k, row[k], ledgerTx[k], h, poll[k]) BY <1>2, <1>3, <2>1 DEF RowBecomes
    <3> QED BY <1>3, <1>6, <2>1, <2>2, <3>1 DEF RowStep
  <2> QED BY <1>2, <2>3, RowStepHolds
<1> QED BY <1>7, <1>8, <1>9, <1>10, <1>11, <1>12, <1>13, <1>14

LEMMA NetworkSteps ==
  ASSUME CampaignInv, NEW k \in Rows,
         \/ Campaign!Execute(k) \/ Campaign!ExecuteFails(k)
         \/ Campaign!PollRow(k) \/ Campaign!PollReport(k) \/ Campaign!PollCrash(k)
  PROVE  CampaignInv'
<1>1. /\ row \in [Rows -> Contribution] /\ report \in Report /\ milestoneReleased \in BOOLEAN
      /\ ledgerTx \in [Rows -> {"absent", "sent", "success", "failed"}]
      /\ poll \in [Rows -> BOOLEAN]
      /\ sender \in [Rows -> [Senders -> {"idle", "loaded", "saved", "done"}]]
      /\ RowHolds(k, row[k], ledgerTx[k], poll[k], sender[k], report, milestoneReleased)
      /\ ReportHolds(report, milestoneReleased, viewer)
  BY CampaignKnows
<1>2. /\ row[k] \in Contribution /\ sender[k] \in [Senders -> {"idle", "loaded", "saved", "done"}]
      /\ ledgerTx[k] \in {"absent", "sent", "success", "failed"} /\ poll[k] \in BOOLEAN
      /\ row = [row EXCEPT ![k] = row[k]] /\ ledgerTx = [ledgerTx EXCEPT ![k] = ledgerTx[k]]
      /\ sender = [sender EXCEPT ![k] = sender[k]] /\ poll = [poll EXCEPT ![k] = poll[k]]
  BY <1>1
<1>3. k \in Releases \/ k \in Funds BY DEF Rows, Campaign!Rows
<1>4. ASSUME Campaign!Execute(k) PROVE CampaignInv'
  <2>1. /\ ledgerTx[k] = "sent" /\ ledgerTx' = [ledgerTx EXCEPT ![k] = "success"]
        /\ milestoneReleased' = (milestoneReleased \/ k \in Releases)
        /\ UNCHANGED <<row, report, sender, viewer, poll>>
    BY <1>4 DEF Campaign!Execute
  <2>2. RowBecomes(k, row[k], "success", sender[k], poll[k]) BY <1>2, <2>1 DEF RowBecomes
  <2>3. RowHolds(k, row[k], "success", poll[k], sender[k], report', milestoneReleased')
    BY <1>1, <2>1 DEF RowHolds, ReleaseHolds, FundHolds
  <2>4. k \in Releases => report.status \in Paying BY <1>1, <2>1 DEF RowHolds, ReleaseHolds
  <2>5. ReportHolds(report', milestoneReleased', viewer') BY <1>1, <2>1, <2>4 DEF ReportHolds
  <2>6. /\ milestoneReleased' \in BOOLEAN /\ (milestoneReleased => milestoneReleased')
        /\ report' \in Report /\ report'.text = report.text
        /\ report.status \in Paying => report'.status \in Paying
    BY <1>1, <2>1
  <2> QED BY <1>2, <2>2, <2>3, <2>5, <2>6, RowMoves
<1>5. ASSUME Campaign!ExecuteFails(k) PROVE CampaignInv'
  <2>1. /\ ledgerTx[k] = "sent" /\ ledgerTx' = [ledgerTx EXCEPT ![k] = "failed"]
        /\ UNCHANGED <<row, milestoneReleased, report, sender, viewer, poll>>
    BY <1>5 DEF Campaign!ExecuteFails
  <2>2. RowBecomes(k, row[k], "failed", sender[k], poll[k]) BY <1>2, <2>1 DEF RowBecomes
  <2>3. RowHolds(k, row[k], "failed", poll[k], sender[k], report', milestoneReleased')
    BY <1>1, <2>1 DEF RowHolds, ReleaseHolds, FundHolds
  <2>4. /\ milestoneReleased' \in BOOLEAN /\ (milestoneReleased => milestoneReleased')
        /\ report' \in Report /\ report'.text = report.text
        /\ report.status \in Paying => report'.status \in Paying
        /\ ReportHolds(report', milestoneReleased', viewer')
    BY <1>1, <2>1
  <2> QED BY <1>2, <2>2, <2>3, <2>4, RowMoves
<1>6. ASSUME Campaign!PollRow(k) PROVE CampaignInv'
  <2> DEFINE q == IF ledgerTx[k] = "success" THEN "confirmed" ELSE "failed"
             f == [row[k] EXCEPT !.status = q]
             p == ledgerTx[k] = "success" /\ k \in Releases
  <2>1. /\ row[k].status = "submitted" /\ row' = [row EXCEPT ![k] = f]
        /\ poll' = [poll EXCEPT ![k] = p]
        /\ UNCHANGED <<ledgerTx, milestoneReleased, report, sender, viewer>>
    BY <1>6 DEF Campaign!PollRow
  <2>2. f \in Contribution /\ f.text = row[k].text /\ f.status = q BY <1>2 DEF Contribution
  <2>3. p \in BOOLEAN /\ (p => ledgerTx[k] = "success" /\ k \in Releases) OBVIOUS
  <2>4. q = "confirmed" => ledgerTx[k] = "success" OBVIOUS
  <2> HIDE DEF f, p, q
  <2>5. RowBecomes(k, f, ledgerTx[k], sender[k], p) BY <1>2, <2>1 DEF RowBecomes
  <2>6. RowHolds(k, f, ledgerTx[k], p, sender[k], report', milestoneReleased')
    <3>1. k \in Releases => ReleaseHolds(f, ledgerTx[k], p, sender[k], report, milestoneReleased)
      BY <1>1, <2>1, <2>2, <2>3 DEF RowHolds, ReleaseHolds
    <3>2. k \in Funds => FundHolds(f, ledgerTx[k], p)
      BY <2>2, <2>3, <2>4, CampaignAssumption DEF FundHolds
    <3> QED BY <2>1, <3>1, <3>2 DEF RowHolds
  <2>7. /\ milestoneReleased' \in BOOLEAN /\ (milestoneReleased => milestoneReleased')
        /\ report' \in Report /\ report'.text = report.text
        /\ report.status \in Paying => report'.status \in Paying
        /\ ReportHolds(report', milestoneReleased', viewer')
    BY <1>1, <2>1
  <2> QED BY <1>2, <2>2, <2>3, <2>5, <2>6, <2>7, RowMoves
<1>7. ASSUME Campaign!PollReport(k) \/ Campaign!PollCrash(k) PROVE CampaignInv'
  <2>1. /\ poll[k] /\ poll' = [poll EXCEPT ![k] = FALSE]
        /\ UNCHANGED <<row, ledgerTx, milestoneReleased, sender, viewer>>
        /\ \/ report' = report
           \/ report.status = "approved" /\ report' = [report EXCEPT !.status = "released"]
    BY <1>7 DEF Campaign!PollReport, Campaign!PollCrash
  <2>2. k \in Releases /\ milestoneReleased
    BY <1>1, <1>3, <2>1 DEF RowHolds, ReleaseHolds, FundHolds
  <2>3. RowBecomes(k, row[k], ledgerTx[k], sender[k], FALSE) BY <1>2, <2>1 DEF RowBecomes
  <2>4. /\ report' \in Report /\ report'.text = report.text
        /\ report.status \in Paying => report'.status \in Paying
        /\ report' # report => report.status = "approved" /\ report'.status = "released"
    BY <1>1, <2>1 DEF Report, Paying
  <2>5. RowHolds(k, row[k], ledgerTx[k], FALSE, sender[k], report', milestoneReleased')
    BY <1>1, <2>1, <2>4 DEF RowHolds, ReleaseHolds, FundHolds
  <2>6. ReportHolds(report', milestoneReleased', viewer')
    BY <1>1, <2>1, <2>2, <2>4 DEF ReportHolds, Paying
  <2>7. milestoneReleased' \in BOOLEAN /\ (milestoneReleased => milestoneReleased')
    BY <1>1, <2>1
  <2>8. FALSE \in BOOLEAN OBVIOUS
  <2> QED BY <1>2, <2>3, <2>4, <2>5, <2>6, <2>7, <2>8, RowMoves
<1> QED BY <1>4, <1>5, <1>6, <1>7

\* The repair of a report that the second write missed.
LEMMA ViewSteps ==
  ASSUME CampaignInv, Campaign!ViewLoad \/ Campaign!ViewConfirm \/ Campaign!ViewSave
  PROVE  CampaignInv'
<1>1. /\ row \in [Rows -> Contribution] /\ report \in Report /\ milestoneReleased \in BOOLEAN
      /\ \A k \in Rows : RowHolds(k, row[k], ledgerTx[k], poll[k], sender[k], report,
                                  milestoneReleased)
      /\ ReportHolds(report, milestoneReleased, viewer)
  BY CampaignKnows
<1>2. CASE Campaign!ViewLoad
  <2>1. ReportHolds(report, milestoneReleased, viewer') BY <1>1, <1>2 DEF Campaign!ViewLoad, ReportHolds
  <2> QED BY <1>2, <2>1 DEF Campaign!ViewLoad, CampaignInv, CampaignTypes, Rows, Campaign!Rows
<1>3. CASE Campaign!ViewConfirm
  <2>1. /\ viewer' = "confirmed" /\ viewer = "loaded"
        /\ row' = [k \in Rows |-> IF Campaign!Newest(k) THEN [row[k] EXCEPT !.status = "confirmed"]
                                  ELSE row[k]]
        /\ UNCHANGED <<ledgerTx, milestoneReleased, report, sender, poll>>
    BY <1>3 DEF Campaign!ViewConfirm, Rows
  <2>2. ASSUME NEW k \in Rows
        PROVE  /\ row'[k] \in Contribution
               /\ RowHolds(k, row'[k], ledgerTx[k], poll[k], sender[k], report, milestoneReleased)
    <3>1. CASE ~Campaign!Newest(k) BY <1>1, <2>1, <3>1
    <3>2. CASE Campaign!Newest(k)
      <4> DEFINE f == [row[k] EXCEPT !.status = "confirmed"]
      <4>1. k \in Releases /\ row[k].order # 0 /\ k \notin Funds
        BY <1>1, <3>2, CampaignAssumption DEF Campaign!Newest, Contribution
      <4>2. row'[k] = f BY <2>1, <3>2
      <4>3. f \in Contribution /\ f.text = row[k].text BY <1>1 DEF Contribution
      <4> HIDE DEF f
      <4>4. RowHolds(k, f, ledgerTx[k], poll[k], sender[k], report, milestoneReleased)
        BY <1>1, <4>1, <4>3 DEF RowHolds, ReleaseHolds
      <4> QED BY <4>2, <4>3, <4>4
    <3> QED BY <3>1, <3>2
  <2>3. row' \in [Rows -> Contribution]
    <3>1. row' = [k \in Rows |-> row'[k]] BY <2>1
    <3> QED BY <2>2, <3>1
  <2>4. ReportHolds(report, milestoneReleased, viewer') BY <1>1, <2>1 DEF ReportHolds
  <2> QED BY <2>1, <2>2, <2>3, <2>4 DEF CampaignInv, CampaignTypes, Rows, Campaign!Rows
<1>4. CASE Campaign!ViewSave
  <2> DEFINE e == [report EXCEPT !.status = "released"]
  <2>1. /\ viewer' = "idle" /\ viewer = "confirmed" /\ report' = e
        /\ UNCHANGED <<row, ledgerTx, milestoneReleased, sender, poll>>
    BY <1>4 DEF Campaign!ViewSave
  <2>2. e \in Report /\ e.status = "released" /\ e.text = report.text BY <1>1 DEF Report, Paying
  <2> HIDE DEF e
  <2>3. milestoneReleased /\ report.status \in Paying BY <1>1, <2>1 DEF ReportHolds
  <2>4. ReportHolds(e, milestoneReleased, "idle") BY <1>1, <2>2, <2>3 DEF ReportHolds, Paying
  <2>5. ASSUME NEW k \in Rows
        PROVE  RowHolds(k, row[k], ledgerTx[k], poll[k], sender[k], e, milestoneReleased)
    <3>1. RowHolds(k, row[k], ledgerTx[k], poll[k], sender[k], report, milestoneReleased) BY <1>1
    <3> QED BY <2>2, <3>1 DEF RowHolds, ReleaseHolds, Paying
  <2> QED BY <2>1, <2>2, <2>4, <2>5 DEF CampaignInv, CampaignTypes, Rows, Campaign!Rows
<1> QED BY <1>2, <1>3, <1>4

LEMMA CampaignInit == Campaign!Init => CampaignInv
<1> SUFFICES ASSUME Campaign!Init PROVE CampaignInv OBVIOUS
<1>1. CampaignTypes
  BY DEF Campaign!Init, CampaignTypes, Rows, Contribution, Report, Campaign!NoReport
<1>2. ReportHolds(report, milestoneReleased, viewer)
  BY DEF Campaign!Init, ReportHolds, Campaign!NoReport
<1>3. ASSUME NEW k \in Rows
      PROVE  RowHolds(k, row[k], ledgerTx[k], poll[k], sender[k], report, milestoneReleased)
  <2>1. /\ row[k].status = "none" /\ row[k].order = 0 /\ row[k].text = Nobody
        /\ ledgerTx[k] = "absent" /\ poll[k] = FALSE /\ sender[k] = Idle
    BY <1>3 DEF Campaign!Init, Rows, Idle
  <2> QED BY <2>1 DEF RowHolds, ReleaseHolds, FundHolds
<1> QED BY <1>1, <1>2, <1>3 DEF CampaignInv

\* A milestone's release pays for the very report the arbiter approved, and a contribution
\* is confirmed only when it succeeded, for any number of reports, rows and senders.
THEOREM CampaignKept == NetworkSpec => []CampaignSound
<1>1. NetworkInit => CampaignInv BY CampaignInit DEF NetworkInit
<1>2. CampaignInv /\ UNCHANGED campaignVars => CampaignInv'
  BY DEF CampaignInv, CampaignTypes, campaignVars, Rows, Campaign!Rows
<1>3. [NetworkNext]_allVars => Campaign!Next \/ UNCHANGED campaignVars
  BY DEF NetworkNext, PaymentNext, ReaderNext, paymentVars, allVars
<1>4. CampaignInv /\ Campaign!Next => CampaignInv'
  <2> SUFFICES ASSUME CampaignInv, Campaign!Next PROVE CampaignInv' OBVIOUS
  <2> QED BY ReportSteps, RowSteps, NetworkSteps, ViewSteps DEF Campaign!Next, Rows
<1>5. CampaignInv /\ [NetworkNext]_allVars => CampaignInv' BY <1>2, <1>3, <1>4
<1>6. CampaignInv => CampaignSound
  <2> SUFFICES ASSUME CampaignInv PROVE CampaignSound OBVIOUS
  <2>1. ReportHolds(report, milestoneReleased, viewer) BY CampaignKnows
  <2>2. ASSUME NEW k \in Releases PROVE row[k].text # Nobody =>
                                            report.text = row[k].text /\ report.status \in Paying
    <3>1. k \in Rows BY DEF Rows, Campaign!Rows
    <3>2. RowHolds(k, row[k], ledgerTx[k], poll[k], sender[k], report, milestoneReleased)
      BY <3>1, CampaignKnows
    <3> QED BY <3>2 DEF RowHolds, ReleaseHolds
  <2>3. ASSUME NEW k \in Funds PROVE row[k].status = "confirmed" => ledgerTx[k] = "success"
    <3>1. k \in Rows BY DEF Rows, Campaign!Rows
    <3>2. RowHolds(k, row[k], ledgerTx[k], poll[k], sender[k], report, milestoneReleased)
      BY <3>1, CampaignKnows
    <3> QED BY <3>2 DEF RowHolds, FundHolds
  <2> QED BY <2>1, <2>2, <2>3 DEF CampaignSound, Campaign!CampaignSound, Campaign!PaidForApproved,
          Campaign!FundsConfirmed, ReportHolds, Paying
<1> QED BY <1>1, <1>5, <1>6, PTL DEF NetworkSpec

-----------------------------------------------------------------------------
(***************************************************************************)
(* Proof, for any number of servers, streams and recipients, that an open  *)
(* tab gets the notifications of its user and no others.  A note is on its *)
(* way in one place: with the server that dispatches it, or, for a stream, *)
(* in the messages its server still has to handle and in what was written  *)
(* to it; these together are bounded by the subscriptions of the server.   *)
(***************************************************************************)
ASSUME NotificationsAssumption ==
    MaxSent \in Nat /\ MaxRuns \in Nat /\ IsFiniteSet(Recipients)

StreamRow == [state : {"none"}]
             \cup [state : {"open", "closed"}, user : Recipients, node : Nodes]
Dispatch == [note : Nat, node : Nodes, pc : {"start", "subscribe", "publish"}]
Message == [note : Nat, node : Nodes, sub : Nat]
Job == [runs : {0}, pc : {"none", "due"}, whole : {0}]
       \cup [runs : Nat, node : Nodes, first : Nat \ {0}, pc : {"due", "deliver", "done"}, whole : Nat]

Opened(s, n, u) == stream[s] = [state |-> "open", user |-> u, node |-> n]

NoteTypes ==
    /\ redis \in BOOLEAN /\ subscribed \in [Nodes -> Nat]
    /\ stream \in [Streams -> StreamRow]
    /\ connections \in [Nodes -> [Recipients -> SUBSET Streams]]
    /\ \A n \in Nodes, u \in Recipients, s \in Streams : s \in connections[n][u] <=> Opened(s, n, u)
    /\ notes \in Seq(Recipients) /\ 1..Len(notes) \subseteq N!Numbers
    /\ written \in [Streams -> [N!Numbers -> Nat]]

\* A stream has been written its user's notes only.
OwnNotes ==
    \A s \in Streams, k \in N!Numbers : written[s][k] > 0 =>
      stream[s].state # "none" /\ k \in 1..Len(notes) /\ notes[k] = stream[s].user

\* A note that is being dispatched is nowhere else.
DispatchInv ==
    /\ dispatching \subseteq Dispatch
    /\ \A d \in dispatching :
         /\ d.note \in 1..Len(notes) /\ d.note \notin doubled
         /\ \A s \in Streams : written[s][d.note] = 0
         /\ \A m \in channel : m.note # d.note
         /\ \A e \in dispatching : e.note = d.note => e = d

Carried(c, k, n) == {i \in Nat : [note |-> k, node |-> n, sub |-> i] \in c}

ChannelInv ==
    /\ channel \subseteq Message /\ \A m \in channel : m.note \in 1..Len(notes)
    /\ \A k \in N!Numbers, n \in Nodes :
         /\ IsFiniteSet(Carried(channel, k, n))
         /\ Cardinality(Carried(channel, k, n)) <= subscribed[n]

Extra(k) == IF k \in doubled THEN 1 ELSE 0

OnceInv ==
    /\ doubled \subseteq 1..Len(notes)
    /\ \A s \in Streams, n \in Nodes, u \in Recipients, k \in N!Numbers : Opened(s, n, u) =>
         written[s][k] + Cardinality(Carried(channel, k, n))
           <= N!Larger(1, subscribed[n]) + Extra(k)

DueInv ==
    \A d \in due :
      /\ d[1] \in Streams /\ d[2] \in 1..Len(notes)
      /\ \E n \in Nodes : /\ Opened(d[1], n, notes[d[2]])
                          /\ written[d[1]][d[2]] > 0 \/ Carried(channel, d[2], n) # {}

\* The bulk job does without Redis, and delivers once.
BulkInv ==
    /\ job \in Job
    /\ job.pc = "none" => Len(notes) <= MaxSent
    /\ job.pc # "none" =>
         /\ ~redis /\ channel = {} /\ dispatching = {} /\ due = {}
         /\ job.runs <= MaxRuns /\ Len(notes) <= job.runs * Cardinality(Recipients)
         /\ job.whole <= job.runs
         /\ job.pc # "done" => \A s \in Streams, k \in N!Numbers : written[s][k] = 0
    /\ job.pc \in {"deliver", "done"} =>
         /\ job.whole > 0 /\ job.first + Cardinality(Recipients) - 1 <= Len(notes)
         /\ \A i \in 1..Cardinality(Recipients) : notes[job.first + i - 1] = N!Enrolled[i]

DeliveryInv ==
    NoteTypes /\ OwnNotes /\ DispatchInv /\ ChannelInv /\ OnceInv /\ DueInv /\ BulkInv

LEMMA SizesAgree == \A x : N!Cardinality(x) = Cardinality(x)
BY DEF N!Cardinality, Cardinality

LEMMA EnrolledIs ==
  /\ Cardinality(Recipients) \in Nat
  /\ N!Enrolled \in [1..Cardinality(Recipients) -> Recipients]
  /\ \A i, j \in 1..Cardinality(Recipients) : N!Enrolled[i] = N!Enrolled[j] => i = j
  /\ \A u \in Recipients : \E i \in 1..Cardinality(Recipients) : N!Enrolled[i] = u
  /\ N!Enrolled \in Seq(Recipients) /\ Len(N!Enrolled) = Cardinality(Recipients)
<1> DEFINE c == Cardinality(Recipients)
<1>1. c \in Nat /\ ExistsBijection(1..c, Recipients) BY NotificationsAssumption, FS_CardinalityType
<1>2. PICK f : f \in Bijection(1..c, Recipients) BY <1>1 DEF ExistsBijection
<1>3. f \in [1..c -> Recipients] /\ \A i, j \in 1..c : f[i] = f[j] => i = j
  BY <1>2 DEF Bijection, Injection, IsInjective
<1>4. N!Enrolled = CHOOSE g \in [1..c -> Recipients] : \A i, j \in DOMAIN g : g[i] = g[j] => i = j
  BY SizesAgree DEF N!Enrolled
<1> HIDE DEF c
<1>5. \A i, j \in DOMAIN f : f[i] = f[j] => i = j BY <1>3
<1>6. N!Enrolled \in [1..c -> Recipients]
      /\ \A i, j \in DOMAIN N!Enrolled : N!Enrolled[i] = N!Enrolled[j] => i = j
  <2>1. \E g \in [1..c -> Recipients] : \A i, j \in DOMAIN g : g[i] = g[j] => i = j
    BY <1>3, <1>5
  <2> QED BY <1>4, <2>1, Zenon
<1>7. N!Enrolled \in Injection(1..c, Recipients) BY <1>6 DEF Injection, IsInjective
<1>8. IsFiniteSet(1..c) /\ Cardinality(1..c) = c BY <1>1, FS_Interval
<1>9. N!Enrolled \in Surjection(1..c, Recipients)
  BY <1>7, <1>8, NotificationsAssumption, FS_Injection DEF c
<1>10. \A u \in Recipients : \E i \in 1..c : N!Enrolled[i] = u BY <1>9 DEF Surjection
<1>11. N!Enrolled \in Seq(Recipients) /\ Len(N!Enrolled) = c BY <1>1, <1>6
<1> QED BY <1>1, <1>6, <1>10, <1>11 DEF c

\* A server that delivers writes to the streams of the recipients which it holds.
LEMMA DeliverIs ==
  ASSUME NoteTypes, NEW n \in Nodes, NEW ks, ks \subseteq 1..Len(notes), N!Deliver(n, ks)
  PROVE  /\ written' \in [Streams -> [N!Numbers -> Nat]]
         /\ \A s \in Streams, k \in N!Numbers :
              written'[s][k] = IF k \in ks /\ Opened(s, n, notes[k])
                               THEN written[s][k] + 1 ELSE written[s][k]
<1>1. \A k \in ks : notes[k] \in Recipients BY DEF NoteTypes
<1>2. \A s \in Streams, k \in ks : s \in N!Served(n, k) <=> Opened(s, n, notes[k])
  BY <1>1 DEF N!Served, NoteTypes
<1>3. written' = [s \in Streams |-> [k \in N!Numbers |->
         IF k \in ks /\ s \in N!Served(n, k) THEN written[s][k] + 1 ELSE written[s][k]]]
  BY DEF N!Deliver
<1>4. \A s \in Streams, k \in N!Numbers :
        written'[s][k] = IF k \in ks /\ s \in N!Served(n, k) THEN written[s][k] + 1 ELSE written[s][k]
  BY <1>3
<1>5. \A s \in Streams, k \in N!Numbers : written[s][k] \in Nat BY DEF NoteTypes
<1>6. written' \in [Streams -> [N!Numbers -> Nat]] BY <1>3, <1>5
<1> QED BY <1>2, <1>4, <1>6

LEMMA WrittenOwn ==
  ASSUME NoteTypes, OwnNotes, NEW n \in Nodes, NEW ks, ks \subseteq 1..Len(notes),
         N!Deliver(n, ks), UNCHANGED <<stream, notes>>
  PROVE  OwnNotes'
<1>1. \A s \in Streams, k \in N!Numbers :
        written'[s][k] = IF k \in ks /\ Opened(s, n, notes[k]) THEN written[s][k] + 1 ELSE written[s][k]
  BY DeliverIs
<1>2. \A s \in Streams, k \in N!Numbers : k \in ks /\ Opened(s, n, notes[k])
        => stream[s].state # "none" /\ k \in 1..Len(notes) /\ notes[k] = stream[s].user
  BY DEF Opened
<1> QED BY <1>1, <1>2 DEF OwnNotes

\* A row of a stream says what it is.
LEMMA OpenedIs ==
  ASSUME NoteTypes, NEW s \in Streams
  PROVE  /\ stream[s].state = "open" => /\ stream[s].user \in Recipients /\ stream[s].node \in Nodes
                                        /\ Opened(s, stream[s].node, stream[s].user)
         /\ \A n, u : Opened(s, n, u) => stream[s].state = "open" /\ stream[s].user = u /\ stream[s].node = n
<1>1. stream[s] \in StreamRow BY DEF NoteTypes
<1> QED BY <1>1 DEF StreamRow, Opened

LEMMA CountsAre ==
  ASSUME NoteTypes, ChannelInv, NEW s \in Streams, NEW n \in Nodes, NEW k \in N!Numbers
  PROVE  /\ subscribed[n] \in Nat /\ written[s][k] \in Nat
         /\ Cardinality(Carried(channel, k, n)) \in Nat
         /\ Cardinality(Carried(channel, k, n)) <= subscribed[n]
BY FS_CardinalityType DEF NoteTypes, ChannelInv

LEMMA OpenSteps ==
  ASSUME DeliveryInv, NEW s \in Streams, NEW u \in Recipients, NEW n \in Nodes, N!Open(s, u, n)
  PROVE  DeliveryInv'
<1> USE DEF DeliveryInv
<1> DEFINE tab == [state |-> "open", user |-> u, node |-> n]
<1>1. /\ stream[s].state = "none" /\ stream' = [stream EXCEPT ![s] = tab]
      /\ connections' = [connections EXCEPT ![n][u] = connections[n][u] \cup {s}]
      /\ UNCHANGED <<redis, subscribed, notes, dispatching, channel, written, job, due, doubled>>
  BY DEF N!Open
<1>2. \A k \in N!Numbers : written[s][k] = 0 BY <1>1 DEF OwnNotes, NoteTypes
<1>3. tab \in StreamRow /\ stream \in [Streams -> StreamRow] BY DEF StreamRow, NoteTypes
<1>4. \A t \in Streams : stream'[t] = IF t = s THEN tab ELSE stream[t] BY <1>1, <1>3
<1>5. stream' \in [Streams -> StreamRow] BY <1>1, <1>3
<1>6. \A m, v : ~Opened(s, m, v) BY <1>1, OpenedIs
<1>7. \A t \in Streams : \A m, v : Opened(t, m, v)' <=> Opened(t, m, v) \/ (t = s /\ m = n /\ v = u)
  <2> SUFFICES ASSUME NEW t \in Streams, NEW m, NEW v
               PROVE  (stream'[t] = [state |-> "open", user |-> v, node |-> m])
                        <=> (Opened(t, m, v) \/ (t = s /\ m = n /\ v = u))
    BY DEF Opened
  <2>1. CASE t = s
    <3>1. stream'[t] = tab /\ ~Opened(t, m, v) BY <1>4, <1>6, <2>1
    <3>2. (tab = [state |-> "open", user |-> v, node |-> m]) <=> (m = n /\ v = u) OBVIOUS
    <3> QED BY <2>1, <3>1, <3>2
  <2>2. CASE t # s BY <1>4, <2>2 DEF Opened
  <2> QED BY <2>1, <2>2
<1>8. \A m \in Nodes, v \in Recipients :
        connections'[m][v] = IF m = n /\ v = u THEN connections[n][u] \cup {s} ELSE connections[m][v]
  BY <1>1 DEF NoteTypes
<1>9. connections' \in [Nodes -> [Recipients -> SUBSET Streams]] BY <1>1 DEF NoteTypes
<1>10. NoteTypes' BY <1>1, <1>5, <1>7, <1>8, <1>9 DEF NoteTypes
<1>11. OwnNotes' BY <1>1, <1>2, <1>4 DEF OwnNotes
<1>12. DispatchInv' /\ ChannelInv' /\ BulkInv' BY <1>1 DEF DispatchInv, ChannelInv, BulkInv
<1>13. OnceInv'
  <2> SUFFICES ASSUME NEW t \in Streams, NEW m \in Nodes, NEW v \in Recipients, NEW k \in N!Numbers,
                      Opened(t, m, v)'
               PROVE  written[t][k] + Cardinality(Carried(channel, k, m))
                        <= N!Larger(1, subscribed[m]) + Extra(k)
    BY <1>1 DEF OnceInv, Extra
  <2>1. CASE t = s BY <1>2, <2>1, CountsAre DEF N!Larger, Extra
  <2>2. CASE t # s BY <1>7, <2>2 DEF OnceInv
  <2> QED BY <2>1, <2>2
<1>14. DueInv' BY <1>1, <1>7 DEF DueInv
<1> QED BY <1>10, <1>11, <1>12, <1>13, <1>14

\* Where streams close, nothing is owed any more; the rest stays.
LEMMA StreamsClose ==
  ASSUME DeliveryInv, NEW gone, gone \subseteq Streams,
         \A s \in gone : stream[s].state = "open",
         stream' = [s \in Streams |-> IF s \in gone THEN [stream[s] EXCEPT !.state = "closed"]
                                      ELSE stream[s]]
  PROVE  /\ stream' \in [Streams -> StreamRow]
         /\ \A s \in Streams : /\ s \in gone => ~\E n, u : Opened(s, n, u)'
                               /\ s \notin gone => stream'[s] = stream[s]
         /\ \A s \in Streams : \A n, u : Opened(s, n, u)' <=> Opened(s, n, u) /\ s \notin gone
         /\ \A s \in Streams : /\ stream[s].state # "none" => stream'[s].state # "none"
                               /\ stream[s].state # "none" => stream'[s].user = stream[s].user
<1>1. \A s \in Streams : stream[s] \in StreamRow BY DEF DeliveryInv, NoteTypes
<1>2. \A s \in gone : stream[s] \in [state : {"open", "closed"}, user : Recipients, node : Nodes]
  BY <1>1 DEF StreamRow
<1>3. \A s \in gone : /\ stream'[s] \in [state : {"open", "closed"}, user : Recipients, node : Nodes]
                      /\ stream'[s].state = "closed" /\ stream'[s].user = stream[s].user
  BY <1>2
<1>4. \A s \in Streams \ gone : stream'[s] = stream[s] OBVIOUS
<1>5. \A s \in Streams : stream'[s] \in StreamRow BY <1>1, <1>3, <1>4 DEF StreamRow
<1>6. stream' \in [Streams -> StreamRow] BY <1>5
<1>7. \A s \in gone : ~\E n, u : Opened(s, n, u)' BY <1>3 DEF Opened
<1>8. \A s \in Streams \ gone : \A n, u : Opened(s, n, u)' <=> Opened(s, n, u)
  BY <1>4 DEF Opened
<1> QED BY <1>3, <1>4, <1>6, <1>7, <1>8

LEMMA CloseSteps ==
  ASSUME DeliveryInv, NEW s \in Streams, N!Close(s)
  PROVE  DeliveryInv'
<1> USE DEF DeliveryInv
<1>1. stream[s].state = "open" BY DEF N!Close
<1>2. PICK n \in Nodes, u \in Recipients : n = stream[s].node /\ u = stream[s].user /\ Opened(s, n, u)
  BY <1>1, OpenedIs
<1>3. /\ stream' = [stream EXCEPT ![s].state = "closed"]
      /\ connections' = [connections EXCEPT ![n][u] = connections[n][u] \ {s}]
      /\ due' = {d \in due : d[1] # s}
      /\ UNCHANGED <<redis, subscribed, notes, dispatching, channel, written, job, doubled>>
  BY <1>2 DEF N!Close, N!links
<1>4. stream' = [t \in Streams |-> IF t \in {s} THEN [stream[t] EXCEPT !.state = "closed"]
                                   ELSE stream[t]]
  BY <1>3 DEF NoteTypes
<1>5. /\ stream' \in [Streams -> StreamRow]
      /\ \A t \in Streams : \A m, v : Opened(t, m, v)' <=> Opened(t, m, v) /\ t # s
      /\ \A t \in Streams : /\ stream[t].state # "none" => stream'[t].state # "none"
                            /\ stream[t].state # "none" => stream'[t].user = stream[t].user
  <2> DEFINE gone == {s}
  <2>1. gone \subseteq Streams /\ \A t \in gone : stream[t].state = "open" BY <1>1
  <2>2. stream' = [t \in Streams |-> IF t \in gone THEN [stream[t] EXCEPT !.state = "closed"]
                                     ELSE stream[t]]
    BY <1>4
  <2>3. \A t \in Streams : t \notin gone <=> t # s OBVIOUS
  <2> HIDE DEF gone
  <2>4. /\ stream' \in [Streams -> StreamRow]
        /\ \A t \in Streams : \A m, v : Opened(t, m, v)' <=> Opened(t, m, v) /\ t \notin gone
        /\ \A t \in Streams : /\ stream[t].state # "none" => stream'[t].state # "none"
                              /\ stream[t].state # "none" => stream'[t].user = stream[t].user
    BY <2>1, <2>2, StreamsClose, Zenon
  <2> QED BY <2>3, <2>4
<1>6. \A m, v : Opened(s, m, v) => m = n /\ v = u BY <1>2, OpenedIs
<1>7. \A m \in Nodes, v \in Recipients :
        connections'[m][v] = IF m = n /\ v = u THEN connections[n][u] \ {s} ELSE connections[m][v]
  BY <1>3 DEF NoteTypes
<1>8. connections' \in [Nodes -> [Recipients -> SUBSET Streams]] BY <1>3 DEF NoteTypes
<1>9. NoteTypes' BY <1>3, <1>5, <1>6, <1>7, <1>8 DEF NoteTypes
<1>10. OwnNotes' BY <1>3, <1>5 DEF OwnNotes
<1>11. DispatchInv' /\ ChannelInv' BY <1>3 DEF DispatchInv, ChannelInv
<1>12. BulkInv' BY <1>3 DEF BulkInv
<1>13. OnceInv' BY <1>3, <1>5 DEF OnceInv, Extra
<1>14. DueInv' BY <1>3, <1>5 DEF DueInv
<1> QED BY <1>9, <1>10, <1>11, <1>12, <1>13, <1>14

\* More subscriptions only make room.
LEMMA SubscribedSteps ==
  ASSUME DeliveryInv, NEW n \in Nodes, NEW ok \in BOOLEAN, N!Subscribed(n, ok)
  PROVE  /\ subscribed' \in [Nodes -> Nat]
         /\ \A m \in Nodes : subscribed[m] <= subscribed'[m]
         /\ \A m \in Nodes : N!Larger(1, subscribed[m]) <= N!Larger(1, subscribed'[m])
<1>1. subscribed \in [Nodes -> Nat] BY DEF DeliveryInv, NoteTypes
<1>2. subscribed' \in [Nodes -> Nat] /\ \A m \in Nodes : subscribed'[m] \in {subscribed[m], subscribed[m] + 1}
  BY <1>1 DEF N!Subscribed
<1>3. \A m \in Nodes : subscribed[m] \in Nat /\ subscribed'[m] \in Nat BY <1>1, <1>2
<1> QED BY <1>2, <1>3 DEF N!Larger

LEMMA RoomGrows ==
  ASSUME DeliveryInv, NEW n \in Nodes, NEW ok \in BOOLEAN, N!Subscribed(n, ok),
         UNCHANGED <<stream, connections, notes, channel, written, job, due, doubled>>,
         redis' = redis
  PROVE  NoteTypes' /\ OwnNotes' /\ ChannelInv' /\ OnceInv' /\ DueInv'
<1> USE DEF DeliveryInv
<1>1. /\ subscribed' \in [Nodes -> Nat]
      /\ \A m \in Nodes : subscribed[m] <= subscribed'[m]
      /\ \A m \in Nodes : N!Larger(1, subscribed[m]) <= N!Larger(1, subscribed'[m])
  BY SubscribedSteps
<1>2. NoteTypes' BY <1>1 DEF NoteTypes, Opened
<1>3. OwnNotes' BY DEF OwnNotes
<1>4. \A m \in Nodes : subscribed[m] \in Nat /\ subscribed'[m] \in Nat BY <1>1 DEF NoteTypes
<1>5. ChannelInv'
  <2>1. channel' \subseteq Message /\ \A m \in channel' : m.note \in 1..Len(notes') BY DEF ChannelInv
  <2>2. ASSUME NEW k \in N!Numbers, NEW m \in Nodes
        PROVE  /\ IsFiniteSet(Carried(channel', k, m))
               /\ Cardinality(Carried(channel', k, m)) <= subscribed'[m]
    <3>1. /\ IsFiniteSet(Carried(channel, k, m))
          /\ Cardinality(Carried(channel, k, m)) <= subscribed[m]
      BY DEF ChannelInv
    <3>2. Cardinality(Carried(channel, k, m)) \in Nat BY <3>1, FS_CardinalityType
    <3>3. subscribed[m] \in Nat /\ subscribed'[m] \in Nat /\ subscribed[m] <= subscribed'[m] BY <1>1, <1>4
    <3> QED BY <3>1, <3>2, <3>3
  <2> QED BY <2>1, <2>2 DEF ChannelInv
<1>6. OnceInv'
  <2> SUFFICES ASSUME NEW t \in Streams, NEW m \in Nodes, NEW v \in Recipients, NEW k \in N!Numbers,
                      Opened(t, m, v)'
               PROVE  written[t][k] + Cardinality(Carried(channel, k, m))
                        <= N!Larger(1, subscribed'[m]) + Extra(k)
    BY DEF OnceInv, Extra
  <2>1. Opened(t, m, v) BY DEF Opened
  <2>2. written[t][k] + Cardinality(Carried(channel, k, m)) <= N!Larger(1, subscribed[m]) + Extra(k)
    BY <2>1 DEF OnceInv
  <2>3. /\ written[t][k] \in Nat /\ Cardinality(Carried(channel, k, m)) \in Nat /\ Extra(k) \in Nat
        /\ N!Larger(1, subscribed[m]) \in Nat /\ N!Larger(1, subscribed'[m]) \in Nat
    BY <1>4, CountsAre DEF Extra, N!Larger
  <2> QED BY <1>1, <2>2, <2>3
<1>7. DueInv' BY DEF DueInv, Opened
<1> QED BY <1>2, <1>3, <1>5, <1>6, <1>7

LEMMA FinishSubscribingSteps ==
  ASSUME DeliveryInv, NEW n \in Nodes, NEW ok \in BOOLEAN, N!FinishSubscribing(n, ok)
  PROVE  DeliveryInv'
<1>1. N!Subscribed(n, ok)
      /\ UNCHANGED <<redis, stream, connections, notes, dispatching, channel, written, job, due, doubled>>
  BY DEF N!FinishSubscribing
<1>2. NoteTypes' /\ OwnNotes' /\ ChannelInv' /\ OnceInv' /\ DueInv' BY <1>1, RoomGrows
<1>3. DispatchInv' /\ BulkInv' BY <1>1 DEF DeliveryInv, DispatchInv, BulkInv
<1> QED BY <1>2, <1>3 DEF DeliveryInv

LEMMA SendSteps ==
  ASSUME DeliveryInv, NEW u \in Recipients, NEW n \in Nodes, N!Send(u, n)
  PROVE  DeliveryInv'
<1> USE DEF DeliveryInv
<1> DEFINE k == Len(notes) + 1
           d == [note |-> k, node |-> n, pc |-> "start"]
<1>1. /\ job.pc = "none" /\ Len(notes) < MaxSent /\ notes' = Append(notes, u)
      /\ dispatching' = dispatching \cup {d}
      /\ UNCHANGED <<redis, subscribed, stream, connections, channel, written, job, due, doubled>>
  BY DEF N!Send, N!links
<1>2. notes \in Seq(Recipients) BY DEF NoteTypes
<1>3. Len(notes) \in Nat BY <1>2
<1>4. /\ notes' \in Seq(Recipients) /\ Len(notes') = k
      /\ \A i \in 1..Len(notes) : notes'[i] = notes[i]
  BY <1>1, <1>2
<1>5. Cardinality(Recipients) \in Nat /\ MaxRuns \in Nat /\ MaxSent \in Nat
  BY EnrolledIs, NotificationsAssumption
<1>6. MaxRuns * Cardinality(Recipients) \in Nat BY <1>5
<1>7. 1..k \subseteq N!Numbers /\ k \in N!Numbers BY <1>1, <1>3, <1>5, <1>6, SizesAgree DEF N!Numbers
<1>8. NoteTypes' BY <1>1, <1>4, <1>7 DEF NoteTypes, Opened
<1>9. OwnNotes'
  <2> SUFFICES ASSUME NEW s \in Streams, NEW j \in N!Numbers, written[s][j] > 0
               PROVE  stream[s].state # "none" /\ j \in 1..k /\ notes'[j] = stream[s].user
    BY <1>1, <1>4 DEF OwnNotes
  <2>1. stream[s].state # "none" /\ j \in 1..Len(notes) /\ notes[j] = stream[s].user BY DEF OwnNotes
  <2> QED BY <1>3, <1>4, <2>1
<1>10. \A s \in Streams : written[s][k] = 0
  <2> SUFFICES ASSUME NEW s \in Streams PROVE written[s][k] = 0 OBVIOUS
  <2>1. written[s][k] \in Nat BY <1>7 DEF NoteTypes
  <2>2. k \notin 1..Len(notes) BY <1>3
  <2> QED BY <1>7, <2>1, <2>2 DEF OwnNotes
<1>11. DispatchInv'
  <2>1. d \in Dispatch BY <1>3 DEF Dispatch
  <2>2. \A m \in channel : m.note # k BY <1>3 DEF ChannelInv
  <2>3. k \notin doubled BY <1>3 DEF OnceInv
  <2>4. \A e \in dispatching : e.note # k /\ e.note \in 1..k BY <1>3 DEF DispatchInv
  <2>5. d.note = k /\ k \in 1..k BY <1>3
  <2> HIDE DEF d, k
  <2>6. dispatching' \subseteq Dispatch BY <1>1, <2>1 DEF DispatchInv
  <2>7. ASSUME NEW e \in dispatching'
        PROVE  /\ e.note \in 1..k /\ e.note \notin doubled
               /\ \A s \in Streams : written[s][e.note] = 0
               /\ \A m \in channel : m.note # e.note
               /\ \A f \in dispatching' : f.note = e.note => f = e
    <3>1. CASE e = d BY <1>1, <1>10, <2>2, <2>3, <2>4, <2>5, <3>1
    <3>2. CASE e \in dispatching BY <1>1, <2>4, <2>5, <3>2 DEF DispatchInv
    <3> QED BY <1>1, <3>1, <3>2
  <2> QED BY <1>1, <1>4, <2>6, <2>7 DEF DispatchInv
<1>12. \A m \in channel : m.note \in 1..k BY <1>3 DEF ChannelInv
<1>13. ChannelInv' BY <1>1, <1>4, <1>12 DEF ChannelInv
<1>14. doubled \subseteq 1..k BY <1>3 DEF OnceInv
<1>15. OnceInv' BY <1>1, <1>4, <1>14 DEF OnceInv, Opened, Extra
<1>16. DueInv'
  <2> SUFFICES ASSUME NEW e \in due
               PROVE  /\ e[1] \in Streams /\ e[2] \in 1..k
                      /\ \E m \in Nodes : /\ Opened(e[1], m, notes'[e[2]])
                                          /\ written[e[1]][e[2]] > 0 \/ Carried(channel, e[2], m) # {}
    BY <1>1, <1>4 DEF DueInv, Opened
  <2>1. e[1] \in Streams /\ e[2] \in 1..Len(notes) BY DEF DueInv
  <2>2. PICK m \in Nodes : /\ Opened(e[1], m, notes[e[2]])
                           /\ written[e[1]][e[2]] > 0 \/ Carried(channel, e[2], m) # {}
    BY DEF DueInv
  <2>3. notes'[e[2]] = notes[e[2]] /\ e[2] \in 1..k BY <1>3, <1>4, <2>1
  <2> QED BY <2>1, <2>2, <2>3
<1>17. BulkInv'
  <2>1. Len(notes') <= MaxSent BY <1>1, <1>3, <1>4, <1>5
  <2>2. job' = job /\ job.pc = "none" BY <1>1
  <2> QED BY <2>1, <2>2 DEF BulkInv
<1> QED BY <1>8, <1>9, <1>11, <1>13, <1>15, <1>16, <1>17

\* A dispatch goes on, or ends, without a word.
LEMMA DispatchGoes ==
  ASSUME DispatchInv, NEW d \in dispatching, NEW more, more \subseteq Dispatch,
         \A e \in more : e.note = d.note, \A e, f \in more : e = f,
         dispatching' = (dispatching \ {d}) \cup more,
         UNCHANGED <<notes, doubled, written, channel>>
  PROVE  DispatchInv'
<1>1. dispatching' \subseteq Dispatch BY DEF DispatchInv
<1>2. ASSUME NEW e \in dispatching'
      PROVE  /\ e.note \in 1..Len(notes) /\ e.note \notin doubled
             /\ \A s \in Streams : written[s][e.note] = 0
             /\ \A m \in channel : m.note # e.note
             /\ \A f \in dispatching' : f.note = e.note => f = e
  <2>1. PICK b \in dispatching : b.note = e.note /\ (e \in more => b = d) /\ (e \notin more => b = e)
    OBVIOUS
  <2>2. /\ e.note \in 1..Len(notes) /\ e.note \notin doubled
        /\ \A s \in Streams : written[s][e.note] = 0
        /\ \A m \in channel : m.note # e.note
    BY <2>1 DEF DispatchInv
  <2>3. \A a, c \in dispatching : a.note = c.note => a = c BY DEF DispatchInv
  <2>4. \A f \in dispatching' : f.note = e.note => f = e BY <2>1, <2>3
  <2> QED BY <2>2, <2>4
<1> QED BY <1>1, <1>2 DEF DispatchInv

LEMMA GoIs ==
  ASSUME DispatchInv, NEW d \in dispatching, NEW pc \in {"start", "subscribe", "publish"}, N!Go(d, pc)
  PROVE  \E e \in Dispatch : e.note = d.note /\ dispatching' = (dispatching \ {d}) \cup {e}
<1>1. d \in Dispatch BY DEF DispatchInv
<1>2. [d EXCEPT !.pc = pc] \in Dispatch /\ [d EXCEPT !.pc = pc].note = d.note BY <1>1 DEF Dispatch
<1> QED BY <1>2 DEF N!Go

LEMMA DispatchWent ==
  ASSUME DispatchInv, NEW d \in dispatching, NEW e \in Dispatch, e.note = d.note,
         dispatching' = (dispatching \ {d}) \cup {e},
         UNCHANGED <<notes, doubled, written, channel>>
  PROVE  DispatchInv'
<1> DEFINE more == {e}
<1>1. more \subseteq Dispatch /\ (\A f \in more : f.note = d.note) /\ \A f, g \in more : f = g
  OBVIOUS
<1>2. dispatching' = (dispatching \ {d}) \cup more OBVIOUS
<1> HIDE DEF more
<1> QED BY <1>1, <1>2, DispatchGoes

LEMMA DispatchByRedisSteps ==
  ASSUME DeliveryInv, NEW d \in dispatching, N!DispatchByRedis(d)
  PROVE  DeliveryInv'
<1> USE DEF DeliveryInv
<1>1. /\ UNCHANGED <<redis, stream, connections, notes, job, subscribed, channel, written, due, doubled>>
      /\ N!Go(d, IF N!Flag(d.node) THEN "publish" ELSE "subscribe")
  BY DEF N!DispatchByRedis, N!Quiet
<1>2. PICK e \in Dispatch : e.note = d.note /\ dispatching' = (dispatching \ {d}) \cup {e}
  BY <1>1, GoIs
<1>3. DispatchInv' BY <1>1, <1>2, DispatchWent
<1>4. NoteTypes' /\ OwnNotes' /\ ChannelInv' BY <1>1 DEF NoteTypes, OwnNotes, ChannelInv, Opened
<1>5. OnceInv' /\ DueInv' BY <1>1 DEF OnceInv, DueInv, Opened, Extra
<1>6. BulkInv' BY <1>1 DEF BulkInv
<1> QED BY <1>3, <1>4, <1>5, <1>6

LEMMA DispatchSubscribeSteps ==
  ASSUME DeliveryInv, NEW d \in dispatching, NEW ok \in BOOLEAN, N!DispatchSubscribe(d, ok)
  PROVE  DeliveryInv'
<1> USE DEF DeliveryInv
<1>1. /\ UNCHANGED <<redis, stream, connections, notes, job, channel, written, due, doubled>>
      /\ N!Go(d, "publish") /\ N!Subscribed(d.node, ok)
  BY DEF N!DispatchSubscribe, N!Quiet
<1>2. d \in Dispatch /\ d.node \in Nodes BY DEF DispatchInv, Dispatch
<1>3. PICK e \in Dispatch : e.note = d.note /\ dispatching' = (dispatching \ {d}) \cup {e}
  BY <1>1, GoIs
<1>4. DispatchInv' BY <1>1, <1>3, DispatchWent
<1>5. NoteTypes' /\ OwnNotes' /\ ChannelInv' /\ OnceInv' /\ DueInv' BY <1>1, <1>2, RoomGrows
<1>6. BulkInv' BY <1>1 DEF BulkInv
<1> QED BY <1>4, <1>5, <1>6

LEMMA DispatchLeaves ==
  ASSUME DispatchInv, NEW d \in dispatching, dispatching' = dispatching \ {d}, notes' = notes,
         \A e \in dispatching, s \in Streams : e # d => written'[s][e.note] = written[s][e.note],
         \A m \in channel' : m \in channel \/ m.note = d.note,
         doubled' \subseteq doubled \cup {d.note}
  PROVE  DispatchInv'
<1>1. dispatching' \subseteq Dispatch BY DEF DispatchInv
<1>2. ASSUME NEW e \in dispatching'
      PROVE  /\ e.note \in 1..Len(notes) /\ e.note \notin doubled'
             /\ \A s \in Streams : written'[s][e.note] = 0
             /\ \A m \in channel' : m.note # e.note
             /\ \A f \in dispatching' : f.note = e.note => f = e
  <2>1. e \in dispatching /\ e # d /\ e.note # d.note BY DEF DispatchInv
  <2>2. /\ e.note \in 1..Len(notes) /\ e.note \notin doubled
        /\ \A s \in Streams : written[s][e.note] = 0
        /\ \A m \in channel : m.note # e.note
        /\ \A f \in dispatching : f.note = e.note => f = e
    BY <2>1 DEF DispatchInv
  <2> QED BY <2>1, <2>2
<1> QED BY <1>1, <1>2 DEF DispatchInv

LEMMA NotCarried ==
  ASSUME NEW k, \A m \in channel : m.note # k, NEW n
  PROVE  Carried(channel, k, n) = {} /\ \A i : [note |-> k, node |-> n, sub |-> i] \notin channel
<1> SUFFICES ASSUME NEW i, [note |-> k, node |-> n, sub |-> i] \in channel PROVE FALSE
  BY DEF Carried
<1>1. [note |-> k, node |-> n, sub |-> i].note = k OBVIOUS
<1> QED BY <1>1

\* One message for each subscription of each server.
LEMMA PublishedIs ==
  ASSUME DeliveryInv, NEW k \in 1..Len(notes), \A m \in channel : m.note # k,
         channel' = channel \cup N!Published(k)
  PROVE  /\ channel' \subseteq Message /\ \A m \in channel' : m \in channel \/ m.note = k
         /\ \A j \in N!Numbers, n \in Nodes :
              j # k => Carried(channel', j, n) = Carried(channel, j, n)
         /\ \A n \in Nodes : /\ Carried(channel', k, n) = 1..subscribed[n]
                             /\ subscribed[n] \in Nat
                             /\ IsFiniteSet(Carried(channel', k, n))
                             /\ Cardinality(Carried(channel', k, n)) = subscribed[n]
<1>1. subscribed \in [Nodes -> Nat] /\ k \in Nat BY DEF DeliveryInv, NoteTypes
<1>2. \A n \in Nodes : \A i \in 1..subscribed[n] : i \in Nat BY <1>1
<1>3. N!Published(k) = UNION {{[note |-> k, node |-> n, sub |-> i] : i \in 1..subscribed[n]} : n \in Nodes}
  BY DEF N!Published
<1>4. \A m : m \in N!Published(k)
        <=> \E n \in Nodes : \E i \in 1..subscribed[n] : m = [note |-> k, node |-> n, sub |-> i]
  BY <1>3
<1>5. \A m \in N!Published(k) : m \in Message /\ m.note = k BY <1>1, <1>2, <1>4 DEF Message
<1>6. \A j, n, i : [note |-> j, node |-> n, sub |-> i] \in N!Published(k)
        <=> j = k /\ n \in Nodes /\ i \in 1..subscribed[n]
  BY <1>4
<1>7. channel' \subseteq Message /\ \A m \in channel' : m \in channel \/ m.note = k
  BY <1>5 DEF DeliveryInv, ChannelInv
<1>8. \A j \in N!Numbers, n \in Nodes : j # k => Carried(channel', j, n) = Carried(channel, j, n)
  BY <1>6 DEF Carried
<1>9. \A n \in Nodes : Carried(channel', k, n) = 1..subscribed[n]
  BY <1>2, <1>6, NotCarried DEF Carried
<1>10. ASSUME NEW n \in Nodes
       PROVE  /\ subscribed[n] \in Nat /\ IsFiniteSet(Carried(channel', k, n))
              /\ Cardinality(Carried(channel', k, n)) = subscribed[n]
  <2>1. PICK top \in Nat : top = subscribed[n] BY <1>1
  <2>2. IsFiniteSet(1..top) /\ Cardinality(1..top) = top BY FS_Interval
  <2> QED BY <1>9, <2>1, <2>2
<1> QED BY <1>7, <1>8, <1>9, <1>10

LEMMA PublishChannel ==
  ASSUME DeliveryInv, NEW d \in dispatching, channel' = channel \cup N!Published(d.note),
         UNCHANGED <<notes, subscribed>>
  PROVE  ChannelInv'
<1>1. d.note \in 1..Len(notes) /\ \A m \in channel : m.note # d.note BY DEF DeliveryInv, DispatchInv
<1>2. /\ channel' \subseteq Message /\ \A m \in channel' : m \in channel \/ m.note = d.note
      /\ \A j \in N!Numbers, n \in Nodes :
           j # d.note => Carried(channel', j, n) = Carried(channel, j, n)
      /\ \A n \in Nodes : /\ subscribed[n] \in Nat /\ IsFiniteSet(Carried(channel', d.note, n))
                          /\ Cardinality(Carried(channel', d.note, n)) = subscribed[n]
  BY <1>1, PublishedIs
<1>3. \A m \in channel' : m.note \in 1..Len(notes') BY <1>1, <1>2 DEF DeliveryInv, ChannelInv
<1>4. ASSUME NEW k \in N!Numbers, NEW n \in Nodes
      PROVE  /\ IsFiniteSet(Carried(channel', k, n))
             /\ Cardinality(Carried(channel', k, n)) <= subscribed[n]
  <2>1. CASE k = d.note
    <3>1. /\ subscribed[n] \in Nat /\ IsFiniteSet(Carried(channel', d.note, n))
          /\ Cardinality(Carried(channel', d.note, n)) = subscribed[n]
      BY <1>2
    <3> QED BY <2>1, <3>1
  <2>2. CASE k # d.note
    <3>1. Carried(channel', k, n) = Carried(channel, k, n) BY <1>2, <2>2
    <3> QED BY <3>1 DEF DeliveryInv, ChannelInv
  <2> QED BY <2>1, <2>2
<1> QED BY <1>2, <1>3, <1>4 DEF ChannelInv

\* What is owed stays on its way while no message is taken and no stream changes.
LEMMA OwedStays ==
  ASSUME DeliveryInv, NEW e \in due, UNCHANGED <<stream, notes>>, channel \subseteq channel',
         \A s \in Streams, k \in N!Numbers : written[s][k] > 0 => written'[s][k] > 0
  PROVE  /\ e[1] \in Streams /\ e[2] \in 1..Len(notes')
         /\ \E n \in Nodes : /\ Opened(e[1], n, notes[e[2]])'
                             /\ written'[e[1]][e[2]] > 0 \/ Carried(channel', e[2], n) # {}
<1>1. e[1] \in Streams /\ e[2] \in 1..Len(notes) /\ e[2] \in N!Numbers
  BY DEF DeliveryInv, DueInv, NoteTypes
<1>2. PICK n \in Nodes : /\ Opened(e[1], n, notes[e[2]])
                         /\ written[e[1]][e[2]] > 0 \/ Carried(channel, e[2], n) # {}
  BY DEF DeliveryInv, DueInv
<1>3. stream'[e[1]] = [state |-> "open", user |-> notes'[e[2]], node |-> n] BY <1>2 DEF Opened
<1>4. written'[e[1]][e[2]] > 0 \/ Carried(channel', e[2], n) # {} BY <1>1, <1>2 DEF Carried
<1> QED BY <1>1, <1>3, <1>4 DEF Opened

LEMMA PublishSteps ==
  ASSUME DeliveryInv, NEW d \in dispatching, N!Publish(d)
  PROVE  DeliveryInv'
<1> DEFINE k == d.note
<1>1. /\ channel' = channel \cup N!Published(k) /\ due' = due \cup (N!Owed(k) \X {k})
      /\ dispatching' = dispatching \ {d}
      /\ UNCHANGED <<redis, stream, connections, notes, job, subscribed, written, doubled>>
  BY DEF N!Publish, N!Leave, N!Quiet
<1>2. /\ k \in 1..Len(notes) /\ \A m \in channel : m.note # k
      /\ \A s \in Streams : written[s][k] = 0
  BY DEF DeliveryInv, DispatchInv
<1>3. /\ \A m \in channel' : m \in channel \/ m.note = k
      /\ \A j \in N!Numbers, n \in Nodes : j # k => Carried(channel', j, n) = Carried(channel, j, n)
      /\ \A n \in Nodes : /\ Carried(channel', k, n) = 1..subscribed[n] /\ subscribed[n] \in Nat
                          /\ Cardinality(Carried(channel', k, n)) = subscribed[n]
  BY <1>1, <1>2, PublishedIs
<1>4. NoteTypes' BY <1>1 DEF DeliveryInv, NoteTypes, Opened
<1>5. OwnNotes' BY <1>1 DEF DeliveryInv, OwnNotes
<1>6. DispatchInv'
  <2>1. DispatchInv BY DEF DeliveryInv
  <2> QED BY <1>1, <1>3, <2>1, DispatchLeaves
<1>7. ChannelInv' BY <1>1, PublishChannel
<1>8. OnceInv'
  <2> SUFFICES ASSUME NEW s \in Streams, NEW n \in Nodes, NEW u \in Recipients, NEW j \in N!Numbers,
                      Opened(s, n, u)
               PROVE  written[s][j] + Cardinality(Carried(channel', j, n))
                        <= N!Larger(1, subscribed[n]) + Extra(j)
    BY <1>1 DEF DeliveryInv, OnceInv, Extra, Opened
  <2>1. CASE j = k
    <3>1. written[s][j] = 0 /\ Cardinality(Carried(channel', j, n)) = subscribed[n] BY <1>2, <1>3, <2>1
    <3> QED BY <1>3, <3>1 DEF N!Larger, Extra
  <2>2. CASE j # k
    <3>1. Carried(channel', j, n) = Carried(channel, j, n) BY <1>3, <2>2
    <3> QED BY <3>1 DEF DeliveryInv, OnceInv
  <2> QED BY <2>1, <2>2
<1>9. ASSUME NEW e \in due'
      PROVE  /\ e[1] \in Streams /\ e[2] \in 1..Len(notes')
             /\ \E n \in Nodes : /\ Opened(e[1], n, notes[e[2]])'
                                 /\ written'[e[1]][e[2]] > 0 \/ Carried(channel', e[2], n) # {}
  <2>1. CASE e \in due BY <1>1, <2>1, OwedStays
  <2>2. CASE e \in N!Owed(k) \X {k}
    <3>1. e[1] \in N!Owed(k) /\ e[2] = k BY <2>2
    <3>2. /\ e[1] \in Streams /\ stream[e[1]].state = "open" /\ stream[e[1]].user = notes[k]
          /\ subscribed[stream[e[1]].node] > 0
      BY <3>1 DEF N!Owed, N!Flag
    <3>3. PICK n \in Nodes : n = stream[e[1]].node /\ Opened(e[1], n, notes[k])
      BY <3>2, OpenedIs DEF DeliveryInv
    <3>4. 1 \in 1..subscribed[n] BY <1>3, <3>2, <3>3
    <3>5. Carried(channel', e[2], n) # {} BY <1>3, <3>1, <3>4
    <3>6. Opened(e[1], n, notes[e[2]])' BY <1>1, <3>1, <3>3 DEF Opened
    <3> QED BY <1>1, <1>2, <3>1, <3>2, <3>5, <3>6
  <2> QED BY <1>1, <2>1, <2>2
<1>10. DueInv' BY <1>9 DEF DueInv
<1>11. BulkInv' BY <1>1 DEF DeliveryInv, BulkInv
<1> QED BY <1>4, <1>5, <1>6, <1>7, <1>8, <1>10, <1>11 DEF DeliveryInv

LEMMA DispatchLocallySteps ==
  ASSUME DeliveryInv, NEW d \in dispatching, N!DispatchLocally(d)
  PROVE  DeliveryInv'
<1> DEFINE k == d.note
           here == {s \in N!Owed(k) : stream[s].node = d.node}
<1>1. PICK reached \in BOOLEAN :
        /\ channel' = IF reached THEN channel \cup N!Published(k) ELSE channel
        /\ doubled' = IF reached THEN doubled \cup {k} ELSE doubled
  BY DEF N!DispatchLocally
<1>2. /\ N!Deliver(d.node, {k}) /\ due' = due \cup (here \X {k}) /\ dispatching' = dispatching \ {d}
      /\ UNCHANGED <<redis, stream, connections, notes, job, subscribed>>
  BY DEF N!DispatchLocally, N!Leave, N!Quiet
<1>3. /\ k \in 1..Len(notes) /\ d.node \in Nodes /\ \A m \in channel : m.note # k
      /\ \A s \in Streams : written[s][k] = 0
  BY DEF DeliveryInv, DispatchInv, Dispatch
<1>4. k \in N!Numbers /\ notes[k] \in Recipients BY <1>3 DEF DeliveryInv, NoteTypes
<1>5. NoteTypes /\ OwnNotes /\ DispatchInv BY DEF DeliveryInv
<1>6. PICK ks : ks = {k} OBVIOUS
<1>7. N!Deliver(d.node, ks) /\ ks \subseteq 1..Len(notes) BY <1>2, <1>3, <1>6
<1>8. /\ written' \in [Streams -> [N!Numbers -> Nat]]
      /\ \A s \in Streams, j \in N!Numbers :
           written'[s][j] = IF j \in ks /\ Opened(s, d.node, notes[j])
                            THEN written[s][j] + 1 ELSE written[s][j]
  BY <1>3, <1>5, <1>7, DeliverIs
<1>9. \A s \in Streams, j \in N!Numbers : j # k => written'[s][j] = written[s][j] BY <1>6, <1>8
<1>10. \A s \in Streams : written'[s][k] = IF Opened(s, d.node, notes[k]) THEN 1 ELSE 0
  BY <1>3, <1>4, <1>6, <1>8
<1>11. NoteTypes' BY <1>2, <1>5, <1>8 DEF NoteTypes, Opened
<1>12. OwnNotes' BY <1>2, <1>3, <1>5, <1>7, WrittenOwn
<1>13. \A e \in dispatching : e # d => e.note # k /\ e.note \in N!Numbers
  BY <1>5 DEF DispatchInv, NoteTypes
<1>14. channel' = channel \/ channel' = channel \cup N!Published(k) BY <1>1
<1>15. \A m \in channel' : m \in channel \/ m.note = k
  <2>1. CASE channel' = channel BY <2>1
  <2>2. CASE channel' = channel \cup N!Published(k) BY <1>3, <2>2, PublishedIs
  <2> QED BY <1>14, <2>1, <2>2
<1>16. DispatchInv'
  <2>1. \A e \in dispatching, s \in Streams : e # d => written'[s][e.note] = written[s][e.note]
    BY <1>9, <1>13
  <2>2. doubled' \subseteq doubled \cup {d.note} BY <1>1
  <2> QED BY <1>2, <1>5, <1>15, <2>1, <2>2, DispatchLeaves
<1>17. ChannelInv'
  <2>1. CASE channel' = channel BY <1>2, <2>1 DEF DeliveryInv, ChannelInv
  <2>2. CASE channel' = channel \cup N!Published(k) BY <1>2, <2>2, PublishChannel
  <2> QED BY <1>14, <2>1, <2>2
<1>18. OnceInv'
  <2>1. doubled' \subseteq 1..Len(notes') BY <1>1, <1>2, <1>3 DEF DeliveryInv, OnceInv
  <2>2. ASSUME NEW s \in Streams, NEW n \in Nodes, NEW u \in Recipients, NEW j \in N!Numbers,
               Opened(s, n, u)
        PROVE  written'[s][j] + Cardinality(Carried(channel', j, n))
                 <= N!Larger(1, subscribed[n]) + (IF j \in doubled' THEN 1 ELSE 0)
    <3>1. CASE j = k /\ reached
      <4>1. channel' = channel \cup N!Published(k) /\ j \in doubled' BY <1>1, <3>1
      <4>2. subscribed[n] \in Nat /\ Cardinality(Carried(channel', j, n)) = subscribed[n]
        BY <1>3, <3>1, <4>1, PublishedIs
      <4>3. written'[s][j] \in {0, 1} BY <1>10, <3>1
      <4> QED BY <4>1, <4>2, <4>3 DEF N!Larger
    <3>2. CASE j = k /\ ~reached
      <4>1. channel' = channel BY <1>1, <3>2
      <4>2. Carried(channel, j, n) = {} BY <1>3, <3>2, NotCarried
      <4>5. subscribed[n] \in Nat BY <1>5 DEF NoteTypes
      <4>3. written'[s][j] \in {0, 1} BY <1>10, <3>2
      <4>4. Cardinality(Carried(channel', j, n)) = 0 BY <4>1, <4>2, FS_EmptySet
      <4> QED BY <4>3, <4>4, <4>5 DEF N!Larger
    <3>3. CASE j # k
      <4>1. written'[s][j] = written[s][j] BY <1>9, <3>3
      <4>2. (j \in doubled') <=> (j \in doubled) BY <1>1, <3>3
      <4>3. Carried(channel', j, n) = Carried(channel, j, n)
        <5>1. CASE channel' = channel BY <5>1
        <5>2. CASE channel' = channel \cup N!Published(k)
          <6>1. \A i \in N!Numbers, m \in Nodes :
                  i # k => Carried(channel', i, m) = Carried(channel, i, m)
            BY <1>3, <5>2, PublishedIs
          <6> QED BY <3>3, <6>1
        <5> QED BY <1>14, <5>1, <5>2
      <4>4. written[s][j] + Cardinality(Carried(channel, j, n)) <= N!Larger(1, subscribed[n]) + Extra(j)
        BY <2>2 DEF DeliveryInv, OnceInv
      <4> QED BY <4>1, <4>2, <4>3, <4>4 DEF Extra
    <3> QED BY <3>1, <3>2, <3>3
  <2> QED BY <1>2, <2>1, <2>2 DEF OnceInv, Opened, Extra
<1>19. ASSUME NEW e \in due'
       PROVE  /\ e[1] \in Streams /\ e[2] \in 1..Len(notes')
              /\ \E n \in Nodes : /\ Opened(e[1], n, notes[e[2]])'
                                  /\ written'[e[1]][e[2]] > 0 \/ Carried(channel', e[2], n) # {}
  <2>1. CASE e \in due
    <3>1. channel \subseteq channel' BY <1>14
    <3>2. \A s \in Streams, j \in N!Numbers : written[s][j] \in Nat BY <1>5 DEF NoteTypes
    <3>3. \A s \in Streams, j \in N!Numbers : written[s][j] > 0 => written'[s][j] > 0
      BY <1>8, <3>2
    <3> QED BY <1>2, <2>1, <3>1, <3>3, OwedStays
  <2>2. CASE e \in here \X {k}
    <3>1. e[1] \in here /\ e[2] = k BY <2>2
    <3>2. /\ e[1] \in Streams /\ stream[e[1]].state = "open" /\ stream[e[1]].user = notes[k]
          /\ stream[e[1]].node = d.node
      BY <3>1 DEF N!Owed
    <3>3. Opened(e[1], d.node, notes[k]) BY <1>5, <3>2, OpenedIs
    <3>4. written'[e[1]][e[2]] > 0 BY <1>10, <3>1, <3>2, <3>3
    <3>5. Opened(e[1], d.node, notes[e[2]])' BY <1>2, <3>1, <3>3 DEF Opened
    <3> QED BY <1>2, <1>3, <3>1, <3>2, <3>4, <3>5
  <2> QED BY <1>2, <2>1, <2>2
<1>20. DueInv' BY <1>19 DEF DueInv
<1>21. BulkInv' BY <1>2 DEF DeliveryInv, BulkInv
<1> QED BY <1>11, <1>12, <1>16, <1>17, <1>18, <1>20, <1>21 DEF DeliveryInv

LEMMA ReceiveSteps ==
  ASSUME DeliveryInv, NEW m \in channel, N!Receive(m)
  PROVE  DeliveryInv'
<1> DEFINE k == m.note
           at == m.node
<1>1. /\ N!Deliver(at, {k}) /\ channel' = channel \ {m}
      /\ UNCHANGED <<redis, stream, connections, notes, job, subscribed, dispatching, due, doubled>>
  BY DEF N!Receive, N!Quiet
<1>2. m \in Message /\ k \in 1..Len(notes) BY DEF DeliveryInv, ChannelInv
<1>3. k \in N!Numbers /\ at \in Nodes /\ m.sub \in Nat /\ m = [note |-> k, node |-> at, sub |-> m.sub]
  BY <1>2 DEF Message, DeliveryInv, NoteTypes
<1>4. NoteTypes /\ OwnNotes /\ DispatchInv /\ ChannelInv BY DEF DeliveryInv
<1>5. PICK ks : ks = {k} OBVIOUS
<1>6. N!Deliver(at, ks) /\ ks \subseteq 1..Len(notes) BY <1>1, <1>2, <1>5
<1>7. /\ written' \in [Streams -> [N!Numbers -> Nat]]
      /\ \A s \in Streams, j \in N!Numbers :
           written'[s][j] = IF j \in ks /\ Opened(s, at, notes[j]) THEN written[s][j] + 1 ELSE written[s][j]
  BY <1>3, <1>4, <1>6, DeliverIs
<1>8. \A s \in Streams, j \in N!Numbers : j # k => written'[s][j] = written[s][j] BY <1>5, <1>7
<1>9. \A s \in Streams : written'[s][k] = IF Opened(s, at, notes[k]) THEN written[s][k] + 1 ELSE written[s][k]
  BY <1>3, <1>5, <1>7
<1>10. \A j, n : j # k \/ n # at => Carried(channel', j, n) = Carried(channel, j, n)
  <2> SUFFICES ASSUME NEW j, NEW n, j # k \/ n # at
               PROVE  \A i : [note |-> j, node |-> n, sub |-> i] # m
    BY <1>1 DEF Carried
  <2>1. \A i : [note |-> j, node |-> n, sub |-> i].note = j /\ [note |-> j, node |-> n, sub |-> i].node = n
    OBVIOUS
  <2> QED BY <2>1
<1>11. Carried(channel', k, at) = Carried(channel, k, at) \ {m.sub} /\ m.sub \in Carried(channel, k, at)
  <2>1. \A i : ([note |-> k, node |-> at, sub |-> i] = m) <=> (i = m.sub) BY <1>3
  <2> QED BY <1>1, <1>3, <2>1 DEF Carried
<1>12. /\ IsFiniteSet(Carried(channel', k, at))
       /\ Cardinality(Carried(channel', k, at)) = Cardinality(Carried(channel, k, at)) - 1
  <2>1. PICK old, i : old = Carried(channel, k, at) /\ i = m.sub OBVIOUS
  <2>2. IsFiniteSet(old) BY <1>3, <1>4, <2>1 DEF ChannelInv
  <2>3. IsFiniteSet(old \ {i}) /\ Cardinality(old \ {i}) = Cardinality(old) - 1
    BY <1>11, <2>1, <2>2, FS_RemoveElement
  <2> QED BY <1>11, <2>1, <2>3
<1>13. NoteTypes' BY <1>1, <1>4, <1>7 DEF NoteTypes, Opened
<1>14. OwnNotes' BY <1>1, <1>3, <1>4, <1>6, WrittenOwn
<1>15. DispatchInv'
  <2>1. \A d \in dispatching : d.note # k /\ d.note \in N!Numbers BY <1>4 DEF DispatchInv, NoteTypes
  <2>2. \A d \in dispatching, s \in Streams : written'[s][d.note] = written[s][d.note] BY <1>8, <2>1
  <2> QED BY <1>1, <1>4, <2>2 DEF DispatchInv
<1>16. ChannelInv'
  <2>1. channel' \subseteq Message /\ \A c \in channel' : c.note \in 1..Len(notes')
    BY <1>1, <1>4 DEF ChannelInv
  <2>2. ASSUME NEW j \in N!Numbers, NEW n \in Nodes
        PROVE  /\ IsFiniteSet(Carried(channel', j, n))
               /\ Cardinality(Carried(channel', j, n)) <= subscribed'[n]
    <3>1. /\ IsFiniteSet(Carried(channel, j, n)) /\ Cardinality(Carried(channel, j, n)) <= subscribed[n]
          /\ subscribed[n] \in Nat
      BY <1>4 DEF ChannelInv, NoteTypes
    <3>2. Cardinality(Carried(channel, j, n)) \in Nat BY <3>1, FS_CardinalityType
    <3>3. CASE j = k /\ n = at BY <1>1, <1>12, <3>1, <3>2, <3>3
    <3>4. CASE j # k \/ n # at BY <1>1, <1>10, <3>1, <3>4
    <3> QED BY <3>3, <3>4
  <2> QED BY <2>1, <2>2 DEF ChannelInv
<1>17. OnceInv'
  <2>1. doubled' \subseteq 1..Len(notes') BY <1>1 DEF DeliveryInv, OnceInv
  <2>2. ASSUME NEW s \in Streams, NEW n \in Nodes, NEW u \in Recipients, NEW j \in N!Numbers,
               Opened(s, n, u)
        PROVE  written'[s][j] + Cardinality(Carried(channel', j, n))
                 <= N!Larger(1, subscribed[n]) + Extra(j)
    <3>1. written[s][j] + Cardinality(Carried(channel, j, n)) <= N!Larger(1, subscribed[n]) + Extra(j)
      BY <2>2 DEF DeliveryInv, OnceInv
    <3>2. /\ subscribed[n] \in Nat /\ written[s][j] \in Nat
          /\ Cardinality(Carried(channel, j, n)) \in Nat
      BY <1>4, CountsAre
    <3>3. N!Larger(1, subscribed[n]) \in Nat /\ Extra(j) \in Nat BY <3>2 DEF N!Larger, Extra
    <3>4. CASE j = k /\ n = at
      <4>1. written'[s][j] \in {written[s][j], written[s][j] + 1} BY <1>9, <3>4
      <4>2. Cardinality(Carried(channel', j, n)) = Cardinality(Carried(channel, j, n)) - 1
        BY <1>12, <3>4
      <4> QED BY <3>1, <3>2, <3>3, <4>1, <4>2
    <3>5. CASE j = k /\ n # at
      <4>1. ~Opened(s, at, notes[k]) BY <1>4, <2>2, <3>5, OpenedIs
      <4>2. written'[s][j] = written[s][j] BY <1>9, <3>5, <4>1
      <4> QED BY <1>10, <3>1, <3>5, <4>2
    <3>6. CASE j # k BY <1>8, <1>10, <3>1, <3>6
    <3> QED BY <3>4, <3>5, <3>6
  <2> QED BY <1>1, <2>1, <2>2 DEF OnceInv, Opened, Extra
<1>18. ASSUME NEW e \in due
       PROVE  /\ e[1] \in Streams /\ e[2] \in 1..Len(notes')
              /\ \E n \in Nodes : /\ Opened(e[1], n, notes[e[2]])'
                                  /\ written'[e[1]][e[2]] > 0 \/ Carried(channel', e[2], n) # {}
  <2>1. e[1] \in Streams /\ e[2] \in 1..Len(notes) /\ e[2] \in N!Numbers
    BY <1>4 DEF DeliveryInv, DueInv, NoteTypes
  <2>2. PICK n \in Nodes : /\ Opened(e[1], n, notes[e[2]])
                           /\ written[e[1]][e[2]] > 0 \/ Carried(channel, e[2], n) # {}
    BY DEF DeliveryInv, DueInv
  <2>3. Opened(e[1], n, notes[e[2]])' BY <1>1, <2>2 DEF Opened
  <2>4. \A s \in Streams, j \in N!Numbers : written[s][j] \in Nat BY <1>4 DEF NoteTypes
  <2>5. written[e[1]][e[2]] > 0 => written'[e[1]][e[2]] > 0 BY <1>7, <2>1, <2>4
  <2>6. written'[e[1]][e[2]] > 0 \/ Carried(channel', e[2], n) # {}
    <3>1. CASE e[2] = k /\ n = at
      <4>1. written'[e[1]][k] = written[e[1]][k] + 1 /\ written[e[1]][k] \in Nat
        BY <1>3, <1>9, <2>1, <2>2, <2>4, <3>1
      <4> QED BY <3>1, <4>1
    <3>2. CASE e[2] # k \/ n # at BY <1>10, <2>2, <2>5, <3>2
    <3> QED BY <3>1, <3>2
  <2> QED BY <1>1, <2>1, <2>3, <2>6
<1>19. DueInv' BY <1>1, <1>18 DEF DueInv
<1>20. BulkInv' BY <1>1 DEF DeliveryInv, BulkInv
<1> QED BY <1>13, <1>14, <1>15, <1>16, <1>17, <1>19, <1>20 DEF DeliveryInv

\* The bound of the notes leaves room for each run of the bulk job.
LEMMA RunsFit ==
  ASSUME NEW size \in Nat, NEW runs \in Nat, runs < MaxRuns
  PROVE  /\ (runs + 1) * size = runs * size + size /\ runs * size \in Nat
         /\ runs * size + size <= MaxSent + MaxRuns * size /\ MaxRuns * size \in Nat
<1>1. PICK rest \in Nat : MaxRuns = (runs + 1) + rest
  <2>1. MaxRuns - (runs + 1) \in Nat BY NotificationsAssumption
  <2> QED BY <2>1, NotificationsAssumption
<1>2. MaxRuns * size = (runs + 1) * size + rest * size BY <1>1
<1>3. (runs + 1) * size = runs * size + size OBVIOUS
<1>4. rest * size \in Nat /\ runs * size \in Nat /\ MaxSent \in Nat BY <1>1, NotificationsAssumption
<1> QED BY <1>2, <1>3, <1>4

LEMMA InsertManySteps ==
  ASSUME DeliveryInv, NEW n \in Nodes, NEW count \in 0..Len(N!Enrolled), N!InsertMany(n, count)
  PROVE  DeliveryInv'
<1> USE DEF DeliveryInv
<1> DEFINE size == Cardinality(Recipients)
           before == Len(notes)
<1>1. /\ job.pc = "due" /\ job.runs < MaxRuns /\ notes' = notes \o SubSeq(N!Enrolled, 1, count)
      /\ job' = [runs |-> job.runs + 1, node |-> n, first |-> Len(notes) + 1,
                 pc |-> IF count = Len(N!Enrolled) THEN "deliver" ELSE "due",
                 whole |-> IF count = Len(N!Enrolled) THEN job.whole + 1 ELSE job.whole]
      /\ UNCHANGED <<redis, subscribed, stream, connections, dispatching, channel, written, due, doubled>>
  BY DEF N!InsertMany, N!links
<1>2. /\ size \in Nat /\ N!Enrolled \in Seq(Recipients) /\ Len(N!Enrolled) = size
      /\ count \in 0..size
  BY EnrolledIs
<1>3. notes \in Seq(Recipients) /\ before \in Nat BY DEF NoteTypes
<1>4. PICK added : added = SubSeq(N!Enrolled, 1, count) OBVIOUS
<1>5. /\ added \in Seq(Recipients) /\ Len(added) = count
      /\ \A i \in 1..count : added[i] = N!Enrolled[i]
  BY <1>2, <1>4
<1>6. /\ notes' \in Seq(Recipients) /\ Len(notes') = before + count
      /\ \A i \in 1..before : notes'[i] = notes[i]
      /\ \A i \in 1..count : notes'[before + i] = N!Enrolled[i]
  BY <1>1, <1>2, <1>3, <1>4, <1>5
<1>7. /\ ~redis /\ channel = {} /\ dispatching = {} /\ due = {} /\ job \in Job
      /\ before <= job.runs * size /\ job.whole <= job.runs
      /\ \A s \in Streams, k \in N!Numbers : written[s][k] = 0
  BY <1>1 DEF BulkInv
<1>8. job.runs \in Nat /\ job.whole \in Nat BY <1>7 DEF Job
<1>9. /\ (job.runs + 1) * size = job.runs * size + size /\ job.runs * size \in Nat
      /\ job.runs * size + size <= MaxSent + MaxRuns * size /\ MaxRuns * size \in Nat
  BY <1>1, <1>2, <1>8, RunsFit
<1>10. N!Numbers = 1..MaxSent + MaxRuns * size BY SizesAgree DEF N!Numbers
<1> HIDE DEF size, before
<1>11. Len(notes') \in Nat /\ Len(notes') <= job.runs * size + size BY <1>2, <1>3, <1>6, <1>7, <1>9
<1>12. 1..Len(notes') \subseteq N!Numbers
  <2>1. PICK top \in Nat : top = Len(notes') BY <1>11
  <2>2. PICK so \in Nat, all \in Nat : so = job.runs * size /\ all = MaxRuns * size BY <1>9
  <2>3. top <= so + size /\ so + size <= MaxSent + all BY <1>9, <1>11, <2>1, <2>2
  <2>4. top <= MaxSent + all BY <1>2, <2>3, NotificationsAssumption
  <2>5. N!Numbers = 1..MaxSent + all BY <1>10, <2>2
  <2> QED BY <2>1, <2>2, <2>4, <2>5, NotificationsAssumption
<1>13. NoteTypes' BY <1>1, <1>6, <1>12 DEF NoteTypes, Opened
<1>14. OwnNotes' BY <1>1, <1>7 DEF OwnNotes
<1>15. DispatchInv' BY <1>1, <1>7 DEF DispatchInv
<1>16. ChannelInv' BY <1>1, <1>7 DEF ChannelInv
<1>17. doubled \subseteq 1..Len(notes')
  <2>1. doubled \subseteq 1..before BY DEF OnceInv, before
  <2> QED BY <1>2, <1>3, <1>6, <2>1
<1>18. OnceInv' BY <1>1, <1>17 DEF OnceInv, Opened, Extra
<1>19. DueInv' BY <1>1, <1>7 DEF DueInv
<1>20. BulkInv'
  <2>1. /\ job'.runs = job.runs + 1 /\ job'.first = before + 1
        /\ job'.pc = IF count = size THEN "deliver" ELSE "due"
        /\ job'.whole = IF count = size THEN job.whole + 1 ELSE job.whole
    BY <1>1, <1>2 DEF before
  <2>2. /\ job.runs + 1 \in Nat /\ before + 1 \in Nat \ {0}
        /\ (IF count = size THEN job.whole + 1 ELSE job.whole) \in Nat
        /\ (IF count = size THEN "deliver" ELSE "due") \in {"due", "deliver", "done"}
    BY <1>3, <1>8
  <2>3. job' \in Job BY <1>1, <1>2, <2>2 DEF Job, before
  <2>4. /\ job'.runs <= MaxRuns /\ Len(notes') <= job'.runs * size /\ job'.whole <= job'.runs
    <3>1. job'.runs <= MaxRuns BY <1>1, <1>8, <2>1, NotificationsAssumption
    <3>2. Len(notes') <= job'.runs * size BY <1>9, <1>11, <2>1
    <3>3. job'.whole <= job'.runs BY <1>7, <1>8, <2>1
    <3> QED BY <3>1, <3>2, <3>3
  <2>5. job'.pc # "none" /\ job'.pc # "done" BY <2>1
  <2>6. job'.pc \in {"deliver", "done"} =>
          /\ job'.whole > 0 /\ job'.first + size - 1 <= Len(notes')
          /\ \A i \in 1..size : notes'[job'.first + i - 1] = N!Enrolled[i]
    <3> SUFFICES ASSUME job'.pc \in {"deliver", "done"}
                 PROVE  /\ job'.whole > 0 /\ job'.first + size - 1 <= Len(notes')
                        /\ \A i \in 1..size : notes'[job'.first + i - 1] = N!Enrolled[i]
      OBVIOUS
    <3>1. count = size BY <2>1
    <3>2. job'.whole > 0 BY <1>8, <2>1, <3>1
    <3>3. job'.first + size - 1 <= Len(notes') BY <1>2, <1>3, <1>6, <2>1, <3>1
    <3>4. ASSUME NEW i \in 1..size PROVE notes'[job'.first + i - 1] = N!Enrolled[i]
      <4>1. job'.first + i - 1 = before + i BY <1>2, <1>3, <2>1
      <4> QED BY <1>6, <3>1, <4>1
    <3> QED BY <3>2, <3>3, <3>4
  <2> QED BY <1>1, <1>7, <2>3, <2>4, <2>5, <2>6 DEF BulkInv, size
<1> QED BY <1>13, <1>14, <1>15, <1>16, <1>18, <1>19, <1>20

LEMMA DeliverBulkSteps ==
  ASSUME DeliveryInv, N!DeliverBulk
  PROVE  DeliveryInv'
<1> USE DEF DeliveryInv
<1> DEFINE size == Cardinality(Recipients)
<1>1. /\ job.pc = "deliver" /\ N!Deliver(job.node, job.first..job.first + Len(N!Enrolled) - 1)
      /\ job' = [job EXCEPT !.pc = "done"]
      /\ UNCHANGED <<redis, subscribed, stream, connections, notes, dispatching, channel, due, doubled>>
  BY DEF N!DeliverBulk, N!links
<1>2. /\ channel = {} /\ dispatching = {} /\ due = {} /\ job \in Job
      /\ job.runs <= MaxRuns /\ Len(notes) <= job.runs * size /\ job.whole <= job.runs
      /\ \A s \in Streams, k \in N!Numbers : written[s][k] = 0
      /\ job.whole > 0 /\ job.first + size - 1 <= Len(notes)
      /\ \A i \in 1..size : notes[job.first + i - 1] = N!Enrolled[i]
      /\ ~redis
  BY <1>1 DEF BulkInv
<1>3. job \in [runs : Nat, node : Nodes, first : Nat \ {0}, pc : {"due", "deliver", "done"}, whole : Nat]
  BY <1>1, <1>2 DEF Job
<1>4. PICK at \in Nodes : at = job.node BY <1>3
<1>17. PICK ks : ks = job.first..job.first + Len(N!Enrolled) - 1 OBVIOUS
<1>5. Len(N!Enrolled) = size /\ size \in Nat /\ Len(notes) \in Nat BY EnrolledIs DEF NoteTypes
<1>6. ks \subseteq 1..Len(notes) /\ N!Deliver(at, ks) BY <1>1, <1>2, <1>3, <1>4, <1>5, <1>17
<1>7. /\ written' \in [Streams -> [N!Numbers -> Nat]]
      /\ \A s \in Streams, j \in N!Numbers :
           written'[s][j] = IF j \in ks /\ Opened(s, at, notes[j]) THEN written[s][j] + 1 ELSE written[s][j]
  BY <1>6, DeliverIs
<1>8. \A s \in Streams, j \in N!Numbers : written'[s][j] \in {0, 1} BY <1>2, <1>7
<1>9. NoteTypes' BY <1>1, <1>7 DEF NoteTypes, Opened
<1>10. OwnNotes' BY <1>1, <1>6, WrittenOwn
<1>11. DispatchInv' BY <1>1, <1>2 DEF DispatchInv
<1>12. ChannelInv' BY <1>1 DEF ChannelInv
<1>13. OnceInv'
  <2> SUFFICES ASSUME NEW s \in Streams, NEW n \in Nodes, NEW u \in Recipients, NEW j \in N!Numbers
               PROVE  written'[s][j] + Cardinality(Carried(channel, j, n))
                        <= N!Larger(1, subscribed[n]) + Extra(j)
    BY <1>1 DEF OnceInv, Opened, Extra
  <2>1. Carried(channel, j, n) = {} BY <1>2 DEF Carried
  <2>2. Cardinality(Carried(channel, j, n)) = 0 BY <2>1, FS_EmptySet
  <2>3. written'[s][j] \in {0, 1} /\ subscribed[n] \in Nat BY <1>8 DEF NoteTypes
  <2> QED BY <2>2, <2>3 DEF N!Larger, Extra
<1>14. DueInv' BY <1>1, <1>2 DEF DueInv
<1>15. /\ job' \in [runs : Nat, node : Nodes, first : Nat \ {0}, pc : {"due", "deliver", "done"}, whole : Nat]
       /\ job'.pc = "done" /\ job'.runs = job.runs /\ job'.whole = job.whole /\ job'.first = job.first
  BY <1>1, <1>3
<1>16. BulkInv' BY <1>1, <1>2, <1>15 DEF BulkInv, Job
<1> QED BY <1>9, <1>10, <1>11, <1>12, <1>13, <1>14, <1>16

LEMMA RestartSteps ==
  ASSUME DeliveryInv, NEW n \in Nodes, N!Restart(n)
  PROVE  DeliveryInv'
<1> DEFINE lost == {s \in Streams : stream[s].state = "open" /\ stream[s].node = n}
<1>1. /\ stream' = [s \in Streams |-> IF s \in lost THEN [stream[s] EXCEPT !.state = "closed"]
                                      ELSE stream[s]]
      /\ connections' = [connections EXCEPT ![n] = [u \in Recipients |-> {}]]
      /\ subscribed' = [subscribed EXCEPT ![n] = 0]
      /\ dispatching' = {d \in dispatching : d.node # n} /\ channel' = {m \in channel : m.node # n}
      /\ due' = {d \in due : d[1] \notin lost}
      /\ job' = IF job.pc = "deliver" /\ job.node = n THEN [job EXCEPT !.pc = "due"] ELSE job
      /\ UNCHANGED <<redis, notes, written, doubled>>
  BY DEF N!Restart
<1>2. NoteTypes /\ OwnNotes /\ DispatchInv /\ ChannelInv BY DEF DeliveryInv
<1>3. PICK gone : gone = lost OBVIOUS
<1>4. gone \subseteq Streams /\ \A s \in gone : stream[s].state = "open" BY <1>3
<1>5. stream' = [s \in Streams |-> IF s \in gone THEN [stream[s] EXCEPT !.state = "closed"]
                                   ELSE stream[s]]
  BY <1>1, <1>3
<1>6. /\ stream' \in [Streams -> StreamRow]
      /\ \A s \in Streams : \A m, u : Opened(s, m, u)' <=> Opened(s, m, u) /\ s \notin gone
      /\ \A s \in Streams : /\ stream[s].state # "none" => stream'[s].state # "none"
                            /\ stream[s].state # "none" => stream'[s].user = stream[s].user
  BY <1>4, <1>5, StreamsClose
<1>7. \A s \in Streams : \A m, u : Opened(s, m, u) => (s \in gone <=> m = n)
  BY <1>2, <1>3, OpenedIs
<1>8. \A s \in Streams : \A m, u : Opened(s, m, u)' <=> Opened(s, m, u) /\ m # n
  BY <1>6, <1>7, Zenon
<1>9. subscribed' \in [Nodes -> Nat] /\ \A m \in Nodes : m # n => subscribed'[m] = subscribed[m]
  BY <1>1, <1>2 DEF NoteTypes
<1>10. \A m \in Nodes : m # n => connections'[m] = connections[m]
  BY <1>1, <1>2 DEF NoteTypes
<1>11. \A u \in Recipients : connections'[n][u] = {} BY <1>1, <1>2 DEF NoteTypes
<1>12. connections' \in [Nodes -> [Recipients -> SUBSET Streams]] BY <1>1, <1>2 DEF NoteTypes
<1>13. NoteTypes'
  <2>1. \A m \in Nodes, u \in Recipients, s \in Streams :
          s \in connections'[m][u] <=> Opened(s, m, u)'
    BY <1>2, <1>8, <1>10, <1>11 DEF NoteTypes
  <2> QED BY <1>1, <1>2, <1>6, <1>9, <1>12, <2>1 DEF NoteTypes
<1>14. OwnNotes' BY <1>1, <1>2, <1>6 DEF OwnNotes
<1>15. DispatchInv' BY <1>1, <1>2 DEF DispatchInv
<1>16. \A k, m : m # n => Carried(channel', k, m) = Carried(channel, k, m)
  <2> SUFFICES ASSUME NEW k, NEW m, m # n, NEW i
               PROVE  [note |-> k, node |-> m, sub |-> i] \in channel'
                        <=> [note |-> k, node |-> m, sub |-> i] \in channel
    BY DEF Carried
  <2>1. [note |-> k, node |-> m, sub |-> i].node = m OBVIOUS
  <2> QED BY <1>1, <2>1
<1>17. \A k : Carried(channel', k, n) = {}
  <2> SUFFICES ASSUME NEW k, NEW i PROVE [note |-> k, node |-> n, sub |-> i] \notin channel'
    BY DEF Carried
  <2>1. [note |-> k, node |-> n, sub |-> i].node = n OBVIOUS
  <2> QED BY <1>1, <2>1
<1>18. ChannelInv'
  <2>1. channel' \subseteq Message /\ \A m \in channel' : m.note \in 1..Len(notes')
    BY <1>1, <1>2 DEF ChannelInv
  <2>2. ASSUME NEW k \in N!Numbers, NEW m \in Nodes
        PROVE  /\ IsFiniteSet(Carried(channel', k, m))
               /\ Cardinality(Carried(channel', k, m)) <= subscribed'[m]
    <3>1. CASE m = n
      <4>1. Carried(channel', k, m) = {} /\ subscribed'[m] \in Nat BY <1>9, <1>17, <3>1
      <4>2. IsFiniteSet(Carried(channel', k, m)) /\ Cardinality(Carried(channel', k, m)) = 0
        BY <4>1, FS_EmptySet
      <4> QED BY <4>1, <4>2
    <3>2. CASE m # n
      <4>1. Carried(channel', k, m) = Carried(channel, k, m) BY <1>16, <3>2
      <4>2. subscribed'[m] = subscribed[m] BY <1>9, <3>2
      <4> QED BY <1>2, <4>1, <4>2 DEF ChannelInv
    <3> QED BY <3>1, <3>2
  <2> QED BY <2>1, <2>2 DEF ChannelInv
<1>19. OnceInv'
  <2>1. doubled' \subseteq 1..Len(notes') BY <1>1 DEF DeliveryInv, OnceInv
  <2>2. ASSUME NEW s \in Streams, NEW m \in Nodes, NEW u \in Recipients, NEW k \in N!Numbers,
               Opened(s, m, u)'
        PROVE  written[s][k] + Cardinality(Carried(channel', k, m))
                 <= N!Larger(1, subscribed'[m]) + Extra(k)
    <3>1. Opened(s, m, u) /\ m # n BY <1>8, <2>2
    <3>2. Carried(channel', k, m) = Carried(channel, k, m) /\ subscribed'[m] = subscribed[m]
      BY <1>9, <1>16, <3>1
    <3> QED BY <3>1, <3>2 DEF DeliveryInv, OnceInv
  <2> QED BY <1>1, <2>1, <2>2 DEF OnceInv, Extra
<1>20. ASSUME NEW e \in due'
       PROVE  /\ e[1] \in Streams /\ e[2] \in 1..Len(notes')
              /\ \E m \in Nodes : /\ Opened(e[1], m, notes[e[2]])'
                                  /\ written'[e[1]][e[2]] > 0 \/ Carried(channel', e[2], m) # {}
  <2>1. e \in due /\ e[1] \notin gone BY <1>1, <1>3
  <2>2. e[1] \in Streams /\ e[2] \in 1..Len(notes) BY <2>1 DEF DeliveryInv, DueInv
  <2>3. PICK m \in Nodes : /\ Opened(e[1], m, notes[e[2]])
                           /\ written[e[1]][e[2]] > 0 \/ Carried(channel, e[2], m) # {}
    BY <2>1 DEF DeliveryInv, DueInv
  <2>4. m # n BY <1>7, <2>1, <2>2, <2>3
  <2>5. Opened(e[1], m, notes[e[2]])'
    <3>1. \A u : Opened(e[1], m, u) => Opened(e[1], m, u)' BY <1>8, <2>2, <2>4
    <3> QED BY <1>1, <2>3, <3>1 DEF Opened
  <2> QED BY <1>1, <1>16, <2>2, <2>3, <2>4, <2>5
<1>21. DueInv' BY <1>20 DEF DueInv
<1>22. BulkInv'
  <2>1. CASE job' = job BY <1>1, <2>1 DEF DeliveryInv, BulkInv
  <2>2. CASE job.pc = "deliver" /\ job' = [job EXCEPT !.pc = "due"]
    <3>1. job \in [runs : Nat, node : Nodes, first : Nat \ {0}, pc : {"due", "deliver", "done"}, whole : Nat]
      BY <2>2 DEF DeliveryInv, BulkInv, Job
    <3>2. /\ job' \in [runs : Nat, node : Nodes, first : Nat \ {0}, pc : {"due", "deliver", "done"}, whole : Nat]
          /\ job'.pc = "due" /\ job'.runs = job.runs /\ job'.whole = job.whole
      BY <2>2, <3>1
    <3> QED BY <1>1, <2>2, <3>2 DEF DeliveryInv, BulkInv, Job
  <2> QED BY <1>1, <2>1, <2>2
<1> QED BY <1>13, <1>14, <1>15, <1>18, <1>19, <1>21, <1>22 DEF DeliveryInv

\* Redis loses every message; what had been written stays.
LEMMA RedisGoesSteps ==
  ASSUME DeliveryInv, N!RedisGoes
  PROVE  DeliveryInv'
<1>1. /\ redis' = FALSE /\ channel' = {} /\ due' = {d \in due : written[d[1]][d[2]] > 0}
      /\ UNCHANGED <<subscribed, stream, connections, notes, dispatching, written, job, doubled>>
  BY DEF N!RedisGoes
<1>2. NoteTypes' BY <1>1 DEF DeliveryInv, NoteTypes, Opened
<1>3. OwnNotes' BY <1>1 DEF DeliveryInv, OwnNotes
<1>4. DispatchInv' BY <1>1 DEF DeliveryInv, DispatchInv
<1>5. ASSUME NEW k, NEW n
      PROVE  IsFiniteSet(Carried(channel', k, n)) /\ Cardinality(Carried(channel', k, n)) = 0
  <2>1. Carried(channel', k, n) = {} BY <1>1 DEF Carried
  <2> QED BY <2>1, FS_EmptySet
<1>6. ChannelInv'
  <2>1. \A n \in Nodes : subscribed'[n] \in Nat BY <1>2 DEF NoteTypes
  <2>2. \A n \in Nodes : 0 <= subscribed'[n] BY <2>1
  <2> QED BY <1>1, <1>5, <2>2 DEF ChannelInv
<1>7. OnceInv'
  <2> SUFFICES ASSUME NEW s \in Streams, NEW n \in Nodes, NEW u \in Recipients, NEW k \in N!Numbers,
                      Opened(s, n, u)
               PROVE  written[s][k] + Cardinality(Carried(channel', k, n))
                        <= N!Larger(1, subscribed[n]) + Extra(k)
    BY <1>1 DEF DeliveryInv, OnceInv, Opened, Extra
  <2>1. written[s][k] + Cardinality(Carried(channel, k, n)) <= N!Larger(1, subscribed[n]) + Extra(k)
    BY DEF DeliveryInv, OnceInv
  <2>2. /\ written[s][k] \in Nat /\ Cardinality(Carried(channel, k, n)) \in Nat
        /\ subscribed[n] \in Nat
    BY CountsAre DEF DeliveryInv
  <2>3. Extra(k) \in Nat /\ N!Larger(1, subscribed[n]) \in Nat BY <2>2 DEF Extra, N!Larger
  <2>4. Cardinality(Carried(channel', k, n)) = 0 BY <1>5
  <2> QED BY <2>1, <2>2, <2>3, <2>4
<1>8. DueInv' BY <1>1 DEF DeliveryInv, DueInv, Opened
<1>9. BulkInv' BY <1>1 DEF DeliveryInv, BulkInv
<1> QED BY <1>2, <1>3, <1>4, <1>6, <1>7, <1>8, <1>9 DEF DeliveryInv

LEMMA NoteSteps == ASSUME DeliveryInv, N!Next PROVE DeliveryInv'
<1>1. CASE \E s \in Streams : N!Close(s) \/ \E u \in Recipients, n \in Nodes : N!Open(s, u, n)
  BY <1>1, CloseSteps, OpenSteps
<1>2. CASE \E n \in Nodes, ok \in BOOLEAN : N!FinishSubscribing(n, ok)
  BY <1>2, FinishSubscribingSteps
<1>3. CASE \E u \in Recipients, n \in Nodes : N!Send(u, n) BY <1>3, SendSteps
<1>4. CASE \E d \in dispatching : \/ N!DispatchByRedis(d) \/ N!Publish(d) \/ N!DispatchLocally(d)
                                  \/ \E ok \in BOOLEAN : N!DispatchSubscribe(d, ok)
  BY <1>4, DispatchByRedisSteps, PublishSteps, DispatchLocallySteps, DispatchSubscribeSteps
<1>5. CASE \E m \in channel : N!Receive(m) BY <1>5, ReceiveSteps
<1>6. CASE \E n \in Nodes, count \in 0..Len(N!Enrolled) : N!InsertMany(n, count)
  BY <1>6, InsertManySteps
<1>7. CASE N!DeliverBulk BY <1>7, DeliverBulkSteps
<1>8. CASE \E n \in Nodes : N!Restart(n) BY <1>8, RestartSteps
<1>9. CASE N!RedisGoes BY <1>9, RedisGoesSteps
<1>10. CASE N!RedisComes
  <2>1. /\ redis' = TRUE /\ job.pc = "none"
        /\ UNCHANGED <<subscribed, stream, connections, notes, dispatching, channel, written, job, due, doubled>>
    BY <1>10 DEF N!RedisComes
  <2>2. NoteTypes' /\ OwnNotes' BY <2>1 DEF DeliveryInv, NoteTypes, OwnNotes, Opened
  <2>3. DispatchInv' /\ ChannelInv' BY <2>1 DEF DeliveryInv, DispatchInv, ChannelInv
  <2>4. OnceInv' /\ DueInv' BY <2>1 DEF DeliveryInv, OnceInv, DueInv, Opened, Extra
  <2>5. BulkInv' BY <2>1 DEF DeliveryInv, BulkInv
  <2> QED BY <2>2, <2>3, <2>4, <2>5 DEF DeliveryInv
<1> QED BY <1>1, <1>2, <1>3, <1>4, <1>5, <1>6, <1>7, <1>8, <1>9, <1>10 DEF N!Next

LEMMA DeliveryInit == N!Init => DeliveryInv
<1> SUFFICES ASSUME N!Init PROVE DeliveryInv OBVIOUS
<1>1. /\ job \in [runs : {0}, pc : {"none", "due"}, whole : {0}] /\ redis = (job.pc = "none")
      /\ subscribed = [n \in Nodes |-> 0] /\ stream = [s \in Streams |-> [state |-> "none"]]
      /\ connections = [n \in Nodes |-> [u \in Recipients |-> {}]]
      /\ notes = <<>> /\ dispatching = {} /\ channel = {} /\ due = {} /\ doubled = {}
      /\ written = [s \in Streams |-> [k \in N!Numbers |-> 0]]
  BY DEF N!Init
<1>2. \A s \in Streams, n \in Nodes, u \in Recipients : ~Opened(s, n, u)
  <2> SUFFICES ASSUME NEW s \in Streams, NEW n \in Nodes, NEW u \in Recipients, Opened(s, n, u)
               PROVE  FALSE
    OBVIOUS
  <2>1. stream[s].state = "none" BY <1>1
  <2>2. stream[s].state = "open" BY DEF Opened
  <2> QED BY <2>1, <2>2
<1>3. stream \in [Streams -> StreamRow]
  <2>1. [state |-> "none"] \in StreamRow BY DEF StreamRow
  <2> QED BY <1>1, <2>1
<1>4. notes \in Seq(Recipients) /\ Len(notes) = 0 /\ 1..Len(notes) = {} BY <1>1
<1>5. NoteTypes BY <1>1, <1>2, <1>3, <1>4 DEF NoteTypes
<1>6. OwnNotes BY <1>1 DEF OwnNotes
<1>7. DispatchInv BY <1>1 DEF DispatchInv
<1>8. \A k, n : IsFiniteSet(Carried(channel, k, n)) /\ Cardinality(Carried(channel, k, n)) = 0
  <2> SUFFICES ASSUME NEW k, NEW n
               PROVE  IsFiniteSet(Carried(channel, k, n)) /\ Cardinality(Carried(channel, k, n)) = 0
    OBVIOUS
  <2>1. Carried(channel, k, n) = {} BY <1>1 DEF Carried
  <2> QED BY <2>1, FS_EmptySet
<1>9. ChannelInv BY <1>1, <1>8 DEF ChannelInv
<1>10. OnceInv BY <1>1, <1>2 DEF OnceInv
<1>11. DueInv BY <1>1 DEF DueInv
<1>12. BulkInv
  <2>1. job \in Job /\ job.runs = 0 /\ job.whole = 0 /\ job.pc \in {"none", "due"} BY <1>1 DEF Job
  <2>2. MaxSent \in Nat /\ MaxRuns \in Nat /\ Cardinality(Recipients) \in Nat
    BY NotificationsAssumption, EnrolledIs
  <2>3. Len(notes) <= job.runs * Cardinality(Recipients) BY <1>4, <2>1, <2>2
  <2>4. \A s \in Streams, k \in N!Numbers : written[s][k] = 0 BY <1>1
  <2>5. job.runs <= MaxRuns /\ job.whole <= job.runs /\ Len(notes) <= MaxSent BY <1>4, <2>1, <2>2
  <2> QED BY <1>1, <2>1, <2>3, <2>4, <2>5 DEF BulkInv
<1> QED BY <1>5, <1>6, <1>7, <1>9, <1>10, <1>11, <1>12 DEF DeliveryInv

LEMMA DeliveryIsSound == DeliveryInv => N!NotificationsSound
<1> SUFFICES ASSUME DeliveryInv PROVE N!NotificationsSound OBVIOUS
<1>1. N!WrittenOnce
  <2> SUFFICES ASSUME NEW s \in Streams, stream[s].state = "open", NEW k \in DOMAIN notes,
                      written[s][k] > 0
               PROVE  /\ notes[k] = stream[s].user
                      /\ written[s][k] <= N!Larger(1, subscribed[stream[s].node])
                                          + (IF k \in doubled THEN 1 ELSE 0)
    BY DEF N!WrittenOnce, N!Times
  <2>1. k \in N!Numbers BY DEF DeliveryInv, NoteTypes
  <2>2. notes[k] = stream[s].user BY <2>1 DEF DeliveryInv, OwnNotes
  <2>3. PICK n \in Nodes, u \in Recipients : n = stream[s].node /\ Opened(s, n, u)
    BY OpenedIs DEF DeliveryInv
  <2>4. written[s][k] + Cardinality(Carried(channel, k, n)) <= N!Larger(1, subscribed[n]) + Extra(k)
    BY <2>1, <2>3 DEF DeliveryInv, OnceInv
  <2>5. /\ written[s][k] \in Nat /\ Cardinality(Carried(channel, k, n)) \in Nat
        /\ subscribed[n] \in Nat
    BY <2>1, CountsAre DEF DeliveryInv
  <2>6. Extra(k) \in Nat /\ N!Larger(1, subscribed[n]) \in Nat BY <2>5 DEF Extra, N!Larger
  <2>7. written[s][k] <= N!Larger(1, subscribed[n]) + Extra(k) BY <2>4, <2>5, <2>6
  <2> QED BY <2>2, <2>3, <2>7 DEF Extra
<1>2. N!OwedArrives
  <2> SUFFICES ASSUME NEW d \in due
               PROVE  \/ written[d[1]][d[2]] > 0
                      \/ \E m \in channel : m.note = d[2] /\ m.node = stream[d[1]].node
    BY DEF N!OwedArrives, N!Times
  <2>1. d[1] \in Streams BY DEF DeliveryInv, DueInv
  <2>2. PICK n \in Nodes : /\ Opened(d[1], n, notes[d[2]])
                           /\ written[d[1]][d[2]] > 0 \/ Carried(channel, d[2], n) # {}
    BY DEF DeliveryInv, DueInv
  <2>3. stream[d[1]].node = n BY <2>1, <2>2, OpenedIs DEF DeliveryInv
  <2>4. ASSUME Carried(channel, d[2], n) # {}
        PROVE  \E m \in channel : m.note = d[2] /\ m.node = n
    <3>1. PICK i \in Nat : [note |-> d[2], node |-> n, sub |-> i] \in channel BY <2>4 DEF Carried
    <3> QED BY <3>1
  <2> QED BY <2>2, <2>3, <2>4
<1>3. N!Bulked
  <2> DEFINE size == Cardinality(Recipients)
  <2>1. /\ size \in Nat /\ \A i, j \in 1..size : N!Enrolled[i] = N!Enrolled[j] => i = j
        /\ \A u \in Recipients : \E i \in 1..size : N!Enrolled[i] = u
    BY EnrolledIs
  <2> HIDE DEF size
  <2> SUFFICES ASSUME job.pc \in {"deliver", "done"}
               PROVE  /\ job.whole \in 1..job.runs
                      /\ \A u \in Recipients :
                           Cardinality({k \in job.first..job.first + size - 1 : notes[k] = u}) = 1
    BY SizesAgree DEF N!Bulked, size
  <2>2. /\ job \in Job /\ job.whole > 0 /\ job.whole <= job.runs
        /\ \A i \in 1..size : notes[job.first + i - 1] = N!Enrolled[i]
    BY DEF DeliveryInv, BulkInv, size
  <2>3. job.whole \in Nat /\ job.runs \in Nat /\ job.first \in Nat BY <2>2 DEF Job
  <2>4. ASSUME NEW u \in Recipients
        PROVE  Cardinality({k \in job.first..job.first + size - 1 : notes[k] = u}) = 1
    <3>1. PICK i \in 1..size : N!Enrolled[i] = u BY <2>1
    <3>2. PICK first \in Nat : first = job.first BY <2>3
    <3>3. first + i - 1 \in first..first + size - 1 /\ notes[first + i - 1] = u
      BY <2>1, <2>2, <3>1, <3>2
    <3>4. ASSUME NEW k \in first..first + size - 1, notes[k] = u PROVE k = first + i - 1
      <4>1. k - first + 1 \in 1..size /\ first + (k - first + 1) - 1 = k BY <2>1, <3>2
      <4>2. N!Enrolled[k - first + 1] = u BY <2>2, <3>2, <3>4, <4>1
      <4>3. k - first + 1 = i BY <2>1, <3>1, <4>1, <4>2
      <4> QED BY <2>1, <4>3
    <3>5. {k \in first..first + size - 1 : notes[k] = u} = {first + i - 1} BY <3>3, <3>4
    <3> QED BY <3>2, <3>5, FS_Singleton
  <2> QED BY <2>2, <2>3, <2>4
<1> QED BY <1>1, <1>2, <1>3 DEF N!NotificationsSound

\* An open tab is written the notifications of its user and no others, each at most
\* once for every subscription of its server, whatever restarts; what was published
\* while it was open is written or on its way to it; a bulk notification reaches
\* each student once a run.
THEOREM NotificationsKept == NetworkSpec => [](part = "notifications" => N!NotificationsSound)
<1>1. NetworkInit => DeliveryInv BY DeliveryInit DEF NetworkInit
<1>2. NetworkNext \/ UNCHANGED allVars => (part = "notifications" /\ N!Next) \/ UNCHANGED noteVars
  BY DEF NetworkNext, PaymentNext, ReaderNext, readerVars, allVars
<1>3. DeliveryInv /\ UNCHANGED noteVars => DeliveryInv'
  <2> SUFFICES ASSUME DeliveryInv, UNCHANGED noteVars PROVE DeliveryInv' OBVIOUS
  <2>1. UNCHANGED <<redis, subscribed, stream, connections, notes, dispatching, channel, written,
                    job, due, doubled>>
    BY DEF noteVars
  <2>2. NoteTypes' /\ OwnNotes' BY <2>1 DEF DeliveryInv, NoteTypes, OwnNotes, Opened
  <2>3. DispatchInv' /\ ChannelInv' BY <2>1 DEF DeliveryInv, DispatchInv, ChannelInv
  <2>4. OnceInv' /\ DueInv' BY <2>1 DEF DeliveryInv, OnceInv, DueInv, Opened, Extra
  <2>5. BulkInv' BY <2>1 DEF DeliveryInv, BulkInv
  <2> QED BY <2>2, <2>3, <2>4, <2>5 DEF DeliveryInv
<1>4. DeliveryInv /\ [NetworkNext]_allVars => DeliveryInv' BY <1>2, <1>3, NoteSteps
<1>5. DeliveryInv => (part = "notifications" => N!NotificationsSound) BY DeliveryIsSound
<1> QED BY <1>1, <1>4, <1>5, PTL DEF NetworkSpec

-----------------------------------------------------------------------------
(***************************************************************************)
(* Proof, for any rows, filters and limits, that a reader gets every row   *)
(* that stays, once.  A strict total order of a finite set ranks it: the   *)
(* i-th of an ordered answer is the one with i - 1 before it.  A traversal *)
(* by cursor has got exactly the rows up to its cursor, whatever the       *)
(* writers did to the others; one by offset, while nobody writes, a prefix *)
(* of the ordered listing.                                                 *)
(***************************************************************************)
ASSUME PagingAssumption ==
    /\ Ids \subseteq Int /\ IsFiniteSet(Ids) /\ Values \subseteq Int /\ Limits \subseteq Int
    /\ DefaultLimit \in Nat \ {0} /\ MaxLimit \in Nat \ {0}
    /\ None \notin Ids /\ None \notin Values /\ None \notin [id : Ids, v : Values]

LEMMA CountsAgree == \A x : P!Cardinality(x) = Cardinality(x)
BY DEF P!Cardinality, Cardinality

StrictOrder(set, rel) ==
    /\ \A a \in set : <<a, a>> \notin rel
    /\ \A a, b \in set : a = b \/ <<a, b>> \in rel \/ <<b, a>> \in rel
    /\ \A a, b, c \in set : <<a, b>> \in rel /\ <<b, c>> \in rel => <<a, c>> \in rel

\* A sequence of the n elements of a set, each before the next.
InOrderOf(s, set, n, rel) ==
    /\ n \in Nat /\ s \in [1..n -> set]
    /\ \A i, j \in 1..n : i < j => <<s[i], s[j]>> \in rel
    /\ \A r \in set : \E i \in 1..n : s[i] = r

Earlier(set, rel, r) == {q \in set : <<q, r>> \in rel}

LEMMA EarlierIs ==
  ASSUME NEW set, IsFiniteSet(set), NEW rel, StrictOrder(set, rel)
  PROVE  /\ \A r \in set : /\ Cardinality(Earlier(set, rel, r)) \in Nat
                           /\ Cardinality(Earlier(set, rel, r)) < Cardinality(set)
         /\ \A q, r \in set : <<q, r>> \in rel
              => Cardinality(Earlier(set, rel, q)) < Cardinality(Earlier(set, rel, r))
<1>1. \A r \in set : Earlier(set, rel, r) \in SUBSET set BY DEF Earlier
<1>2. \A r \in set : IsFiniteSet(Earlier(set, rel, r)) BY <1>1, FS_Subset
<1>3. \A r \in set : Cardinality(Earlier(set, rel, r)) \in Nat BY <1>2, FS_CardinalityType
<1>4. ASSUME NEW r \in set PROVE Cardinality(Earlier(set, rel, r)) < Cardinality(set)
  <2>1. /\ Cardinality(Earlier(set, rel, r)) <= Cardinality(set)
        /\ Cardinality(set) = Cardinality(Earlier(set, rel, r)) => set = Earlier(set, rel, r)
    BY <1>1, FS_Subset
  <2>2. r \notin Earlier(set, rel, r) BY DEF Earlier, StrictOrder
  <2>3. Cardinality(set) \in Nat BY FS_CardinalityType
  <2> QED BY <1>3, <2>1, <2>2, <2>3
<1>5. ASSUME NEW q \in set, NEW r \in set, <<q, r>> \in rel
      PROVE  Cardinality(Earlier(set, rel, q)) < Cardinality(Earlier(set, rel, r))
  <2>1. q \in Earlier(set, rel, r) /\ q \notin Earlier(set, rel, q)
    BY <1>5 DEF Earlier, StrictOrder
  <2>2. Earlier(set, rel, q) \in SUBSET Earlier(set, rel, r) BY <1>5 DEF Earlier, StrictOrder
  <2>3. /\ Cardinality(Earlier(set, rel, q)) <= Cardinality(Earlier(set, rel, r))
        /\ Cardinality(Earlier(set, rel, r)) = Cardinality(Earlier(set, rel, q))
             => Earlier(set, rel, r) = Earlier(set, rel, q)
    BY <1>2, <2>2, FS_Subset
  <2> QED BY <1>3, <2>1, <2>3
<1> QED BY <1>3, <1>4, <1>5

\* A function that counts from 1 and tells its arguments apart has each count once.
LEMMA RankingIs ==
  ASSUME NEW set, IsFiniteSet(set), NEW rel, StrictOrder(set, rel),
         NEW n, n = Cardinality(set)
  PROVE  \A i \in 1..n : \E r \in set : Cardinality(Earlier(set, rel, r)) = i - 1
<1> DEFINE g == [r \in set |-> Cardinality(Earlier(set, rel, r)) + 1]
<1>1. n \in Nat BY FS_CardinalityType
<1>2. /\ \A r \in set : Cardinality(Earlier(set, rel, r)) \in Nat /\ Cardinality(Earlier(set, rel, r)) < n
      /\ \A q, r \in set : <<q, r>> \in rel
           => Cardinality(Earlier(set, rel, q)) < Cardinality(Earlier(set, rel, r))
  BY EarlierIs
<1>3. \A r \in set : g[r] = Cardinality(Earlier(set, rel, r)) + 1 OBVIOUS
<1>4. g \in [set -> 1..n] BY <1>1, <1>2
<1> HIDE DEF g
<1>5. ASSUME NEW q \in set, NEW r \in set, g[q] = g[r] PROVE q = r
  <2>1. q = r \/ <<q, r>> \in rel \/ <<r, q>> \in rel BY DEF StrictOrder
  <2>2. Cardinality(Earlier(set, rel, q)) = Cardinality(Earlier(set, rel, r)) BY <1>2, <1>3, <1>5
  <2>3. <<q, r>> \notin rel /\ <<r, q>> \notin rel BY <1>2, <2>2
  <2> QED BY <2>1, <2>3
<1>6. g \in Injection(set, 1..n) BY <1>4, <1>5 DEF Injection, IsInjective
<1>7. IsFiniteSet(1..n) /\ Cardinality(1..n) = n BY <1>1, FS_Interval
<1>8. g \in Surjection(set, 1..n) BY <1>6, <1>7, FS_Injection
<1>9. \A i \in 1..n : \E r \in set : g[r] = i BY <1>8 DEF Surjection
<1> QED BY <1>1, <1>2, <1>3, <1>9

\* What has i - 1 elements before it, for each i, are the elements in their order.
LEMMA RankedIs ==
  ASSUME NEW set, IsFiniteSet(set), NEW rel, StrictOrder(set, rel),
         NEW n, n = Cardinality(set),
         NEW s \in [1..n -> set],
         \A i \in 1..n : Cardinality(Earlier(set, rel, s[i])) = i - 1
  PROVE  InOrderOf(s, set, n, rel)
<1>1. n \in Nat BY FS_CardinalityType
<1>2. /\ \A r \in set : Cardinality(Earlier(set, rel, r)) \in Nat /\ Cardinality(Earlier(set, rel, r)) < n
      /\ \A q, r \in set : <<q, r>> \in rel
           => Cardinality(Earlier(set, rel, q)) < Cardinality(Earlier(set, rel, r))
  BY EarlierIs
<1>3. \A i \in 1..n : s[i] \in set /\ Cardinality(Earlier(set, rel, s[i])) = i - 1
  OBVIOUS
<1>4. ASSUME NEW q \in set, NEW r \in set,
             Cardinality(Earlier(set, rel, q)) = Cardinality(Earlier(set, rel, r))
      PROVE  q = r
  <2>1. q = r \/ <<q, r>> \in rel \/ <<r, q>> \in rel BY DEF StrictOrder
  <2>2. <<q, r>> \notin rel /\ <<r, q>> \notin rel BY <1>2, <1>4
  <2> QED BY <2>1, <2>2
<1>5. ASSUME NEW i \in 1..n, NEW j \in 1..n, i < j PROVE <<s[i], s[j]>> \in rel
  <2>1. s[i] \in set /\ s[j] \in set BY <1>3
  <2>2. Cardinality(Earlier(set, rel, s[i])) = i - 1 /\ Cardinality(Earlier(set, rel, s[j])) = j - 1
    BY <1>3
  <2>3. ~ i - 1 = j - 1 /\ ~ j - 1 < i - 1 BY <1>1, <1>5
  <2>4. s[i] # s[j] BY <2>2, <2>3
  <2>5. <<s[j], s[i]>> \notin rel BY <1>2, <2>1, <2>2, <2>3
  <2> QED BY <2>1, <2>4, <2>5 DEF StrictOrder
<1>6. ASSUME NEW r \in set PROVE \E i \in 1..n : s[i] = r
  <2>1. PICK m \in Nat : m = Cardinality(Earlier(set, rel, r)) /\ m < n BY <1>2
  <2>2. m + 1 \in 1..n /\ m + 1 - 1 = m BY <1>1, <2>1
  <2>3. s[m + 1] \in set /\ Cardinality(Earlier(set, rel, s[m + 1])) = m BY <1>3, <2>2
  <2>4. s[m + 1] = r BY <1>4, <2>1, <2>3
  <2> QED BY <2>2, <2>4
<1> QED BY <1>1, <1>5, <1>6 DEF InOrderOf

\* The order of a reading, of the keys that rows have in a collection.
Upward(rd) == (rd.order = 1) = rd.forward
Ahead(rd, a, b) == IF Upward(rd) THEN P!Below(a, b, rd.field) ELSE P!Below(b, a, rd.field)
KeyOf(rw, r) == [id |-> r, v |-> rw[r]]
OrderOf(rd, rw, set) == {e \in set \X set : Ahead(rd, KeyOf(rw, e[1]), KeyOf(rw, e[2]))}

LEMMA AheadIsOrder ==
  ASSUME NEW rd, NEW rw, NEW set \in SUBSET Int, rd.field # "_id" => \A r \in set : rw[r] \in Int
  PROVE  StrictOrder(set, OrderOf(rd, rw, set))
<1>1. \A a, b \in set : <<a, b>> \in OrderOf(rd, rw, set) <=> Ahead(rd, KeyOf(rw, a), KeyOf(rw, b))
  BY DEF OrderOf
<1>2. CASE rd.field = "_id"
  <2>1. \A a, b \in set : Ahead(rd, KeyOf(rw, a), KeyOf(rw, b)) <=> IF Upward(rd) THEN a < b ELSE b < a
    BY <1>2 DEF Ahead, P!Below, KeyOf
  <2>2. \A a, b, c \in set : (a < b /\ b < c => a < c) /\ (a = b \/ a < b \/ b < a) /\ ~ a < a OBVIOUS
  <2> QED BY <1>1, <2>1, <2>2 DEF StrictOrder
<1>3. CASE rd.field # "_id"
  <2> DEFINE Less(a, b) == rw[a] < rw[b] \/ (rw[a] = rw[b] /\ a < b)
  <2>1. \A a, b \in set : Ahead(rd, KeyOf(rw, a), KeyOf(rw, b)) <=> IF Upward(rd) THEN Less(a, b) ELSE Less(b, a)
    BY <1>3 DEF Ahead, P!Below, KeyOf
  <2>2. \A r \in set : rw[r] \in Int /\ r \in Int BY <1>3
  <2>3. \A a, b, c \in set : (Less(a, b) /\ Less(b, c) => Less(a, c))
                            /\ (a = b \/ Less(a, b) \/ Less(b, a)) /\ ~ Less(a, a)
    BY <2>2
  <2> HIDE DEF Less
  <2> QED BY <1>1, <2>1, <2>3 DEF StrictOrder
<1> QED BY <1>2, <1>3

\* A set of rows in an order, as the model ranks them.
Arranged(field, up, set, rw) ==
    P!Ranked(set, LAMBDA r, q : IF up THEN P!Below(KeyOf(rw, r), KeyOf(rw, q), field)
                                ELSE P!Below(KeyOf(rw, q), KeyOf(rw, r), field))

LEMMA ArrangedIs ==
  ASSUME NEW rd, NEW rw, NEW set \in SUBSET Ids, rd.field # "_id" => \A r \in set : rw[r] \in Int,
         NEW n, n = Cardinality(set), NEW s, s = Arranged(rd.field, Upward(rd), set, rw)
  PROVE  InOrderOf(s, set, n, OrderOf(rd, rw, set)) /\ Len(s) = n
<1> DEFINE rel == OrderOf(rd, rw, set)
           Before(r) == {q \in set : IF Upward(rd) THEN P!Below(KeyOf(rw, q), KeyOf(rw, r), rd.field)
                                     ELSE P!Below(KeyOf(rw, r), KeyOf(rw, q), rd.field)}
<1>1. set \in SUBSET Int /\ IsFiniteSet(set) BY PagingAssumption, FS_Subset
<1>2. StrictOrder(set, rel) BY <1>1, AheadIsOrder
<1>3. \A q, r \in set : <<q, r>> \in rel <=> q \in Before(r) BY DEF OrderOf, Ahead
<1>4. s = [i \in 1..P!Cardinality(set) |-> CHOOSE r \in set : P!Cardinality(Before(r)) = i - 1]
  BY DEF Arranged, P!Ranked
<1>5. \A r : Before(r) \subseteq set OBVIOUS
<1> HIDE DEF rel, Before
<1>6. \A r \in set : Before(r) = Earlier(set, rel, r) BY <1>3, <1>5 DEF Earlier
<1>7. P!Cardinality(set) = n /\ n \in Nat BY <1>1, CountsAgree, FS_CardinalityType
<1>8. \A i \in 1..n : \E r \in set : Cardinality(Earlier(set, rel, r)) = i - 1
  BY <1>1, <1>2, RankingIs
<1>9. \A i \in 1..n : \E r \in set : P!Cardinality(Before(r)) = i - 1
  BY <1>6, <1>8, CountsAgree
<1>10. \A i \in 1..n : s[i] = CHOOSE r \in set : P!Cardinality(Before(r)) = i - 1
  BY <1>4, <1>7
<1>11. \A i \in 1..n : s[i] \in set /\ P!Cardinality(Before(s[i])) = i - 1
  BY <1>9, <1>10, Zenon
<1>12. \A i \in 1..n : Cardinality(Earlier(set, rel, s[i])) = i - 1
  BY <1>6, <1>11, CountsAgree
<1>13. s \in [1..n -> set] BY <1>4, <1>7, <1>11
<1>14. Len(s) = n BY <1>7, <1>13
<1> QED BY <1>1, <1>2, <1>12, <1>13, <1>14, RankedIs DEF rel

Sortable(rd, rw, set) ==
    set \in SUBSET Ids /\ (rd.field # "_id" => \A r \in set : rw[r] \in Int)

LEMMA Arranges ==
  \A rd, rw, set : Sortable(rd, rw, set) =>
    /\ InOrderOf(Arranged(rd.field, Upward(rd), set, rw), set, Cardinality(set), OrderOf(rd, rw, set))
    /\ Len(Arranged(rd.field, Upward(rd), set, rw)) = Cardinality(set)
    /\ Cardinality(set) \in Nat
<1> SUFFICES ASSUME NEW rd, NEW rw, NEW set, Sortable(rd, rw, set)
             PROVE  /\ InOrderOf(Arranged(rd.field, Upward(rd), set, rw), set, Cardinality(set),
                                 OrderOf(rd, rw, set))
                    /\ Len(Arranged(rd.field, Upward(rd), set, rw)) = Cardinality(set)
                    /\ Cardinality(set) \in Nat
  OBVIOUS
<1>1. set \in SUBSET Ids /\ (rd.field # "_id" => \A r \in set : rw[r] \in Int) BY DEF Sortable
<1>2. PICK n : n = Cardinality(set) OBVIOUS
<1>3. PICK s : s = Arranged(rd.field, Upward(rd), set, rw) OBVIOUS
<1>4. InOrderOf(s, set, n, OrderOf(rd, rw, set)) /\ Len(s) = n BY <1>1, <1>2, <1>3, ArrangedIs
<1>5. n \in Nat BY <1>1, <1>2, PagingAssumption, FS_Subset, FS_CardinalityType
<1> QED BY <1>2, <1>3, <1>4, <1>5

LEMMA InOrderIs == \A set : P!InOrder(set) = Arranged(reader.field, Upward(reader), set, rows)
BY DEF P!InOrder, Arranged, P!Ranked, P!BuildSort, P!Cursor, KeyOf, Upward

ListedIn(rw, filter) == {r \in Ids : rw[r] # None /\ rw[r] \in filter}

LEMMA ListedIs == \A filter : P!Listed(filter) = ListedIn(rows, filter)
BY DEF P!Listed, ListedIn

\* Keys that a reading's order is one of.
Ordered(rd, k) == k.id \in Int /\ (rd.field # "_id" => k.v \in Int)

LEMMA AheadKeys ==
  ASSUME NEW rd, NEW a, NEW b, NEW c, Ordered(rd, a), Ordered(rd, b), Ordered(rd, c)
  PROVE  /\ Ahead(rd, a, b) /\ Ahead(rd, b, c) => Ahead(rd, a, c)
         /\ ~ Ahead(rd, a, a)
         /\ ~ Ahead(rd, a, b) /\ Ahead(rd, a, c) => Ahead(rd, b, c)
<1>1. CASE rd.field = "_id" BY <1>1 DEF Ahead, P!Below, Ordered
<1>2. CASE rd.field # "_id" BY <1>2 DEF Ahead, P!Below, Ordered
<1> QED BY <1>1, <1>2

\* A traversal by cursor that the order of its rows makes complete: sorted by _id, or
\* by a field that no listed row lacks.
ByCursor(rd) ==
    \/ rd.mode = "cursor" /\ (rd.field = "_id" \/ (rd.field = "value" /\ 0 \notin rd.filter))
    \/ rd.mode = "search" /\ rd.field = "_id"

\* Rows whose place is fixed, keys the cursor has passed, keys the reading begins before.
Placed(rd, st, r) == rd.field = "_id" \/ r \in st
Passed(rd, k) == rd.cursor # None /\ ~ Ahead(rd, rd.cursor, k)
Wanted(rd, k) == rd.from = None \/ Ahead(rd, rd.from, k)

CursorHolds(rd, rw, st) ==
    /\ \A i, j \in 1..Len(rd.pages) :
         i < j /\ Placed(rd, st, rd.pages[i]) /\ Placed(rd, st, rd.pages[j]) =>
           Ahead(rd, KeyOf(rw, rd.pages[i]), KeyOf(rw, rd.pages[j]))
    /\ \A i \in 1..Len(rd.pages) :
         Placed(rd, st, rd.pages[i]) => Passed(rd, KeyOf(rw, rd.pages[i]))
    /\ \A r \in st : Wanted(rd, KeyOf(rw, r)) /\ Passed(rd, KeyOf(rw, r)) =>
         \E i \in 1..Len(rd.pages) : rd.pages[i] = r
    /\ rd.pc = "done" => \A r \in st : Wanted(rd, KeyOf(rw, r)) => Passed(rd, KeyOf(rw, r))
    /\ rd.field = "value" =>
         /\ rd.from # None => rd.from.v # 0
         /\ rd.cursor # None => rd.cursor.v # 0

KeySet == [id : Ids, v : Values]

LEMMA KeyTypes == None \notin KeySet /\ \A rd : \A k \in KeySet : Ordered(rd, k)
BY PagingAssumption DEF KeySet, Ordered

\* A page of the rows beyond the cursor, in their order, and what it leaves of the reader.
PageOf(rd, rw, st, set, found, n, m) ==
    /\ rd.pages \in Seq(Ids) /\ rd.cursor \in KeySet \cup {None} /\ rd.limit \in Nat \ {0}
    /\ st \in SUBSET Ids /\ \A r \in st : rw[r] \in Values
    /\ set \in SUBSET Ids /\ \A r \in set : rw[r] \in Values
    /\ \A r \in set : rd.cursor # None => Ahead(rd, rd.cursor, KeyOf(rw, r))
    /\ \A r \in st : (rd.cursor = None \/ Ahead(rd, rd.cursor, KeyOf(rw, r))) => r \in set
    /\ rd.field = "value" => \A r \in set : rw[r] # 0
    /\ InOrderOf(found, set, n, OrderOf(rd, rw, set))
    /\ m \in Nat /\ m = (IF rd.limit < n THEN rd.limit ELSE n)

Continues(rd, rd2, rw, found, n, m) ==
    /\ rd2.pages = rd.pages \o SubSeq(found, 1, m)
    /\ rd2.cursor = (IF m = 0 THEN rd.cursor ELSE KeyOf(rw, found[m]))
    /\ rd2.pc = (IF n > rd.limit THEN "reading" ELSE "done")
    /\ rd2.field = rd.field /\ rd2.order = rd.order /\ rd2.forward = rd.forward /\ rd2.from = rd.from

LEMMA PageStep ==
  ASSUME NEW rd, NEW rd2, NEW rw, NEW st, NEW set, NEW found, NEW n, NEW m,
         CursorHolds(rd, rw, st), PageOf(rd, rw, st, set, found, n, m),
         Continues(rd, rd2, rw, found, n, m)
  PROVE  CursorHolds(rd2, rw, st)
<1> /\ rd.pages \in Seq(Ids) /\ rd.cursor \in KeySet \cup {None} /\ rd.limit \in Nat \ {0}
    /\ st \in SUBSET Ids /\ \A r \in st : rw[r] \in Values
    /\ set \in SUBSET Ids /\ \A r \in set : rw[r] \in Values
    /\ \A r \in set : rd.cursor # None => Ahead(rd, rd.cursor, KeyOf(rw, r))
    /\ \A r \in st : (rd.cursor = None \/ Ahead(rd, rd.cursor, KeyOf(rw, r))) => r \in set
    /\ rd.field = "value" => \A r \in set : rw[r] # 0
    /\ InOrderOf(found, set, n, OrderOf(rd, rw, set))
    /\ m \in Nat /\ m = (IF rd.limit < n THEN rd.limit ELSE n)
  BY DEF PageOf
<1> /\ rd2.pages = rd.pages \o SubSeq(found, 1, m)
    /\ rd2.cursor = (IF m = 0 THEN rd.cursor ELSE KeyOf(rw, found[m]))
    /\ rd2.pc = (IF n > rd.limit THEN "reading" ELSE "done")
    /\ rd2.field = rd.field /\ rd2.order = rd.order /\ rd2.forward = rd.forward /\ rd2.from = rd.from
  BY DEF Continues
<1> DEFINE Key(r) == KeyOf(rw, r)
           old == Len(rd.pages)
<1>1. n \in Nat /\ found \in [1..n -> set] /\ \A r \in set : \E i \in 1..n : found[i] = r
  BY DEF InOrderOf
<1>2. \A i, j \in 1..n : i < j => Ahead(rd, Key(found[i]), Key(found[j]))
  BY DEF InOrderOf, OrderOf
<1>3. \A a, b : Ahead(rd2, a, b) <=> Ahead(rd, a, b) BY DEF Ahead, Upward
<1>4. /\ \A r \in st : Key(r) \in KeySet /\ Ordered(rd, Key(r))
      /\ \A r \in set : Key(r) \in KeySet /\ Ordered(rd, Key(r))
  <2>1. \A r \in st : Key(r) \in KeySet BY DEF KeyOf, KeySet
  <2>2. \A r \in set : Key(r) \in KeySet BY DEF KeyOf, KeySet
  <2> QED BY <2>1, <2>2, KeyTypes
<1>5. m <= n /\ \A i \in 1..m : found[i] \in Ids /\ i \in 1..n BY <1>1
<1>6. PICK page : page = SubSeq(found, 1, m) OBVIOUS
<1>7. page \in Seq(Ids) /\ Len(page) = m /\ \A i \in 1..m : page[i] = found[i]
  BY <1>5, <1>6, SubSeqProperties
<1>8. /\ rd2.pages \in Seq(Ids) /\ Len(rd2.pages) = old + m /\ old \in Nat
      /\ \A i \in 1..old : rd2.pages[i] = rd.pages[i]
      /\ \A i \in 1..m : rd2.pages[old + i] = found[i]
  <2>0. PICK got \in Seq(Ids) : got = rd.pages OBVIOUS
  <2>1. rd2.pages = got \o page BY <1>6, <2>0
  <2>2. old \in Nat /\ Len(got) = old BY <2>0, LenProperties
  <2>6. /\ got \o page \in Seq(Ids) /\ Len(got \o page) = Len(got) + Len(page)
        /\ \A i \in 1..Len(got) + Len(page) :
             (got \o page)[i] = IF i <= Len(got) THEN got[i] ELSE page[i - Len(got)]
    BY <1>7, ConcatProperties
  <2>3. /\ rd2.pages \in Seq(Ids) /\ Len(rd2.pages) = old + m
        /\ \A i \in 1..old + m : rd2.pages[i] = IF i <= old THEN rd.pages[i] ELSE page[i - old]
    BY <1>7, <2>0, <2>1, <2>2, <2>6
  <2>4. \A i \in 1..old : i \in 1..old + m /\ i <= old BY <2>2
  <2>5. \A i \in 1..m : old + i \in 1..old + m /\ ~ old + i <= old /\ old + i - old = i BY <2>2
  <2> QED BY <1>7, <2>2, <2>3, <2>4, <2>5
<1>9. \A i \in 1..Len(rd2.pages) : \/ i \in 1..old /\ rd2.pages[i] = rd.pages[i]
                                   \/ \E k \in 1..m : i = old + k /\ rd2.pages[i] = found[k]
  <2> SUFFICES ASSUME NEW i \in 1..Len(rd2.pages), i \notin 1..old
               PROVE  \E k \in 1..m : i = old + k /\ rd2.pages[i] = found[k]
    BY <1>8
  <2>1. i - old \in 1..m /\ i = old + (i - old) BY <1>8
  <2> QED BY <1>8, <2>1
<1>10. m > 0 => /\ m \in 1..n /\ found[m] \in set /\ rd2.cursor = Key(found[m])
                /\ Key(found[m]) \in KeySet /\ rd2.cursor # None
  BY <1>1, <1>4, <1>5, KeyTypes
<1>11. m = 0 => rd2.cursor = rd.cursor OBVIOUS
<1>12. rd2.cursor \in KeySet \cup {None} BY <1>10, <1>11
\* What the old cursor has passed the new one has.
<1>13. ASSUME NEW k, Ordered(rd, k), Passed(rd, k) PROVE Passed(rd2, k)
  <2>1. CASE m = 0 BY <1>3, <1>11, <1>13, <2>1 DEF Passed
  <2>2. CASE m > 0
    <3>1. rd.cursor # None /\ ~ Ahead(rd, rd.cursor, k) /\ Ordered(rd, rd.cursor)
      BY <1>13, KeyTypes DEF Passed
    <3>2. Ahead(rd, rd.cursor, Key(found[m])) /\ Ordered(rd, Key(found[m])) BY <1>4, <1>10, <2>2, <3>1
    <3>3. ~ Ahead(rd, Key(found[m]), k) BY <1>13, <3>1, <3>2, AheadKeys
    <3> QED BY <1>3, <1>10, <2>2, <3>3 DEF Passed
  <2> QED BY <2>1, <2>2
\* It has passed a row beyond the old one if and only if the page has that row.
<1>14. ASSUME NEW i \in 1..n PROVE Passed(rd2, Key(found[i])) <=> i <= m
  <2>1. found[i] \in set /\ Ordered(rd, Key(found[i])) BY <1>1, <1>4
  <2>2. CASE m = 0
    <3>1. rd.cursor # None => Ahead(rd, rd.cursor, Key(found[i])) BY <2>1
    <3> QED BY <1>3, <1>11, <2>2, <3>1 DEF Passed
  <2>3. CASE m > 0 /\ i <= m
    <3>0. i \in 1..n /\ m \in 1..n /\ (i = m \/ i < m) BY <1>1, <1>10, <2>3
    <3>1. i = m \/ Ahead(rd, Key(found[i]), Key(found[m])) BY <1>2, <3>0
    <3>2. ~ Ahead(rd, Key(found[m]), Key(found[i])) BY <1>4, <1>10, <2>1, <2>3, <3>1, AheadKeys
    <3> QED BY <1>3, <1>10, <2>3, <3>2 DEF Passed
  <2>4. CASE m > 0 /\ ~ i <= m
    <3>1. Ahead(rd, Key(found[m]), Key(found[i])) BY <1>1, <1>2, <1>10, <2>4
    <3> QED BY <1>3, <1>10, <2>4, <3>1 DEF Passed
  <2> QED BY <2>2, <2>3, <2>4
<1>15. \A r : Placed(rd2, st, r) <=> Placed(rd, st, r) BY DEF Placed
<1>16. ASSUME NEW r \in Ids, Placed(rd, st, r) PROVE Ordered(rd, Key(r))
  <2>1. CASE r \in st BY <1>4, <2>1
  <2>2. CASE rd.field = "_id"
    <3>1. Key(r).id = r /\ r \in Int BY PagingAssumption DEF KeyOf
    <3> QED BY <2>2, <3>1 DEF Ordered
  <2> QED BY <1>16, <2>1, <2>2 DEF Placed
<1>17. \A i \in 1..old : rd.pages[i] \in Ids BY <1>8, ElementOfSeq
<1>18. ASSUME NEW i \in 1..Len(rd2.pages), NEW j \in 1..Len(rd2.pages), i < j,
              Placed(rd2, st, rd2.pages[i]), Placed(rd2, st, rd2.pages[j])
       PROVE  Ahead(rd2, Key(rd2.pages[i]), Key(rd2.pages[j]))
  <2>1. CASE i \in 1..old /\ j \in 1..old BY <1>3, <1>8, <1>15, <1>18, <2>1 DEF CursorHolds
  <2>2. CASE i \in 1..old /\ j \notin 1..old
    <3>1. PICK k \in 1..m : rd2.pages[j] = found[k] BY <1>9, <2>2
    <3>2. found[k] \in set /\ Ordered(rd, Key(found[k])) BY <1>1, <1>4, <1>5
    <3>3. PICK r \in Ids : r = rd.pages[i] /\ r = rd2.pages[i] BY <1>8, <1>17, <2>2
    <3>4. Ordered(rd, Key(r)) /\ Passed(rd, Key(r)) BY <1>15, <1>16, <1>18, <2>2, <3>3 DEF CursorHolds
    <3>5. rd.cursor # None /\ ~ Ahead(rd, rd.cursor, Key(r)) BY <3>4 DEF Passed
    <3>6. Ahead(rd, rd.cursor, Key(found[k])) BY <3>2, <3>5
    <3>7. Ordered(rd, rd.cursor) BY <3>5, KeyTypes
    <3>8. Ahead(rd, Key(r), Key(found[k])) BY <3>2, <3>4, <3>5, <3>6, <3>7, AheadKeys
    <3> QED BY <1>3, <3>1, <3>3, <3>8
  <2>3. CASE i \notin 1..old
    <3>1. PICK k \in 1..m : i = old + k /\ rd2.pages[i] = found[k] BY <1>9, <2>3
    <3>4. j \notin 1..old BY <1>8, <1>18, <2>3
    <3>2. PICK l \in 1..m : j = old + l /\ rd2.pages[j] = found[l] BY <1>9, <3>4
    <3>3. k < l /\ k \in 1..n /\ l \in 1..n BY <1>5, <1>8, <1>18, <3>1, <3>2
    <3> QED BY <1>2, <1>3, <3>1, <3>2, <3>3
  <2> QED BY <2>1, <2>2, <2>3
<1>19. ASSUME NEW i \in 1..Len(rd2.pages), Placed(rd2, st, rd2.pages[i])
       PROVE  Passed(rd2, Key(rd2.pages[i]))
  <2>1. CASE i \in 1..old
    <3>1. PICK r \in Ids : r = rd.pages[i] /\ r = rd2.pages[i] BY <1>8, <1>17, <2>1
    <3>2. Ordered(rd, Key(r)) /\ Passed(rd, Key(r)) BY <1>15, <1>16, <1>19, <2>1, <3>1 DEF CursorHolds
    <3> QED BY <1>13, <3>1, <3>2
  <2>2. CASE i \notin 1..old
    <3>1. PICK k \in 1..m : rd2.pages[i] = found[k] BY <1>9, <2>2
    <3>2. k \in 1..n /\ k <= m BY <1>5
    <3> QED BY <1>14, <3>1, <3>2
  <2> QED BY <2>1, <2>2
\* A row that stays is passed, or beyond the cursor and one of those found.
<1>20. ASSUME NEW r \in st PROVE Passed(rd, Key(r)) \/ \E i \in 1..n : found[i] = r
  BY <1>1 DEF Passed
<1>21. ASSUME NEW r \in st, Wanted(rd2, Key(r)), Passed(rd2, Key(r))
       PROVE  \E i \in 1..Len(rd2.pages) : rd2.pages[i] = r
  <2>1. Wanted(rd, Key(r)) BY <1>3, <1>21 DEF Wanted
  <2>2. CASE Passed(rd, Key(r))
    <3>1. PICK i \in 1..old : rd.pages[i] = r BY <2>1, <2>2 DEF CursorHolds
    <3>2. i \in 1..Len(rd2.pages) /\ rd2.pages[i] = r BY <1>8, <3>1
    <3> QED BY <3>2
  <2>3. CASE \E i \in 1..n : found[i] = r
    <3>1. PICK i \in 1..n : found[i] = r BY <2>3
    <3>2. i \in 1..m BY <1>14, <1>21, <3>1
    <3>4. rd2.pages[old + i] = r BY <1>8, <3>1, <3>2
    <3>5. PICK l \in Nat : l = old BY <1>8
    <3>6. l + i \in 1..l + m BY <3>2
    <3>3. old + i \in 1..Len(rd2.pages) /\ rd2.pages[old + i] = r BY <1>8, <3>4, <3>5, <3>6
    <3> QED BY <3>3
  <2> QED BY <1>20, <2>2, <2>3
<1>22. ASSUME rd2.pc = "done", NEW r \in st, Wanted(rd2, Key(r)) PROVE Passed(rd2, Key(r))
  <2>1. ~ n > rd.limit /\ m = n BY <1>1, <1>22
  <2>2. CASE Passed(rd, Key(r)) BY <1>4, <1>13, <2>2
  <2>3. CASE \E i \in 1..n : found[i] = r BY <1>14, <2>1, <2>3
  <2> QED BY <1>20, <2>2, <2>3
<1>23. rd2.field = "value" => /\ rd2.from # None => rd2.from.v # 0
                              /\ rd2.cursor # None => rd2.cursor.v # 0
  <2>1. \A r \in set : Key(r).v = rw[r] BY DEF KeyOf
  <2>2. m > 0 /\ rd.field = "value" => Key(found[m]).v # 0 BY <1>10, <2>1
  <2> QED BY <1>10, <1>11, <2>2 DEF CursorHolds
<1> QED BY <1>8, <1>18, <1>19, <1>21, <1>22, <1>23 DEF CursorHolds

Readings == [pc : {"reading", "counting", "done", "refused"}, mode : {"cursor", "search", "offset"},
             field : {"_id", "value", "score"}, order : {1, -1}, filter : Filters,
             limit : Nat \ {0}, forward : BOOLEAN, from : KeySet \cup {None},
             cursor : KeySet \cup {None}, offset : Nat, got : Nat,
             meta : {"none", "full", "total", "extra", "pages"}, repository : BOOLEAN,
             pages : Seq(Ids)]

\* A reading is of listed rows; a search is of the newest or the best first.
PagingTypes ==
    /\ rows \in [Ids -> Values \cup {None}]
    /\ \/ reader = [pc |-> "idle"]
       \/ /\ reader \in Readings /\ steady \subseteq ListedIn(rows, reader.filter)
          /\ reader.mode = "search" =>
               reader.field # "value" /\ reader.order = -1 /\ reader.forward
          /\ reader.pc = "counting" => reader.mode = "offset"

\* The ordered listing that an undisturbed traversal by offset has a prefix of.
Full == Arranged(reader.field, Upward(reader), ListedIn(rows, reader.filter), rows)

OffsetHolds(rd, full) ==
    /\ Len(rd.pages) = P!Shorter(rd.offset, Len(full))
    /\ \A i \in 1..Len(rd.pages) : rd.pages[i] = full[i]
    /\ \E m \in 0..rd.offset : rd.offset = m * rd.limit
    /\ rd.pc = "counting" =>
         /\ rd.offset >= rd.limit /\ rd.got <= rd.limit
         /\ rd.got = rd.limit \/ rd.offset - rd.limit + rd.got >= Len(full)
    /\ rd.pc = "done" => rd.offset >= Len(full)

PagingInv ==
    /\ PagingTypes
    /\ reader.pc # "idle" =>
         /\ ByCursor(reader) => CursorHolds(reader, rows, steady)
         /\ reader.mode = "offset" /\ quiet /\ reader.field = "_id" => OffsetHolds(reader, Full)

-----------------------------------------------------------------------------
\* A reading that begins.
Fresh(rd) ==
    /\ rd \in Readings /\ rd.pc = "reading" /\ rd.pages = <<>> /\ rd.cursor = rd.from /\ rd.offset = 0
    /\ rd.mode = "search" => rd.field # "value" /\ rd.order = -1 /\ rd.forward
    /\ rd.field = "value" /\ ByCursor(rd) /\ rd.from # None => rd.from.v # 0

LEMMA LimitIs == \A raw \in Limits : P!ResolveLimit(raw) \in Nat \ {0}
BY PagingAssumption DEF P!ResolveLimit

LEMMA FreshIs ==
  ASSUME NEW mode \in {"cursor", "search", "offset"}, NEW field \in {"_id", "value", "score"},
         mode = "search" => field # "value", NEW order \in {1, -1}, mode = "search" => order = -1,
         NEW limit \in Nat \ {0}, NEW filter \in Filters,
         NEW meta \in {"none", "full", "total", "extra", "pages"}, NEW repository \in BOOLEAN,
         NEW from \in KeySet \cup {None}, NEW forward \in BOOLEAN, mode = "search" => forward,
         from # None /\ 0 \notin filter => from.v # 0,
         NEW rd, rd = [pc |-> "reading", mode |-> mode, field |-> field, order |-> order,
                       filter |-> filter, limit |-> limit, forward |-> forward, from |-> from,
                       cursor |-> from, offset |-> 0, got |-> 0, meta |-> meta,
                       repository |-> repository, pages |-> <<>>]
  PROVE  Fresh(rd)
<1>1. <<>> \in Seq(Ids) OBVIOUS
<1>2. rd \in Readings BY <1>1 DEF Readings
<1>3. /\ rd.pc = "reading" /\ rd.pages = <<>> /\ rd.cursor = rd.from /\ rd.offset = 0
      /\ rd.mode = mode /\ rd.field = field /\ rd.order = order /\ rd.forward = forward
      /\ rd.from = from /\ rd.filter = filter
  OBVIOUS
<1> QED BY <1>2, <1>3 DEF Fresh, ByCursor

LEMMA StartKeeps ==
  ASSUME PagingInv, NEW rd, Fresh(rd), P!Start(rd), steady' = P!Listed(rd.filter)
  PROVE  PagingInv'
<1>1. rows' = rows /\ reader' = rd /\ steady' = ListedIn(rows, rd.filter) BY ListedIs DEF P!Start
<1>2. rows \in [Ids -> Values \cup {None}] BY DEF PagingInv, PagingTypes
<1>3. PagingTypes' BY <1>1, <1>2 DEF PagingTypes, Fresh
<1>4. ByCursor(rd) => CursorHolds(rd, rows, ListedIn(rows, rd.filter))
  <2>1. Len(rd.pages) = 0 BY DEF Fresh
  <2>2. 1..Len(rd.pages) = {} BY <2>1
  <2>3. \A k : Passed(rd, k) => ~ Wanted(rd, k) BY DEF Fresh, Passed, Wanted
  <2> QED BY <2>2, <2>3 DEF CursorHolds, Fresh
<1>5. rd.field = "_id" => OffsetHolds(rd, Arranged(rd.field, Upward(rd), ListedIn(rows, rd.filter), rows))
  <2> SUFFICES ASSUME rd.field = "_id"
               PROVE  OffsetHolds(rd, Arranged(rd.field, Upward(rd), ListedIn(rows, rd.filter), rows))
    OBVIOUS
  <2>1. PICK set \in SUBSET Ids : set = ListedIn(rows, rd.filter) BY DEF ListedIn
  <2>2. PICK s : s = Arranged(rd.field, Upward(rd), set, rows) OBVIOUS
  <2>3. Sortable(rd, rows, set) BY DEF Sortable
  <2>4. PICK n \in Nat : Len(s) = n BY <2>2, <2>3, Arranges
  <2>5. Len(rd.pages) = 0 /\ rd.offset = 0 /\ rd.pc = "reading" /\ rd.limit \in Nat BY DEF Fresh, Readings
  <2>6. 0 = P!Shorter(0, n) BY DEF P!Shorter
  <2>7. 0 \in 0..0 /\ 0 = 0 * rd.limit BY <2>5
  <2>8. OffsetHolds(rd, s) BY <2>4, <2>5, <2>6, <2>7 DEF OffsetHolds
  <2> QED BY <2>1, <2>2, <2>8
<1> QED BY <1>1, <1>3, <1>4, <1>5 DEF PagingInv, Full

Begins == \E rd : Fresh(rd) /\ P!Start(rd) /\ steady' = P!Listed(rd.filter)

\* The reading that every operation begins from.
LEMMA ReadingIs ==
  ASSUME NEW mode \in {"cursor", "search", "offset"}, NEW field \in {"_id", "value", "score"},
         mode = "search" => field # "value", NEW order \in {1, -1}, mode = "search" => order = -1,
         NEW raw \in Limits, NEW filter \in Filters, NEW rd, rd = P!Reading(mode, field, order, raw, filter)
  PROVE  Fresh(rd) /\ rd.from = None /\ rd.filter = filter
<1>1. P!ResolveLimit(raw) \in Nat \ {0} BY LimitIs
<1>2. <<>> \in Seq(Ids) OBVIOUS
<1>3. rd \in Readings BY <1>1, <1>2 DEF Readings, P!Reading
<1>4. /\ rd.pc = "reading" /\ rd.pages = <<>> /\ rd.cursor = None /\ rd.offset = 0
      /\ rd.mode = mode /\ rd.field = field /\ rd.order = order /\ rd.forward
      /\ rd.from = None /\ rd.filter = filter
  BY DEF P!Reading
<1> QED BY <1>3, <1>4 DEF Fresh

LEMMA AlsoFresh ==
  ASSUME NEW base, Fresh(base), base.from = None,
         NEW limit \in Nat \ {0}, NEW meta \in {"none", "full", "total", "extra", "pages"},
         NEW repository \in BOOLEAN
  PROVE  /\ Fresh([base EXCEPT !.limit = limit, !.meta = meta])
         /\ Fresh([base EXCEPT !.limit = limit])
         /\ Fresh([base EXCEPT !.meta = meta])
         /\ Fresh([base EXCEPT !.repository = repository])
         /\ [base EXCEPT !.limit = limit, !.meta = meta].filter = base.filter
         /\ [base EXCEPT !.limit = limit].filter = base.filter
         /\ [base EXCEPT !.meta = meta].filter = base.filter
         /\ [base EXCEPT !.repository = repository].filter = base.filter
<1>1. base \in Readings BY DEF Fresh
<1>2. ASSUME NEW rd, rd = [base EXCEPT !.limit = limit, !.meta = meta] PROVE Fresh(rd) /\ rd.filter = base.filter
  <2>1. rd \in Readings BY <1>1, <1>2 DEF Readings
  <2>2. /\ rd.pc = base.pc /\ rd.pages = base.pages /\ rd.cursor = base.cursor /\ rd.offset = base.offset
        /\ rd.mode = base.mode /\ rd.field = base.field /\ rd.order = base.order
        /\ rd.forward = base.forward /\ rd.from = base.from /\ rd.filter = base.filter
    BY <1>1, <1>2 DEF Readings
  <2> QED BY <2>1, <2>2 DEF Fresh
<1>3. ASSUME NEW rd, rd = [base EXCEPT !.limit = limit] PROVE Fresh(rd) /\ rd.filter = base.filter
  <2>1. rd \in Readings BY <1>1, <1>3 DEF Readings
  <2>2. /\ rd.pc = base.pc /\ rd.pages = base.pages /\ rd.cursor = base.cursor /\ rd.offset = base.offset
        /\ rd.mode = base.mode /\ rd.field = base.field /\ rd.order = base.order
        /\ rd.forward = base.forward /\ rd.from = base.from /\ rd.filter = base.filter
    BY <1>1, <1>3 DEF Readings
  <2> QED BY <2>1, <2>2 DEF Fresh
<1>4. ASSUME NEW rd, rd = [base EXCEPT !.meta = meta] PROVE Fresh(rd) /\ rd.filter = base.filter
  <2>1. rd \in Readings BY <1>1, <1>4 DEF Readings
  <2>2. /\ rd.pc = base.pc /\ rd.pages = base.pages /\ rd.cursor = base.cursor /\ rd.offset = base.offset
        /\ rd.mode = base.mode /\ rd.field = base.field /\ rd.order = base.order
        /\ rd.forward = base.forward /\ rd.from = base.from /\ rd.filter = base.filter
    BY <1>1, <1>4 DEF Readings
  <2> QED BY <2>1, <2>2 DEF Fresh
<1>5. ASSUME NEW rd, rd = [base EXCEPT !.repository = repository]
      PROVE  Fresh(rd) /\ rd.filter = base.filter
  <2>1. rd \in Readings BY <1>1, <1>5 DEF Readings
  <2>2. /\ rd.pc = base.pc /\ rd.pages = base.pages /\ rd.cursor = base.cursor /\ rd.offset = base.offset
        /\ rd.mode = base.mode /\ rd.field = base.field /\ rd.order = base.order
        /\ rd.forward = base.forward /\ rd.from = base.from /\ rd.filter = base.filter
    BY <1>1, <1>5 DEF Readings
  <2> QED BY <2>1, <2>2 DEF Fresh
<1> QED BY <1>2, <1>3, <1>4, <1>5

LEMMA OffsetBegins ==
  ASSUME NEW field \in {"_id", "value"}, NEW order \in {1, -1}, NEW raw \in Limits,
         NEW filter \in Filters, NEW meta \in {"full", "total", "extra", "pages"},
         P!OpenOffset(field, order, raw, filter, meta)
  PROVE  Begins
<1>1. PICK base : base = P!Reading("offset", field, order, raw, filter) OBVIOUS
<1>2. Fresh(base) /\ base.from = None /\ base.filter = filter BY <1>1, ReadingIs
<1>3. PICK rd : rd = [base EXCEPT !.meta = meta] OBVIOUS
<1>4. Fresh(rd) /\ rd.filter = filter BY <1>2, <1>3, AlsoFresh, LimitIs
<1>5. P!Start(rd) /\ steady' = P!Listed(rd.filter) BY <1>1, <1>3, <1>4 DEF P!OpenOffset
<1> QED BY <1>4, <1>5 DEF Begins

LEMMA ClampedBegins ==
  ASSUME NEW order \in {1, -1}, NEW raw \in Limits, NEW filter \in Filters,
         NEW meta \in {"total", "pages"}, P!OpenClamped(order, raw, filter, meta)
  PROVE  Begins
<1>1. PICK base : base = P!Reading("offset", "value", order, raw, filter) OBVIOUS
<1>2. Fresh(base) /\ base.from = None /\ base.filter = filter BY <1>1, ReadingIs
<1>3. PICK limit : limit = IF raw < 0 THEN 1 ELSE base.limit OBVIOUS
<1>4. limit \in Nat \ {0} BY <1>2, <1>3 DEF Fresh, Readings
<1>5. PICK rd : rd = [base EXCEPT !.limit = limit, !.meta = meta] OBVIOUS
<1>10. meta \in {"none", "full", "total", "extra", "pages"} /\ TRUE \in BOOLEAN OBVIOUS
<1>11. Fresh([base EXCEPT !.limit = limit, !.meta = meta])
       /\ [base EXCEPT !.limit = limit, !.meta = meta].filter = base.filter
  BY <1>2, <1>4, <1>10, AlsoFresh
<1>6. Fresh(rd) /\ rd.filter = filter BY <1>2, <1>5, <1>11
<1>7. P!Start([base EXCEPT !.limit = IF raw < 0 THEN 1 ELSE @, !.meta = meta])
  BY <1>1, Zenon DEF P!OpenClamped
<1>8. [base EXCEPT !.limit = IF raw < 0 THEN 1 ELSE @, !.meta = meta] = rd BY <1>3, <1>5
<1>9. P!Start(rd) /\ steady' = P!Listed(rd.filter) BY <1>6, <1>7, <1>8 DEF P!OpenClamped
<1> QED BY <1>6, <1>9 DEF Begins

LEMMA SearchBegins ==
  ASSUME NEW field \in {"_id", "score"}, NEW raw \in Limits, NEW filter \in Filters,
         P!SearchCollections(field, raw, filter)
  PROVE  Begins
<1>1. PICK base : base = P!Reading("search", field, -1, raw, filter) OBVIOUS
<1>2. Fresh(base) /\ base.from = None /\ base.filter = filter BY <1>1, ReadingIs
<1>3. PICK limit : limit = IF raw < 0 THEN 1 ELSE base.limit OBVIOUS
<1>4. limit \in Nat \ {0} BY <1>2, <1>3 DEF Fresh, Readings
<1>5. PICK rd : rd = [base EXCEPT !.limit = limit] OBVIOUS
<1>6. Fresh(rd) /\ rd.filter = filter BY <1>2, <1>4, <1>5, AlsoFresh
<1>7. P!Start([base EXCEPT !.limit = IF raw < 0 THEN 1 ELSE @])
  BY <1>1, Zenon DEF P!SearchCollections
<1>8. [base EXCEPT !.limit = IF raw < 0 THEN 1 ELSE @] = rd BY <1>3, <1>5
<1>9. P!Start(rd) /\ steady' = P!Listed(rd.filter) BY <1>6, <1>7, <1>8 DEF P!SearchCollections
<1> QED BY <1>6, <1>9 DEF Begins

LEMMA RepositoryBegins ==
  ASSUME NEW order \in {1, -1}, NEW raw \in Limits, NEW filter \in Filters,
         P!OpenRepositoryCursor(order, raw, filter)
  PROVE  Begins
<1>1. PICK base : base = P!Reading("cursor", "_id", order, raw, filter) OBVIOUS
<1>2. Fresh(base) /\ base.from = None /\ base.filter = filter BY <1>1, ReadingIs
<1>3. PICK rd : rd = [base EXCEPT !.repository = TRUE] OBVIOUS
<1>4. Fresh(rd) /\ rd.filter = filter BY <1>2, <1>3, AlsoFresh, LimitIs
<1>5. P!Start(rd) /\ steady' = P!Listed(rd.filter) BY <1>1, <1>3, <1>4 DEF P!OpenRepositoryCursor
<1> QED BY <1>4, <1>5 DEF Begins

LEMMA CursorBegins ==
  ASSUME PagingInv, NEW field \in {"_id", "value"}, NEW order \in {1, -1}, NEW raw \in Limits,
         NEW filter \in Filters, NEW at \in Ids \cup {None}, NEW forward \in BOOLEAN,
         P!OpenCursor(field, order, raw, filter, at, forward)
  PROVE  Begins
<1>1. PICK base : base = P!Reading("cursor", field, order, raw, filter) OBVIOUS
<1>2. Fresh(base) /\ base.filter = filter /\ base.mode = "cursor" BY <1>1, ReadingIs DEF P!Reading
<1>3. PICK from : from = IF at = None THEN None ELSE P!Cursor(at) OBVIOUS
<1>4. at # None => at \in Ids /\ rows[at] \in Values /\ rows[at] \in filter
  BY DEF PagingInv, PagingTypes, P!OpenCursor, P!Listed
<1>5. from \in KeySet \cup {None} /\ (from # None /\ 0 \notin filter => from.v # 0)
  <2>1. at # None => from = [id |-> at, v |-> rows[at]] BY <1>3 DEF P!Cursor
  <2> QED BY <1>3, <1>4, <2>1 DEF KeySet
<1>6. PICK rd : rd = [base EXCEPT !.from = from, !.cursor = from, !.forward = forward] OBVIOUS
<1>7. base \in Readings BY <1>2 DEF Fresh
<1>8. rd \in Readings BY <1>5, <1>6, <1>7 DEF Readings
<1>9. /\ rd.pc = base.pc /\ rd.pages = base.pages /\ rd.cursor = rd.from /\ rd.offset = base.offset
      /\ rd.mode = base.mode /\ rd.field = base.field /\ rd.from = from /\ rd.filter = base.filter
  BY <1>6, <1>7 DEF Readings
<1>10. Fresh(rd) /\ rd.filter = filter BY <1>2, <1>5, <1>8, <1>9 DEF Fresh, ByCursor
<1>11. P!Start(rd) /\ steady' = P!Listed(rd.filter) BY <1>1, <1>3, <1>6, <1>10, Zenon DEF P!OpenCursor
<1> QED BY <1>10, <1>11 DEF Begins

LEMMA OpenKeeps == ASSUME PagingInv, P!Open PROVE PagingInv'
<1>1. PICK order \in {1, -1}, raw \in Limits, filter \in Filters :
        \/ P!OpenRepositoryCursor(order, raw, filter)
        \/ P!OpenOffset("value", -1, raw, filter, "pages")
        \/ \E meta \in {"total", "pages"}, o \in {1, -1} : P!OpenClamped(o, raw, filter, meta)
        \/ P!OpenOffset("value", order, raw, filter, "extra")
        \/ \E field \in {"_id", "score"} : P!SearchCollections(field, raw, filter)
        \/ \E field \in {"_id", "value"} :
             \/ \E meta \in {"full", "total", "pages"} : P!OpenOffset(field, order, raw, filter, meta)
             \/ \E at \in Ids \cup {None}, forward \in BOOLEAN :
                  P!OpenCursor(field, order, raw, filter, at, forward)
  BY DEF P!Open, P!GetPayments, P!GetUserNotifications, P!GetGroups, P!GetModerationQueue,
         P!GetModerationHistory, P!GetModerationLogs, P!GetReelsByHashtag, P!GetTransactions,
         P!GetReels, P!ListReelDerivatives, P!ListDeliveries, P!ListApplications, P!ListAudit,
         P!GetUserJourney, P!GetCategory, P!SearchSorted, P!SearchEducators, P!OpenUncounted,
         P!Paginate, P!GetTransactionHistory
<1>2. Begins
  <2>1. CASE P!OpenRepositoryCursor(order, raw, filter) BY <2>1, RepositoryBegins
  <2>2. CASE P!OpenOffset("value", -1, raw, filter, "pages") BY <2>2, OffsetBegins
  <2>3. CASE \E meta \in {"total", "pages"}, o \in {1, -1} : P!OpenClamped(o, raw, filter, meta)
    BY <2>3, ClampedBegins
  <2>4. CASE P!OpenOffset("value", order, raw, filter, "extra") BY <2>4, OffsetBegins
  <2>5. CASE \E field \in {"_id", "score"} : P!SearchCollections(field, raw, filter)
    BY <2>5, SearchBegins
  <2>6. ASSUME NEW field \in {"_id", "value"}, NEW meta \in {"full", "total", "pages"},
               P!OpenOffset(field, order, raw, filter, meta)
        PROVE  Begins
    BY <2>6, OffsetBegins
  <2>7. ASSUME NEW field \in {"_id", "value"}, NEW at \in Ids \cup {None}, NEW forward \in BOOLEAN,
               P!OpenCursor(field, order, raw, filter, at, forward)
        PROVE  Begins
    BY <2>7, CursorBegins
  <2> QED BY <1>1, <2>1, <2>2, <2>3, <2>4, <2>5, <2>6, <2>7
<1> QED BY <1>2, StartKeeps DEF Begins

-----------------------------------------------------------------------------
\* What a page read by cursor does to the reader.
Turned(rd, found, m, n) ==
    [rd EXCEPT !.pages = @ \o SubSeq(found, 1, m),
               !.cursor = IF m = 0 THEN @ ELSE KeyOf(rows, found[m]),
               !.pc = IF n > rd.limit THEN "reading" ELSE "done"]

IsTurned(rd, rd2, found, m, n) ==
    /\ rd2.pages = rd.pages \o SubSeq(found, 1, m)
    /\ rd2.cursor = (IF m = 0 THEN rd.cursor ELSE KeyOf(rows, found[m]))
    /\ rd2.pc = (IF n > rd.limit THEN "reading" ELSE "done")
    /\ rd2.mode = rd.mode /\ rd2.field = rd.field /\ rd2.order = rd.order
    /\ rd2.filter = rd.filter /\ rd2.forward = rd.forward /\ rd2.from = rd.from
    /\ (rd2.pages \in Seq(Ids) /\ rd2.cursor \in KeySet \cup {None} => rd2 \in Readings)

LEMMA TurnedIs ==
  \A rd, found, m, n : rd \in Readings => IsTurned(rd, Turned(rd, found, m, n), found, m, n)
<1> SUFFICES ASSUME NEW rd \in Readings, NEW found, NEW m, NEW n, NEW rd2, rd2 = Turned(rd, found, m, n)
             PROVE  IsTurned(rd, rd2, found, m, n)
  OBVIOUS
<1>1. PICK p : p = rd.pages \o SubSeq(found, 1, m) OBVIOUS
<1>2. PICK c : c = IF m = 0 THEN rd.cursor ELSE KeyOf(rows, found[m]) OBVIOUS
<1>3. PICK pc \in {"reading", "done"} : pc = IF n > rd.limit THEN "reading" ELSE "done" OBVIOUS
<1>4. rd2 = [rd EXCEPT !.pages = p, !.cursor = c, !.pc = pc] BY <1>1, <1>2, <1>3 DEF Turned
<1>5. /\ rd2.pages = p /\ rd2.cursor = c /\ rd2.pc = pc
      /\ rd2.mode = rd.mode /\ rd2.field = rd.field /\ rd2.order = rd.order
      /\ rd2.filter = rd.filter /\ rd2.forward = rd.forward /\ rd2.from = rd.from
  BY <1>4 DEF Readings
<1>6. p \in Seq(Ids) /\ c \in KeySet \cup {None} => rd2 \in Readings BY <1>3, <1>4 DEF Readings
<1> QED BY <1>1, <1>2, <1>3, <1>5, <1>6 DEF IsTurned

\* A page in the order of the reading, of the rows listed beyond the cursor, or for one
\* that nothing is claimed of, of any.
LEMMA TurnKeeps ==
  ASSUME PagingInv, reader.pc = "reading", reader.mode # "offset",
         NEW set \in SUBSET ListedIn(rows, reader.filter), NEW n \in Nat, NEW found \in [1..n -> set],
         ByCursor(reader) =>
           /\ \A r \in ListedIn(rows, reader.filter) : r \in set <=>
                reader.cursor = None \/ Ahead(reader, reader.cursor, KeyOf(rows, r))
           /\ InOrderOf(found, set, n, OrderOf(reader, rows, set)),
         NEW m \in Nat, m = (IF reader.limit < n THEN reader.limit ELSE n),
         reader' = Turned(reader, found, m, n), UNCHANGED <<rows, steady, quiet>>
  PROVE  PagingInv'
<1>1. /\ rows \in [Ids -> Values \cup {None}] /\ reader \in Readings
      /\ steady \subseteq ListedIn(rows, reader.filter)
      /\ reader.mode = "search" => reader.field # "value" /\ reader.order = -1 /\ reader.forward
  BY DEF PagingInv, PagingTypes
<1>2. PICK rd \in Readings : rd = reader BY <1>1
<1>3. PICK rd2 : rd2 = Turned(rd, found, m, n) OBVIOUS
<1>4. reader' = rd2 BY <1>2, <1>3
<1>20. IsTurned(rd, Turned(rd, found, m, n), found, m, n) BY <1>2, TurnedIs
<1>21. IsTurned(rd, rd2, found, m, n) BY <1>3, <1>20
<1>5. /\ rd2.pages = rd.pages \o SubSeq(found, 1, m)
      /\ rd2.cursor = (IF m = 0 THEN rd.cursor ELSE KeyOf(rows, found[m]))
      /\ rd2.pc = (IF n > rd.limit THEN "reading" ELSE "done")
      /\ rd2.mode = rd.mode /\ rd2.field = rd.field /\ rd2.order = rd.order
      /\ rd2.filter = rd.filter /\ rd2.forward = rd.forward /\ rd2.from = rd.from
      /\ (rd2.pages \in Seq(Ids) /\ rd2.cursor \in KeySet \cup {None} => rd2 \in Readings)
  BY <1>21 DEF IsTurned
<1>6. \A r \in ListedIn(rows, rd.filter) : r \in Ids /\ rows[r] \in Values /\ rows[r] \in rd.filter
  BY <1>1, <1>2 DEF ListedIn
<1>7. rd.pages \in Seq(Ids) /\ rd.cursor \in KeySet \cup {None} /\ rd.limit \in Nat \ {0}
  BY <1>2 DEF Readings
<1>8. m <= n /\ (m = 0 => n = 0) BY <1>2, <1>7
<1>9. rd2.pages \in Seq(Ids) /\ rd2.cursor \in KeySet \cup {None}
  <2>1. \A i \in 1..m : found[i] \in Ids BY <1>2, <1>6, <1>8
  <2>2. SubSeq(found, 1, m) \in Seq(Ids) BY <2>1, SubSeqProperties
  <2>3. rd2.pages \in Seq(Ids) BY <1>5, <1>7, <2>2, ConcatProperties
  <2>4. m # 0 => found[m] \in set BY <1>8
  <2>5. m # 0 => KeyOf(rows, found[m]) \in KeySet BY <1>2, <1>6, <2>4 DEF KeyOf, KeySet
  <2> QED BY <1>5, <1>7, <2>3, <2>5
<1>10. rd2 \in Readings BY <1>5, <1>9
<1>11. ByCursor(rd2) <=> ByCursor(rd) BY <1>5 DEF ByCursor
<1>12. ASSUME ByCursor(rd) PROVE CursorHolds(rd2, rows, steady)
  <2>1. CursorHolds(rd, rows, steady) BY <1>2, <1>12 DEF PagingInv
  <2>2. PICK st \in SUBSET Ids : st = steady BY <1>1 DEF ListedIn
  <2>3. PICK rw : rw = rows OBVIOUS
  <2>4. \A r \in st : rw[r] \in Values BY <1>1, <1>2, <1>6, <2>2, <2>3
  <2>5. set \in SUBSET Ids /\ \A r \in set : rw[r] \in Values BY <1>2, <1>6, <2>3
  <2>6. \A r \in set : rd.cursor # None => Ahead(rd, rd.cursor, KeyOf(rw, r))
    BY <1>2, <1>12, <2>3
  <2>7. \A r \in st : (rd.cursor = None \/ Ahead(rd, rd.cursor, KeyOf(rw, r))) => r \in set
    BY <1>1, <1>2, <1>12, <2>2, <2>3
  <2>8. rd.field = "value" => \A r \in set : rw[r] # 0
    BY <1>2, <1>6, <1>12, <1>1, <2>3 DEF ByCursor
  <2>9. InOrderOf(found, set, n, OrderOf(rd, rw, set)) BY <1>2, <1>12, <2>3
  <2>10. m = IF rd.limit < n THEN rd.limit ELSE n BY <1>2
  <2>11. CursorHolds(rd, rw, st) BY <2>1, <2>2, <2>3
  <2>12. rd2.cursor = IF m = 0 THEN rd.cursor ELSE KeyOf(rw, found[m]) BY <1>5, <2>3
  <2>13. PageOf(rd, rw, st, set, found, n, m)
    BY <1>7, <2>4, <2>5, <2>6, <2>7, <2>8, <2>9, <2>10 DEF PageOf
  <2>14. Continues(rd, rd2, rw, found, n, m) BY <1>5, <2>12 DEF Continues
  <2>15. CursorHolds(rd2, rw, st) BY <2>11, <2>13, <2>14, PageStep
  <2> QED BY <2>2, <2>3, <2>15
<1>13. PagingTypes' BY <1>1, <1>2, <1>4, <1>5, <1>10 DEF PagingTypes
<1>14. reader'.mode # "offset" BY <1>2, <1>4, <1>5
<1>15. ByCursor(reader') => CursorHolds(reader', rows', steady') BY <1>4, <1>11, <1>12
<1> QED BY <1>13, <1>14, <1>15 DEF PagingInv

LEMMA ReadKeeps == ASSUME PagingInv, P!Read PROVE PagingInv'
<1>1. /\ rows \in [Ids -> Values \cup {None}] /\ reader \in Readings
      /\ reader.pc = "reading" /\ reader.mode = "cursor"
  BY DEF PagingInv, PagingTypes, P!Read, P!CursorDue
<1>2. PICK set : set = P!Matching(reader.cursor) OBVIOUS
<1>3. set \in SUBSET ListedIn(rows, reader.filter) BY <1>2, ListedIs DEF P!Matching
<1>4. ListedIn(rows, reader.filter) \in SUBSET Ids
      /\ \A r \in ListedIn(rows, reader.filter) : rows[r] \in Values /\ rows[r] \in reader.filter
  BY <1>1 DEF ListedIn
<1>5. PICK found : found = P!InOrder(set) OBVIOUS
<1>6. Sortable(reader, rows, set) BY <1>3, <1>4, PagingAssumption DEF Sortable
<1>7. PICK n \in Nat : n = Len(found) /\ InOrderOf(found, set, n, OrderOf(reader, rows, set))
  BY <1>5, <1>6, Arranges, InOrderIs
<1>8. found \in [1..n -> set] BY <1>7 DEF InOrderOf
<1>9. reader.limit \in Nat \ {0} /\ reader.cursor \in KeySet \cup {None} BY <1>1 DEF Readings
<1>10. PICK m \in Nat : m = IF reader.limit < n THEN reader.limit ELSE n BY <1>9
<1>11. m = P!Shorter(reader.limit, n) BY <1>10 DEF P!Shorter
<1>12. PICK page : page = SubSeq(found, 1, m) OBVIOUS
<1>13. \A i \in 1..m : found[i] \in Ids /\ i \in 1..n BY <1>3, <1>4, <1>8, <1>9, <1>10
<1>14. page \in Seq(Ids) /\ Len(page) = m /\ \A i \in 1..m : page[i] = found[i]
  BY <1>12, <1>13, SubSeqProperties
<1>15. page = <<>> <=> m = 0 BY <1>14
<1>16. m # 0 => P!Cursor(P!Last(page)) = KeyOf(rows, found[m])
  BY <1>14 DEF P!Cursor, KeyOf, P!Last
<1>17. reader' = [reader EXCEPT !.pages = @ \o page,
                               !.cursor = IF page = <<>> THEN @ ELSE P!Cursor(P!Last(page)),
                               !.pc = IF Len(found) > reader.limit THEN "reading" ELSE "done"]
  BY <1>2, <1>5, <1>7, <1>11, <1>12 DEF P!Read
<1>18. reader' = Turned(reader, found, m, n)
  <2>1. PICK c : c = IF m = 0 THEN reader.cursor ELSE KeyOf(rows, found[m]) OBVIOUS
  <2>2. c = IF page = <<>> THEN reader.cursor ELSE P!Cursor(P!Last(page)) BY <1>15, <1>16, <2>1
  <2>3. Turned(reader, found, m, n) =
          [reader EXCEPT !.pages = reader.pages \o page, !.cursor = c,
                         !.pc = IF n > reader.limit THEN "reading" ELSE "done"]
    BY <1>12, <2>1 DEF Turned
  <2>4. reader' = [reader EXCEPT !.pages = reader.pages \o page, !.cursor = c,
                                !.pc = IF n > reader.limit THEN "reading" ELSE "done"]
    BY <1>7, <1>17, <2>2
  <2> QED BY <2>3, <2>4
<1>19. ASSUME ByCursor(reader), NEW r \in ListedIn(rows, reader.filter)
       PROVE  r \in set <=> (reader.cursor = None \/ Ahead(reader, reader.cursor, KeyOf(rows, r)))
  <2>1. r \in set <=> (reader.cursor = None \/ P!BuildCursorFilter(reader.cursor, P!Cursor(r)))
    BY <1>2, ListedIs DEF P!Matching
  <2>2. CASE reader.field = "_id"
    BY <2>1, <2>2 DEF P!BuildCursorFilter, P!Cursor, KeyOf, Ahead, Upward, P!Below
  <2>3. CASE reader.field = "value"
    <3>1. CursorHolds(reader, rows, steady) BY <1>1, <1>19 DEF PagingInv
    <3>2. reader.cursor # None => reader.cursor.v # 0 /\ reader.cursor.v \in Int /\ reader.cursor.id \in Int
      BY <1>9, <2>3, <3>1, PagingAssumption DEF CursorHolds, KeySet
    <3>3. rows[r] # 0 /\ rows[r] \in Int /\ r \in Int
      BY <1>1, <1>4, <1>19, <2>3, PagingAssumption DEF ByCursor
    <3>4. reader.cursor # None =>
            (P!BuildCursorFilter(reader.cursor, P!Cursor(r)) <=> Ahead(reader, reader.cursor, KeyOf(rows, r)))
      BY <2>3, <3>2, <3>3 DEF P!BuildCursorFilter, P!Cursor, KeyOf, Ahead, Upward, P!Below
    <3> QED BY <2>1, <3>4
  <2> QED BY <1>1, <1>19, <2>2, <2>3 DEF ByCursor
<1>20. UNCHANGED <<rows, steady, quiet>> BY DEF P!Read
<1> QED BY <1>1, <1>3, <1>7, <1>8, <1>10, <1>18, <1>19, <1>20, TurnKeeps

LEMMA SearchKeeps == ASSUME PagingInv, P!SearchModel PROVE PagingInv'
<1>1. /\ rows \in [Ids -> Values \cup {None}] /\ reader \in Readings
      /\ reader.pc = "reading" /\ reader.mode = "search"
      /\ reader.field # "value" /\ reader.order = -1 /\ reader.forward
  BY DEF PagingInv, PagingTypes, P!SearchModel
<1>2. PICK set : set = P!ApplyCursorFilter(reader.cursor) OBVIOUS
<1>3. set \in SUBSET ListedIn(rows, reader.filter) BY <1>2, ListedIs DEF P!ApplyCursorFilter
<1>4. ListedIn(rows, reader.filter) \in SUBSET Ids BY DEF ListedIn
<1>5. IsFiniteSet(set) BY <1>3, <1>4, PagingAssumption, FS_Subset
<1>6. PICK found \in P!SearchOrders(set) :
        reader' = [reader EXCEPT
          !.pages = @ \o SubSeq(found, 1, P!Shorter(reader.limit, Len(found))),
          !.cursor = IF SubSeq(found, 1, P!Shorter(reader.limit, Len(found))) = <<>> THEN @
                     ELSE P!Cursor(P!Last(SubSeq(found, 1, P!Shorter(reader.limit, Len(found))))),
          !.pc = IF Len(found) > reader.limit THEN "reading" ELSE "done"]
  BY <1>2 DEF P!SearchModel
<1>7. PICK n \in Nat : n = Cardinality(set) BY <1>5, FS_CardinalityType
<1>8. /\ found \in [1..n -> set] /\ Len(found) = n
      /\ \A i, j \in 1..n : i # j => found[i] # found[j]
      /\ reader.field = "_id" => \A i, j \in 1..n : i < j => found[i] > found[j]
  <2>1. P!Cardinality(set) = n BY <1>7, CountsAgree
  <2>2. found \in [1..n -> set] /\ \A i, j \in 1..n : i # j => found[i] # found[j]
    BY <1>6, <2>1 DEF P!SearchOrders, P!SetToSeqs
  <2>3. Len(found) = n /\ DOMAIN found = 1..n BY <2>2
  <2>4. reader.field = "_id" => \A i, j \in 1..n : i < j => found[i] > found[j]
    BY <1>6, <2>3 DEF P!SearchOrders
  <2> QED BY <2>2, <2>3, <2>4
<1>9. reader.limit \in Nat \ {0} /\ reader.cursor \in KeySet \cup {None} BY <1>1 DEF Readings
<1>10. PICK m \in Nat : m = IF reader.limit < n THEN reader.limit ELSE n BY <1>9
<1>11. m = P!Shorter(reader.limit, n) BY <1>10 DEF P!Shorter
<1>12. PICK page : page = SubSeq(found, 1, m) OBVIOUS
<1>13. \A i \in 1..m : found[i] \in Ids /\ i \in 1..n BY <1>3, <1>4, <1>8, <1>9, <1>10
<1>14. page \in Seq(Ids) /\ Len(page) = m /\ \A i \in 1..m : page[i] = found[i]
  BY <1>12, <1>13, SubSeqProperties
<1>15. page = <<>> <=> m = 0 BY <1>14
<1>16. m # 0 => P!Cursor(P!Last(page)) = KeyOf(rows, found[m])
  BY <1>14 DEF P!Cursor, KeyOf, P!Last
<1>17. reader' = [reader EXCEPT !.pages = @ \o page,
                               !.cursor = IF page = <<>> THEN @ ELSE P!Cursor(P!Last(page)),
                               !.pc = IF n > reader.limit THEN "reading" ELSE "done"]
  BY <1>6, <1>8, <1>11, <1>12
<1>18. reader' = Turned(reader, found, m, n)
  <2>1. PICK c : c = IF m = 0 THEN reader.cursor ELSE KeyOf(rows, found[m]) OBVIOUS
  <2>2. c = IF page = <<>> THEN reader.cursor ELSE P!Cursor(P!Last(page)) BY <1>15, <1>16, <2>1
  <2>3. Turned(reader, found, m, n) =
          [reader EXCEPT !.pages = reader.pages \o page, !.cursor = c,
                         !.pc = IF n > reader.limit THEN "reading" ELSE "done"]
    BY <1>12, <2>1 DEF Turned
  <2>4. reader' = [reader EXCEPT !.pages = reader.pages \o page, !.cursor = c,
                                !.pc = IF n > reader.limit THEN "reading" ELSE "done"]
    BY <1>17, <2>2
  <2> QED BY <2>3, <2>4
<1>19. ASSUME ByCursor(reader)
       PROVE  /\ \A r \in ListedIn(rows, reader.filter) : r \in set <=>
                   reader.cursor = None \/ Ahead(reader, reader.cursor, KeyOf(rows, r))
              /\ InOrderOf(found, set, n, OrderOf(reader, rows, set))
  <2>1. reader.field = "_id" /\ ~ Upward(reader)
    <3>1. reader.field = "_id" BY <1>1, <1>19 DEF ByCursor
    <3>2. reader.forward = TRUE BY <1>1 DEF Readings
    <3>3. ~ reader.order = 1 BY <1>1
    <3>4. ((reader.order = 1) = TRUE) => reader.order = 1 OBVIOUS
    <3> QED BY <3>1, <3>2, <3>3, <3>4, Zenon DEF Upward
  <2>2. \A r \in ListedIn(rows, reader.filter) : r \in set <=>
          reader.cursor = None \/ Ahead(reader, reader.cursor, KeyOf(rows, r))
    BY <1>2, <2>1, ListedIs DEF P!ApplyCursorFilter, Ahead, P!Below, KeyOf
  <2>3. \A q, r \in set : q > r => <<q, r>> \in OrderOf(reader, rows, set)
    BY <1>3, <1>4, <2>1, PagingAssumption DEF OrderOf, Ahead, P!Below, KeyOf
  <2>4. \A i, j \in 1..n : i < j => <<found[i], found[j]>> \in OrderOf(reader, rows, set)
    BY <1>8, <2>1, <2>3
  <2>6. found \in Injection(1..n, set) BY <1>8 DEF Injection, IsInjective
  <2>7. IsFiniteSet(1..n) /\ Cardinality(1..n) = n BY FS_Interval
  <2>8. found \in Surjection(1..n, set) BY <1>5, <1>7, <2>6, <2>7, FS_Injection
  <2>9. \A r \in set : \E i \in 1..n : found[i] = r BY <2>8 DEF Surjection
  <2> QED BY <1>8, <2>2, <2>4, <2>9 DEF InOrderOf
<1>20. UNCHANGED <<rows, steady, quiet>> BY DEF P!SearchModel
<1> QED BY <1>1, <1>3, <1>8, <1>10, <1>18, <1>19, <1>20, TurnKeeps

-----------------------------------------------------------------------------
\* How many rows from start to end.
SizeOf(start, end) == IF start + 1 <= end THEN end - start ELSE 0
PageSize(start, limit, n, had, end, size) ==
    /\ had \in Nat /\ end \in Nat /\ size \in Nat /\ had <= n /\ end <= n
    /\ had + size = end /\ (size > 0 => had = start) /\ size <= limit
    /\ size = limit \/ start + size >= n

LEMMA ShorterIs ==
  \A start, n \in Nat : \A limit \in Nat \ {0} :
    PageSize(start, limit, n, P!Shorter(start, n), P!Shorter(start + limit, n),
             SizeOf(start, P!Shorter(start + limit, n)))
BY DEF P!Shorter, SizeOf, PageSize

LEMMA NextMultiple == \A k, limit \in Nat : k * limit + limit = (k + 1) * limit
OBVIOUS

LEMMA OffsetKeeps == ASSUME PagingInv, P!ReadOffset PROVE PagingInv'
<1>1. /\ rows \in [Ids -> Values \cup {None}] /\ reader \in Readings
      /\ steady \subseteq ListedIn(rows, reader.filter)
      /\ reader.pc = "reading" /\ reader.mode = "offset"
      /\ UNCHANGED <<rows, steady, quiet>>
  BY DEF PagingInv, PagingTypes, P!ReadOffset
<1>2. PICK listed : listed = ListedIn(rows, reader.filter) OBVIOUS
<1>3. listed \in SUBSET Ids /\ IsFiniteSet(listed) /\ \A r \in listed : rows[r] \in Int
  <2>1. listed \in SUBSET Ids /\ \A r \in listed : rows[r] \in Values BY <1>1, <1>2 DEF ListedIn
  <2> QED BY <2>1, PagingAssumption, FS_Subset
<1>4. PICK start \in Nat, limit \in Nat \ {0}, old \in Seq(Ids) :
        start = reader.offset /\ limit = reader.limit /\ old = reader.pages
  BY <1>1 DEF Readings
<1>5. PICK found \in P!OffsetOrders : \E page :
        /\ page = SubSeq(found, start + 1, P!Shorter(start + limit, Len(found)))
        /\ reader' = [reader EXCEPT !.pages = @ \o page, !.offset = P!Skip(page), !.got = Len(page),
                                    !.pc = CASE reader.meta # "extra" -> "counting"
                                             [] Len(found) > P!Skip(page) -> "reading"
                                             [] OTHER -> "done"]
  BY <1>4 DEF P!ReadOffset
<1>6. PICK page :
        /\ page = SubSeq(found, start + 1, P!Shorter(start + limit, Len(found)))
        /\ reader' = [reader EXCEPT !.pages = @ \o page, !.offset = P!Skip(page), !.got = Len(page),
                                    !.pc = CASE reader.meta # "extra" -> "counting"
                                             [] Len(found) > P!Skip(page) -> "reading"
                                             [] OTHER -> "done"]
  BY <1>5
<1>7. P!Skip(page) = start + limit BY <1>4 DEF P!Skip
<1>8. PICK n \in Nat : n = Len(found) /\ found \in [1..n -> listed]
  <2>1. CASE reader.field = "_id"
    <3>1. found = Arranged(reader.field, Upward(reader), listed, rows)
      BY <1>2, <1>5, <2>1, InOrderIs, ListedIs DEF P!OffsetOrders
    <3>2. Sortable(reader, rows, listed) BY <1>3 DEF Sortable
    <3> QED BY <3>1, <3>2, Arranges DEF InOrderOf
  <2>2. CASE reader.field # "_id"
    <3>1. found \in P!SetToSeqs(listed)
      BY <1>2, <1>5, <2>2, ListedIs DEF P!OffsetOrders, P!Orders
    <3>2. PICK n \in Nat : n = Cardinality(listed) BY <1>3, FS_CardinalityType
    <3>3. found \in [1..n -> listed] BY <3>1, <3>2, CountsAgree DEF P!SetToSeqs
    <3> QED BY <3>2, <3>3
  <2> QED BY <2>1, <2>2
<1>9. PICK end, had : end = P!Shorter(start + limit, n) /\ had = P!Shorter(start, n) OBVIOUS
<1>10. PICK size : size = SizeOf(start, end) OBVIOUS
<1>11. /\ had \in Nat /\ end \in Nat /\ size \in Nat /\ had <= n /\ end <= n
       /\ had + size = end /\ (size > 0 => had = start) /\ size <= limit
       /\ size = limit \/ start + size >= n
  BY <1>4, <1>8, <1>9, <1>10, ShorterIs DEF PageSize
<1>12. page \in Seq(Ids) /\ Len(page) = size /\ \A i \in 1..size : page[i] = found[start + i]
  <2>1. page = SubSeq(found, start + 1, end) BY <1>6, <1>8, <1>9
  <2>2. \A i \in start + 1..end : found[i] \in Ids BY <1>3, <1>4, <1>8, <1>11
  <2>3. start + 1 \in Int /\ end \in Int BY <1>4, <1>11
  <2>4. /\ SubSeq(found, start + 1, end) \in Seq(Ids)
        /\ Len(SubSeq(found, start + 1, end)) =
             (IF start + 1 <= end THEN end - (start + 1) + 1 ELSE 0)
        /\ \A i \in 1..end - (start + 1) + 1 : SubSeq(found, start + 1, end)[i] = found[start + 1 + i - 1]
    BY <2>2, <2>3, SubSeqProperties
  <2>5. \A i \in 1..size : i \in 1..end - (start + 1) + 1 /\ start + 1 + i - 1 = start + i
    <3> SUFFICES ASSUME NEW i \in 1..size
                 PROVE  i \in 1..end - (start + 1) + 1 /\ start + 1 + i - 1 = start + i
      OBVIOUS
    <3>1. size = end - start /\ i \in Nat BY <1>10, <1>11 DEF SizeOf
    <3>2. end - (start + 1) + 1 = end - start BY <1>4, <1>11
    <3> QED BY <1>4, <3>1, <3>2
  <2>6. Len(page) = size BY <1>4, <1>10, <1>11, <2>1, <2>4 DEF SizeOf
  <2>7. \A i \in 1..size : page[i] = found[start + i] BY <2>1, <2>4, <2>5
  <2> QED BY <2>1, <2>4, <2>6, <2>7
<1>13. PICK pc : pc = CASE reader.meta # "extra" -> "counting"
                        [] n > start + limit -> "reading"
                        [] OTHER -> "done"
  OBVIOUS
<1>14. /\ pc \in {"counting", "reading", "done"}
       /\ pc = "done" => n <= start + limit
  BY <1>4, <1>8, <1>13
<1>15. PICK all \in Seq(Ids) : all = old \o page BY <1>4, <1>12, ConcatProperties
<1>16. reader' = [reader EXCEPT !.pages = all, !.offset = start + limit, !.got = size, !.pc = pc]
  BY <1>4, <1>6, <1>7, <1>8, <1>12, <1>13, <1>15
<1>17. PICK rd2 : rd2 = [reader EXCEPT !.pages = all, !.offset = start + limit, !.got = size, !.pc = pc]
  OBVIOUS
<1>18. rd2 \in Readings
  <2>1. PICK o \in Nat : o = start + limit BY <1>4
  <2>2. rd2 = [reader EXCEPT !.pages = all, !.offset = o, !.got = size, !.pc = pc] BY <1>17, <2>1
  <2>3. size \in Nat /\ pc \in {"reading", "counting", "done", "refused"} BY <1>11, <1>14
  <2> QED BY <1>1, <2>2, <2>3 DEF Readings
<1>19. /\ rd2.pages = all /\ rd2.offset = start + limit /\ rd2.got = size /\ rd2.pc = pc
       /\ rd2.mode = reader.mode /\ rd2.field = reader.field /\ rd2.order = reader.order
       /\ rd2.filter = reader.filter /\ rd2.forward = reader.forward /\ rd2.limit = reader.limit
  BY <1>1, <1>17 DEF Readings
<1>20. reader' = rd2 BY <1>16, <1>17
<1>21. PagingTypes' BY <1>1, <1>18, <1>19, <1>20 DEF PagingTypes
<1>22. ASSUME quiet, reader.field = "_id" PROVE OffsetHolds(rd2, found) /\ found = Full
  <2>1. found = Full BY <1>2, <1>5, <1>22, InOrderIs, ListedIs DEF P!OffsetOrders, Full
  <2>2. OffsetHolds(reader, found) BY <1>1, <1>22, <2>1 DEF PagingInv
  <2>3. Len(old) = had BY <1>4, <1>8, <1>9, <2>2 DEF OffsetHolds
  <2>6. \A i \in 1..had : old[i] = found[i] BY <1>4, <2>2, <2>3 DEF OffsetHolds
  <2>7. /\ Len(all) = had + size
        /\ \A i \in 1..had + size : all[i] = IF i <= had THEN old[i] ELSE page[i - had]
    <3>1. /\ Len(old \o page) = Len(old) + Len(page)
          /\ \A i \in 1..Len(old) + Len(page) :
               (old \o page)[i] = IF i <= Len(old) THEN old[i] ELSE page[i - Len(old)]
      BY <1>12, ConcatProperties
    <3> QED BY <1>12, <1>15, <2>3, <3>1
  <2>9. ASSUME NEW i \in 1..end PROVE all[i] = found[i]
    <3>1. CASE i <= had BY <1>11, <2>6, <2>7, <2>9, <3>1
    <3>2. CASE ~ i <= had
      <4>1. i - had \in 1..size BY <1>11, <3>2
      <4>3. had = start /\ start + (i - had) = i BY <1>4, <1>11, <4>1
      <4>2. all[i] = page[i - had] BY <1>11, <2>7, <3>2
      <4> QED BY <1>12, <4>1, <4>2, <4>3
    <3> QED BY <3>1, <3>2
  <2>10. Len(rd2.pages) = P!Shorter(rd2.offset, Len(found)) BY <1>8, <1>9, <1>11, <1>19, <2>7
  <2>11. \A i \in 1..Len(rd2.pages) : rd2.pages[i] = found[i] BY <1>11, <1>19, <2>7, <2>9
  <2>12. \E k \in 0..rd2.offset : rd2.offset = k * rd2.limit
    <3>1. PICK k \in 0..start : start = k * limit BY <1>4, <2>2 DEF OffsetHolds
    <3>4. k \in Nat BY <3>1
    <3>2. start + limit = (k + 1) * limit BY <3>1, <3>4, NextMultiple
    <3>3. k + 1 \in 0..start + limit BY <1>4, <3>1
    <3> QED BY <1>4, <1>19, <3>2, <3>3
  <2>13. rd2.pc = "counting" =>
           /\ rd2.offset >= rd2.limit /\ rd2.got <= rd2.limit
           /\ rd2.got = rd2.limit \/ rd2.offset - rd2.limit + rd2.got >= Len(found)
    <3>1. start + limit - limit = start /\ start + limit >= limit BY <1>4
    <3> QED BY <1>4, <1>8, <1>11, <1>19, <3>1
  <2>14. rd2.pc = "done" => rd2.offset >= Len(found) BY <1>4, <1>8, <1>14, <1>19
  <2> QED BY <2>1, <2>10, <2>11, <2>12, <2>13, <2>14 DEF OffsetHolds
<1>23. Full' = Full
  <2>1. Upward(rd2) = Upward(reader) BY <1>19 DEF Upward
  <2> QED BY <1>1, <1>19, <1>20, <2>1 DEF Full
<1>24. ~ ByCursor(rd2) BY <1>1, <1>19 DEF ByCursor
<1>25. quiet' /\ rd2.field = "_id" => OffsetHolds(rd2, Full') BY <1>1, <1>19, <1>22, <1>23
<1> QED BY <1>20, <1>21, <1>24, <1>25 DEF PagingInv

LEMMA CeilingIs ==
  ASSUME NEW k \in Nat, NEW limit \in Nat \ {0}, NEW n \in Nat,
         ~ k < (n + limit - 1) \div limit
  PROVE  k * limit >= n
<1>1. PICK q \in Int, r \in 0..limit - 1 : n + limit - 1 = q * limit + r /\ q = (n + limit - 1) \div limit
  OBVIOUS
<1>2. k >= q BY <1>1
<1>3. k * limit >= q * limit BY <1>1, <1>2
<1> QED BY <1>1, <1>3

LEMMA CountKeeps == ASSUME PagingInv, P!CountRows PROVE PagingInv'
<1>1. /\ rows \in [Ids -> Values \cup {None}] /\ reader \in Readings
      /\ steady \subseteq ListedIn(rows, reader.filter)
      /\ reader.mode = "offset"
      /\ reader.pc = "counting" /\ UNCHANGED <<rows, steady, quiet>>
  BY DEF PagingInv, PagingTypes, P!CountRows
<1>2. PICK pc \in {"reading", "done"} : pc = IF P!HasNext THEN "reading" ELSE "done" OBVIOUS
<1>3. PICK rd2 : rd2 = [reader EXCEPT !.pc = pc] OBVIOUS
<1>4. reader' = rd2 BY <1>2, <1>3 DEF P!CountRows
<1>5. rd2 \in Readings BY <1>1, <1>2, <1>3 DEF Readings
<1>6. /\ rd2.pages = reader.pages /\ rd2.offset = reader.offset /\ rd2.limit = reader.limit
      /\ rd2.cursor = reader.cursor /\ rd2.from = reader.from /\ rd2.pc = pc
      /\ rd2.mode = reader.mode /\ rd2.field = reader.field /\ rd2.order = reader.order
      /\ rd2.filter = reader.filter /\ rd2.forward = reader.forward
  BY <1>1, <1>3 DEF Readings
<1>7. PagingTypes' BY <1>1, <1>4, <1>5, <1>6 DEF PagingTypes
<1>8. ASSUME quiet, reader.field = "_id" PROVE OffsetHolds(rd2, Full)
  <2>1. OffsetHolds(reader, Full) BY <1>1, <1>8 DEF PagingInv
  <2>2. PICK listed : listed = ListedIn(rows, reader.filter) OBVIOUS
  <2>3. Sortable(reader, rows, listed) BY <1>8, <2>2 DEF Sortable, ListedIn
  <2>4. PICK n \in Nat : n = Cardinality(listed) /\ n = Len(Full) BY <2>2, <2>3, Arranges DEF Full
  <2>5. PICK offset \in Nat, limit \in Nat \ {0}, got \in Nat :
          offset = reader.offset /\ limit = reader.limit /\ got = reader.got
    BY <1>1 DEF Readings
  <2>6. /\ offset >= limit /\ got <= limit
        /\ got = limit \/ offset - limit + got >= n
    BY <1>1, <2>1, <2>4, <2>5 DEF OffsetHolds
  <2>7. P!Cardinality(P!Listed(reader.filter)) = n BY <2>2, <2>4, ListedIs, CountsAgree
  <2>8. P!HasNext = CASE reader.meta = "total" -> offset - limit + got < n
                      [] reader.meta = "pages" -> offset \div limit < (n + limit - 1) \div limit
                      [] OTHER -> got >= limit
    BY <2>5, <2>7 DEF P!HasNext
  <2>9. ASSUME ~ P!HasNext PROVE offset >= n
    <3>1. CASE reader.meta = "total"
      <4>1. ~ offset - limit + got < n BY <2>8, <2>9, <3>1
      <4> QED BY <2>5, <2>6, <4>1
    <3>2. CASE reader.meta = "pages"
      <4>1. PICK k \in Nat : offset = k * limit BY <2>1, <2>5 DEF OffsetHolds
      <4>2. offset \div limit = k BY <2>5, <4>1
      <4>3. ~ k < (n + limit - 1) \div limit BY <2>8, <2>9, <3>2, <4>2
      <4> QED BY <2>5, <4>1, <4>3, CeilingIs
    <3>3. CASE reader.meta # "total" /\ reader.meta # "pages"
      <4>1. ~ got >= limit BY <2>8, <2>9, <3>3
      <4> QED BY <2>5, <2>6, <4>1
    <3> QED BY <3>1, <3>2, <3>3
  <2>10. rd2.pc = "done" => rd2.offset >= Len(Full) BY <1>2, <1>6, <2>4, <2>5, <2>9
  <2>11. rd2.pc # "counting" BY <1>2, <1>6
  <2> QED BY <1>6, <2>1, <2>10, <2>11 DEF OffsetHolds
<1>9. Full' = Full
  <2>1. Upward(rd2) = Upward(reader) BY <1>6 DEF Upward
  <2> QED BY <1>1, <1>4, <1>6, <2>1 DEF Full
<1> QED BY <1>1, <1>4, <1>6, <1>7, <1>8, <1>9 DEF PagingInv, ByCursor

LEMMA RefuseKeeps == ASSUME PagingInv, P!Refuse PROVE PagingInv'
<1>1. /\ rows \in [Ids -> Values \cup {None}] /\ reader \in Readings
      /\ steady \subseteq ListedIn(rows, reader.filter)
      /\ reader.mode = "search" => reader.field # "value" /\ reader.order = -1 /\ reader.forward
      /\ reader.pc = "reading" /\ UNCHANGED <<rows, steady, quiet>>
  BY DEF PagingInv, PagingTypes, P!Refuse
<1>2. PICK rd2 : rd2 = [reader EXCEPT !.pc = "refused"] OBVIOUS
<1>3. reader' = rd2 BY <1>2 DEF P!Refuse
<1>4. rd2 \in Readings BY <1>1, <1>2 DEF Readings
<1>5. /\ rd2.pages = reader.pages /\ rd2.offset = reader.offset /\ rd2.limit = reader.limit
      /\ rd2.cursor = reader.cursor /\ rd2.from = reader.from /\ rd2.pc = "refused"
      /\ rd2.mode = reader.mode /\ rd2.field = reader.field /\ rd2.order = reader.order
      /\ rd2.filter = reader.filter /\ rd2.forward = reader.forward
  BY <1>1, <1>2 DEF Readings
<1>6. PagingTypes' BY <1>1, <1>3, <1>4, <1>5 DEF PagingTypes
<1>7. ASSUME CursorHolds(reader, rows, steady) PROVE CursorHolds(rd2, rows, steady)
  <2>1. \A a, b : Ahead(rd2, a, b) <=> Ahead(reader, a, b) BY <1>5 DEF Ahead, Upward
  <2>2. \A k : (Passed(rd2, k) <=> Passed(reader, k)) /\ (Wanted(rd2, k) <=> Wanted(reader, k))
    BY <1>5, <2>1 DEF Passed, Wanted
  <2>3. \A r : Placed(rd2, steady, r) <=> Placed(reader, steady, r) BY <1>5 DEF Placed
  <2> QED BY <1>5, <1>7, <2>1, <2>2, <2>3 DEF CursorHolds
<1>8. Full' = Full
  <2>1. Upward(rd2) = Upward(reader) BY <1>5 DEF Upward
  <2> QED BY <1>1, <1>3, <1>5, <2>1 DEF Full
<1>9. OffsetHolds(reader, Full) => OffsetHolds(rd2, Full) BY <1>5 DEF OffsetHolds
<1>10. ByCursor(rd2) <=> ByCursor(reader) BY <1>5 DEF ByCursor
<1> QED BY <1>1, <1>3, <1>5, <1>6, <1>7, <1>8, <1>9, <1>10 DEF PagingInv

\* A write leaves the rows that stay in their places, and no more of them than there were.
LEMMA WriteKeeps ==
  ASSUME PagingInv, reader.pc \in {"reading", "counting"}, UNCHANGED reader, quiet' = FALSE,
         rows' \in [Ids -> Values \cup {None}], steady' \subseteq steady,
         steady' \subseteq ListedIn(rows', reader.filter),
         reader.field = "_id" \/ \A r \in steady' : rows'[r] = rows[r]
  PROVE  PagingInv'
<1>1. /\ rows \in [Ids -> Values \cup {None}] /\ reader \in Readings
      /\ steady \subseteq ListedIn(rows, reader.filter)
      /\ reader.mode = "search" => reader.field # "value" /\ reader.order = -1 /\ reader.forward
      /\ reader.pc = "counting" => reader.mode = "offset"
  BY DEF PagingInv, PagingTypes
<1>2. PagingTypes' BY <1>1 DEF PagingTypes
<1>3. PICK rd, rw, rw2, st, st2 :
        rd = reader /\ rw = rows /\ rw2 = rows' /\ st = steady /\ st2 = steady'
  OBVIOUS
<1>4. ASSUME CursorHolds(rd, rw, st), rd.pc # "done", st2 \subseteq st,
             rd.field = "_id" \/ \A r \in st2 : rw2[r] = rw[r]
      PROVE  CursorHolds(rd, rw2, st2)
  <2>1. \A r : Placed(rd, st2, r) => Placed(rd, st, r) BY <1>4 DEF Placed
  <2>2. \A r, k : Placed(rd, st2, r) => (Ahead(rd, k, KeyOf(rw2, r)) <=> Ahead(rd, k, KeyOf(rw, r)))
    <3>1. CASE rd.field = "_id" BY <3>1 DEF Ahead, P!Below, KeyOf
    <3>2. CASE rd.field # "_id"
      <4>1. \A r : Placed(rd, st2, r) => KeyOf(rw2, r) = KeyOf(rw, r)
        BY <1>4, <3>2 DEF Placed, KeyOf
      <4> QED BY <4>1
    <3> QED BY <3>1, <3>2
  <2>3. \A q, r : Placed(rd, st2, q) /\ Placed(rd, st2, r)
          => (Ahead(rd, KeyOf(rw2, q), KeyOf(rw2, r)) <=> Ahead(rd, KeyOf(rw, q), KeyOf(rw, r)))
    <3>1. CASE rd.field = "_id" BY <3>1 DEF Ahead, P!Below, KeyOf
    <3>2. CASE rd.field # "_id"
      <4>1. \A r : Placed(rd, st2, r) => KeyOf(rw2, r) = KeyOf(rw, r)
        BY <1>4, <3>2 DEF Placed, KeyOf
      <4> QED BY <4>1
    <3> QED BY <3>1, <3>2
  <2>4. \A r : Placed(rd, st2, r) =>
          /\ Passed(rd, KeyOf(rw2, r)) <=> Passed(rd, KeyOf(rw, r))
          /\ Wanted(rd, KeyOf(rw2, r)) <=> Wanted(rd, KeyOf(rw, r))
    BY <2>2 DEF Passed, Wanted
  <2>5. \A r \in st2 : Placed(rd, st2, r) /\ r \in st BY <1>4 DEF Placed
  <2> QED BY <1>4, <2>1, <2>3, <2>4, <2>5 DEF CursorHolds
<1>5. ByCursor(reader) => CursorHolds(reader, rows', steady')
  <2>1. ByCursor(reader) => CursorHolds(rd, rw, st) BY <1>1, <1>3 DEF PagingInv
  <2> QED BY <1>3, <1>4, <2>1
<1> QED BY <1>2, <1>5 DEF PagingInv

LEMMA WritesKeep ==
  ASSUME PagingInv,
         \/ \E r \in Ids, v \in Values : P!InsertRow(r, v)
         \/ \E found \in P!ResolveFilter : P!DeleteRow(found) \/ \E v \in Values : P!ChangeRow(found, v)
  PROVE  PagingInv'
<1>1. rows \in [Ids -> Values \cup {None}]
      /\ (reader.pc # "idle" => reader \in Readings /\ steady \subseteq ListedIn(rows, reader.filter))
  BY DEF PagingInv, PagingTypes
<1>2. ASSUME NEW r \in Ids, NEW v \in Values, P!InsertRow(r, v) PROVE PagingInv'
  <2>1. /\ reader.pc \in {"reading", "counting"} /\ UNCHANGED <<reader, steady>> /\ quiet' = FALSE
        /\ rows' = [rows EXCEPT ![r] = v] /\ rows[r] = None
    BY <1>2 DEF P!InsertRow, P!Write
  <2>2. rows' \in [Ids -> Values \cup {None}] /\ \A q \in Ids : q # r => rows'[q] = rows[q]
    BY <1>1, <2>1
  <2>3. steady \subseteq Ids /\ \A q \in steady : q # r BY <1>1, <2>1 DEF ListedIn
  <2>4. \A q \in steady : rows'[q] = rows[q] BY <2>2, <2>3
  <2>5. steady' \subseteq ListedIn(rows', reader.filter) BY <1>1, <2>1, <2>3, <2>4 DEF ListedIn
  <2> QED BY <2>1, <2>2, <2>4, <2>5, WriteKeeps
<1>3. \A found \in P!ResolveFilter : \A r \in found : r \in Ids
  BY DEF P!ResolveFilter, P!Listed
<1>4. ASSUME NEW found \in P!ResolveFilter, P!DeleteRow(found) PROVE PagingInv'
  <2>1. PICK r \in Ids : P!Write(r, None) /\ steady' = steady \ {r} BY <1>3, <1>4 DEF P!DeleteRow
  <2>2. /\ reader.pc \in {"reading", "counting"} /\ UNCHANGED reader /\ quiet' = FALSE
        /\ rows' = [rows EXCEPT ![r] = None]
    BY <2>1 DEF P!Write
  <2>3. rows' \in [Ids -> Values \cup {None}] /\ \A q \in Ids : q # r => rows'[q] = rows[q]
    BY <1>1, <2>2
  <2>4. \A q \in steady' : q \in Ids /\ q # r /\ q \in steady BY <1>1, <2>1, <2>2 DEF ListedIn
  <2>5. \A q \in steady' : rows'[q] = rows[q] BY <2>3, <2>4
  <2>6. steady' \subseteq ListedIn(rows', reader.filter) BY <1>1, <2>2, <2>4, <2>5 DEF ListedIn
  <2> QED BY <2>1, <2>2, <2>3, <2>5, <2>6, WriteKeeps
<1>5. ASSUME NEW found \in P!ResolveFilter, NEW v \in Values, P!ChangeRow(found, v) PROVE PagingInv'
  <2>1. PICK r \in Ids :
          /\ P!Write(r, v)
          /\ steady' = IF v \in reader.filter /\ reader.field = "_id" THEN steady ELSE steady \ {r}
    BY <1>3, <1>5 DEF P!ChangeRow
  <2>2. /\ reader.pc \in {"reading", "counting"} /\ UNCHANGED reader /\ quiet' = FALSE
        /\ rows' = [rows EXCEPT ![r] = v]
    BY <2>1 DEF P!Write
  <2>3. rows' \in [Ids -> Values \cup {None}] /\ rows'[r] = v
        /\ \A q \in Ids : q # r => rows'[q] = rows[q]
    BY <1>1, <2>2
  <2>4. steady' \subseteq steady /\ steady \subseteq Ids BY <1>1, <2>1, <2>2 DEF ListedIn
  <2>5. reader.field = "_id" \/ \A q \in steady' : rows'[q] = rows[q] BY <2>1, <2>3, <2>4
  <2>6. \A q \in steady' : rows'[q] # None /\ rows'[q] \in reader.filter
    <3> SUFFICES ASSUME NEW q \in steady' PROVE rows'[q] # None /\ rows'[q] \in reader.filter
      OBVIOUS
    <3>1. CASE q # r BY <1>1, <2>2, <2>3, <2>4, <3>1 DEF ListedIn
    <3>2. CASE q = r BY <2>1, <2>3, <3>2, PagingAssumption
    <3> QED BY <3>1, <3>2
  <2>7. steady' \subseteq ListedIn(rows', reader.filter) BY <2>4, <2>6 DEF ListedIn
  <2> QED BY <2>2, <2>3, <2>4, <2>5, <2>7, WriteKeeps
<1> QED BY <1>2, <1>4, <1>5

LEMMA PagingSteps == ASSUME PagingInv, P!Next PROVE PagingInv'
BY OpenKeeps, ReadKeeps, RefuseKeeps, OffsetKeeps, CountKeeps, SearchKeeps, WritesKeep DEF P!Next

LEMMA PagingInit == P!Init => PagingInv
<1> SUFFICES ASSUME P!Init PROVE PagingInv OBVIOUS
<1>1. PICK f \in [Ids -> Values] : rows = [r \in Ids |-> IF r \in Late THEN None ELSE f[r]] BY DEF P!Init
<1>2. rows \in [Ids -> Values \cup {None}] BY <1>1
<1>3. reader = [pc |-> "idle"] BY DEF P!Init
<1> QED BY <1>2, <1>3 DEF PagingInv, PagingTypes

-----------------------------------------------------------------------------
\* A row that comes at one place of the pages, or at none.
LEMMA TimesIs ==
  ASSUME NEW r
  PROVE  /\ \A i \in DOMAIN reader.pages : (\A j \in DOMAIN reader.pages : reader.pages[j] = r <=> j = i)
              => P!Times(r) = 1
         /\ (\A i \in DOMAIN reader.pages : reader.pages[i] # r) => P!Times(r) = 0
<1>1. P!Times(r) = Cardinality({i \in DOMAIN reader.pages : reader.pages[i] = r})
  BY CountsAgree DEF P!Times
<1>2. ASSUME NEW i \in DOMAIN reader.pages, \A j \in DOMAIN reader.pages : reader.pages[j] = r <=> j = i
      PROVE  P!Times(r) = 1
  <2>1. {j \in DOMAIN reader.pages : reader.pages[j] = r} = {i} BY <1>2
  <2> QED BY <1>1, <2>1, FS_Singleton
<1>3. ASSUME \A i \in DOMAIN reader.pages : reader.pages[i] # r PROVE P!Times(r) = 0
  <2>1. {j \in DOMAIN reader.pages : reader.pages[j] = r} = {} BY <1>3
  <2> QED BY <1>1, <2>1, FS_EmptySet
<1> QED BY <1>2, <1>3

LEMMA CursorIsComplete ==
  ASSUME PagingInv, reader.pc # "idle", ByCursor(reader)
  PROVE  /\ reader.pc = "done" =>
              LET awaited == {r \in steady : reader.from = None
                                           \/ P!BuildCursorFilter(reader.from, P!Cursor(r))}
              IN /\ \A r \in awaited : P!Times(r) = 1
                 /\ \A i, j \in DOMAIN reader.pages :
                      i < j /\ {reader.pages[i], reader.pages[j]} \subseteq awaited =>
                        P!BuildSort(P!Cursor(reader.pages[i]), P!Cursor(reader.pages[j]))
         /\ reader.field = "_id" => \A r \in Ids : P!Times(r) <= 1
<1>1. /\ rows \in [Ids -> Values \cup {None}] /\ reader \in Readings
      /\ steady \subseteq ListedIn(rows, reader.filter) /\ CursorHolds(reader, rows, steady)
  BY DEF PagingInv, PagingTypes
<1>2. /\ reader.pages \in Seq(Ids) /\ DOMAIN reader.pages = 1..Len(reader.pages)
      /\ Len(reader.pages) \in Nat /\ \A i \in 1..Len(reader.pages) : reader.pages[i] \in Ids
  BY <1>1 DEF Readings
<1>3. \A r \in steady : r \in Ids /\ r \in Int /\ rows[r] \in Values /\ rows[r] \in Int
                        /\ rows[r] \in reader.filter
  BY <1>1, PagingAssumption DEF ListedIn
\* No row that has its place comes at two places.
<1>4. ASSUME NEW i \in 1..Len(reader.pages), NEW j \in 1..Len(reader.pages),
             Placed(reader, steady, reader.pages[i]), reader.pages[i] = reader.pages[j]
      PROVE  i = j
  <2>1. PICK r \in Ids : r = reader.pages[i] BY <1>2
  <2>2. r \in Int /\ (reader.field # "_id" => rows[r] \in Int) /\ Ordered(reader, KeyOf(rows, r))
    BY <1>3, <1>4, <2>1, PagingAssumption DEF Placed, Ordered, KeyOf
  <2>3. ~ Ahead(reader, KeyOf(rows, r), KeyOf(rows, r)) BY <2>2, AheadKeys
  <2>4. ~ i < j /\ ~ j < i BY <1>1, <1>4, <2>1, <2>3 DEF CursorHolds
  <2> QED BY <1>2, <2>4
<1>5. ASSUME NEW r, Placed(reader, steady, r), NEW i \in 1..Len(reader.pages), reader.pages[i] = r
      PROVE  P!Times(r) = 1
  <2>1. \A j \in DOMAIN reader.pages : reader.pages[j] = r <=> j = i BY <1>2, <1>4, <1>5
  <2> QED BY <1>2, <2>1, TimesIs
<1>6. ASSUME NEW r \in Ids, reader.field = "_id" PROVE P!Times(r) <= 1
  <2>1. CASE \E i \in 1..Len(reader.pages) : reader.pages[i] = r
    <3>1. P!Times(r) = 1 BY <1>5, <1>6, <2>1 DEF Placed
    <3> QED BY <3>1
  <2>2. CASE ~ \E i \in 1..Len(reader.pages) : reader.pages[i] = r
    <3>1. P!Times(r) = 0 BY <1>2, <2>2, TimesIs
    <3> QED BY <3>1
  <2> QED BY <2>1, <2>2
<1>7. ASSUME NEW r \in steady, reader.from = None \/ P!BuildCursorFilter(reader.from, P!Cursor(r))
      PROVE  Wanted(reader, KeyOf(rows, r))
  <2>1. CASE reader.field = "_id"
    BY <1>7, <2>1 DEF P!BuildCursorFilter, P!Cursor, KeyOf, Ahead, Upward, P!Below, Wanted
  <2>2. CASE reader.field = "value"
    <3>1. reader.from # None => reader.from.v # 0 /\ reader.from.v \in Int /\ reader.from.id \in Int
      BY <1>1, <2>2, PagingAssumption DEF CursorHolds, KeySet, Readings
    <3>2. rows[r] # 0 /\ rows[r] \in Int /\ r \in Int BY <1>1, <1>3, <2>2 DEF ByCursor
    <3> QED BY <1>7, <2>2, <3>1, <3>2
      DEF P!BuildCursorFilter, P!Cursor, KeyOf, Ahead, Upward, P!Below, Wanted
  <2> QED BY <1>1, <2>1, <2>2 DEF ByCursor
<1>8. ASSUME reader.pc = "done", NEW r \in steady, Wanted(reader, KeyOf(rows, r))
      PROVE  P!Times(r) = 1
  <2>1. Passed(reader, KeyOf(rows, r)) BY <1>1, <1>8 DEF CursorHolds
  <2>2. PICK i \in 1..Len(reader.pages) : reader.pages[i] = r BY <1>1, <1>8, <2>1 DEF CursorHolds
  <2> QED BY <1>5, <2>2 DEF Placed
<1>9. ASSUME NEW i \in 1..Len(reader.pages), NEW j \in 1..Len(reader.pages), i < j,
             reader.pages[i] \in steady, reader.pages[j] \in steady
      PROVE  P!BuildSort(P!Cursor(reader.pages[i]), P!Cursor(reader.pages[j]))
  <2>1. Ahead(reader, KeyOf(rows, reader.pages[i]), KeyOf(rows, reader.pages[j]))
    BY <1>1, <1>9 DEF CursorHolds, Placed
  <2> QED BY <2>1 DEF Ahead, Upward, P!BuildSort, P!Cursor, KeyOf
<1> QED BY <1>2, <1>6, <1>7, <1>8, <1>9

LEMMA PrefixIsComplete == PagingInv => P!OffsetComplete
<1> SUFFICES ASSUME PagingInv, reader.pc = "done", reader.mode = "offset", quiet, reader.field = "_id"
             PROVE  reader.pages = P!InOrder(P!Listed(reader.filter))
  BY DEF P!OffsetComplete
<1>1. /\ rows \in [Ids -> Values \cup {None}] /\ reader \in Readings /\ OffsetHolds(reader, Full)
  BY DEF PagingInv, PagingTypes
<1>2. Full = P!InOrder(P!Listed(reader.filter)) BY InOrderIs, ListedIs DEF Full
<1>3. PICK listed : listed = ListedIn(rows, reader.filter) OBVIOUS
<1>4. Sortable(reader, rows, listed) BY <1>3 DEF Sortable, ListedIn
<1>5. PICK n \in Nat : n = Len(Full) /\ InOrderOf(Full, listed, n, OrderOf(reader, rows, listed))
  BY <1>3, <1>4, Arranges DEF Full
<1>6. PICK full : full = Full OBVIOUS
<1>7. full \in [1..n -> Ids] /\ Len(full) = n BY <1>4, <1>5, <1>6 DEF InOrderOf, Sortable
<1>8. full \in Seq(Ids) BY <1>7
<1>9. reader.pages \in Seq(Ids) /\ reader.offset \in Nat BY <1>1 DEF Readings
<1>10. Len(reader.pages) = n BY <1>1, <1>6, <1>7, <1>9 DEF OffsetHolds, P!Shorter
<1>11. \A i \in 1..Len(reader.pages) : reader.pages[i] = full[i] BY <1>1, <1>6 DEF OffsetHolds
<1>12. reader.pages = full BY <1>7, <1>8, <1>9, <1>10, <1>11, SeqEqual
<1> QED BY <1>2, <1>6, <1>12

\* The rows of a query, by _id up or down.
ById(up, set) == P!Ranked(set, LAMBDA a, b : IF up THEN a < b ELSE b < a)

LEMMA ChosenIs == \A q : P!Chosen(q) = ById(q.sort = 1, P!Listed(q.filter))
BY DEF P!Chosen, ById, P!Ranked

LEMMA ByIdIs ==
  ASSUME NEW set \in SUBSET Ids, NEW up \in BOOLEAN, NEW s, s = ById(up, set),
         NEW n, n = Cardinality(set)
  PROVE  n \in Nat /\ s \in [1..n -> set] /\ \A r \in set : \E i \in 1..n : s[i] = r
<1> DEFINE rel == {e \in set \X set : IF up THEN e[1] < e[2] ELSE e[2] < e[1]}
           Before(r) == {q \in set : IF up THEN q < r ELSE r < q}
<1>1. set \in SUBSET Int /\ IsFiniteSet(set) BY PagingAssumption, FS_Subset
<1>2. StrictOrder(set, rel)
  <2>1. \A a, b \in set : <<a, b>> \in rel <=> IF up THEN a < b ELSE b < a OBVIOUS
  <2>2. \A a, b, c \in set : (a < b /\ b < c => a < c) /\ (a = b \/ a < b \/ b < a) /\ ~ a < a
    BY <1>1
  <2> HIDE DEF rel
  <2> QED BY <2>1, <2>2 DEF StrictOrder
<1>3. \A r \in set : Before(r) = Earlier(set, rel, r) BY DEF Earlier
<1>4. s = [i \in 1..P!Cardinality(set) |-> CHOOSE r \in set : P!Cardinality(Before(r)) = i - 1]
  BY DEF ById, P!Ranked
<1> HIDE DEF rel, Before
<1>5. P!Cardinality(set) = n /\ n \in Nat BY <1>1, CountsAgree, FS_CardinalityType
<1>6. \A i \in 1..n : \E r \in set : Cardinality(Earlier(set, rel, r)) = i - 1
  BY <1>1, <1>2, RankingIs
<1>7. \A i \in 1..n : \E r \in set : P!Cardinality(Before(r)) = i - 1
  BY <1>3, <1>6, CountsAgree
<1>8. \A i \in 1..n : s[i] = CHOOSE r \in set : P!Cardinality(Before(r)) = i - 1
  BY <1>4, <1>5
<1>9. \A i \in 1..n : s[i] \in set /\ P!Cardinality(Before(s[i])) = i - 1
  BY <1>7, <1>8, Zenon
<1>10. \A i \in 1..n : Cardinality(Earlier(set, rel, s[i])) = i - 1
  BY <1>3, <1>9, CountsAgree
<1>11. s \in [1..n -> set] BY <1>4, <1>5, <1>9
<1>12. InOrderOf(s, set, n, rel) BY <1>1, <1>2, <1>10, <1>11, RankedIs
<1> QED BY <1>12 DEF InOrderOf

\* What a query with this much skipped and this limit returns.
Slice(found, skip, limit) ==
    SubSeq(found, skip + 1, IF limit = 0 THEN Len(found) ELSE P!Shorter(skip + limit, Len(found)))

LEMMA ExecIs == \A q : P!Exec(q) = Slice(ById(q.sort = 1, P!Listed(q.filter)), q.skip, q.limit)
BY ChosenIs DEF P!Exec, Slice

SliceOf(s, n, T, found, skip, limit) ==
    /\ DOMAIN s = {k \in Nat \ {0} : skip + k <= n /\ (limit = 0 \/ k <= limit)}
    /\ \A k \in DOMAIN s : s[k] = found[skip + k]
    /\ s \in Seq(T)

LEMMA SliceIs ==
  \A n, T, found, skip, limit :
    n \in Nat /\ found \in [1..n -> T] /\ skip \in Nat /\ limit \in Nat =>
      SliceOf(Slice(found, skip, limit), n, T, found, skip, limit)
<1> SUFFICES ASSUME NEW n \in Nat, NEW T, NEW found \in [1..n -> T], NEW skip \in Nat, NEW limit \in Nat
             PROVE  SliceOf(Slice(found, skip, limit), n, T, found, skip, limit)
  OBVIOUS
<1>1. Len(found) = n OBVIOUS
<1>2. PICK end \in Nat : end = IF limit = 0 THEN n ELSE P!Shorter(skip + limit, n)
  BY DEF P!Shorter
<1>3. end <= n /\ (limit # 0 => end <= skip + limit) /\ (end = n \/ (limit # 0 /\ end = skip + limit))
  BY <1>2 DEF P!Shorter
<1>4. Slice(found, skip, limit) = SubSeq(found, skip + 1, end) BY <1>1, <1>2 DEF Slice
<1>5. PICK s : s = SubSeq(found, skip + 1, end) OBVIOUS
<1>6. \A i \in skip + 1..end : found[i] \in T BY <1>3
<1>7. /\ s \in Seq(T) /\ Len(s) = (IF skip + 1 <= end THEN end - (skip + 1) + 1 ELSE 0)
      /\ \A i \in 1..end - (skip + 1) + 1 : s[i] = found[skip + 1 + i - 1]
  <2>1. skip + 1 \in Int /\ end \in Int OBVIOUS
  <2> QED BY <1>5, <1>6, <2>1, SubSeqProperties
<1>8. DOMAIN s = 1..Len(s) /\ Len(s) \in Nat BY <1>7, LenProperties
<1>9. \A k \in 1..Len(s) : k \in 1..end - (skip + 1) + 1 /\ skip + 1 + k - 1 = skip + k
  <2> SUFFICES ASSUME NEW k \in 1..Len(s)
               PROVE  k \in 1..end - (skip + 1) + 1 /\ skip + 1 + k - 1 = skip + k
    OBVIOUS
  <2>1. Len(s) > 0 BY <1>8
  <2>2. Len(s) = end - (skip + 1) + 1 BY <1>7, <2>1
  <2>3. k \in Nat OBVIOUS
  <2> QED BY <2>2, <2>3
<1>10. \A k \in Nat \ {0} : k <= Len(s) <=> skip + k <= n /\ (limit = 0 \/ k <= limit)
  <2> SUFFICES ASSUME NEW k \in Nat \ {0}
               PROVE  k <= Len(s) <=> skip + k <= n /\ (limit = 0 \/ k <= limit)
    OBVIOUS
  <2>1. k <= Len(s) <=> skip + k <= end BY <1>7
  <2> QED BY <1>3, <2>1
<1>11. DOMAIN s = {k \in Nat \ {0} : skip + k <= n /\ (limit = 0 \/ k <= limit)} BY <1>8, <1>10
<1> QED BY <1>4, <1>5, <1>7, <1>8, <1>9, <1>11 DEF SliceOf

\* Numbered from 1, the k-th of a page after n - 1 pages of a size.
LEMMA PlaceIs ==
  \A size \in Nat \ {0} : \A i \in Nat \ {0} :
    \E n \in 1..i : \E k \in 1..size : i = (n - 1) * size + k
<1> SUFFICES ASSUME NEW size \in Nat \ {0}, NEW i \in Nat \ {0}
             PROVE  \E n \in 1..i : \E k \in 1..size : i = (n - 1) * size + k
  OBVIOUS
<1>1. PICK m \in Int, r \in 0..size - 1 : i - 1 = m * size + r /\ m = (i - 1) \div size OBVIOUS
<1>2. m >= 0 /\ m <= i - 1
  <2>1. m >= 0 BY <1>1
  <2>2. m * size >= m BY <2>1
  <2> QED BY <1>1, <2>1, <2>2
<1>3. PICK n \in Nat, k \in Nat : n = m + 1 /\ k = r + 1 BY <1>1, <1>2
<1>4. n \in 1..i /\ k \in 1..size /\ n - 1 = m BY <1>1, <1>2, <1>3
<1>5. i = (n - 1) * size + k BY <1>1, <1>3, <1>4
<1> QED BY <1>4, <1>5

LEMMA ProductIs == \A a, b \in Nat : a * b \in Nat
OBVIOUS

LEMMA QueryIsSound == P!QuerySound
<1> SUFFICES ASSUME NEW filter \in Filters, NEW order \in {1, -1}, NEW perPage \in Limits,
                    NEW q, q = P!SortBy(P!Where(P!Query, filter), order)
             PROVE  /\ \A n \in 1..P!Cardinality(Ids) : \A k \in DOMAIN P!Exec(P!PaginateQuery(q, n, perPage)) :
                         /\ (n - 1) * P!PaginateQuery(q, n, perPage).limit + k \in DOMAIN P!Exec(q)
                         /\ P!Exec(P!PaginateQuery(q, n, perPage))[k] =
                              P!Exec(q)[(n - 1) * P!PaginateQuery(q, n, perPage).limit + k]
                    /\ \A i \in DOMAIN P!Exec(q) : \E n \in 1..P!Cardinality(Ids) :
                         \E k \in DOMAIN P!Exec(P!PaginateQuery(q, n, perPage)) :
                           i = (n - 1) * P!PaginateQuery(q, n, perPage).limit + k
                    /\ P!CountQuery(q) = Len(P!Exec(q))
                    /\ P!ExistsQuery(q) = (P!One(q) # None)
                    /\ P!One(q) # None => P!One(q) = P!Exec(q)[1]
                    /\ \A n \in DOMAIN P!Exec(q) :
                         P!Exec(P!LimitTo(P!SkipOver(q, n - 1), 1)) = <<P!Exec(q)[n]>>
                    /\ P!Distinct(q) = {rows[r] : r \in P!ToSet(P!Exec(q))}
  BY SMTT(30) DEF P!QuerySound
<1>1. PICK set \in SUBSET Ids : set = P!Listed(Values \cap filter) BY DEF P!Listed
<1>2. PICK up \in BOOLEAN : up = (order = 1) OBVIOUS
<1>3. PICK L \in Nat : L = Cardinality(set) BY PagingAssumption, FS_Subset, FS_CardinalityType
<1>4. PICK F \in [1..L -> set] : F = ById(up, set) /\ \A r \in set : \E i \in 1..L : F[i] = r
  BY <1>3, ByIdIs
<1>5. q.filter = Values \cap filter /\ q.sort = order /\ q.skip = 0 /\ q.limit = 0
  BY DEF P!SortBy, P!Where, P!Query
<1>6. PICK size \in Nat \ {0} :
        size = IF perPage = 0 THEN DefaultLimit ELSE IF perPage < 1 THEN 1 ELSE perPage
  BY PagingAssumption
<1>7. P!Cardinality(Ids) = Cardinality(Ids) /\ Cardinality(Ids) \in Nat /\ L <= Cardinality(Ids)
  BY <1>3, PagingAssumption, CountsAgree, FS_CardinalityType, FS_Subset
<1>8. \A p : p.filter = Values \cap filter /\ p.sort = order => P!Exec(p) = Slice(F, p.skip, p.limit)
  BY <1>1, <1>2, <1>4, ExecIs
\* Without skip and limit, all of them.
<1>9. PICK whole \in Seq(set) :
        whole = P!Exec(q) /\ DOMAIN whole = 1..L /\ \A i \in 1..L : whole[i] = F[i]
  <2>1. SliceOf(Slice(F, 0, 0), L, set, F, 0, 0) BY <1>3, <1>4, SliceIs
  <2>2. PICK s : s = Slice(F, 0, 0) OBVIOUS
  <2>5. /\ DOMAIN s = {k \in Nat \ {0} : 0 + k <= L /\ (0 = 0 \/ k <= 0)}
        /\ \A k \in DOMAIN s : s[k] = F[0 + k]
        /\ s \in Seq(set)
    BY <2>1, <2>2 DEF SliceOf
  <2>3. DOMAIN s = 1..L BY <1>3, <2>5
  <2>4. \A k \in 1..L : s[k] = F[k] BY <2>3, <2>5
  <2>6. P!Exec(q) = s BY <1>5, <1>8, <2>2
  <2> QED BY <2>3, <2>4, <2>5, <2>6
<1>10. Len(whole) = L BY <1>9
\* Page n begins after the n - 1 before it.
<1>11. ASSUME NEW n \in Nat \ {0}
       PROVE  LET pq == P!PaginateQuery(q, n, perPage)
              IN /\ pq.limit = size
                 /\ DOMAIN P!Exec(pq) = {k \in Nat \ {0} : (n - 1) * size + k <= L /\ k <= size}
                 /\ \A k \in DOMAIN P!Exec(pq) : P!Exec(pq)[k] = F[(n - 1) * size + k]
  <2>9. n - 1 \in Nat OBVIOUS
  <2>1. PICK skip \in Nat : skip = (n - 1) * size BY <1>6, <2>9, ProductIs
  <2>2. PICK pq : pq = P!PaginateQuery(q, n, perPage) OBVIOUS
  <2>3. pq = [q EXCEPT !.skip = skip, !.limit = size]
    <3>1. ~ n < 1 OBVIOUS
    <3>2. P!PaginateQuery(q, n, perPage) =
            [q EXCEPT !.skip = IF n < 1 THEN 0 ELSE (n - 1) * size, !.limit = size]
      BY <1>6 DEF P!PaginateQuery
    <3> QED BY <2>1, <2>2, <3>1, <3>2
  <2>4. pq.filter = Values \cap filter /\ pq.sort = order /\ pq.skip = skip /\ pq.limit = size
    BY <1>5, <2>3 DEF P!SortBy, P!Where, P!Query
  <2>5. P!Exec(pq) = Slice(F, skip, size) BY <1>8, <2>4
  <2>6. SliceOf(P!Exec(pq), L, set, F, skip, size)
    <3>1. SliceOf(Slice(F, skip, size), L, set, F, skip, size) BY <1>4, SliceIs
    <3> QED BY <2>5, <3>1
  <2>7. DOMAIN P!Exec(pq) = {k \in Nat \ {0} : skip + k <= L /\ k <= size}
    BY <1>6, <2>6 DEF SliceOf
  <2>8. \A k \in DOMAIN P!Exec(pq) : P!Exec(pq)[k] = F[skip + k] BY <2>6 DEF SliceOf
  <2> QED BY <2>1, <2>2, <2>4, <2>7, <2>8
<1>12. \A n \in 1..P!Cardinality(Ids) : n \in Nat \ {0} BY <1>7
<1>13. ASSUME NEW n \in 1..P!Cardinality(Ids), NEW k \in DOMAIN P!Exec(P!PaginateQuery(q, n, perPage))
       PROVE  /\ (n - 1) * P!PaginateQuery(q, n, perPage).limit + k \in DOMAIN P!Exec(q)
              /\ P!Exec(P!PaginateQuery(q, n, perPage))[k] =
                   P!Exec(q)[(n - 1) * P!PaginateQuery(q, n, perPage).limit + k]
  <2>1. n \in Nat \ {0} BY <1>12
  <2>2. PICK place : place = (n - 1) * size + k OBVIOUS
  <2>7. n - 1 \in Nat BY <2>1
  <2>3. (n - 1) * size \in Nat BY <1>6, <2>7, ProductIs
  <2>4. k \in Nat \ {0} /\ (n - 1) * size + k <= L /\ P!Exec(P!PaginateQuery(q, n, perPage))[k] = F[place]
    BY <1>11, <2>1, <2>2
  <2>5. place \in 1..L BY <2>2, <2>3, <2>4
  <2>6. P!PaginateQuery(q, n, perPage).limit = size BY <1>11, <2>1
  <2> QED BY <1>9, <2>2, <2>4, <2>5, <2>6
<1>14. ASSUME NEW i \in DOMAIN P!Exec(q)
       PROVE  \E n \in 1..P!Cardinality(Ids) : \E k \in DOMAIN P!Exec(P!PaginateQuery(q, n, perPage)) :
                i = (n - 1) * P!PaginateQuery(q, n, perPage).limit + k
  <2>1. i \in Nat \ {0} /\ i <= L BY <1>9
  <2>2. PICK n \in 1..i, k \in 1..size : i = (n - 1) * size + k BY <1>6, <2>1, PlaceIs
  <2>3. n \in Nat \ {0} /\ n \in 1..P!Cardinality(Ids) BY <1>7, <2>1
  <2>6. k \in Nat \ {0} /\ k <= size BY <1>6
  <2>5. k \in Nat \ {0} /\ k <= size /\ (n - 1) * size + k <= L BY <2>1, <2>2, <2>6
  <2>4. k \in DOMAIN P!Exec(P!PaginateQuery(q, n, perPage)) /\ P!PaginateQuery(q, n, perPage).limit = size
    BY <1>11, <2>3, <2>5
  <2> QED BY <2>2, <2>3, <2>4
<1>15. P!CountQuery(q) = Len(P!Exec(q)) BY <1>1, <1>3, <1>5, <1>9, <1>10, CountsAgree DEF P!CountQuery
<1>16. P!Chosen(q) = F BY <1>1, <1>2, <1>4, <1>5, ChosenIs
<1>17. F = <<>> <=> L = 0 BY <1>4
<1>18. P!ExistsQuery(q) <=> L # 0
  <2>1. P!ExistsQuery(q) <=> \E r \in Ids : r \in set BY <1>1, <1>5 DEF P!ExistsQuery, P!Listed
  <2>2. (\E r \in Ids : r \in set) <=> L # 0 BY <1>4
  <2> QED BY <2>1, <2>2
<1>24. L # 0 => 1 \in 1..L BY <1>3
<1>19. L # 0 => F[1] \in Ids /\ F[1] # None BY <1>1, <1>4, <1>24, PagingAssumption
<1>20. P!ExistsQuery(q) = (P!One(q) # None)
  <2>1. P!ExistsQuery(q) <=> P!One(q) # None BY <1>16, <1>17, <1>18, <1>19 DEF P!One
  <2>2. P!ExistsQuery(q) \in BOOLEAN BY DEF P!ExistsQuery
  <2> QED BY <2>1, <2>2
<1>21. P!One(q) # None => P!One(q) = P!Exec(q)[1]
  <2>1. P!One(q) # None => L # 0 /\ P!One(q) = F[1] BY <1>16, <1>17 DEF P!One
  <2>2. L # 0 => 1 \in 1..L BY <1>3
  <2> QED BY <1>9, <2>1, <2>2
<1>22. ASSUME NEW n \in DOMAIN P!Exec(q)
       PROVE  P!Exec(P!LimitTo(P!SkipOver(q, n - 1), 1)) = <<P!Exec(q)[n]>>
  <2>1. n \in 1..L BY <1>9
  <2>2. PICK skip \in Nat : skip = n - 1 BY <2>1
  <2>3. PICK pq : pq = P!LimitTo(P!SkipOver(q, n - 1), 1) OBVIOUS
  <2>4. pq = [[q EXCEPT !.skip = skip] EXCEPT !.limit = 1]
    BY <2>2, <2>3 DEF P!LimitTo, P!SkipOver
  <2>5. pq.filter = Values \cap filter /\ pq.sort = order /\ pq.skip = skip /\ pq.limit = 1
    BY <1>5, <2>4 DEF P!SortBy, P!Where, P!Query
  <2>6. P!Exec(pq) = Slice(F, skip, 1) BY <1>8, <2>5
  <2>7. SliceOf(Slice(F, skip, 1), L, set, F, skip, 1) BY <1>3, <1>4, <2>2, SliceIs
  <2>8. PICK s \in Seq(set) : s = Slice(F, skip, 1) BY <2>7 DEF SliceOf
  <2>13. /\ DOMAIN s = {k \in Nat \ {0} : skip + k <= L /\ (1 = 0 \/ k <= 1)}
         /\ \A k \in DOMAIN s : s[k] = F[skip + k]
    BY <2>7, <2>8 DEF SliceOf
  <2>14. \A k \in Nat \ {0} : (skip + k <= L /\ (1 = 0 \/ k <= 1)) <=> k = 1 BY <1>3, <2>1, <2>2
  <2>9. DOMAIN s = {1}
    <3>1. {k \in Nat \ {0} : skip + k <= L /\ (1 = 0 \/ k <= 1)} = {1} BY <2>14
    <3> QED BY <2>13, <3>1
  <2>15. skip + 1 = n BY <2>1, <2>2
  <2>10. s[1] = F[n] BY <2>9, <2>13, <2>15
  <2>11. Len(s) = 1 BY <2>9
  <2>12. s = <<F[n]>> BY <2>10, <2>11
  <2> QED BY <1>9, <2>1, <2>3, <2>6, <2>8, <2>12
<1>23. P!Distinct(q) = {rows[r] : r \in P!ToSet(P!Exec(q))}
  <2>1. P!ToSet(whole) = set BY <1>4, <1>9 DEF P!ToSet
  <2> QED BY <1>1, <1>5, <1>9, <2>1 DEF P!Distinct
<1> QED BY <1>13, <1>14, <1>15, <1>20, <1>21, <1>22, <1>23

LEMMA PagesAreComplete == PagingInv => P!PagesComplete
<1> SUFFICES ASSUME PagingInv PROVE P!PagesComplete OBVIOUS
<1>1. reader.pc = "idle" \/ (reader.mode = "search" => reader.field # "value")
  BY DEF PagingInv, PagingTypes
<1>2. P!CursorComplete
  <2> SUFFICES ASSUME reader.pc = "done", reader.mode \in {"cursor", "search"},
                      reader.field = "_id" \/ (reader.field = "value" /\ 0 \notin reader.filter)
               PROVE  LET awaited == {r \in steady : reader.from = None
                                                    \/ P!BuildCursorFilter(reader.from, P!Cursor(r))}
                      IN /\ \A r \in awaited : P!Times(r) = 1
                         /\ \A i, j \in DOMAIN reader.pages :
                              i < j /\ {reader.pages[i], reader.pages[j]} \subseteq awaited =>
                                P!BuildSort(P!Cursor(reader.pages[i]), P!Cursor(reader.pages[j]))
    BY DEF P!CursorComplete
  <2>1. ByCursor(reader) BY <1>1 DEF ByCursor
  <2> QED BY <2>1, CursorIsComplete
<1>3. P!NoRepeats
  <2> SUFFICES ASSUME reader.pc # "idle", reader.mode \in {"cursor", "search"}, reader.field = "_id"
               PROVE  \A r \in Ids : P!Times(r) <= 1
    BY DEF P!NoRepeats
  <2>1. ByCursor(reader) BY DEF ByCursor
  <2> QED BY <2>1, CursorIsComplete
<1> QED BY <1>2, <1>3, PrefixIsComplete, QueryIsSound DEF P!PagesComplete

\* A traversal by cursor gets each row that stays where it is once, in its order, from
\* where it began to where it ends; sorted by _id no row comes twice; one by offset has
\* the whole listing if nobody wrote; and a query's pages are its listing.  With the
\* above, whatever is written, closed or restarted meanwhile.
THEOREM ReadersAreServed == NetworkSpec => []ReadersServed
<1>1. NetworkInit => PagingInv BY PagingInit DEF NetworkInit
<1>2. NetworkNext \/ UNCHANGED allVars => (part = "paging" /\ P!Next) \/ UNCHANGED pagingVars
  BY DEF NetworkNext, PaymentNext, ReaderNext, readerVars, allVars
<1>3. PagingInv /\ UNCHANGED pagingVars => PagingInv'
  <2> SUFFICES ASSUME PagingInv, UNCHANGED pagingVars PROVE PagingInv' OBVIOUS
  <2>1. UNCHANGED <<rows, reader, steady, quiet>> BY DEF pagingVars
  <2>2. PagingTypes' BY <2>1 DEF PagingInv, PagingTypes
  <2>3. Full' = Full BY <2>1 DEF Full
  <2> QED BY <2>1, <2>2, <2>3 DEF PagingInv
<1>4. PagingInv /\ [NetworkNext]_allVars => PagingInv' BY <1>2, <1>3, PagingSteps
<1>5. PagingInv => (part = "paging" => P!PagesComplete) BY PagesAreComplete
<1>6. NetworkSpec => [](part = "paging" => P!PagesComplete)
  BY <1>1, <1>4, <1>5, PTL DEF NetworkSpec
<1>7. (part = "paging" => P!PagesComplete) /\ (part = "notifications" => N!NotificationsSound)
        => ReadersServed
  BY DEF ReadersServed
<1> QED BY <1>6, <1>7, NotificationsKept, PTL

-----------------------------------------------------------------------------
(***************************************************************************)
(* Proof, for any number of decimals, prices, fees and costs of a path, and *)
(* any webhooks: an amount reads back as itself, the shares add up, and what *)
(* is verified was paid.  The rounding of the fee, of the path's maximum and *)
(* of the decimal digits is one lemma each.                                  *)
(***************************************************************************)
ASSUME AmountsAssumption ==
    /\ Decimals \in Nat /\ Percents \subseteq Nat
    /\ Quotes \subseteq Nat \ {0} /\ SendMaxes \subseteq Nat \ {0}

\* A quotient, and the quotient of what it leaves.
LEMMA QuotientIs ==
  ASSUME NEW a \in Nat, NEW n \in Nat \ {0}
  PROVE  /\ a \div n \in Nat /\ a % n \in 0..(n - 1) /\ a = (a \div n) * n + (a % n)
OBVIOUS

LEMMA SmallerProduct ==
  ASSUME NEW a \in Int, NEW b \in Int, NEW n \in Nat \ {0}, a * n < b * n + n
  PROVE  a <= b
<1> SUFFICES ASSUME b + 1 <= a PROVE FALSE OBVIOUS
<1>1. (b + 1) * n <= a * n OBVIOUS
<1>2. (b + 1) * n = b * n + n OBVIOUS
<1>3. a * n \in Int /\ b * n \in Int OBVIOUS
<1> QED BY <1>1, <1>2, <1>3

LEMMA QuotientOf ==
  ASSUME NEW a \in Nat, NEW n \in Nat \ {0}, NEW q \in Nat, NEW v \in 0..(n - 1), a = q * n + v
  PROVE  a \div n = q
<1> DEFINE d == a \div n   u == a % n
<1>1. d \in Nat /\ u \in 0..(n - 1) /\ a = d * n + u BY QuotientIs
<1> HIDE DEF d, u
<1>2. d * n \in Nat /\ q * n \in Nat BY <1>1
<1>3. d * n < q * n + n /\ q * n < d * n + n BY <1>1, <1>2
<1>4. d <= q /\ q <= d BY <1>1, <1>3, SmallerProduct
<1> QED BY <1>1, <1>4 DEF d

-----------------------------------------------------------------------------
(* Decimal digits *)

IsTens(g, m) == g = [n \in 0..m |-> IF n = 0 THEN 1 ELSE 10 * g[n - 1]]

LEMMA TensExist == \A m \in Nat : \E g : IsTens(g, m)
<1> DEFINE Bad == {m \in Nat : ~ \E g : IsTens(g, m)}
<1>1. ASSUME NEW m \in Bad PROVE \E k \in Bad : k < m
  <2>1. m # 0
    <3>1. IsTens([n \in 0..0 |-> 1], 0) BY DEF IsTens
    <3> QED BY <3>1
  <2>2. m - 1 \in Nat BY <2>1
  <2>3. ASSUME NEW g, IsTens(g, m - 1) PROVE FALSE
    <3> DEFINE h == [n \in 0..m |-> IF n = m THEN 10 * g[m - 1] ELSE g[n]]
    <3>1. \A n \in 0..(m - 1) : g[n] = IF n = 0 THEN 1 ELSE 10 * g[n - 1] BY <2>3 DEF IsTens
    <3>2. ASSUME NEW n \in 0..m PROVE h[n] = IF n = 0 THEN 1 ELSE 10 * h[n - 1]
      <4>1. CASE n = m BY <2>1, <2>2, <4>1
      <4>2. CASE n # m BY <3>1, <4>2
      <4> QED BY <4>1, <4>2
    <3>3. h = [n \in 0..m |-> h[n]] OBVIOUS
    <3> HIDE DEF h
    <3>4. h = [n \in 0..m |-> IF n = 0 THEN 1 ELSE 10 * h[n - 1]] BY <3>2, <3>3
    <3> QED BY <3>4 DEF IsTens
  <2> QED BY <2>2, <2>3
<1>2. Bad = {}
  <2>1. Bad \subseteq Nat OBVIOUS
  <2> HIDE DEF Bad
  <2> QED BY <1>1, <2>1, Descent
<1> QED BY <1>2

LEMMA TensAre ==
  /\ Amounts!Tens[0] = 1
  /\ \A n \in 1..Decimals : Amounts!Tens[n] = 10 * Amounts!Tens[n - 1]
  /\ \A n \in 0..Decimals : Amounts!Tens[n] \in Nat \ {0}
<1> DEFINE t == Amounts!Tens
<1>1. IsTens(t, Decimals)
  <2>1. t = CHOOSE g : IsTens(g, Decimals) BY DEF Amounts!Tens, IsTens
  <2> QED BY <2>1, TensExist, AmountsAssumption
<1> HIDE DEF t
<1>2. \A n \in 0..Decimals : t[n] = IF n = 0 THEN 1 ELSE 10 * t[n - 1] BY <1>1 DEF IsTens
<1>3. t[0] = 1 /\ \A n \in 1..Decimals : t[n] = 10 * t[n - 1] BY <1>2, AmountsAssumption
<1> DEFINE Bad == {n \in 0..Decimals : t[n] \notin Nat \ {0}}
<1>4. ASSUME NEW n \in Bad PROVE \E k \in Bad : k < n
  <2>1. n # 0 /\ n - 1 \in 0..Decimals BY <1>3, AmountsAssumption
  <2>2. t[n] = 10 * t[n - 1] BY <1>3, <2>1
  <2>3. t[n - 1] \notin Nat \ {0} BY <2>2
  <2> QED BY <2>1, <2>3
<1>5. Bad = {}
  <2>1. Bad \subseteq Nat BY AmountsAssumption
  <2> HIDE DEF Bad
  <2> QED BY <1>4, <2>1, Descent
<1> QED BY <1>3, <1>5 DEF t

\* The quotient by a power of ten is the one by the next power and one more digit.
LEMMA NextDigit ==
  ASSUME NEW r \in Nat, NEW p \in Nat \ {0}
  PROVE  r \div p = 10 * (r \div (10 * p)) + ((r \div p) % 10)
<1> DEFINE q == r \div p   s == r % p   t == q \div 10   u == q % 10
<1>1. q \in Nat /\ s \in 0..(p - 1) /\ r = q * p + s BY QuotientIs
<1> HIDE DEF q, s
<1>2. t \in Nat /\ u \in 0..9 /\ q = t * 10 + u BY <1>1, QuotientIs
<1> HIDE DEF t, u
<1>3. q * p = t * (10 * p) + u * p
  <2>1. (t * 10 + u) * p = (t * 10) * p + u * p BY <1>2
  <2>2. (t * 10) * p = t * (10 * p) BY <1>2
  <2> QED BY <1>2, <2>1, <2>2
<1>4. u * p \in Nat /\ u * p <= 9 * p BY <1>2
<1>5. u * p + s \in 0..(10 * p - 1) BY <1>1, <1>4
<1>6. t * (10 * p) \in Nat BY <1>2
<1>7. r = t * (10 * p) + (u * p + s) BY <1>1, <1>3, <1>4, <1>6
<1>8. r \div (10 * p) = t BY <1>2, <1>5, <1>7, QuotientOf
<1>9. q = 10 * (r \div (10 * p)) + (q % 10) BY <1>2, <1>8 DEF u
<1> QED BY <1>9 DEF q

\* The digits of a number below a unit have its value.
LEMMA DigitsRead ==
  ASSUME NEW r \in Nat, r < Amounts!Unit, NEW digits,
         \A i \in 1..Decimals : digits[i] = (r \div Amounts!Tens[Decimals - i]) % 10
  PROVE  Amounts!DigitsValue(digits) = r
<1> DEFINE D == Decimals   t == Amounts!Tens
           Is(g) == g = [n \in 0..D |-> IF n = 0 THEN 0 ELSE 10 * g[n - 1] + digits[n]]
           V == [n \in 0..D |-> r \div t[D - n]]
           w == CHOOSE g : Is(g)
<1>1. Amounts!DigitsValue(digits) = w[D] BY DEF Amounts!DigitsValue
<1>2. D \in Nat BY AmountsAssumption
<1>3. V[0] = 0
  <2>1. r = 0 * t[D] + r /\ t[D] \in Nat \ {0} /\ r \in 0..(t[D] - 1)
    BY <1>2, TensAre DEF Amounts!Unit
  <2>2. r \div t[D] = 0
    <3> HIDE DEF t
    <3> QED BY <2>1, QuotientOf
  <2> QED BY <1>2, <2>2
<1>4. ASSUME NEW n \in 1..D PROVE V[n] = 10 * V[n - 1] + digits[n]
  <2>1. D - n \in 0..D /\ D - (n - 1) \in 1..D /\ (D - (n - 1)) - 1 = D - n BY <1>2
  <2>2. t[D - (n - 1)] = 10 * t[D - n] /\ t[D - n] \in Nat \ {0} BY <2>1, TensAre
  <2>3. V[n] = r \div t[D - n] /\ V[n - 1] = r \div t[D - (n - 1)] BY <1>2
  <2>4. digits[n] = (r \div t[D - n]) % 10 OBVIOUS
  <2> HIDE DEF V, t
  <2> QED BY <2>2, <2>3, <2>4, NextDigit
<1>5. Is(V)
  <2>1. V = [n \in 0..D |-> V[n]] OBVIOUS
  <2> HIDE DEF V
  <2>2. \A n \in 0..D : V[n] = IF n = 0 THEN 0 ELSE 10 * V[n - 1] + digits[n]
    <3>1. \A n \in 0..D : n # 0 => n \in 1..D BY <1>2
    <3> QED BY <1>3, <1>4, <3>1
  <2> QED BY <2>1, <2>2
<1>6. Is(w) BY <1>5
<1> HIDE DEF w
<1> DEFINE Bad == {n \in 0..D : w[n] # V[n]}
<1>7. ASSUME NEW n \in Bad PROVE \E k \in Bad : k < n
  <2>1. n # 0 /\ n - 1 \in 0..D BY <1>2, <1>3, <1>6
  <2>2. w[n] = 10 * w[n - 1] + digits[n] BY <1>6, <2>1
  <2>03. n \in 1..D BY <1>2, <2>1
  <2>3. V[n] = 10 * V[n - 1] + digits[n]
    <3> HIDE DEF V
    <3> QED BY <1>4, <2>03
  <2>4. w[n] # V[n] OBVIOUS
  <2>5. w[n - 1] # V[n - 1]
    <3> HIDE DEF V
    <3> QED BY <2>2, <2>3, <2>4
  <2> QED BY <2>1, <2>5
<1>8. Bad = {}
  <2>1. Bad \subseteq Nat BY <1>2
  <2> HIDE DEF Bad
  <2> QED BY <1>7, <2>1, Descent
<1>9. w[D] = V[D]
  <2>1. D \in 0..D BY <1>2
  <2> HIDE DEF V
  <2> QED BY <1>8, <2>1
<1>10. V[D] = r
  <2>1. t[0] = 1 BY TensAre
  <2>2. V[D] = r \div t[D - D] BY <1>2
  <2> QED BY <1>2, <2>1, <2>2
<1> QED BY <1>1, <1>9, <1>10

\* Dropping the zeros at the end, and padding with zeros.
LEMMA ReadsBack == ASSUME NEW a \in Nat PROVE Amounts!ToStroops(Amounts!FromStroops(a)) = a
<1> DEFINE D == Decimals   U == Amounts!Unit   r == a % U
           frac == [i \in 1..D |-> (r \div Amounts!Tens[D - i]) % 10]
           Kept(n) == (\A i \in n + 1..D : frac[i] = 0) /\ (n > 0 => frac[n] # 0)
           kept == CHOOSE n \in 0..D : Kept(n)
           cut == SubSeq(frac, 1, kept)
           digits == [i \in 1..D |-> IF i <= Len(cut) THEN cut[i] ELSE 0]
<1>1. D \in Nat /\ U \in Nat \ {0} BY AmountsAssumption, TensAre DEF Amounts!Unit
<1>2. a \div U \in Nat /\ r \in 0..(U - 1) /\ a = (a \div U) * U + r BY <1>1, QuotientIs
<1>3. frac \in Seq(Nat) /\ Len(frac) = D
  <2>1. ASSUME NEW i \in 1..D PROVE frac[i] \in Nat
    <3>1. D - i \in 0..D BY <1>1
    <3>2. Amounts!Tens[D - i] \in Nat \ {0} BY <3>1, TensAre
    <3>03. r \in Nat BY <1>1, <1>2
    <3>3. r \div Amounts!Tens[D - i] \in Nat
      <4> HIDE DEF r
      <4> QED BY <3>2, <3>03, QuotientIs
    <3>4. frac[i] = (r \div Amounts!Tens[D - i]) % 10 OBVIOUS
    <3> QED BY <3>3, <3>4, QuotientIs
  <2>2. DOMAIN frac = 1..D OBVIOUS
  <2>3. frac = [i \in 1..D |-> frac[i]] OBVIOUS
  <2> HIDE DEF frac
  <2> QED BY <1>1, <2>1, <2>2, <2>3
<1>4. kept \in 0..D /\ Kept(kept)
  <2> DEFINE Ends == {n \in 0..D : \A i \in n + 1..D : frac[i] = 0}
  <2>1. D \in Ends BY <1>1
  <2>2. PICK n \in Ends : \A k \in Ends : ~(k < n)
    <3>1. Ends \subseteq Nat BY <1>1
    <3> HIDE DEF Ends
    <3> QED BY <2>1, <3>1, Descent
  <2>3. n > 0 => frac[n] # 0
    <3> SUFFICES ASSUME n > 0, frac[n] = 0 PROVE FALSE OBVIOUS
    <3>1. \A i \in (n - 1) + 1..D : i = n \/ i \in n + 1..D BY <1>1
    <3> HIDE DEF frac
    <3>2. n - 1 \in Ends BY <1>1, <3>1
    <3> QED BY <2>2, <3>2
  <2>4. n \in 0..D /\ Kept(n) BY <2>3
  <2> HIDE DEF Kept
  <2> QED BY <2>4
<1>5. Len(cut) = kept /\ \A i \in 1..kept : cut[i] = frac[i]
  <2> HIDE DEF frac, kept
  <2> QED BY <1>1, <1>3, <1>4
<1>6. \A i \in 1..D : digits[i] = (r \div Amounts!Tens[D - i]) % 10
  <2>1. ASSUME NEW i \in 1..D PROVE digits[i] = frac[i]
    <3>1. CASE i <= kept
      <4> HIDE DEF cut, frac, kept
      <4> QED BY <1>1, <1>4, <1>5, <3>1
    <3>2. CASE i > kept
      <4>1. frac[i] = 0
        <5>1. kept \in Nat /\ \A j \in kept + 1..D : frac[j] = 0
          <6>1. kept \in Nat BY <1>1, <1>4
          <6>2. \A j \in kept + 1..D : frac[j] = 0
            <7> HIDE DEF frac, kept
            <7> QED BY <1>4
          <6> QED BY <6>1, <6>2
        <5> HIDE DEF frac, kept
        <5>2. i \in kept + 1..D BY <1>1, <3>2, <5>1
        <5> QED BY <5>1, <5>2
      <4> HIDE DEF cut, frac, kept
      <4> QED BY <1>1, <1>4, <1>5, <3>2, <4>1
    <3> QED BY <1>1, <1>4, <3>1, <3>2
  <2> HIDE DEF digits
  <2> QED BY <2>1
<1>7. Amounts!DigitsValue(digits) = r
  <2>1. r \in Nat /\ r < U BY <1>1, <1>2
  <2> HIDE DEF digits, r
  <2> QED BY <1>6, <2>1, DigitsRead
<1>8. Amounts!FromStroops(a) = [whole |-> a \div U, frac |-> cut] BY DEF Amounts!FromStroops
<1>9. Amounts!ToStroops([whole |-> a \div U, frac |-> cut]) = (a \div U) * U + Amounts!DigitsValue(digits)
  <2> DEFINE d == [whole |-> a \div U, frac |-> cut]
  <2>1. d.whole = a \div U /\ d.frac = cut OBVIOUS
  <2> HIDE DEF d, cut
  <2>2. Amounts!ToStroops(d) = d.whole * U
            + Amounts!DigitsValue([i \in 1..D |-> IF i <= Len(d.frac) THEN d.frac[i] ELSE 0])
    BY Zenon DEF Amounts!ToStroops
  <2>3. Amounts!ToStroops(d) = (a \div U) * U + Amounts!DigitsValue(digits) BY <2>1, <2>2
  <2> QED BY <2>3 DEF d
<1> HIDE DEF cut, digits
<1> QED BY <1>2, <1>7, <1>8, <1>9

-----------------------------------------------------------------------------
(* Shares *)

LEMMA GreatestAmount == \A s : Amounts!Max(s) = Max(s)
BY DEF Amounts!Max, Max

LEMMA TotalIs ==
  ASSUME NEW n \in Nat, NEW seq, DOMAIN seq = 1..n, \A i \in 1..n : seq[i] \in Int
  PROVE  Amounts!Total(seq) = SumOn(seq, 1..n)
<1>1. Amounts!Total(seq) = (CHOOSE g : IsSeqFold(g, seq, 1..n))[1..n]
  BY GreatestAmount DEF Amounts!Total, Amounts!FoldLeft, Amounts!MapThenFoldSet, IsSeqFold
<1> QED BY <1>1, SeqFold

LEMMA TotalsOf ==
  ASSUME NEW seq, NEW n \in {1, 2}, DOMAIN seq = 1..n, \A i \in 1..n : seq[i] \in Int
  PROVE  Amounts!Total(seq) = IF n = 1 THEN seq[1] ELSE seq[1] + seq[2]
<1>1. IsFiniteSet(1..n) BY FS_Interval
<1>2. Amounts!Total(seq) = SumOn(seq, 1..n) BY TotalIs
<1>3. 1 \in 1..n OBVIOUS
<1>4. SumOn(seq, 1..n) = seq[1] + SumOn(seq, (1..n) \ {1}) BY <1>1, <1>3, SumRemove
<1>5. CASE n = 1
  <2>1. (1..n) \ {1} = {} BY <1>5
  <2> QED BY <1>2, <1>4, <1>5, <2>1, SumEmpty
<1>6. CASE n = 2
  <2>1. (1..n) \ {1} = {2} BY <1>6
  <2>2. IsFiniteSet({2}) BY FS_Singleton
  <2>3. seq[2] \in Int /\ seq[2] + 0 = seq[2]
    <3>1. 2 \in 1..n BY <1>6
    <3>2. seq[2] \in Int BY <3>1
    <3> QED BY <3>2
  <2>4. {2} \ {2} = {} OBVIOUS
  <2>5. SumOn(seq, {2}) = seq[2]
    <3>1. \A i \in {2} : seq[i] \in Int BY <2>3
    <3>2. SumOn(seq, {2}) = seq[2] + SumOn(seq, {2} \ {2}) BY <2>2, <3>1, SumRemove
    <3> QED BY <2>3, <2>4, <3>2, SumEmpty
  <2> QED BY <1>2, <1>4, <1>6, <2>1, <2>5
<1> QED BY <1>5, <1>6

\* What a checkout says, and that its fee is less than half of it.
Sold(c) == /\ c.amount \in Nat \ {0} /\ c.percent \in Nat
           /\ c.creator \in {Creator, Platform} /\ c.sendMax \in Nat

LEMMA SplitIs ==
  ASSUME NEW a \in Nat \ {0}, NEW p \in Nat
  PROVE  /\ Amounts!PlatformStroops(a, p) \in Nat /\ Amounts!CreatorStroops(a, p) \in Nat
         /\ Amounts!PlatformStroops(a, p) < Amounts!CreatorStroops(a, p)
         /\ Amounts!CreatorStroops(a, p) + Amounts!PlatformStroops(a, p) = a
<1> DEFINE q == Amounts!FeePercent(p)   e == a * (q * 100)   f == Amounts!PlatformStroops(a, p)
<1>1. q \in 0..20 BY DEF Amounts!FeePercent
<1>2. f = e \div 10000 BY DEF Amounts!PlatformStroops
<1>3. e \in Nat /\ e <= a * 2000
  <2> DEFINE k == q * 100
  <2>1. k \in Nat /\ k <= 2000 BY <1>1
  <2> HIDE DEF k
  <2>2. a * k \in Nat /\ a * k <= a * 2000 BY <2>1
  <2> QED BY <2>2 DEF k
<1> HIDE DEF e, f
<1>4. f \in Nat /\ f * 10000 <= e
  <2>1. e \div 10000 \in Nat /\ e % 10000 \in Nat /\ e = (e \div 10000) * 10000 + (e % 10000)
    BY <1>3, QuotientIs
  <2> QED BY <1>2, <2>1
<1>5. f \in Nat /\ f < a - f BY <1>3, <1>4
<1>6. Amounts!CreatorStroops(a, p) = a - f BY DEF Amounts!CreatorStroops, f
<1> QED BY <1>5, <1>6 DEF f

OneShare(s, c) == DOMAIN s = 1..1 /\ Len(s) = 1 /\ s[1] = [to |-> c.creator, amount |-> c.amount]
TwoShares(s, c) ==
    /\ DOMAIN s = 1..2 /\ Len(s) = 2
    /\ s[1].to = c.creator /\ s[2].to = Platform
    /\ s[1].amount \in Nat /\ s[2].amount \in Nat \ {0}
    /\ s[2].amount < s[1].amount /\ s[1].amount + s[2].amount = c.amount

LEMMA SharesAre ==
  ASSUME NEW c, Sold(c)
  PROVE  OneShare(Amounts!Shares(c), c) \/ TwoShares(Amounts!Shares(c), c)
<1> DEFINE k == Amounts!CreatorStroops(c.amount, c.percent)
           f == Amounts!PlatformStroops(c.amount, c.percent)
<1>1. k \in Nat /\ f \in Nat /\ f < k /\ k + f = c.amount BY SplitIs DEF Sold
<1> HIDE DEF k, f
<1>2. CASE Amounts!Splits(c.amount, c.percent)
  <2>1. Amounts!Shares(c) = << [to |-> c.creator, amount |-> k], [to |-> Platform, amount |-> f] >>
    BY <1>2 DEF Amounts!Shares, k, f
  <2>2. f > 0 BY <1>2 DEF Amounts!Splits, f
  <2> QED BY <1>1, <2>1, <2>2 DEF TwoShares
<1>3. CASE ~ Amounts!Splits(c.amount, c.percent)
  <2>1. Amounts!Shares(c) = << [to |-> c.creator, amount |-> c.amount] >>
    BY <1>3 DEF Amounts!Shares
  <2> QED BY <2>1 DEF OneShare
<1> QED BY <1>2, <1>3

LEMMA SplitAddsUp ==
  ASSUME NEW c, Sold(c)
  PROVE  LET s == Amounts!Shares(c) IN
         /\ \A i \in DOMAIN s : s[i].amount > 0
         /\ Amounts!Total([i \in DOMAIN s |-> s[i].amount]) = c.amount
<1> DEFINE s == Amounts!Shares(c)   t == [i \in DOMAIN s |-> s[i].amount]
<1>1. c.amount \in Nat \ {0} BY DEF Sold
<1>2. OneShare(s, c) \/ TwoShares(s, c) BY SharesAre
<1> HIDE DEF s
<1>3. CASE OneShare(s, c)
  <2>1. DOMAIN t = 1..1 /\ t[1] = c.amount BY <1>3 DEF OneShare
  <2>2. \A i \in 1..1 : t[i] \in Int BY <1>1, <2>1
  <2> HIDE DEF t
  <2>3. Amounts!Total(t) = c.amount BY <2>1, <2>2, TotalsOf
  <2> QED BY <1>1, <1>3, <2>3 DEF OneShare, t, s
<1>4. CASE TwoShares(s, c)
  <2>1. DOMAIN t = 1..2 /\ t[1] = s[1].amount /\ t[2] = s[2].amount BY <1>4 DEF TwoShares
  <2>2. \A i \in 1..2 : t[i] \in Int BY <1>4, <2>1 DEF TwoShares
  <2> HIDE DEF t
  <2>3. Amounts!Total(t) = t[1] + t[2] BY <2>1, <2>2, TotalsOf
  <2>4. t[1] + t[2] = c.amount BY <1>4, <2>1 DEF TwoShares
  <2>5. \A i \in DOMAIN s : s[i].amount > 0 BY <1>4 DEF TwoShares
  <2> QED BY <2>3, <2>4, <2>5 DEF t, s
<1> QED BY <1>2, <1>3, <1>4

\* The creator's share of a maximum is all of it, or leaves something.
LEMMA PathHasAll ==
  ASSUME NEW c, Sold(c)
  PROVE  Len(Amounts!Built(c)) = Len(Amounts!Shares(c))
<1> DEFINE s == Amounts!Shares(c)   a == c.amount   m == c.sendMax   k == s[1].amount
           paths == [i \in DOMAIN s |-> Amounts!Operation("path", s[i], "USDC")]
<1>1. a \in Nat \ {0} /\ m \in Nat BY DEF Sold
<1>2. OneShare(s, c) \/ TwoShares(s, c) BY SharesAre
<1>3. /\ DOMAIN s = 1..Len(s) /\ Len(s) \in {1, 2} /\ k \in Nat
      /\ Len(s) = 1 => k = a
      /\ Len(s) = 2 => k < a
  <2> HIDE DEF s
  <2>1. CASE OneShare(s, c) BY <1>1, <2>1 DEF OneShare
  <2>2. CASE TwoShares(s, c)
    <3>1. k \in Nat /\ s[2].amount \in Nat \ {0} /\ k + s[2].amount = a /\ DOMAIN s = 1..2 /\ Len(s) = 2
      BY <2>2 DEF TwoShares
    <3> QED BY <1>1, <3>1
  <2> QED BY <1>2, <2>1, <2>2
<1>4. CASE m = 0
  <2>1. Amounts!Built(c) = [i \in DOMAIN s |-> Amounts!Operation("payment", s[i], c.code)]
    BY <1>4 DEF Amounts!Built, Amounts!DirectOperations
  <2> HIDE DEF s
  <2> QED BY <1>3, <2>1 DEF s
<1>5. CASE m # 0
  <2>1. Amounts!Built(c) = IF m - Amounts!CreatorSendMax(c) > 0 THEN paths ELSE SubSeq(paths, 1, 1)
    BY <1>5 DEF Amounts!Built, Amounts!PathOperations
  <2>2. Amounts!CreatorSendMax(c) = (m * k) \div a BY DEF Amounts!CreatorSendMax
  <2> HIDE DEF s, a, m, k
  <2>3. Len(paths) = Len(s) BY <1>3
  <2>4. CASE Len(s) = 1
    <3> HIDE DEF paths
    <3>1. paths \in Seq(Range(paths))
      <4>1. DOMAIN paths = 1..1 BY <1>3, <2>4 DEF paths
      <4>2. paths = [i \in 1..1 |-> paths[i]] BY <4>1 DEF paths
      <4> QED BY <4>1, <4>2 DEF Range
    <3>2. Len(SubSeq(paths, 1, 1)) = 1 BY <2>3, <2>4, <3>1
    <3> QED BY <2>1, <2>3, <2>4, <3>2 DEF s
  <2>5. CASE Len(s) = 2
    <3> DEFINE q == (m * k) \div a   v == (m * k) % a
    <3>1. m * k \in Nat BY <1>1, <1>3
    <3>2. q \in Nat /\ v \in 0..(a - 1) /\ m * k = q * a + v BY <1>1, <3>1, QuotientIs
    <3> HIDE DEF q, v
    <3>3. m * k < m * a
      <4>1. k + 1 <= a BY <1>1, <1>3, <2>5
      <4>2. m * (k + 1) <= m * a BY <1>1, <1>3, <4>1
      <4>3. m * (k + 1) = m * k + m BY <1>1, <1>3
      <4> QED BY <1>1, <1>5, <3>1, <4>2, <4>3
    <3>4. q < m
      <4> SUFFICES ASSUME m <= q PROVE FALSE BY <1>1, <3>2
      <4>1. m * a <= q * a BY <1>1, <3>2
      <4>2. q * a \in Nat /\ m * a \in Nat BY <1>1, <3>2
      <4> QED BY <3>1, <3>2, <3>3, <4>1, <4>2
    <3>5. m - Amounts!CreatorSendMax(c) > 0 BY <1>1, <2>2, <3>2, <3>4 DEF q
    <3> QED BY <2>1, <2>3, <3>5 DEF s
  <2> QED BY <1>3, <2>4, <2>5
<1> QED BY <1>4, <1>5

\* The margin of a quote.
LEMMA MarginIs ==
  ASSUME NEW cost \in Nat \ {0}, NEW asked \in {None, 10000}
  PROVE  LET max == Amounts!ApplySlippage(cost, Amounts!SlippageBps(asked)) IN
         max \in Nat \ {0} /\ cost <= max /\ max * 10000 <= cost * 10500
<1> DEFINE bps == Amounts!SlippageBps(asked)
<1>1. bps \in {100, 500} BY DEF Amounts!SlippageBps
<1> HIDE DEF bps
<1>2. Amounts!ApplySlippage(cost, bps) = cost + (cost * bps) \div 10000 BY DEF Amounts!ApplySlippage
<1>3. ASSUME NEW e \in Nat, e <= cost * 500
      PROVE  /\ e \div 10000 \in Nat
             /\ (cost + (e \div 10000)) * 10000 <= cost * 10500
  BY <1>3
<1>4. cost * bps \in Nat /\ cost * bps <= cost * 500 BY <1>1
<1> QED BY <1>2, <1>3, <1>4 DEF bps

-----------------------------------------------------------------------------
(* The checkout of an amount *)

\* The operations of a transaction: one or two, of some amount.
Ops(q) == \E n \in {1, 2} : DOMAIN q = 1..n /\ \A i \in 1..n : q[i].amount \in Nat

\* An operation for every share of a checkout.
Delivers(q, c, kinds, code) ==
    \A i \in DOMAIN Amounts!Shares(c) : \E j \in DOMAIN q : \E kind \in kinds :
        q[j] = Amounts!Operation(kind, Amounts!Shares(c)[i], code)

\* What is sold, and a maximum within the margin of what a path costs.
Offered(o) ==
    /\ o \in [price : Quotes \cup {0, None}, code : {"USDC", "EURC", "XLM", "other"},
              wallet : {None, Creator, Platform}, collect : {"off", "unset", "on"},
              percent : Percents, sendMax : Nat]
    /\ o.sendMax > 0 => \E cost \in SendMaxes :
           cost <= o.sendMax /\ o.sendMax * 10000 <= cost * 10500

\* What a stage says of the transaction and of the account last looked at.
StageHolds(st, o, c, g, h) ==
    /\ st \notin {"asked", "refused"} => Ops(g.ops)
    /\ st \in {"asked", "signed"} => h = Amounts!Unseen
    /\ st = "built" /\ h # Amounts!Unseen =>
           /\ Amounts!Preflight(h, c) /\ Amounts!Resolved(o)
           /\ Len(g.ops) = Len(Amounts!Shares(c))
    /\ st = "rejected" => \/ ~(g.memo /\ Delivers(g.ops, c, {"payment"}, "USDC"))
                          \/ ~Delivers(g.ops, c, {"payment", "path"}, c.code)
    /\ st \in {"verified", "reversed"} => Delivers(g.ops, c, {"payment", "path"}, c.code)
    /\ st = "reversed" => h.balance = c.amount

AmountInv == /\ Offered(offer) /\ Sold(checkout)
             /\ StageHolds(stage, offer, checkout, signed, holder)

LEMMA SharesAmounts ==
  ASSUME NEW c, Sold(c)
  PROVE  LET s == Amounts!Shares(c) IN
         \E n \in {1, 2} : DOMAIN s = 1..n /\ Len(s) = n /\ \A i \in 1..n : s[i].amount \in Nat
<1> DEFINE s == Amounts!Shares(c)
<1>1. OneShare(s, c) \/ TwoShares(s, c) BY SharesAre
<1>2. c.amount \in Nat BY DEF Sold
<1> HIDE DEF s
<1>3. CASE OneShare(s, c) BY <1>2, <1>3 DEF OneShare, s
<1>4. CASE TwoShares(s, c) BY <1>4 DEF TwoShares, s
<1> QED BY <1>1, <1>3, <1>4

LEMMA BuiltAre ==
  ASSUME NEW c, Sold(c)
  PROVE  Ops(Amounts!Built(c))
<1> DEFINE s == Amounts!Shares(c)
           of(kind, code) == [i \in DOMAIN s |-> Amounts!Operation(kind, s[i], code)]
<1>1. PICK n \in {1, 2} : DOMAIN s = 1..n /\ \A i \in 1..n : s[i].amount \in Nat BY SharesAmounts
<1> HIDE DEF s
<1>2. ASSUME NEW kind, NEW code
      PROVE  DOMAIN of(kind, code) = 1..n /\ \A i \in 1..n : of(kind, code)[i].amount \in Nat
  BY <1>1 DEF Amounts!Operation
<1>3. ASSUME NEW kind, NEW code PROVE Ops(of(kind, code)) BY <1>2 DEF Ops
<1>4. CASE c.sendMax = 0
  <2>1. Amounts!Built(c) = of("payment", c.code)
    BY <1>4 DEF Amounts!Built, Amounts!DirectOperations, s
  <2> QED BY <1>3, <2>1
<1>5. CASE c.sendMax # 0
  <2> DEFINE paths == of("path", "USDC")
  <2>1. Amounts!Built(c) = paths \/ Amounts!Built(c) = SubSeq(paths, 1, 1)
    BY <1>5 DEF Amounts!Built, Amounts!PathOperations, s
  <2>2. DOMAIN paths = 1..n /\ \A i \in 1..n : paths[i].amount \in Nat BY <1>2
  <2>3. Ops(paths) BY <1>3
  <2> HIDE DEF paths
  <2>4. DOMAIN SubSeq(paths, 1, 1) = 1..1 /\ SubSeq(paths, 1, 1)[1] = paths[1]
    <3>1. SubSeq(paths, 1, 1) = [i \in 1..(1 - 1 + 1) |-> paths[i + 1 - 1]] BY DEF SubSeq
    <3>2. 1..(1 - 1 + 1) = 1..1 /\ 1 + 1 - 1 = 1 OBVIOUS
    <3> QED BY <3>1, <3>2
  <2>5. Ops(SubSeq(paths, 1, 1))
    <3>1. paths[1].amount \in Nat BY <2>2
    <3>2. \A i \in 1..1 : SubSeq(paths, 1, 1)[i].amount \in Nat BY <2>4, <3>1
    <3> QED BY <2>4, <3>2 DEF Ops
  <2> QED BY <2>1, <2>3, <2>5
<1> QED BY <1>4, <1>5

LEMMA LinkIs == ASSUME NEW c, Sold(c) PROVE Ops(Amounts!Link(c))
<1>1. DOMAIN Amounts!Link(c) = 1..1 /\ Amounts!Link(c)[1].amount = c.amount
  BY DEF Amounts!Link, Amounts!Operation
<1>2. c.amount \in Nat BY DEF Sold
<1> QED BY <1>1, <1>2 DEF Ops

LEMMA Checkouts ==
  ASSUME Offered(offer), Amounts!Priced(offer), NEW max \in Nat
  PROVE  LET c == Amounts!Checkout(max) IN
         /\ Sold(c) /\ Sold([c EXCEPT !.percent = 0])
         /\ c.sendMax = max
<1>1. offer.price \in Nat \ {0}
  <2>1. offer.price \in Quotes \cup {0, None} BY DEF Offered
  <2>2. offer.price \notin {None, 0} BY DEF Amounts!Priced
  <2>3. offer.price \in Quotes BY <2>1, <2>2
  <2> QED BY <2>3, AmountsAssumption
<1>2. Amounts!Percent(offer) \in Nat
  <2>1. offer.percent \in Percents BY DEF Offered
  <2>2. offer.percent \in Nat BY <2>1, AmountsAssumption
  <2> QED BY <2>2 DEF Amounts!Percent
<1>3. Amounts!Destination(offer) \in {Creator, Platform} BY DEF Offered, Amounts!Destination
<1> QED BY <1>1, <1>2, <1>3 DEF Sold, Amounts!Checkout

LEMMA AmountInit == Amounts!Init => AmountInv
<1> SUFFICES ASSUME Amounts!Init PROVE AmountInv OBVIOUS
<1>1. Offered(offer) BY DEF Amounts!Init, Offered
<1>2. Sold(checkout) BY DEF Amounts!Init, Amounts!NoCheckout, Sold
<1>3. StageHolds(stage, offer, checkout, signed, holder) BY DEF Amounts!Init, StageHolds
<1> QED BY <1>1, <1>2, <1>3 DEF AmountInv

\* A step of a checkout that is asked for.
LEMMA AskedSteps ==
  ASSUME AmountInv,
         \/ Amounts!GetQuote \/ Amounts!Refuse \/ Amounts!InitializeDirect
         \/ Amounts!InitializePath \/ Amounts!InitializeDonation
  PROVE  AmountInv'
<1>1. /\ Offered(offer) /\ Sold(checkout)
      /\ StageHolds(stage, offer, checkout, signed, holder)
  BY DEF AmountInv
<1>2. CASE Amounts!GetQuote
  <2>1. PICK cost \in SendMaxes, asked \in {None, 10000} :
            offer' = [offer EXCEPT !.sendMax = Amounts!ApplySlippage(cost, Amounts!SlippageBps(asked))]
    BY <1>2 DEF Amounts!GetQuote
  <2> DEFINE max == Amounts!ApplySlippage(cost, Amounts!SlippageBps(asked))
  <2>2. cost \in Nat \ {0} BY AmountsAssumption
  <2>3. max \in Nat \ {0} /\ cost <= max /\ max * 10000 <= cost * 10500 BY <2>2, MarginIs
  <2> HIDE DEF max
  <2>4. offer' = [offer EXCEPT !.sendMax = max] BY <2>1 DEF max
  <2>5. Offered(offer') BY <1>1, <2>3, <2>4 DEF Offered
  <2>6. stage = "asked" /\ UNCHANGED <<stage, checkout, signed, holder>> BY <1>2 DEF Amounts!GetQuote
  <2>7. StageHolds(stage', offer', checkout', signed', holder') BY <1>1, <2>6 DEF StageHolds
  <2> QED BY <1>1, <2>5, <2>6, <2>7 DEF AmountInv
<1>3. CASE Amounts!Refuse
  <2>1. stage' = "refused" /\ UNCHANGED <<offer, checkout, signed, holder>>
    BY <1>3 DEF Amounts!Refuse
  <2>2. StageHolds(stage', offer', checkout', signed', holder') BY <1>1, <2>1 DEF StageHolds
  <2> QED BY <1>1, <2>1, <2>2 DEF AmountInv
<1>4. CASE Amounts!InitializeDirect
  <2> DEFINE c == Amounts!Checkout(0)
  <2>1. Amounts!Resolved(offer) /\ Amounts!Priced(offer) /\ UNCHANGED offer
    BY <1>4 DEF Amounts!InitializeDirect
  <2>2. \/ /\ stage' = "built" /\ checkout' = c /\ signed'.ops = Amounts!Built(c)
           /\ Amounts!Preflight(holder', c)
        \/ stage' = "refused" /\ UNCHANGED <<checkout, signed>>
    BY <1>4 DEF Amounts!InitializeDirect
  <2>3. Sold(c) BY <1>1, <2>1, Checkouts
  <2> HIDE DEF c
  <2>4. CASE stage' = "refused" /\ UNCHANGED <<checkout, signed>>
    <3>1. StageHolds(stage', offer', checkout', signed', holder') BY <2>4 DEF StageHolds
    <3> QED BY <1>1, <2>1, <2>4, <3>1 DEF AmountInv
  <2>5. CASE /\ stage' = "built" /\ checkout' = c /\ signed'.ops = Amounts!Built(c)
             /\ Amounts!Preflight(holder', c)
    <3>1. Ops(Amounts!Built(c)) /\ Len(Amounts!Built(c)) = Len(Amounts!Shares(c))
      BY <2>3, BuiltAre, PathHasAll
    <3>2. StageHolds(stage', offer', checkout', signed', holder')
      BY <2>1, <2>5, <3>1 DEF StageHolds
    <3> QED BY <1>1, <2>1, <2>3, <2>5, <3>2 DEF AmountInv
  <2> QED BY <2>2, <2>4, <2>5
<1>5. CASE Amounts!InitializePath
  <2>1. /\ Amounts!Priced(offer) /\ stage = "asked" /\ UNCHANGED <<offer, holder>>
    BY <1>5 DEF Amounts!InitializePath
  <2>2. PICK max \in IF offer.sendMax = 0 THEN SendMaxes ELSE {offer.sendMax} :
          \/ /\ stage' = "built" /\ checkout' = Amounts!Checkout(max)
             /\ signed'.ops = Amounts!Built(Amounts!Checkout(max))
          \/ stage' = "refused" /\ UNCHANGED <<checkout, signed>>
    BY <1>5 DEF Amounts!InitializePath
  <2>3. max \in Nat BY <1>1, AmountsAssumption DEF Offered
  <2> DEFINE c == Amounts!Checkout(max)
  <2>4. Sold(c) BY <1>1, <2>1, <2>3, Checkouts
  <2> HIDE DEF c
  <2>5. holder = Amounts!Unseen BY <1>1, <2>1 DEF StageHolds
  <2>6. CASE stage' = "refused" /\ UNCHANGED <<checkout, signed>>
    <3>1. StageHolds(stage', offer', checkout', signed', holder') BY <2>6 DEF StageHolds
    <3> QED BY <1>1, <2>1, <2>6, <3>1 DEF AmountInv
  <2>7. CASE stage' = "built" /\ checkout' = c /\ signed'.ops = Amounts!Built(c)
    <3>1. Ops(Amounts!Built(c)) BY <2>4, BuiltAre
    <3>2. StageHolds(stage', offer', checkout', signed', holder')
      BY <2>1, <2>5, <2>7, <3>1 DEF StageHolds
    <3> QED BY <1>1, <2>1, <2>4, <2>7, <3>2 DEF AmountInv
  <2> QED BY <2>2, <2>6, <2>7 DEF c
<1>6. CASE Amounts!InitializeDonation
  <2> DEFINE c == [Amounts!Checkout(0) EXCEPT !.percent = 0]
  <2>1. /\ Amounts!Priced(offer) /\ stage = "asked" /\ UNCHANGED <<offer, holder>>
        /\ stage' = "built" /\ checkout' = c /\ signed'.ops = Amounts!Built(c)
    BY <1>6 DEF Amounts!InitializeDonation
  <2>2. Sold(c) BY <1>1, <2>1, Checkouts
  <2> HIDE DEF c
  <2>3. holder = Amounts!Unseen BY <1>1, <2>1 DEF StageHolds
  <2>4. Ops(Amounts!Built(c)) BY <2>2, BuiltAre
  <2>5. StageHolds(stage', offer', checkout', signed', holder')
    BY <2>1, <2>3, <2>4 DEF StageHolds
  <2> QED BY <1>1, <2>1, <2>2, <2>5 DEF AmountInv
<1> QED BY <1>2, <1>3, <1>4, <1>5, <1>6

\* What a wallet signs is one or two operations.
LEMMA SignSteps == ASSUME AmountInv, Amounts!Sign PROVE AmountInv'
<1>1. /\ Offered(offer) /\ Sold(checkout)
      /\ StageHolds(stage, offer, checkout, signed, holder)
  BY DEF AmountInv
<1> DEFINE s == Amounts!Shares(checkout)
           amounts == {s[i].amount : i \in DOMAIN s}
           ops(codes) == [kind : {"payment"}, to : {Creator, Platform},
                          amount : amounts \cup {checkout.amount}, code : codes]
<1>2. /\ stage = "built" /\ stage' = "signed" /\ holder' = Amounts!Unseen
      /\ UNCHANGED <<offer, checkout>>
  BY DEF Amounts!Sign
<1>3. \/ signed'.ops = signed.ops \/ signed'.ops = Amounts!Link(checkout)
      \/ signed'.ops \in [1 .. 1 -> ops({checkout.code, "USDC"})]
      \/ signed'.ops \in [1 .. 2 -> ops({checkout.code})]
  <2>1. \/ signed' = signed \/ signed' = [signed EXCEPT !.memo = FALSE]
        \/ signed' = [memo |-> TRUE, ops |-> Amounts!Link(checkout)]
        \/ signed' \in [memo : {TRUE}, ops : [1 .. 1 -> ops({checkout.code, "USDC"})]
                                             \cup [1 .. 2 -> ops({checkout.code})]]
    BY DEF Amounts!Sign
  <2>2. signed' = [signed EXCEPT !.memo = FALSE] => signed'.ops = signed.ops OBVIOUS
  <2>3. signed' = [memo |-> TRUE, ops |-> Amounts!Link(checkout)]
          => signed'.ops = Amounts!Link(checkout)
    OBVIOUS
  <2> HIDE DEF ops
  <2>4. signed' \in [memo : {TRUE}, ops : [1 .. 1 -> ops({checkout.code, "USDC"})]
                                          \cup [1 .. 2 -> ops({checkout.code})]]
          => signed'.ops \in [1 .. 1 -> ops({checkout.code, "USDC"})]
                             \cup [1 .. 2 -> ops({checkout.code})]
    OBVIOUS
  <2> QED BY <2>1, <2>2, <2>3, <2>4
<1>4. amounts \subseteq Nat /\ checkout.amount \in Nat
  <2>1. PICK n \in {1, 2} : DOMAIN s = 1..n /\ \A i \in 1..n : s[i].amount \in Nat
    BY <1>1, SharesAmounts
  <2> HIDE DEF s
  <2>2. amounts \subseteq Nat BY <2>1
  <2> QED BY <1>1, <2>2 DEF Sold
<1> HIDE DEF amounts
<1>5. \A codes : \A op \in ops(codes) : op.amount \in Nat BY <1>4
<1> HIDE DEF ops
<1>6. Ops(signed'.ops)
  <2>1. CASE signed'.ops = signed.ops BY <1>1, <1>2, <2>1 DEF StageHolds
  <2>2. CASE signed'.ops = Amounts!Link(checkout) BY <1>1, <2>2, LinkIs
  <2>3. ASSUME NEW n \in {1, 2}, NEW codes, NEW q \in [1..n -> ops(codes)] PROVE Ops(q)
    <3>1. DOMAIN q = 1..n /\ \A i \in 1..n : q[i] \in ops(codes) BY <2>3
    <3>2. \A i \in 1..n : q[i].amount \in Nat BY <1>5, <3>1
    <3> QED BY <3>1, <3>2 DEF Ops
  <2> QED BY <1>3, <2>1, <2>2, <2>3
<1>7. StageHolds(stage', offer', checkout', signed', holder') BY <1>2, <1>6 DEF StageHolds
<1> QED BY <1>1, <1>2, <1>7 DEF AmountInv

\* A transaction on its way to the ledger, and back.
LEMMA LedgerSteps ==
  ASSUME AmountInv,
         \/ Amounts!SubmitPayment \/ Amounts!SubmitSponsored \/ Amounts!Verify \/ Amounts!BuildReverse
  PROVE  AmountInv'
<1>1. /\ Offered(offer) /\ Sold(checkout)
      /\ StageHolds(stage, offer, checkout, signed, holder)
  BY DEF AmountInv
<1>2. /\ Amounts!Validated(checkout)
           <=> signed.memo /\ Delivers(signed.ops, checkout, {"payment"}, "USDC")
      /\ Amounts!Matches(checkout)
           <=> Delivers(signed.ops, checkout, {"payment", "path"}, checkout.code)
  BY DEF Amounts!Validated, Amounts!Matches, Delivers
<1>3. UNCHANGED <<offer, checkout, signed>>
  BY DEF Amounts!SubmitPayment, Amounts!SubmitSponsored, Amounts!Verify, Amounts!BuildReverse
<1>4. CASE Amounts!SubmitPayment
  <2>1. /\ stage = "signed" /\ UNCHANGED holder
        /\ \/ stage' = "landed"
           \/ stage' = "rejected" /\ ~Amounts!Validated(checkout)
    BY <1>4 DEF Amounts!SubmitPayment
  <2>2. StageHolds(stage', offer', checkout', signed', holder')
    BY <1>1, <1>2, <1>3, <2>1 DEF StageHolds
  <2> QED BY <1>1, <1>3, <2>2 DEF AmountInv
<1>5. CASE Amounts!SubmitSponsored
  <2>1. stage = "signed" /\ UNCHANGED holder /\ stage' \in {"landed", "built"}
    BY <1>5 DEF Amounts!SubmitSponsored
  <2>2. StageHolds(stage', offer', checkout', signed', holder')
    BY <1>1, <1>3, <2>1 DEF StageHolds
  <2> QED BY <1>1, <1>3, <2>2 DEF AmountInv
<1>6. CASE Amounts!Verify
  <2>1. /\ stage = "landed" /\ UNCHANGED holder
        /\ \/ stage' = "verified" /\ Amounts!Matches(checkout)
           \/ stage' = "rejected" /\ ~Amounts!Matches(checkout)
    BY <1>6 DEF Amounts!Verify
  <2>2. StageHolds(stage', offer', checkout', signed', holder')
    BY <1>1, <1>2, <1>3, <2>1 DEF StageHolds
  <2> QED BY <1>1, <1>3, <2>2 DEF AmountInv
<1>7. CASE Amounts!BuildReverse
  <2>1. /\ stage = "verified" /\ stage' = "reversed"
        /\ holder'.balance = checkout.amount
    BY <1>7 DEF Amounts!BuildReverse, Amounts!Unseen
  <2>2. StageHolds(stage', offer', checkout', signed', holder')
    BY <1>1, <1>3, <2>1 DEF StageHolds
  <2> QED BY <1>1, <1>3, <2>2 DEF AmountInv
<1> QED BY <1>4, <1>5, <1>6, <1>7

LEMMA AmountSteps == ASSUME AmountInv, Amounts!Next PROVE AmountInv'
BY AskedSteps, SignSteps, LedgerSteps DEF Amounts!Next

\* What a wallet receives of one operation, and of all of them.
OfOne(w, op, code) == IF op.to = w /\ op.code = code THEN op.amount ELSE 0

LEMMA ReceivedIs ==
  ASSUME NEW w, NEW q, NEW n \in {1, 2}, DOMAIN q = 1..n, \A i \in 1..n : q[i].amount \in Nat
  PROVE  /\ Amounts!Received(w, q) = IF n = 1 THEN OfOne(w, q[1], checkout.code)
                                     ELSE OfOne(w, q[1], checkout.code) + OfOne(w, q[2], checkout.code)
         /\ \A i \in 1..n : OfOne(w, q[i], checkout.code) \in Nat
<1> DEFINE t == [i \in DOMAIN q |-> OfOne(w, q[i], checkout.code)]
<1>1. Amounts!Received(w, q) = Amounts!Total(t) BY DEF Amounts!Received, OfOne
<1>2. DOMAIN t = 1..n /\ \A i \in 1..n : t[i] = OfOne(w, q[i], checkout.code) /\ t[i] \in Nat
  BY DEF OfOne
<1> HIDE DEF t
<1>3. \A i \in 1..n : t[i] \in Int BY <1>2
<1>4. Amounts!Total(t) = IF n = 1 THEN t[1] ELSE t[1] + t[2] BY <1>2, <1>3, TotalsOf
<1>5. CASE n = 1 BY <1>1, <1>2, <1>4, <1>5
<1>6. CASE n = 2
  <2>1. 1 \in 1..n /\ 2 \in 1..n BY <1>6
  <2> QED BY <1>1, <1>2, <1>4, <1>6, <2>1
<1> QED BY <1>5, <1>6

\* Operations that deliver every share pay each wallet its shares: two shares differ, so
\* one operation does not stand for both.
LEMMA DeliversAll ==
  ASSUME Sold(checkout), Ops(signed.ops),
         Delivers(signed.ops, checkout, {"payment", "path"}, checkout.code), NEW w
  PROVE  /\ Amounts!Received(w, signed.ops) \in Nat
         /\ Amounts!Received(w, signed.ops)
                >= Amounts!Received(w, Amounts!DirectOperations(checkout))
         /\ Amounts!Received(w, Amounts!DirectOperations(checkout)) \in Nat
<1> DEFINE s == Amounts!Shares(checkout)   q == signed.ops
           d == Amounts!DirectOperations(checkout)   code == checkout.code
           of(op) == OfOne(w, op, code)
<1>1. OneShare(s, checkout) \/ TwoShares(s, checkout) BY SharesAre
<1>2. PICK m \in {1, 2} : DOMAIN s = 1..m /\ \A i \in 1..m : s[i].amount \in Nat BY SharesAmounts
<1>3. PICK n \in {1, 2} : DOMAIN q = 1..n /\ \A i \in 1..n : q[i].amount \in Nat BY DEF Ops
<1>4. \A i \in 1..m : \E j \in 1..n :
          q[j].to = s[i].to /\ q[j].amount = s[i].amount /\ q[j].code = code
  <2>1. ASSUME NEW i \in 1..m
        PROVE  \E j \in 1..n : q[j].to = s[i].to /\ q[j].amount = s[i].amount /\ q[j].code = code
    <3>1. PICK j \in 1..n : \E kind \in {"payment", "path"} :
              q[j] = Amounts!Operation(kind, s[i], code)
      BY <1>2, <1>3 DEF Delivers
    <3>2. PICK kind \in {"payment", "path"} : q[j] = Amounts!Operation(kind, s[i], code) BY <3>1
    <3> HIDE DEF q, s, code
    <3> QED BY <3>2 DEF Amounts!Operation
  <2> QED BY <2>1
<1>5. /\ DOMAIN d = 1..m
      /\ \A i \in 1..m : d[i].to = s[i].to /\ d[i].amount = s[i].amount /\ d[i].code = code
  BY <1>2 DEF Amounts!DirectOperations, Amounts!Operation
<1>6. \A i \in 1..m : d[i].amount \in Nat BY <1>2, <1>5
<1> HIDE DEF s, q, d, code
<1>7. /\ Amounts!Received(w, q) = IF n = 1 THEN of(q[1]) ELSE of(q[1]) + of(q[2])
      /\ \A i \in 1..n : of(q[i]) \in Nat
  BY <1>3, ReceivedIs DEF code
<1>8. /\ Amounts!Received(w, d) = IF m = 1 THEN of(d[1]) ELSE of(d[1]) + of(d[2])
      /\ \A i \in 1..m : of(d[i]) \in Nat
  BY <1>5, <1>6, ReceivedIs DEF code
<1>9. \A i \in 1..m : \E j \in 1..n : of(q[j]) = of(d[i]) /\ q[j].amount = s[i].amount
  <2>1. ASSUME NEW i \in 1..m
        PROVE  \E j \in 1..n : of(q[j]) = of(d[i]) /\ q[j].amount = s[i].amount
    <3>1. PICK j \in 1..n : q[j].to = s[i].to /\ q[j].amount = s[i].amount /\ q[j].code = code
      BY <1>4
    <3>2. d[i].to = s[i].to /\ d[i].amount = s[i].amount /\ d[i].code = code BY <1>5
    <3>3. of(q[j]) = of(d[i]) BY <3>1, <3>2 DEF OfOne
    <3> QED BY <3>1, <3>3
  <2> QED BY <2>1
<1> DEFINE g == [i \in 1..n |-> of(q[i])]   h == [i \in 1..m |-> of(d[i])]
           a == [i \in 1..n |-> q[i].amount]
<1>10. /\ \A i \in 1..n : g[i] = of(q[i]) /\ g[i] \in Nat
       /\ \A i \in 1..m : h[i] = of(d[i]) /\ h[i] \in Nat
  BY <1>7, <1>8
<1>11. \A i \in 1..n : a[i] = q[i].amount OBVIOUS
<1> HIDE DEF g, h, a, of
<1>12. \A i \in 1..m : \E j \in 1..n : g[j] = h[i] /\ a[j] = s[i].amount BY <1>9, <1>10, <1>11
<1>13. /\ Amounts!Received(w, q) = IF n = 1 THEN g[1] ELSE g[1] + g[2]
       /\ Amounts!Received(w, d) = IF m = 1 THEN h[1] ELSE h[1] + h[2]
  <2>1. 1 \in 1..n /\ 1 \in 1..m OBVIOUS
  <2>2. (n = 2 => 2 \in 1..n) /\ (m = 2 => 2 \in 1..m) OBVIOUS
  <2> QED BY <1>7, <1>8, <1>10, <2>1, <2>2
<1>14. 1 \in 1..n /\ 1 \in 1..m OBVIOUS
<1>15. PICK j \in 1..n : g[j] = h[1] /\ a[j] = s[1].amount BY <1>12, <1>14
<1>16. CASE m = 1
  <2>1. Amounts!Received(w, d) = h[1] BY <1>13, <1>16
  <2>2. CASE n = 1
    <3>1. j = 1 BY <2>2
    <3> QED BY <1>10, <1>13, <1>14, <1>15, <2>1, <2>2, <3>1 DEF q, d
  <2>3. CASE n = 2
    <3>1. j \in {1, 2} BY <2>3
    <3>2. g[1] \in Nat /\ g[2] \in Nat /\ h[1] \in Nat BY <1>10, <1>14, <2>3
    <3>3. Amounts!Received(w, q) = g[1] + g[2] BY <1>13, <2>3
    <3>4. g[1] + g[2] >= h[1] /\ g[1] + g[2] \in Nat BY <1>15, <3>1, <3>2
    <3> QED BY <2>1, <3>2, <3>3, <3>4 DEF q, d
  <2> QED BY <2>2, <2>3
<1>17. CASE m = 2
  <2>1. PICK k \in 1..n : g[k] = h[2] /\ a[k] = s[2].amount
    <3>1. 2 \in 1..m BY <1>17
    <3> QED BY <1>12, <3>1
  <2>2. s[2].amount < s[1].amount /\ s[2].amount \in Nat /\ s[1].amount \in Nat
    <3>1. TwoShares(s, checkout)
      <4>1. 1..1 # 1..2
        <5>1. 2 \in 1..2 /\ 2 \notin 1..1 OBVIOUS
        <5> QED BY <5>1
      <4> QED BY <1>1, <1>2, <1>17, <4>1 DEF OneShare
    <3> QED BY <3>1 DEF TwoShares
  <2>3. j # k BY <1>15, <2>1, <2>2
  <2>4. n = 2 /\ ((j = 1 /\ k = 2) \/ (j = 2 /\ k = 1))
    <3>1. CASE n = 1 BY <2>3, <3>1
    <3>2. CASE n = 2 BY <2>3, <3>2
    <3> QED BY <3>1, <3>2
  <2>5. g[1] \in Nat /\ g[2] \in Nat /\ h[1] \in Nat /\ h[2] \in Nat
    <3>1. 1 \in 1..n /\ 2 \in 1..n /\ 1 \in 1..m /\ 2 \in 1..m BY <1>17, <2>4
    <3> QED BY <1>10, <3>1
  <2>6. Amounts!Received(w, q) = g[1] + g[2] /\ Amounts!Received(w, d) = h[1] + h[2]
    BY <1>13, <1>17, <2>4
  <2>7. g[1] + g[2] = h[1] + h[2] BY <1>15, <2>1, <2>4, <2>5
  <2> QED BY <2>5, <2>6, <2>7 DEF q, d
<1> QED BY <1>16, <1>17

\* The shares of a checkout are all received by one of the two wallets.
LEMMA DirectPaysAll ==
  ASSUME Sold(checkout)
  PROVE  checkout.amount <= Amounts!Received(Creator, Amounts!DirectOperations(checkout))
                            + Amounts!Received(Platform, Amounts!DirectOperations(checkout))
<1> DEFINE s == Amounts!Shares(checkout)   d == Amounts!DirectOperations(checkout)
           code == checkout.code   c == checkout
           x(w) == Amounts!Received(w, d)
<1>1. OneShare(s, c) \/ TwoShares(s, c) BY SharesAre
<1>2. PICK m \in {1, 2} : DOMAIN s = 1..m /\ \A i \in 1..m : s[i].amount \in Nat BY SharesAmounts
<1>3. /\ DOMAIN d = 1..m
      /\ \A i \in 1..m : d[i].to = s[i].to /\ d[i].amount = s[i].amount /\ d[i].code = code
  BY <1>2 DEF Amounts!DirectOperations, Amounts!Operation
<1>4. \A i \in 1..m : d[i].amount \in Nat BY <1>2, <1>3
<1>5. c.creator \in {Creator, Platform} /\ c.amount \in Nat BY DEF Sold
<1> HIDE DEF s, d, code, c
<1>6. \A w : /\ x(w) = IF m = 1 THEN OfOne(w, d[1], code)
                       ELSE OfOne(w, d[1], code) + OfOne(w, d[2], code)
             /\ \A i \in 1..m : OfOne(w, d[i], code) \in Nat
  BY <1>3, <1>4, ReceivedIs DEF code
<1>7. 1 \in 1..m OBVIOUS
<1>8. ~(1..1 = 1..2)
  <2>1. 2 \in 1..2 /\ 2 \notin 1..1 OBVIOUS
  <2> QED BY <2>1
<1>9. CASE m = 1
  <2>1. s[1].to = c.creator /\ s[1].amount = c.amount
    BY <1>1, <1>2, <1>8, <1>9 DEF OneShare, TwoShares
  <2>2. d[1].to = c.creator /\ d[1].amount = c.amount /\ d[1].code = code BY <1>3, <1>7, <2>1
  <2>3. \A w : x(w) = OfOne(w, d[1], code) /\ x(w) \in Nat BY <1>6, <1>7, <1>9
  <2>4. x(c.creator) = c.amount BY <2>2, <2>3 DEF OfOne
  <2> HIDE DEF x
  <2>5. x(Creator) \in Nat /\ x(Platform) \in Nat BY <2>3
  <2>6. x(Creator) = c.amount \/ x(Platform) = c.amount BY <1>5, <2>4
  <2>7. c.amount <= x(Creator) + x(Platform) BY <1>5, <2>5, <2>6
  <2> QED BY <2>7 DEF x, d, c
<1>10. CASE m = 2
  <2>1. 2 \in 1..m BY <1>10
  <2>2. /\ s[1].to = c.creator /\ s[2].to = Platform
        /\ s[1].amount \in Nat /\ s[2].amount \in Nat /\ s[1].amount + s[2].amount = c.amount
    BY <1>1, <1>2, <1>8, <1>10 DEF OneShare, TwoShares
  <2>3. /\ d[1].to = c.creator /\ d[1].amount = s[1].amount /\ d[1].code = code
        /\ d[2].to = Platform /\ d[2].amount = s[2].amount /\ d[2].code = code
    BY <1>3, <1>7, <2>1, <2>2
  <2> DEFINE y(w) == OfOne(w, d[1], code)   z(w) == OfOne(w, d[2], code)
  <2>4. \A w : x(w) = y(w) + z(w) /\ y(w) \in Nat /\ z(w) \in Nat BY <1>6, <1>7, <1>10, <2>1
  <2>5. y(c.creator) = s[1].amount /\ z(Platform) = s[2].amount BY <2>3 DEF OfOne
  <2> HIDE DEF x, y, z
  <2>6. /\ x(Creator) = y(Creator) + z(Creator) /\ x(Platform) = y(Platform) + z(Platform)
        /\ y(Creator) \in Nat /\ z(Creator) \in Nat /\ y(Platform) \in Nat /\ z(Platform) \in Nat
    BY <2>4
  <2>7. y(Creator) = s[1].amount \/ y(Platform) = s[1].amount BY <1>5, <2>5
  <2>8. c.amount <= x(Creator) + x(Platform) BY <2>2, <2>5, <2>6, <2>7
  <2> QED BY <2>8 DEF x, d, c
<1> QED BY <1>9, <1>10

LEMMA AmountsSound == AmountInv => Amounts!AmountsSound
<1> SUFFICES ASSUME AmountInv PROVE Amounts!AmountsSound OBVIOUS
<1>1. /\ Offered(offer) /\ Sold(checkout)
      /\ StageHolds(stage, offer, checkout, signed, holder)
  BY DEF AmountInv
<1>2. Amounts!RoundTrips
  <2>1. checkout.amount \in Nat BY <1>1 DEF Sold
  <2> QED BY <2>1, ReadsBack DEF Amounts!RoundTrips
<1>3. Amounts!SplitExact BY <1>1, SplitAddsUp DEF Amounts!SplitExact
<1>4. Amounts!PathComplete BY <1>1, PathHasAll DEF Amounts!PathComplete
<1>5. Amounts!SlippageBounded BY <1>1 DEF Offered, Amounts!SlippageBounded
<1>6. Amounts!VerifiedIsPaid
  <2> SUFFICES ASSUME stage \in {"verified", "reversed"}
               PROVE  /\ \A w \in {Creator, Platform} :
                             Amounts!Received(w, signed.ops)
                                 >= Amounts!Received(w, Amounts!DirectOperations(checkout))
                      /\ stage = "reversed" =>
                             holder.balance <= Amounts!Received(Creator, signed.ops)
                                               + Amounts!Received(Platform, signed.ops)
    BY DEF Amounts!VerifiedIsPaid
  <2>1. /\ Delivers(signed.ops, checkout, {"payment", "path"}, checkout.code) /\ Ops(signed.ops)
        /\ stage = "reversed" => holder.balance = checkout.amount
    BY <1>1 DEF StageHolds
  <2> DEFINE x(w) == Amounts!Received(w, signed.ops)
             y(w) == Amounts!Received(w, Amounts!DirectOperations(checkout))
  <2>2. \A w : x(w) \in Nat /\ y(w) \in Nat /\ x(w) >= y(w) BY <1>1, <2>1, DeliversAll
  <2>3. checkout.amount <= y(Creator) + y(Platform) BY <1>1, DirectPaysAll
  <2>4. checkout.amount \in Nat BY <1>1 DEF Sold
  <2> HIDE DEF x, y
  <2>5. /\ x(Creator) \in Nat /\ y(Creator) \in Nat /\ x(Creator) >= y(Creator)
        /\ x(Platform) \in Nat /\ y(Platform) \in Nat /\ x(Platform) >= y(Platform)
    BY <2>2
  <2>6. checkout.amount <= x(Creator) + x(Platform) BY <2>3, <2>4, <2>5
  <2>7. \A w \in {Creator, Platform} : x(w) >= y(w) BY <2>5
  <2> QED BY <2>1, <2>6, <2>7 DEF x, y
<1>7. Amounts!PreflightSound
  <2> SUFFICES ASSUME stage = "built", holder # Amounts!Unseen, Amounts!Issued(checkout.code)
               PROVE  /\ Amounts!Accepted(holder, checkout, Len(signed.ops))
                      /\ Amounts!Advice(offer, holder, checkout) = "pay"
    BY DEF Amounts!PreflightSound
  <2>1. /\ Amounts!Preflight(holder, checkout) /\ Amounts!Resolved(offer)
        /\ Len(signed.ops) = Len(Amounts!Shares(checkout))
    BY <1>1 DEF StageHolds
  <2>2. Amounts!Accepted(holder, checkout, Len(signed.ops))
    BY <2>1 DEF Amounts!Preflight, Amounts!Accepted, Amounts!Held
  <2>3. holder.payeeTrusts BY <2>1 DEF Amounts!Preflight
  <2>4. ~(offer.wallet = None /\ offer.collect = "off") BY <2>1 DEF Amounts!Resolved
  <2> QED BY <2>1, <2>2, <2>3, <2>4 DEF Amounts!Advice
<1>8. Amounts!BuiltIsAccepted
  <2> SUFFICES ASSUME stage = "rejected", signed.memo, signed.ops = Amounts!Built(checkout),
                      checkout.code = "USDC", ~(checkout.sendMax > 0)
               PROVE  FALSE
    BY DEF Amounts!BuiltIsAccepted, Amounts!Rejected
  <2>1. checkout.sendMax = 0 BY <1>1 DEF Sold
  <2>2. signed.ops = Amounts!DirectOperations(checkout) BY <2>1 DEF Amounts!Built
  <2>3. /\ DOMAIN signed.ops = DOMAIN Amounts!Shares(checkout)
        /\ \A i \in DOMAIN Amounts!Shares(checkout) :
               signed.ops[i] = Amounts!Operation("payment", Amounts!Shares(checkout)[i], "USDC")
    BY <2>2 DEF Amounts!DirectOperations
  <2>4. /\ Delivers(signed.ops, checkout, {"payment"}, "USDC")
        /\ Delivers(signed.ops, checkout, {"payment", "path"}, "USDC")
    BY <2>3 DEF Delivers
  <2> QED BY <1>1, <2>4 DEF StageHolds
<1> QED BY <1>2, <1>3, <1>4, <1>5, <1>6, <1>7, <1>8 DEF Amounts!AmountsSound

-----------------------------------------------------------------------------
(* The on-ramp *)

ASSUME OnrampAssumption ==
    None \notin [status : {"created", "pending", "completed", "failed"}, completedAt : BOOLEAN]

\* A record, and what a webhook has loaded and will write.
Purchase == [status : {"created", "pending", "completed", "failed"}, completedAt : BOOLEAN]

PurchaseHolds(r, s) ==
    /\ r.status = "completed" => r.completedAt
    /\ r.completedAt => s = "completed"
    /\ r.status = "failed" => s = "failed"

WebhookHolds(h, r, s) ==
    /\ h.doc \in Purchase /\ h.status \in {"pending", "completed", "failed"}
    /\ h.doc.status = "completed" => h.doc.completedAt
    /\ h.doc.completedAt => r.completedAt
    /\ h.status \in {"completed", "failed"} => s = h.status

OnrampInv ==
    /\ record = None => reported = {} /\ \A h \in Handlers : handler[h] = Onramp!Idle
    /\ record # None => record \in Purchase /\ PurchaseHolds(record, provider)
    /\ \A s \in reported \cap {"completed", "failed"} : provider = s
    /\ handler = [h \in Handlers |-> handler[h]]
    /\ \A h \in Handlers : handler[h] # Onramp!Idle => WebhookHolds(handler[h], record, provider)

LEMMA OnrampInit == Onramp!Init => OnrampInv
BY DEF Onramp!Init, OnrampInv

LEMMA OnrampSteps == ASSUME OnrampInv, Onramp!Next PROVE OnrampInv'
<1>1. /\ record = None => reported = {} /\ \A h \in Handlers : handler[h] = Onramp!Idle
      /\ record # None => record \in Purchase /\ PurchaseHolds(record, provider)
      /\ \A s \in reported \cap {"completed", "failed"} : provider = s
      /\ handler = [h \in Handlers |-> handler[h]]
      /\ \A h \in Handlers : handler[h] # Onramp!Idle => WebhookHolds(handler[h], record, provider)
  BY DEF OnrampInv
<1>2. CASE Onramp!CreateSession
  <2>1. /\ record = None /\ record' = [status |-> "created", completedAt |-> FALSE]
        /\ UNCHANGED <<provider, reported, handler>>
    BY <1>2 DEF Onramp!CreateSession
  <2>2. record' \in Purchase /\ PurchaseHolds(record', provider')
    <3>1. [status |-> "created", completedAt |-> FALSE] \in Purchase BY DEF Purchase
    <3> QED BY <2>1, <3>1 DEF PurchaseHolds
  <2>3. record' # None BY <2>2, OnrampAssumption DEF Purchase
  <2> QED BY <1>1, <2>1, <2>2, <2>3 DEF OnrampInv
<1>3. CASE Onramp!ProviderMoves
  <2>1. PICK s \in {"waitingPayment", "pending", "waitingAuthorization", "completed", "failed"} :
            /\ record # None /\ provider \notin {"completed", "failed"}
            /\ provider' = s /\ reported' = reported \cup {s} /\ UNCHANGED <<record, handler>>
    BY <1>3 DEF Onramp!ProviderMoves
  <2>2. PurchaseHolds(record', provider') BY <1>1, <2>1 DEF PurchaseHolds
  <2>3. \A t \in reported' \cap {"completed", "failed"} : provider' = t BY <1>1, <2>1
  <2>4. ASSUME NEW h \in Handlers, handler'[h] # Onramp!Idle
        PROVE  WebhookHolds(handler'[h], record', provider')
    BY <1>1, <2>1, <2>4 DEF WebhookHolds
  <2> QED BY <1>1, <2>1, <2>2, <2>3, <2>4 DEF OnrampInv
<1>4. ASSUME NEW h \in Handlers, Onramp!Receive(h) PROVE OnrampInv'
  <2>1. PICK s \in reported :
            handler' = [handler EXCEPT ![h] = [status |-> Onramp!MapProviderStatus(s), doc |-> record]]
    BY <1>4 DEF Onramp!Receive
  <2>2. UNCHANGED <<provider, reported, record>> BY <1>4 DEF Onramp!Receive
  <2>3. record # None /\ record \in Purchase /\ PurchaseHolds(record, provider) BY <1>1
  <2> DEFINE k == [status |-> Onramp!MapProviderStatus(s), doc |-> record]
  <2>4. WebhookHolds(k, record, provider)
    BY <1>1, <2>3 DEF WebhookHolds, PurchaseHolds, Onramp!MapProviderStatus
  <2> HIDE DEF k
  <2>5. handler' = [handler EXCEPT ![h] = k] BY <2>1 DEF k
  <2>6. \A g \in Handlers : handler'[g] = IF g = h THEN k ELSE handler[g] BY <1>1, <2>5
  <2>7. handler' = [g \in Handlers |-> handler'[g]] BY <1>1, <2>5
  <2> QED BY <1>1, <2>2, <2>3, <2>4, <2>6, <2>7 DEF OnrampInv
<1>5. ASSUME NEW h \in Handlers, Onramp!Apply(h) PROVE OnrampInv'
  <2> DEFINE doc == handler[h].doc   s == handler[h].status
  <2>1. /\ handler[h] # Onramp!Idle
        /\ record' = [status |-> IF doc.status = s THEN record.status ELSE s,
                      completedAt |-> record.completedAt \/ (s = "completed" /\ ~doc.completedAt)]
        /\ handler' = [handler EXCEPT ![h] = Onramp!Idle] /\ UNCHANGED <<provider, reported>>
    BY <1>5 DEF Onramp!Apply, Onramp!Applied
  <2>2. WebhookHolds(handler[h], record, provider) BY <1>1, <2>1
  <2>3. record # None /\ record \in Purchase /\ PurchaseHolds(record, provider) BY <1>1, <2>1
  <2>4. record' \in Purchase BY <2>1, <2>2, <2>3 DEF Purchase, WebhookHolds
  <2>5. PurchaseHolds(record', provider') BY <2>1, <2>2, <2>3, <2>4 DEF Purchase, PurchaseHolds, WebhookHolds
  <2>6. record.completedAt => record'.completedAt BY <2>1
  <2>7. \A g \in Handlers : handler'[g] = IF g = h THEN Onramp!Idle ELSE handler[g] BY <1>1, <2>1
  <2>8. handler' = [g \in Handlers |-> handler'[g]] BY <1>1, <2>1
  <2>9. ASSUME NEW g \in Handlers, handler'[g] # Onramp!Idle
        PROVE  WebhookHolds(handler'[g], record', provider')
    <3>1. handler'[g] = handler[g] BY <2>7, <2>9
    <3>2. WebhookHolds(handler[g], record, provider) BY <1>1, <2>9, <3>1
    <3> QED BY <2>1, <2>6, <3>1, <3>2 DEF WebhookHolds
  <2>10. record' # None BY <2>4, OnrampAssumption DEF Purchase
  <2> QED BY <1>1, <2>1, <2>4, <2>5, <2>8, <2>9, <2>10 DEF OnrampInv
<1> QED BY <1>2, <1>3, <1>4, <1>5 DEF Onramp!Next

LEMMA OnrampHolds == OnrampInv => Onramp!OnrampSound
BY DEF OnrampInv, PurchaseHolds, Onramp!OnrampSound

\* For any number of decimals, any prices, fees and costs of a path, and any webhooks in
\* progress: a price survives being written, a fee's split and a path's operations are
\* whole, a quote stays within its margin, what is verified paid every wallet its share
\* and what is reversed was paid, what the server built of USDC is not refused, and a fiat
\* purchase is recorded as it ended.
THEOREM AmountsKept == NetworkSpec => []AmountsHold
<1> DEFINE Inv == AmountInv /\ OnrampInv
<1>1. NetworkInit => Inv BY AmountInit, OnrampInit DEF NetworkInit
<1>2. AmountInv /\ UNCHANGED amountVars => AmountInv' BY DEF AmountInv, amountVars
<1>3. OnrampInv /\ UNCHANGED onrampVars => OnrampInv' BY DEF OnrampInv, onrampVars
<1>4. [NetworkNext]_allVars => /\ Amounts!Next \/ UNCHANGED amountVars
                               /\ Onramp!Next \/ UNCHANGED onrampVars
  BY DEF NetworkNext, PaymentNext, ReaderNext, paymentVars, allVars
<1>5. Inv /\ [NetworkNext]_allVars => Inv' BY <1>2, <1>3, <1>4, AmountSteps, OnrampSteps
<1>6. Inv => AmountsHold BY AmountsSound, OnrampHolds DEF AmountsHold
<1> QED BY <1>1, <1>5, <1>6, PTL DEF NetworkSpec
=============================================================================
