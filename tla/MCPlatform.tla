---------------------------- MODULE MCPlatform ----------------------------
(***************************************************************************)
(* What users do, in one run of TLC: a behaviour follows the progress of    *)
(* one learner, her enrolments, the gifts of one item she is sent, the      *)
(* reviews of one item, the reactions to one reel, one reading group, one   *)
(* streak, the documents of the repositories or of the community, or the    *)
(* reports made while payments are confirmed and refunded.  They share no   *)
(* state.                                                                  *)
(***************************************************************************)
EXTENDS Progress, TLC, Sums

CONSTANTS k1, k2, Prerequisites, Bundle, Users, Ratings, Members, Creator, Milestones, Freezes, LastDay,
          Gifts, Fallback, MaxGrants,
          Stroops, Sessions, Threshold, Notes, MaxCalls,
          People, Options, Keys, Pages, Categories, MaxStarted,
          u1, u2, Docs, Start, Finish, MonthsCompared, LinesPerPage, CellWidth


VARIABLES enrolled, bought, stat, progress, completed, active, enrolling, enrolments, bundled,
          item, reviewing, reviewed,
          reel, derivatives, flag, reacting, reactions,
          privacy, member, posts, grouping, grouped, invited, joined,
          day, streak, counting, counted, activeDays, crossed,
          gift, balance, claims, granted, phase, call,
          subject, document, log, calling, calls,
          topic, data, history, request, requests,
          date, tx, entry, refundDoc, reading, moved,
          part    \* the part this behaviour follows

MCLessons == k1 :> {1, 2} @@ k2 :> {1}
MCQuizzes == {<<k1, 1>>}
MCXp == 1 :> 2 @@ 2 :> 3
MCPrerequisites == k1 :> {} @@ k2 :> {k1}

\* What a row of a streak may be.
StreakRow == [current : Nat, longest : Nat, last : Nat \cup {None}, freezes : 0..Freezes,
              reached : SUBSET Milestones]

ASSUME GiftsAssumption == None \notin Gifts
ASSUME RequestsAssumption == IsFiniteSet(Requests)
ASSUME FlagAssumption == None # "removed"
ASSUME StreakAssumption ==
    Freezes \in Nat /\ Milestones \subseteq Nat /\ None \notin Nat /\ None \notin StreakRow

E == INSTANCE Enrolment WITH req <- enrolling, started <- enrolments, MaxRequests <- 3

ASSUME EnrolmentAssumption == IsFiniteSet(E!Courses) /\ Bundle \subseteq E!Courses

ASSUME RecordsAssumption == Stroops \subseteq Nat /\ Threshold \in Nat \ {0}
ASSUME CommunityAssumption ==
    /\ IsFiniteSet(Pages) /\ Pages # {} /\ Pages \subseteq Nat
    /\ None \notin Categories /\ "absent" \notin Categories /\ "gone" \notin Categories
    /\ None \notin Keys

V == INSTANCE Reviews WITH req <- reviewing, started <- reviewed
R == INSTANCE Reels WITH req <- reacting, started <- reactions, MaxRequests <- 4
G == INSTANCE ReadingGroups WITH Users <- Members, req <- grouping, started <- grouped,
                                 MaxRequests <- 3
S == INSTANCE Streaks WITH req <- counting, started <- counted
Gift == INSTANCE Gifts WITH Calls <- Requests
D == INSTANCE Records
C == INSTANCE Community WITH started <- requests

\* A sponsored purchase with a fee and a donation without one, of each other's creators;
\* months of one day, January of two, and a year's end between Start and Finish.
Payments ==
    "p1" :> [type |-> "purchase", itemType |-> "course", currency |-> "USDC", amount |-> 10,
             fee |-> 1, settlement |-> "direct", sponsored |-> TRUE, buyer |-> u1,
             creator |-> u2, title |-> <<"=", ",", "quote", "a">>]
    @@ "p2" :> [type |-> "donation", itemType |-> "book", currency |-> "XLM", amount |-> 3,
                fee |-> None, settlement |-> "direct", sponsored |-> FALSE, buyer |-> u2,
                creator |-> u1, title |-> <<"(", "nl">>]
Money == INSTANCE FinancialReports WITH
             Shape <- Payments, Users <- {u1, u2},
             MonthDays <- [m \in 1 .. 12 |-> IF m = 1 THEN 2 ELSE 1],
             Asked <- {[period |-> "monthly", year |-> 0, number |-> 0],
                       [period |-> "monthly", year |-> 0, number |-> 13],
                       [period |-> "quarterly", year |-> 2, number |-> 1],
                       [period |-> "yearly", year |-> 0, number |-> 0]}

enrolVars == <<enrolled, bought, stat, progress, completed, active, enrolling, enrolments, bundled>>
reviewVars == <<item, reviewing, reviewed>>
reelVars == <<reel, derivatives, flag, reacting, reactions>>
groupVars == <<privacy, member, posts, grouping, grouped, invited, joined>>
streakVars == <<day, streak, counting, counted, activeDays, crossed>>
giftVars == <<gift, balance, claims, granted, phase, call>>
recordVars == <<subject, document, log, calling, calls>>
communityVars == <<topic, data, history, request, requests>>
moneyVars == <<date, tx, entry, refundDoc, reading, moved>>
learnerVars == <<vars, enrolVars, reviewVars, reelVars, groupVars, streakVars, giftVars>>
sharedVars == <<recordVars, communityVars, moneyVars>>
allVars == <<learnerVars, sharedVars, part>>

Symmetric == Permutations(Requests) \cup Permutations(Gifts)

-----------------------------------------------------------------------------
\* A part that is not followed starts in one state.
PlatformInit ==
    /\ part \in {"progress", "enrolment", "reviews", "reels", "groups", "streaks", "gifts",
                "records", "community", "reports"}
    /\ Init /\ E!Init /\ V!Init /\ R!Init /\ S!Init /\ Gift!Init
    /\ G!Init /\ (part # "groups" => privacy = "public")
    /\ D!Init /\ (part # "records" => subject = "balance")
    /\ C!Init /\ (part # "community" => topic = "follow")
    /\ Money!Init

LearnerNext ==
    \/ /\ part = "progress" /\ Next
       /\ UNCHANGED <<enrolVars, reviewVars, reelVars, groupVars, streakVars, giftVars>>
    \/ /\ part = "enrolment" /\ E!Next
       /\ UNCHANGED <<vars, reviewVars, reelVars, groupVars, streakVars, giftVars>>
    \/ /\ part = "reviews" /\ V!Next
       /\ UNCHANGED <<vars, enrolVars, reelVars, groupVars, streakVars, giftVars>>
    \/ /\ part = "reels" /\ R!Next
       /\ UNCHANGED <<vars, enrolVars, reviewVars, groupVars, streakVars, giftVars>>
    \/ /\ part = "groups" /\ G!Next
       /\ UNCHANGED <<vars, enrolVars, reviewVars, reelVars, streakVars, giftVars>>
    \/ /\ part = "streaks" /\ S!Next
       /\ UNCHANGED <<vars, enrolVars, reviewVars, reelVars, groupVars, giftVars>>
    \/ /\ part = "gifts" /\ Gift!Next
       /\ UNCHANGED <<vars, enrolVars, reviewVars, reelVars, groupVars, streakVars>>

SharedNext ==
    \/ part = "records" /\ D!Next /\ UNCHANGED <<communityVars, moneyVars>>
    \/ part = "community" /\ C!Next /\ UNCHANGED <<recordVars, moneyVars>>
    \/ part = "reports" /\ Money!Next /\ UNCHANGED <<recordVars, communityVars>>

PlatformNext ==
    /\ UNCHANGED part
    /\ \/ LearnerNext /\ UNCHANGED sharedVars
       \/ SharedNext /\ UNCHANGED learnerVars

PlatformSpec == PlatformInit /\ [][PlatformNext]_allVars

-----------------------------------------------------------------------------
\* What a learner is credited with she did: certificates, badges, points and
\* streaks are earned, however her requests overlap.
CreditEarned ==
    /\ part = "progress" => ProgressEarned
    /\ part = "streaks" => S!StreakEarned

\* Course, user and progress agree about every enrolment as far as the order of
\* the writes can make them, and a private group admits nobody by itself.
MembersSound ==
    /\ part = "enrolment" => E!EnrolmentSound
    /\ part = "groups" => G!GroupSound

\* The recipient has an item through a gift only with its money, which the sender
\* did not take back, and closed gifts say who has it.
AccessIsClaimed == part = "gifts" => Gift!AccessIsClaimed /\ Gift!ClosedIsTaken

\* Documents that several requests write, through a repository or past it, are what
\* the requests made them: nothing is lost, taken twice or brought back.
RecordsKept ==
    /\ part = "records" => D!RecordsKept
    /\ part = "community" => C!CommunitySound

\* The questions of a report agree on every payment nobody touched meanwhile, a comparison
\* keeps its months apart however long it takes, periods tile the year, every breakdown adds
\* up to its total, and an export reads back as what was listed (FinancialReports).
ReportsTrue == part = "reports" => Money!ReportsTrue

\* Nobody's review or reaction changes but by a request of its own.
OthersKept ==
    [][/\ part = "reviews" => V!ReviewsStep
       /\ part = "reels" => R!ReelsStep]_<<reviewVars, reelVars>>

-----------------------------------------------------------------------------
(***************************************************************************)
(* Proof, for any number of gifts and handlers, that access through a gift *)
(* comes from its money.  A handler that resolved or claimed a balance     *)
(* relies on what it read: a gift keeps its own balance once it has one,   *)
(* and a balance that was taken stays taken.                               *)
(***************************************************************************)
GiftStatus == {"none", "pending_signature", "claimed", "reclaimed"} \cup Gift!Unclaimed
BalanceState == {"none", "sent", "held"} \cup Gift!Parties
GiftSteps == {"idle", "create", "send", "sent", "open", "expire", "claim", "claimed",
              "grant", "close"}
GiftDocument == [status : GiftStatus, balanceId : Gifts \cup {None}]
GiftCall == [pc : GiftSteps, on : Gifts \cup {None}, id : Gifts \cup {None}, who : Gift!Parties]

\* What a document says of its balance, and a handler of what it is about to write.
DocHolds(g, gi, ba, gr) ==
    /\ gi[g].balanceId \in {g, None}
    /\ gi[g].status \notin {"none", "pending_signature"} => gi[g].balanceId = g
    /\ gr[g] > 0 => ba[g] = "recipient" /\ gi[g].balanceId = g
    /\ gi[g].status = "claimed" => gr[g] > 0
    /\ gi[g].status = "reclaimed" => ba[g] = "sender"

Claiming == {"claim", "claimed", "grant", "close"}
OnGift == {"send", "sent", "open", "expire"} \cup Claiming

CallHolds(k, gi, ba, gr) ==
    /\ k.pc \in OnGift => k.on \in Gifts
    /\ k.pc \in {"open"} \cup Claiming => k.id = k.on
    /\ k.pc \in {"expire"} \cup Claiming => gi[k.on].balanceId = k.on
    /\ k.pc \in {"grant", "close"} => ba[k.on] = k.who
    /\ k.pc = "grant" => k.who = "recipient"
    /\ k.pc = "close" /\ k.who = "recipient" => gr[k.on] > 0

GiftTypes(gi, ba, gr) ==
    gi \in [Gifts -> GiftDocument] /\ ba \in [Gifts -> BalanceState] /\ gr \in [Gifts -> Nat]

CallsHold(ca, gi, ba, gr) ==
    /\ ca \in [Requests -> GiftCall]
    /\ \A c \in Requests : CallHolds(ca[c], gi, ba, gr)

GiftInv ==
    /\ GiftTypes(gift, balance, granted)
    /\ \A g \in Gifts : DocHolds(g, gift, balance, granted)
    /\ CallsHold(call, gift, balance, granted)

\* What no step takes back.
Onwards ==
    /\ \A g \in Gifts : gift[g].balanceId = g => gift'[g].balanceId = g
    /\ \A g \in Gifts : balance[g] \in Gift!Parties => balance'[g] = balance[g]
    /\ \A g \in Gifts : granted[g] > 0 => granted'[g] > 0

LEMMA CallKeeps ==
  ASSUME NEW k \in GiftCall, CallHolds(k, gift, balance, granted), Onwards
  PROVE  CallHolds(k, gift', balance', granted')
<1>1. k.who \in Gift!Parties BY DEF GiftCall
<1>2. k.pc \in {"open", "expire"} \cup Claiming => k.pc \in OnGift BY DEF OnGift, Claiming
<1>3. k.pc \in {"grant", "close"} => k.pc \in OnGift BY DEF OnGift, Claiming
<1> QED BY <1>1, <1>2, <1>3 DEF CallHolds, Onwards

LEMMA CallMoves ==
  ASSUME GiftInv, Onwards, NEW c \in Requests, NEW k \in GiftCall,
         call' = [call EXCEPT ![c] = k], CallHolds(k, gift', balance', granted')
  PROVE  CallsHold(call', gift', balance', granted')
<1>1. call \in [Requests -> GiftCall] /\ \A d \in Requests : CallHolds(call[d], gift, balance, granted)
  BY DEF GiftInv, CallsHold
<1>2. \A d \in Requests : CallHolds(call[d], gift', balance', granted') BY <1>1, CallKeeps
<1>3. \A d \in Requests : call'[d] = IF d = c THEN k ELSE call[d] BY <1>1
<1> QED BY <1>1, <1>2, <1>3 DEF CallsHold

LEMMA CallsKept ==
  ASSUME GiftInv, Onwards, call' = call
  PROVE  CallsHold(call', gift', balance', granted')
<1>1. call \in [Requests -> GiftCall] /\ \A d \in Requests : CallHolds(call[d], gift, balance, granted)
  BY DEF GiftInv, CallsHold
<1> QED BY <1>1, CallKeeps DEF CallsHold

\* The records that handlers write.
Began(pc, g) == [Gift!Idle EXCEPT !.pc = pc, !.on = g]
Went(k, pc) == [k EXCEPT !.pc = pc]

LEMMA IdleHolds ==
  /\ Gift!Idle \in GiftCall
  /\ \A gi, ba, gr : CallHolds(Gift!Idle, gi, ba, gr)
<1>1. Gift!Idle = [pc |-> "idle", on |-> None, id |-> None, who |-> "recipient"] BY DEF Gift!Idle
<1> QED BY <1>1 DEF GiftCall, GiftSteps, Gift!Parties, CallHolds, OnGift, Claiming

LEMMA BeganIs ==
  ASSUME NEW pc \in GiftSteps, NEW g \in Gifts \cup {None}
  PROVE  Began(pc, g) \in GiftCall /\ Began(pc, g).pc = pc /\ Began(pc, g).on = g
<1> DEFINE O == Gifts \cup {None}
           k == Began(pc, g)
<1>1. Gift!Idle \in [pc : GiftSteps, on : O, id : O, who : Gift!Parties] /\ g \in O
  BY IdleHolds DEF GiftCall
<1> HIDE DEF O
<1>2. k \in [pc : GiftSteps, on : O, id : O, who : Gift!Parties] BY <1>1, Zenon DEF Began
<1>3. k.pc = pc /\ k.on = g BY <1>1, Zenon DEF Began
<1> HIDE DEF k
<1>4. k \in GiftCall BY <1>2 DEF O, GiftCall
<1> QED BY <1>3, <1>4 DEF k

LEMMA WentIs ==
  ASSUME NEW k \in GiftCall, NEW pc \in GiftSteps
  PROVE  /\ Went(k, pc) \in GiftCall /\ Went(k, pc).pc = pc /\ Went(k, pc).on = k.on
         /\ Went(k, pc).id = k.id /\ Went(k, pc).who = k.who
BY DEF Went, GiftCall

LEMMA GiftEnds ==
  ASSUME GiftInv, Onwards, NEW c \in Requests, Gift!End(c)
  PROVE  CallsHold(call', gift', balance', granted')
BY IdleHolds, CallMoves DEF Gift!End

LEMMA GiftBegins ==
  ASSUME GiftInv, Onwards, NEW c \in Requests, NEW pc \in {"create", "send", "expire"},
         NEW g \in Gifts \cup {None}, Gift!Begin(c, pc, g),
         pc # "create" => g \in Gifts, pc = "expire" => gift'[g].balanceId = g
  PROVE  CallsHold(call', gift', balance', granted')
<1>1. call' = [call EXCEPT ![c] = Began(pc, g)] BY Zenon DEF Gift!Begin, Began
<1>2. pc \in GiftSteps BY DEF GiftSteps
<1>3. Began(pc, g) \in GiftCall /\ Began(pc, g).pc = pc /\ Began(pc, g).on = g
  BY <1>2, BeganIs
<1>4. CallHolds(Began(pc, g), gift', balance', granted')
  BY <1>3 DEF CallHolds, OnGift, Claiming
<1> QED BY <1>1, <1>3, <1>4, CallMoves

LEMMA GiftGoes ==
  ASSUME GiftInv, Onwards, NEW c \in Requests, NEW pc \in GiftSteps, Gift!Goto(c, pc),
         CallHolds(Went(call[c], pc), gift', balance', granted')
  PROVE  CallsHold(call', gift', balance', granted')
<1>1. call' = [call EXCEPT ![c] = Went(call[c], pc)] BY Zenon DEF Gift!Goto, Went
<1>2. call[c] \in GiftCall BY DEF GiftInv, CallsHold
<1>3. Went(call[c], pc) \in GiftCall BY <1>2, WentIs
<1> QED BY <1>1, <1>3, CallMoves

\* Handlers that leave the documents, the balances and the access alone.
LEMMA GiftReads ==
  ASSUME GiftInv, UNCHANGED <<gift, balance, granted>>,
         CallsHold(call', gift', balance', granted')
  PROVE  GiftInv'
BY DEF GiftInv, GiftTypes, DocHolds

LEMMA SameOnwards == UNCHANGED <<gift, balance, granted>> => Onwards
BY DEF Onwards

LEMMA GiftLoads ==
  ASSUME GiftInv, NEW c \in Requests,
         \/ Gift!InitializeGift(c)
         \/ \E g \in Gifts : Gift!SubmitGift(c, g) \/ Gift!LoadExpired(c, g)
         \/ Gift!Lose(c)
  PROVE  GiftInv'
<1>1. UNCHANGED <<gift, balance, granted>>
  BY DEF Gift!InitializeGift, Gift!SubmitGift, Gift!LoadExpired, Gift!Lose
<1>2. CASE Gift!InitializeGift(c)
  BY <1>1, <1>2, SameOnwards, GiftBegins, GiftReads DEF Gift!InitializeGift
<1>3. ASSUME NEW g \in Gifts, Gift!SubmitGift(c, g) PROVE GiftInv'
  BY <1>1, <1>3, SameOnwards, GiftBegins, GiftReads DEF Gift!SubmitGift
<1>4. ASSUME NEW g \in Gifts, Gift!LoadExpired(c, g) PROVE GiftInv'
  <2>1. gift'[g].balanceId = g BY <1>1, <1>4 DEF Gift!LoadExpired, GiftInv, DocHolds
  <2>2. Gift!Begin(c, "expire", g) BY <1>4 DEF Gift!LoadExpired
  <2> QED BY <1>1, <2>1, <2>2, SameOnwards, GiftBegins, GiftReads
<1>5. CASE Gift!Lose(c)
  BY <1>1, <1>5, SameOnwards, GiftEnds, GiftReads DEF Gift!Lose
<1> QED BY <1>2, <1>3, <1>4, <1>5

\* A handler resolves the balance of its own transaction, sends or checks a claim.
LEMMA GiftClaims ==
  ASSUME ~Fallback, GiftInv, NEW c \in Requests,
         \/ \E g \in Gifts : Gift!ResolveBalanceId(c, g)
         \/ Gift!SendClaim(c) \/ Gift!VerifyClaim(c)
  PROVE  GiftInv'
<1> DEFINE k == call[c]
<1>0. k \in GiftCall /\ CallHolds(k, gift, balance, granted) BY DEF GiftInv, CallsHold
<1>1. UNCHANGED <<gift, balance, granted>>
  BY DEF Gift!ResolveBalanceId, Gift!SendClaim, Gift!VerifyClaim
<1>2. Onwards BY <1>1, SameOnwards
<1>3. ASSUME NEW g \in Gifts, Gift!ResolveBalanceId(c, g) PROVE GiftInv'
  <2> DEFINE q == [k EXCEPT !.pc = "open", !.id = g]
  <2>1. k.pc = "sent" /\ k.on = g BY <1>3 DEF Gift!ResolveBalanceId
  <2>2. call' = [call EXCEPT ![c] = q] BY <1>3, Zenon DEF Gift!ResolveBalanceId
  <2>3. q = [[k EXCEPT !.pc = "open"] EXCEPT !.id = g] BY Zenon
  <2> HIDE DEF k
  <2>4. q \in GiftCall /\ q.pc = "open" /\ q.id = g /\ q.on = g
    BY <1>0, <2>1, <2>3 DEF GiftCall, GiftSteps
  <2> HIDE DEF q
  <2>5. CallHolds(q, gift', balance', granted') BY <2>4 DEF CallHolds, Claiming, OnGift
  <2> QED BY <1>1, <1>2, <2>2, <2>4, <2>5, CallMoves, GiftReads
<1>4. ASSUME NEW pc \in {"claimed", "grant", "close"}, Gift!Goto(c, pc), k.pc \in Claiming,
             pc \in {"grant", "close"} => balance[k.on] = k.who,
             pc \in {"grant", "close"} => (k.who = "recipient" <=> pc = "grant")
      PROVE  GiftInv'
  <2> DEFINE q == Went(call[c], pc)
  <2>1. pc \in GiftSteps /\ pc \in Claiming BY DEF GiftSteps, Claiming
  <2>2. q.pc = pc /\ q.on = k.on /\ q.id = k.id /\ q.who = k.who BY <1>0, <2>1, WentIs
  <2>3. k.on \in Gifts /\ k.id = k.on /\ gift[k.on].balanceId = k.on
    BY <1>0, <1>4 DEF CallHolds, OnGift
  <2> HIDE DEF q, k
  <2>4. CallHolds(q, gift', balance', granted')
    BY <1>1, <1>4, <2>1, <2>2, <2>3 DEF CallHolds, Claiming
  <2> QED BY <1>1, <1>2, <1>4, <2>1, <2>4, GiftGoes, GiftReads DEF q
<1>5. CASE Gift!SendClaim(c) BY <1>4, <1>5 DEF Gift!SendClaim, Claiming
<1>6. CASE Gift!VerifyClaim(c)
  <2>1. k.pc = "claimed" /\ balance[k.id] = k.who BY <1>6 DEF Gift!VerifyClaim
  <2>2. k.id = k.on BY <1>0, <2>1 DEF CallHolds, Claiming
  <2>3. \/ k.who = "recipient" /\ Gift!Goto(c, "grant")
        \/ k.who # "recipient" /\ Gift!Goto(c, "close")
    BY <1>6 DEF Gift!VerifyClaim
  <2> QED BY <1>4, <2>1, <2>2, <2>3 DEF Claiming
<1> QED BY <1>3, <1>5, <1>6

\* One document is written.
LEMMA GiftDocs ==
  ASSUME GiftInv, NEW g \in Gifts, NEW d \in GiftDocument, gift' = [gift EXCEPT ![g] = d],
         UNCHANGED <<balance, granted>>,
         d.balanceId \in {g, gift[g].balanceId},
         d.status \notin {"none", "pending_signature"} => d.balanceId = g,
         d.status = "claimed" => granted[g] > 0,
         d.status = "reclaimed" => balance[g] = "sender"
  PROVE  /\ GiftTypes(gift', balance', granted') /\ Onwards
         /\ \A h \in Gifts : DocHolds(h, gift', balance', granted')
<1>1. gift \in [Gifts -> GiftDocument] /\ \A h \in Gifts : DocHolds(h, gift, balance, granted)
  BY DEF GiftInv, GiftTypes
<1>2. /\ gift' \in [Gifts -> GiftDocument] /\ gift'[g] = d
      /\ \A h \in Gifts \ {g} : gift'[h] = gift[h]
  BY <1>1
<1>3. GiftTypes(gift', balance', granted') BY <1>2 DEF GiftInv, GiftTypes
<1>4. Onwards BY <1>1, <1>2 DEF Onwards
<1>5. \A h \in Gifts : DocHolds(h, gift', balance', granted') BY <1>1, <1>2 DEF DocHolds
<1> QED BY <1>3, <1>4, <1>5

LEMMA GiftWrites ==
  ASSUME GiftInv, NEW c \in Requests,
         \/ \E g \in Gifts : Gift!CreateGift(c, g)
         \/ Gift!OpenGift(c) \/ Gift!SaveExpired(c) \/ Gift!CloseGift(c)
  PROVE  GiftInv'
<1> DEFINE k == call[c]
<1>0. k \in GiftCall /\ CallHolds(k, gift, balance, granted) BY DEF GiftInv, CallsHold
<1>1. UNCHANGED <<balance, granted>> /\ Gift!End(c)
  BY DEF Gift!CreateGift, Gift!OpenGift, Gift!SaveExpired, Gift!CloseGift
<1>2. \A g \in Gifts : gift[g] \in GiftDocument /\ DocHolds(g, gift, balance, granted)
  BY DEF GiftInv, GiftTypes
<1>3. ASSUME NEW g \in Gifts, NEW d \in GiftDocument, gift' = [gift EXCEPT ![g] = d],
             d.balanceId \in {g, gift[g].balanceId},
             d.status \notin {"none", "pending_signature"} => d.balanceId = g,
             d.status = "claimed" => granted[g] > 0,
             d.status = "reclaimed" => balance[g] = "sender"
      PROVE  GiftInv'
  <2>1. /\ GiftTypes(gift', balance', granted') /\ Onwards
        /\ \A h \in Gifts : DocHolds(h, gift', balance', granted')
    BY <1>1, <1>3, GiftDocs
  <2> QED BY <1>1, <2>1, GiftEnds DEF GiftInv
<1> HIDE DEF k
<1>4. ASSUME NEW g \in Gifts, NEW s \in GiftStatus, gift' = [gift EXCEPT ![g].status = s],
             s = "pending_signature" \/ gift[g].balanceId = g, s # "none",
             s = "claimed" => granted[g] > 0, s = "reclaimed" => balance[g] = "sender"
      PROVE  GiftInv'
  <2> DEFINE d == [gift[g] EXCEPT !.status = s]
  <2>1. d \in GiftDocument /\ d.status = s /\ d.balanceId = gift[g].balanceId
    BY <1>2 DEF GiftDocument
  <2>2. gift' = [gift EXCEPT ![g] = d] BY <1>4
  <2> HIDE DEF d
  <2> QED BY <1>3, <1>4, <2>1, <2>2
<1>5. ASSUME NEW g \in Gifts, Gift!CreateGift(c, g) PROVE GiftInv'
  <2>1. gift' = [gift EXCEPT ![g].status = "pending_signature"] BY <1>5 DEF Gift!CreateGift
  <2>2. "pending_signature" \in GiftStatus BY DEF GiftStatus
  <2> QED BY <1>4, <2>1, <2>2
<1>6. CASE Gift!OpenGift(c)
  <2> DEFINE d == [status |-> "open", balanceId |-> k.id]
  <2>1. k.pc = "open" /\ k.on \in Gifts /\ k.id = k.on
    BY <1>0, <1>6 DEF Gift!OpenGift, CallHolds, OnGift, k
  <2>2. d \in GiftDocument /\ d.status = "open" /\ d.balanceId = k.on
    BY <2>1 DEF GiftDocument, GiftStatus, Gift!Unclaimed
  <2>3. gift' = [gift EXCEPT ![k.on] = d] BY <1>6 DEF Gift!OpenGift, k
  <2> HIDE DEF d
  <2> QED BY <1>3, <2>1, <2>2, <2>3
<1>7. CASE Gift!SaveExpired(c)
  <2>1. k.on \in Gifts /\ gift[k.on].balanceId = k.on
    BY <1>0, <1>7 DEF Gift!SaveExpired, CallHolds, OnGift, k
  <2>2. gift' = [gift EXCEPT ![k.on].status = "expired"] BY <1>7 DEF Gift!SaveExpired, k
  <2>3. "expired" \in GiftStatus BY DEF GiftStatus, Gift!Unclaimed
  <2> QED BY <1>4, <2>1, <2>2, <2>3
<1>8. CASE Gift!CloseGift(c)
  <2> DEFINE s == IF k.who = "recipient" THEN "claimed" ELSE "reclaimed"
  <2>1. /\ k.on \in Gifts /\ gift[k.on].balanceId = k.on /\ balance[k.on] = k.who
        /\ k.who = "recipient" => granted[k.on] > 0
    BY <1>0, <1>8 DEF Gift!CloseGift, CallHolds, OnGift, Claiming, k
  <2>2. k.who \in {"recipient", "sender"} BY <1>0 DEF GiftCall, Gift!Parties
  <2>3. gift' = [gift EXCEPT ![k.on].status = s] BY <1>8 DEF Gift!CloseGift, k
  <2>4. s \in GiftStatus /\ s # "none" BY DEF GiftStatus
  <2>5. /\ s = "claimed" => granted[k.on] > 0 /\ s # "reclaimed"
        /\ s = "reclaimed" => balance[k.on] = "sender"
    BY <2>1, <2>2
  <2> HIDE DEF s
  <2> QED BY <1>4, <2>1, <2>3, <2>4, <2>5
<1> QED BY <1>5, <1>6, <1>7, <1>8

\* A claim starts, with the gift's balance, and the gift expires if it is time.
LEMMA GiftSubmits ==
  ASSUME GiftInv, NEW c \in Requests, NEW g \in Gifts, NEW who \in Gift!Parties,
         Gift!ClaimSubmit(c, g, who)
  PROVE  GiftInv'
<1> DEFINE k == [pc |-> "claim", on |-> g, id |-> gift[g].balanceId, who |-> who]
           s == IF Gift!isBeforeExpiry THEN gift[g].status ELSE "expired"
           d == [gift[g] EXCEPT !.status = s]
<1>1. gift \in [Gifts -> GiftDocument] /\ gift[g] \in GiftDocument /\ DocHolds(g, gift, balance, granted)
  BY DEF GiftInv, GiftTypes
<1>2. gift[g].status \in Gift!Unclaimed /\ UNCHANGED <<balance, granted>> BY DEF Gift!ClaimSubmit
<1>3. gift[g].balanceId = g BY <1>1, <1>2 DEF DocHolds, Gift!Unclaimed
<1>4. s \in Gift!Unclaimed /\ s \in GiftStatus BY <1>2 DEF Gift!Unclaimed, GiftStatus
<1>5. call' = [call EXCEPT ![c] = k] BY DEF Gift!ClaimSubmit
<1>6. gift' = [gift EXCEPT ![g] = d] BY <1>1 DEF Gift!ClaimSubmit
<1> HIDE DEF s
<1>7. d \in GiftDocument /\ d.status = s /\ d.balanceId = g BY <1>1, <1>3, <1>4 DEF GiftDocument
<1> HIDE DEF d
<1>8. /\ GiftTypes(gift', balance', granted') /\ Onwards
      /\ \A h \in Gifts : DocHolds(h, gift', balance', granted')
  BY <1>2, <1>3, <1>4, <1>6, <1>7, GiftDocs DEF Gift!Unclaimed
<1>9. gift'[g].balanceId = g BY <1>1, <1>6, <1>7
<1>10. k \in GiftCall /\ k.pc = "claim" /\ k.on = g /\ k.id = g
  BY <1>3 DEF GiftCall, GiftSteps
<1> HIDE DEF k
<1>11. CallHolds(k, gift', balance', granted') BY <1>9, <1>10 DEF CallHolds, Claiming
<1> QED BY <1>5, <1>8, <1>10, <1>11, CallMoves DEF GiftInv

LEMMA GiftsExpire == GiftInv /\ Gift!ListGifts => GiftInv'
<1> SUFFICES ASSUME GiftInv, Gift!ListGifts PROVE GiftInv' OBVIOUS
<1>1. /\ gift \in [Gifts -> GiftDocument] /\ \A h \in Gifts : DocHolds(h, gift, balance, granted)
      /\ UNCHANGED <<balance, granted, call>>
  BY DEF GiftInv, GiftTypes, Gift!ListGifts
<1>2. gift' = [g \in Gifts |-> IF gift[g].status = "open"
                               THEN [gift[g] EXCEPT !.status = "expired"] ELSE gift[g]]
  BY DEF Gift!ListGifts
<1>3. \A g \in Gifts : /\ gift'[g] \in GiftDocument /\ gift'[g].balanceId = gift[g].balanceId
                       /\ \/ gift'[g].status = gift[g].status
                          \/ gift[g].status = "open" /\ gift'[g].status = "expired"
  BY <1>1, <1>2 DEF GiftDocument, GiftStatus, Gift!Unclaimed
<1>4. GiftTypes(gift', balance', granted') BY <1>1, <1>2, <1>3 DEF GiftInv, GiftTypes
<1>5. \A g \in Gifts : DocHolds(g, gift', balance', granted') BY <1>1, <1>3 DEF DocHolds
<1>6. Onwards BY <1>1, <1>3 DEF Onwards
<1> QED BY <1>1, <1>4, <1>5, <1>6, CallsKept DEF GiftInv

\* The network applies what it was sent, or drops it.
LEMMA GiftSettles ==
  ASSUME GiftInv, NEW g \in Gifts,
         \/ Gift!ApplyCreate(g, "held") \/ Gift!ApplyCreate(g, "none")
         \/ \E who \in Gift!Parties : Gift!ApplyClaim(g, who)
  PROVE  GiftInv'
<1>1. /\ balance \in [Gifts -> BalanceState] /\ \A h \in Gifts : DocHolds(h, gift, balance, granted)
      /\ UNCHANGED <<gift, granted, call>>
  BY DEF GiftInv, GiftTypes, Gift!ApplyCreate, Gift!ApplyClaim
<1>2. PICK b \in BalanceState : \/ balance' = balance
                                \/ balance[g] \in {"sent", "held"} /\ balance' = [balance EXCEPT ![g] = b]
  BY DEF Gift!ApplyCreate, Gift!ApplyClaim, BalanceState
<1>3. /\ balance' \in [Gifts -> BalanceState]
      /\ \A h \in Gifts : balance[h] \in Gift!Parties => balance'[h] = balance[h]
  BY <1>1, <1>2 DEF Gift!Parties
<1>4. GiftTypes(gift', balance', granted') BY <1>1, <1>3 DEF GiftInv, GiftTypes
<1>5. \A h \in Gifts : DocHolds(h, gift', balance', granted')
  BY <1>1, <1>3 DEF DocHolds, Gift!Parties
<1>6. Onwards BY <1>1, <1>3 DEF Onwards
<1> QED BY <1>1, <1>4, <1>5, <1>6, CallsKept DEF GiftInv

LEMMA GiftSends ==
  ASSUME GiftInv, NEW c \in Requests, Gift!SendCreate(c)
  PROVE  GiftInv'
<1> DEFINE k == call[c]   q == Went(call[c], "sent")
<1>0. k \in GiftCall /\ CallHolds(k, gift, balance, granted) BY DEF GiftInv, CallsHold
<1>1. /\ balance \in [Gifts -> BalanceState] /\ \A h \in Gifts : DocHolds(h, gift, balance, granted)
      /\ UNCHANGED <<gift, granted>> /\ k.pc = "send" /\ Gift!Goto(c, "sent")
      /\ balance' = [balance EXCEPT ![k.on] = IF @ = "none" THEN "sent" ELSE @]
  BY DEF GiftInv, GiftTypes, Gift!SendCreate
<1>2. k.on \in Gifts BY <1>0, <1>1 DEF CallHolds, OnGift
<1>3. "sent" \in GiftSteps /\ "sent" \in BalanceState BY DEF GiftSteps, BalanceState
<1>4. q.pc = "sent" /\ q.on = k.on BY <1>0, <1>3, WentIs
<1> HIDE DEF k, q
<1>5. /\ balance' \in [Gifts -> BalanceState]
      /\ \A h \in Gifts : balance[h] \in Gift!Parties => balance'[h] = balance[h]
  BY <1>1, <1>2, <1>3 DEF Gift!Parties
<1>6. GiftTypes(gift', balance', granted') BY <1>1, <1>5 DEF GiftInv, GiftTypes
<1>7. \A h \in Gifts : DocHolds(h, gift', balance', granted')
  BY <1>1, <1>5 DEF DocHolds, Gift!Parties
<1>8. Onwards BY <1>1, <1>5 DEF Onwards
<1>9. CallHolds(q, gift', balance', granted') BY <1>2, <1>4 DEF CallHolds, Claiming
<1> QED BY <1>1, <1>3, <1>6, <1>7, <1>8, <1>9, GiftGoes DEF GiftInv, q

LEMMA GiftGrants ==
  ASSUME GiftInv, NEW c \in Requests, Gift!GrantItemAccess(c)
  PROVE  GiftInv'
<1> DEFINE k == call[c]   q == Went(call[c], "close")
<1>0. k \in GiftCall /\ CallHolds(k, gift, balance, granted) BY DEF GiftInv, CallsHold
<1>1. /\ granted \in [Gifts -> Nat] /\ \A h \in Gifts : DocHolds(h, gift, balance, granted)
      /\ UNCHANGED <<gift, balance>> /\ k.pc = "grant" /\ Gift!Goto(c, "close")
      /\ granted' = [granted EXCEPT ![k.on] = @ + 1]
  BY DEF GiftInv, GiftTypes, Gift!GrantItemAccess
<1>2. /\ k.on \in Gifts /\ k.id = k.on /\ gift[k.on].balanceId = k.on
      /\ balance[k.on] = k.who /\ k.who = "recipient"
  BY <1>0, <1>1 DEF CallHolds, OnGift, Claiming
<1>3. "close" \in GiftSteps BY DEF GiftSteps
<1>4. q.pc = "close" /\ q.on = k.on /\ q.id = k.id /\ q.who = k.who BY <1>0, <1>3, WentIs
<1> HIDE DEF k, q
<1>5. /\ granted' \in [Gifts -> Nat] /\ granted'[k.on] > 0
      /\ \A h \in Gifts : h # k.on => granted'[h] = granted[h]
  BY <1>1, <1>2
<1>6. GiftTypes(gift', balance', granted') BY <1>1, <1>5 DEF GiftInv, GiftTypes
<1>7. \A h \in Gifts : DocHolds(h, gift', balance', granted') BY <1>1, <1>2, <1>5 DEF DocHolds
<1>8. Onwards BY <1>1, <1>5 DEF Onwards
<1>9. CallHolds(q, gift', balance', granted')
  BY <1>1, <1>2, <1>4, <1>5 DEF CallHolds, Claiming
<1> QED BY <1>1, <1>3, <1>6, <1>7, <1>8, <1>9, GiftGoes DEF GiftInv, q

LEMMA GiftNext == ~Fallback /\ GiftInv /\ (Gift!Next \/ UNCHANGED giftVars) => GiftInv'
<1> SUFFICES ASSUME ~Fallback, GiftInv, Gift!Next \/ UNCHANGED giftVars PROVE GiftInv' OBVIOUS
<1>1. CASE UNCHANGED giftVars
  <2>1. UNCHANGED <<gift, balance, granted, call>> BY <1>1 DEF giftVars
  <2> QED BY <2>1, SameOnwards, CallsKept, GiftReads
<1>2. ASSUME NEW c \in Requests, Gift!Handle(c) \/ Gift!Lose(c) PROVE GiftInv'
  BY <1>2, GiftLoads, GiftClaims, GiftWrites, GiftSubmits, GiftSends, GiftGrants DEF Gift!Handle
<1>3. CASE Gift!ListGifts BY <1>3, GiftsExpire
<1>4. CASE Gift!PassTime
  <2>1. UNCHANGED <<gift, balance, granted, call>> BY <1>4 DEF Gift!PassTime
  <2> QED BY <2>1, SameOnwards, CallsKept, GiftReads
<1>5. ASSUME NEW g \in Gifts, NEW outcome \in {"held", "none"}, Gift!ApplyCreate(g, outcome)
      PROVE  GiftInv'
  BY <1>5, GiftSettles
<1>6. ASSUME NEW g \in Gifts, NEW who \in Gift!Parties, Gift!ApplyClaim(g, who) PROVE GiftInv'
  BY <1>6, GiftSettles
<1> QED BY <1>1, <1>2, <1>3, <1>4, <1>5, <1>6 DEF Gift!Next

LEMMA GiftInit == Gift!Init => GiftInv
<1> SUFFICES ASSUME Gift!Init PROVE GiftInv OBVIOUS
<1>1. Gift!NoGift \in GiftDocument /\ Gift!NoGift.status = "none" /\ Gift!NoGift.balanceId = None
  BY DEF Gift!NoGift, GiftDocument, GiftStatus
<1>2. /\ GiftTypes(gift, balance, granted)
      /\ \A g \in Gifts : gift[g] = Gift!NoGift /\ granted[g] = 0
  BY <1>1 DEF Gift!Init, GiftTypes, BalanceState
<1>3. \A g \in Gifts : DocHolds(g, gift, balance, granted) BY <1>1, <1>2 DEF DocHolds
<1>4. CallsHold(call, gift, balance, granted) BY IdleHolds DEF Gift!Init, CallsHold
<1> QED BY <1>2, <1>3, <1>4 DEF GiftInv

\* While the result of a create transaction can be read, which is what the platform's own
\* balance id rests on: for any number of gifts, handlers that overlap and are lost, and
\* claims that are late, access through a gift comes from its money.
THEOREM AccessClaimed == ASSUME ~Fallback PROVE PlatformSpec => []AccessIsClaimed
<1>1. PlatformInit => GiftInv BY GiftInit DEF PlatformInit
<1>2. GiftInv /\ [PlatformNext]_allVars => GiftInv'
  <2>1. PlatformNext => Gift!Next \/ UNCHANGED giftVars
    BY DEF PlatformNext, LearnerNext, SharedNext, learnerVars
  <2>2. UNCHANGED allVars => UNCHANGED giftVars BY DEF allVars, learnerVars
  <2> QED BY <2>1, <2>2, GiftNext
<1>3. GiftInv => AccessIsClaimed
  BY GiftsAssumption DEF GiftInv, DocHolds, AccessIsClaimed, Gift!AccessIsClaimed, Gift!ClosedIsTaken
<1> QED BY <1>1, <1>2, <1>3, PTL DEF PlatformSpec

-----------------------------------------------------------------------------
(***************************************************************************)
(* Reviews: ids are given once, and a document of the version that is       *)
(* stored has the ids that are stored.                                      *)
(***************************************************************************)
ReviewOf == [id : Nat, by : Users, rating : Ratings]
ItemDoc(stats) == [reviews : SUBSET ReviewOf, stats : stats, version : Nat]

OwnIds(reviews) == \A v, w \in reviews : v.id = w.id => v = w
HasId(i, reviews) == \E v \in reviews : v.id = i
SameIds(a, b) == \A i \in Nat : HasId(i, a) <=> HasId(i, b)
Kept(reviews) == reviews \subseteq ReviewOf /\ IsFiniteSet(reviews) /\ OwnIds(reviews)

\* What a request may rely on of the document it loaded.
ReviewHolds(k, it, n) == k.op # "idle" =>
    /\ k.op \in {"add", "edit", "delete"}
    /\ k.review \in ReviewOf /\ k.review.id \in 1..n
    /\ Kept(k.doc.reviews) /\ k.doc.version \in Nat /\ k.doc.version <= it.version
    /\ k.doc.version = it.version => SameIds(k.doc.reviews, it.reviews)
    /\ k.op = "add" => ~HasId(k.review.id, it.reviews)
    /\ k.op \in {"edit", "delete"} => HasId(k.review.id, k.doc.reviews)

Adds(k) == k.op = "add"

ReviewInv ==
    /\ item \in ItemDoc({item.stats}) /\ Kept(item.reviews)
    /\ \A v \in item.reviews : v.id \in 1..reviewed
    /\ reviewed \in Nat /\ reviewing = [r \in Requests |-> reviewing[r]]
    /\ \A r \in Requests : ReviewHolds(reviewing[r], item, reviewed)
    /\ \A r, q \in Requests : Adds(reviewing[r]) /\ Adds(reviewing[q])
                              /\ reviewing[r].review.id = reviewing[q].review.id => r = q

LEMMA ReviewLoads ==
  ASSUME ReviewInv, NEW r \in Requests, NEW op \in {"add", "edit", "delete"},
         NEW v \in ReviewOf, v.id \in 1..(reviewed + 1), V!Starts(r, op, v),
         op = "add" => v.id = reviewed + 1, op # "add" => HasId(v.id, item.reviews)
  PROVE  ReviewInv'
<1> DEFINE k == [op |-> op, review |-> v, doc |-> item]
<1>1. /\ k.op = op /\ k.review = v /\ k.doc = item OBVIOUS
<1>2. /\ item' = item /\ reviewed' = reviewed + 1
      /\ reviewing' = [reviewing EXCEPT ![r] = k] BY DEF V!Starts
<1> HIDE DEF k
<1>3. /\ item \in ItemDoc({item.stats}) /\ Kept(item.reviews) /\ reviewed \in Nat
      /\ \A w \in item.reviews : w.id \in 1..reviewed BY DEF ReviewInv
<1>4. item.version \in Nat BY <1>3 DEF ItemDoc
<1>5. \A q \in Requests : reviewing'[q] = IF q = r THEN k ELSE reviewing[q]
  BY <1>2 DEF ReviewInv
<1>6. reviewing' = [q \in Requests |-> reviewing'[q]] BY <1>2 DEF ReviewInv
<1>7. op = "add" => ~HasId(v.id, item.reviews)
  BY <1>3 DEF HasId
<1>8. ReviewHolds(k, item, reviewed + 1)
  BY <1>1, <1>3, <1>4, <1>7 DEF ReviewHolds, SameIds
<1>9. \A q \in Requests : ReviewHolds(reviewing[q], item, reviewed + 1)
  BY <1>3 DEF ReviewInv, ReviewHolds
<1>10. \A q \in Requests : Adds(reviewing[q]) => reviewing[q].review.id # reviewed + 1
  BY <1>3 DEF ReviewInv, ReviewHolds, Adds
<1>11. \A a, b \in Requests : Adds(reviewing'[a]) /\ Adds(reviewing'[b])
          /\ reviewing'[a].review.id = reviewing'[b].review.id => a = b
  BY <1>1, <1>5, <1>10 DEF ReviewInv, Adds
<1>12. \A w \in item.reviews : w.id \in 1..(reviewed + 1) BY <1>3
<1> QED BY <1>2, <1>3, <1>5, <1>6, <1>8, <1>9, <1>11, <1>12 DEF ReviewInv

\* A request writes the item and answers.
LEMMA ReviewWrites ==
  ASSUME ReviewInv, NEW r \in Requests, V!Answers(r), reviewing[r].op # "idle",
         item' \in ItemDoc({item'.stats}), Kept(item'.reviews),
         \A v \in item'.reviews : v.id \in 1..reviewed,
         item.version <= item'.version,
         item.version = item'.version => SameIds(item.reviews, item'.reviews),
         \A i \in Nat : HasId(i, item'.reviews) =>
             HasId(i, item.reviews) \/ (Adds(reviewing[r]) /\ i = reviewing[r].review.id)
  PROVE  ReviewInv'
<1>1. reviewing' = [reviewing EXCEPT ![r] = V!Idle] /\ reviewed' = reviewed BY DEF V!Answers
<1>2. V!Idle.op = "idle" BY DEF V!Idle
<1>3. \A q \in Requests : reviewing'[q] = IF q = r THEN V!Idle ELSE reviewing[q]
  BY <1>1 DEF ReviewInv
<1>4. reviewing' = [q \in Requests |-> reviewing'[q]] BY <1>1 DEF ReviewInv
<1>5. item.version \in Nat /\ item'.version \in Nat BY DEF ReviewInv, ItemDoc
<1>6. ASSUME NEW q \in Requests, q # r PROVE ReviewHolds(reviewing[q], item', reviewed)
  <2>1. ReviewHolds(reviewing[q], item, reviewed) BY DEF ReviewInv
  <2>2. Adds(reviewing[q]) => /\ reviewing[q].review.id \in Nat
                              /\ ~HasId(reviewing[q].review.id, item.reviews)
                              /\ ~(Adds(reviewing[r]) /\ reviewing[q].review.id = reviewing[r].review.id)
    BY <1>6, <2>1 DEF ReviewInv, ReviewHolds, Adds, ReviewOf
  <2>3. Adds(reviewing[q]) => ~HasId(reviewing[q].review.id, item'.reviews) BY <2>2
  <2> QED BY <1>5, <2>1, <2>3 DEF ReviewHolds, SameIds, Adds
<1>7. \A q \in Requests : ReviewHolds(reviewing'[q], item', reviewed)
  BY <1>2, <1>3, <1>6 DEF ReviewHolds
<1>8. \A a, b \in Requests : Adds(reviewing'[a]) /\ Adds(reviewing'[b])
          /\ reviewing'[a].review.id = reviewing'[b].review.id => a = b
  BY <1>2, <1>3 DEF ReviewInv, Adds
<1> QED BY <1>1, <1>4, <1>7, <1>8 DEF ReviewInv

LEMMA CountIds ==
  ASSUME NEW reviews, Kept(reviews)
  PROVE  V!Cardinality(V!IdsOf(reviews)) = V!Cardinality(reviews)
<1> DEFINE f == [v \in reviews |-> v.id]
           ids == V!IdsOf(reviews)
<1>1. f \in [reviews -> ids] BY DEF V!IdsOf
<1>2. \A v, w \in reviews : f[v] = f[w] => v = w BY DEF Kept, OwnIds
<1>3. \A i \in ids : \E v \in reviews : f[v] = i BY DEF V!IdsOf
<1> HIDE DEF f
<1>4. f \in Bijection(reviews, ids) BY <1>1, <1>2, <1>3 DEF Bijection, Injection, Surjection, IsInjective, f
<1>5. Cardinality(ids) = Cardinality(reviews)
  BY <1>4, FS_Bijection DEF ExistsBijection, Kept
<1> HIDE DEF ids
<1>6. \A X : V!Cardinality(X) = Cardinality(X) BY DEF V!Cardinality, Cardinality
<1> QED BY <1>5, <1>6 DEF ids

\* Every step of the reviews.
ReviewStep == ReviewInv' /\ V!ReviewsStep

LEMMA ReviewSteps == ASSUME ReviewInv, V!Next PROVE ReviewStep
<1> USE DEF ReviewStep
<1>1. PICK r \in Requests : \/ V!LoadToAdd(r) \/ V!Add(r) \/ V!LoadToEdit(r)
                            \/ V!Edit(r) \/ V!LoadToDelete(r) \/ V!Delete(r)
  BY DEF V!Next
<1> DEFINE k == reviewing[r]
           i == k.review.id
<1>2. /\ item \in ItemDoc({item.stats}) /\ Kept(item.reviews) /\ reviewed \in Nat
      /\ \A v \in item.reviews : v \in ReviewOf /\ v.id \in 1..reviewed
      /\ ReviewHolds(k, item, reviewed)
  BY DEF ReviewInv, Kept
<1>3. item.version \in Nat BY <1>2 DEF ItemDoc
<1>4. ASSUME ReviewInv', item' = item PROVE V!ReviewsStep
  BY <1>2, <1>4, CountIds DEF V!ReviewsStep
<1>5. V!Answers(r) => reviewing'[r] = V!Idle BY DEF ReviewInv, V!Answers
<1>6. ASSUME NEW op \in {"add", "edit", "delete"}, NEW v, V!Starts(r, op, v) PROVE item' = item
  BY <1>6 DEF V!Starts
<1>7. CASE V!LoadToAdd(r)
  <2>1. PICK u \in Users, s \in Ratings : V!Starts(r, "add", [id |-> reviewed + 1, by |-> u, rating |-> s])
    BY <1>7 DEF V!LoadToAdd
  <2> DEFINE v == [id |-> reviewed + 1, by |-> u, rating |-> s]
  <2>2. v \in ReviewOf /\ v.id = reviewed + 1 BY <1>2 DEF ReviewOf
  <2> HIDE DEF v
  <2>3. V!Starts(r, "add", v) BY <2>1 DEF v
  <2>4. v.id \in 1..(reviewed + 1) BY <1>2, <2>2
  <2>5. ReviewInv' BY <2>2, <2>3, <2>4, ReviewLoads
  <2> QED BY <1>4, <1>6, <2>3, <2>5
<1>8. CASE V!LoadToEdit(r)
  <2>1. PICK w \in item.reviews, s \in Ratings : V!Starts(r, "edit", [w EXCEPT !.rating = s])
    BY <1>8 DEF V!LoadToEdit
  <2> DEFINE v == [w EXCEPT !.rating = s]
  <2>2. w \in ReviewOf /\ w.id \in 1..reviewed BY <1>2
  <2>3. v \in ReviewOf /\ v.id = w.id BY <2>2 DEF ReviewOf
  <2> HIDE DEF v
  <2>4. V!Starts(r, "edit", v) BY <2>1 DEF v
  <2>5. v.id \in 1..(reviewed + 1) /\ HasId(v.id, item.reviews) BY <1>2, <2>2, <2>3 DEF HasId
  <2>6. ReviewInv' BY <2>3, <2>4, <2>5, ReviewLoads
  <2> QED BY <1>4, <1>6, <2>4, <2>6
<1>9. CASE V!LoadToDelete(r)
  <2>1. PICK v \in item.reviews : V!Starts(r, "delete", v) BY <1>9 DEF V!LoadToDelete
  <2>2. v \in ReviewOf /\ v.id \in 1..(reviewed + 1) /\ HasId(v.id, item.reviews)
    BY <1>2 DEF HasId
  <2>3. ReviewInv' BY <2>1, <2>2, ReviewLoads
  <2> QED BY <1>4, <1>6, <2>1, <2>3
<1>10. CASE V!Add(r)
  <2> DEFINE more == item.reviews \cup {k.review}
             next == [reviews |-> more, version |-> item.version + 1,
                      stats |-> V!Totals(k.doc.reviews \cup {k.review}, k.doc)]
  <2>1. k.op = "add" /\ item' = next /\ V!Answers(r) BY <1>10 DEF V!Add
  <2>2. next.reviews = more /\ next.version = item.version + 1 OBVIOUS
  <2>3. k.review \in ReviewOf /\ i \in 1..reviewed /\ i \in Nat /\ ~HasId(i, item.reviews)
    BY <1>2, <2>1 DEF ReviewHolds
  <2>4. IsFiniteSet(more) BY <1>2, FS_AddElement DEF Kept
  <2>5. Kept(more) BY <1>2, <2>3, <2>4 DEF Kept, OwnIds, HasId
  <2>6. next \in ItemDoc({next.stats}) BY <1>3, <2>5 DEF ItemDoc, Kept
  <2> HIDE DEF next
  <2>7. \A v \in more : v.id \in 1..reviewed BY <1>2, <2>3
  <2>8. \A j \in Nat : HasId(j, more) => HasId(j, item.reviews) \/ j = i BY DEF HasId
  <2>9. ReviewInv'
    <3>1. /\ item' \in ItemDoc({item'.stats}) /\ Kept(item'.reviews)
          /\ item.version <= item'.version /\ item'.version # item.version
      BY <1>3, <2>1, <2>2, <2>5, <2>6
    <3>2. /\ \A v \in item'.reviews : v.id \in 1..reviewed
          /\ \A j \in Nat : HasId(j, item'.reviews) =>
                HasId(j, item.reviews) \/ (Adds(reviewing[r]) /\ j = reviewing[r].review.id)
      BY <2>1, <2>2, <2>7, <2>8 DEF Adds
    <3>3. V!Answers(r) /\ reviewing[r].op # "idle" BY <2>1
    <3> HIDE DEF k, i
    <3> QED BY <3>1, <3>2, <3>3, ReviewWrites
  <2>10. V!Adding(i) BY <1>5, <2>1 DEF V!Adding
  <2>11. V!IdsOf(more) = V!IdsOf(item.reviews) \cup {i} BY DEF V!IdsOf
  <2> HIDE DEF more
  <2> QED BY <2>1, <2>2, <2>5, <2>9, <2>10, <2>11, CountIds DEF V!ReviewsStep
<1>11. ASSUME k.op \in {"edit", "delete"}, item' = item, V!Answers(r) PROVE ReviewStep
  <2>1. ReviewInv'
    BY <1>2, <1>3, <1>11, ReviewWrites DEF SameIds
  <2> QED BY <1>4, <1>11, <2>1
<1>12. ASSUME k.op \in {"edit", "delete"}, k.doc.version = item.version
       PROVE  /\ HasId(i, item.reviews) /\ SameIds(k.doc.reviews, item.reviews)
              /\ k.review \in ReviewOf /\ i \in 1..reviewed /\ i \in Nat /\ Kept(k.doc.reviews)
  <2>1. k.review \in ReviewOf /\ i \in 1..reviewed BY <1>2, <1>12 DEF ReviewHolds
  <2>2. i \in Nat BY <2>1 DEF ReviewOf
  <2> QED BY <1>2, <1>12, <2>1, <2>2 DEF ReviewHolds, SameIds
<1>13. CASE V!Edit(r)
  <2>1. k.op = "edit" /\ V!Answers(r) BY <1>13 DEF V!Edit
  <2>2. CASE k.doc.version # item.version
    <3>1. item' = item BY <1>13, <2>2 DEF V!Edit
    <3> QED BY <1>11, <2>1, <3>1
  <2>3. CASE k.doc.version = item.version
    <3> DEFINE edited == {w \in item.reviews : w.id # i} \cup {k.review}
               total == V!Totals({w \in k.doc.reviews : w.id # i} \cup {k.review}, k.doc)
               next == [item EXCEPT !.reviews = edited, !.stats = total]
               All == SUBSET ReviewOf
               T == {item.stats, total}
    <3>1. item' = next BY <1>13, <2>3 DEF V!Edit
    <3>2. HasId(i, item.reviews) /\ k.review \in ReviewOf /\ i \in 1..reviewed /\ i \in Nat
      BY <1>12, <2>1, <2>3
    <3>3. IsFiniteSet({w \in item.reviews : w.id # i}) BY <1>2, FS_Subset DEF Kept
    <3>4. IsFiniteSet(edited) BY <3>3, FS_AddElement
    <3>5. Kept(edited) BY <1>2, <3>2, <3>4 DEF Kept, OwnIds
    <3>6. item \in [reviews : All, stats : T, version : Nat] /\ edited \in All /\ total \in T
      BY <1>2, <3>5 DEF ItemDoc, Kept
    <3>7. \A v \in edited : v.id \in 1..reviewed BY <1>2, <3>2
    <3>8. V!IdsOf(edited) = V!IdsOf(item.reviews) /\ SameIds(item.reviews, edited)
      BY <3>2 DEF V!IdsOf, HasId, SameIds
    <3> HIDE DEF All, T, edited, total
    <3>9. /\ next \in [reviews : All, stats : T, version : Nat]
          /\ next.reviews = edited /\ next.version = item.version
      BY <3>6, Zenon
    <3> HIDE DEF next
    <3>10. next \in ItemDoc({next.stats}) BY <3>9 DEF ItemDoc, All
    <3>11. ReviewInv'
      <4>1. /\ item' \in ItemDoc({item'.stats}) /\ Kept(item'.reviews)
            /\ \A v \in item'.reviews : v.id \in 1..reviewed
        BY <3>1, <3>5, <3>7, <3>9, <3>10
      <4>2. item'.version = item.version /\ SameIds(item.reviews, item'.reviews)
        BY <3>1, <3>8, <3>9
      <4>3. item.version <= item'.version BY <1>3, <4>2
      <4>4. \A j \in Nat : HasId(j, item'.reviews) => HasId(j, item.reviews)
        BY <4>2 DEF SameIds
      <4>5. V!Answers(r) /\ reviewing[r].op # "idle" BY <2>1
      <4> HIDE DEF k, i
      <4> QED BY <4>1, <4>2, <4>3, <4>4, <4>5, ReviewWrites
    <3> QED BY <3>1, <3>5, <3>8, <3>9, <3>11, CountIds DEF V!ReviewsStep
  <2> QED BY <2>2, <2>3
<1>14. CASE V!Delete(r)
  <2>1. k.op = "delete" /\ V!Answers(r) BY <1>14 DEF V!Delete
  <2>2. CASE k.doc.version # item.version
    <3>1. item' = item BY <1>14, <2>2 DEF V!Delete
    <3> QED BY <1>11, <2>1, <3>1
  <2>3. CASE k.doc.version = item.version
    <3> DEFINE rest == {v \in k.doc.reviews : v.id # i}
               next == [reviews |-> rest, version |-> item.version + 1,
                        stats |-> V!Totals(rest, k.doc)]
    <3>1. item' = next BY <1>14, <2>3 DEF V!Delete
    <3>2. next.reviews = rest /\ next.version = item.version + 1 OBVIOUS
    <3>3. /\ HasId(i, item.reviews) /\ SameIds(k.doc.reviews, item.reviews)
          /\ i \in Nat /\ Kept(k.doc.reviews)
      BY <1>12, <2>1, <2>3
    <3>4. IsFiniteSet(rest) BY <3>3, FS_Subset DEF Kept
    <3>5. Kept(rest) BY <3>3, <3>4 DEF Kept, OwnIds
    <3>6. next \in ItemDoc({next.stats}) BY <1>3, <3>5 DEF ItemDoc, Kept
    <3> HIDE DEF next
    <3>7. \A j \in Nat : HasId(j, rest) <=> HasId(j, item.reviews) /\ j # i
      BY <3>3 DEF SameIds, HasId
    <3>8. \A v \in rest : v.id \in Nat /\ HasId(v.id, rest) BY <3>5 DEF Kept, HasId, ReviewOf
    <3>9. \A v \in rest : v.id \in 1..reviewed
      BY <1>2, <3>7, <3>8 DEF HasId
    <3>10. ReviewInv'
      <4>1. /\ item' \in ItemDoc({item'.stats}) /\ Kept(item'.reviews)
            /\ item.version <= item'.version /\ item'.version # item.version
        BY <1>3, <3>1, <3>2, <3>5, <3>6
      <4>2. /\ \A v \in item'.reviews : v.id \in 1..reviewed
            /\ \A j \in Nat : HasId(j, item'.reviews) => HasId(j, item.reviews)
        BY <3>1, <3>2, <3>7, <3>9
      <4>3. V!Answers(r) /\ reviewing[r].op # "idle" BY <2>1
      <4> HIDE DEF k, i
      <4> QED BY <4>1, <4>2, <4>3, ReviewWrites
    <3>11. V!Deleting(i) BY <1>5, <2>1 DEF V!Deleting
    <3>12. \A j \in V!IdsOf(item.reviews) : j \in Nat /\ HasId(j, item.reviews)
      BY <1>2 DEF V!IdsOf, HasId, ReviewOf
    <3>13. \A j \in V!IdsOf(rest) : j \in Nat /\ HasId(j, rest) BY <3>8 DEF V!IdsOf
    <3>14. \A j, X : HasId(j, X) => j \in V!IdsOf(X) BY DEF V!IdsOf, HasId
    <3>15. /\ V!IdsOf(item.reviews) \ V!IdsOf(rest) \subseteq {i}
           /\ V!IdsOf(rest) \subseteq V!IdsOf(item.reviews)
      BY <3>7, <3>12, <3>13, <3>14
    <3> HIDE DEF rest
    <3> QED BY <3>1, <3>2, <3>5, <3>10, <3>11, <3>15, CountIds DEF V!ReviewsStep
  <2> QED BY <2>2, <2>3
<1> QED BY <1>1, <1>7, <1>8, <1>9, <1>10, <1>13, <1>14

LEMMA ReviewInit == V!Init => ReviewInv
<1> SUFFICES ASSUME V!Init PROVE ReviewInv OBVIOUS
<1>1. /\ item.reviews = {} /\ item \in ItemDoc({item.stats}) /\ reviewed = 0
      /\ reviewing = [r \in Requests |-> V!Idle]
  BY DEF V!Init, ItemDoc
<1>2. Kept({}) BY FS_EmptySet DEF Kept, OwnIds
<1>3. \A r \in Requests : reviewing[r].op = "idle" BY <1>1 DEF V!Idle
<1>4. reviewing = [r \in Requests |-> reviewing[r]] BY <1>1
<1> QED BY <1>1, <1>2, <1>3, <1>4 DEF ReviewInv, ReviewHolds, Adds

(***************************************************************************)
(* Reels: a document of the version that is stored has the reactions that   *)
(* are stored; a decision to remove comes after the removal.                *)
(***************************************************************************)
Tally == [Users -> Nat]
ReelDoc == [likes : Tally, loves : Tally, version : Nat, removed : BOOLEAN, derivatives : Nat]

\* What a request may rely on of the reel.
ReelHolds(k, re) ==
    /\ k.op = "react" =>
         /\ k.by \in Users /\ k.kind \in R!Kinds /\ k.doc \in ReelDoc
         /\ k.doc.version <= re.version
         /\ k.doc.version = re.version => k.doc.likes = re.likes /\ k.doc.loves = re.loves
    /\ k.op = "remove" => /\ k.kind = "removed"
                           /\ k = [op |-> k.op, by |-> k.by, kind |-> k.kind, doc |-> k.doc]
    /\ k.op = "decide" /\ k.kind = "removed" => re.removed

Counting(q) == {r \in Requests : q[r].op = "count"}

ReelInv ==
    /\ reel \in ReelDoc /\ derivatives \in Nat
    /\ flag = "removed" => reel.removed
    /\ reacting = [r \in Requests |-> reacting[r]]
    /\ \A r \in Requests : ReelHolds(reacting[r], reel)
    /\ Cardinality(Counting(reacting)) + reel.derivatives <= derivatives

\* What no step does to the reactions of the others.
ReelOnward ==
    /\ reel' \in ReelDoc /\ reel.version <= reel'.version
    /\ reel'.version = reel.version => reel'.likes = reel.likes /\ reel'.loves = reel.loves
    /\ reel.removed => reel'.removed

LEMMA ReelMoves ==
  ASSUME ReelInv, ReelOnward, NEW r \in Requests, NEW k,
         reacting' = [reacting EXCEPT ![r] = k], ReelHolds(k, reel'),
         derivatives' \in Nat, flag' = "removed" => reel'.removed,
         Cardinality(Counting(reacting')) + reel'.derivatives <= derivatives'
  PROVE  ReelInv'
<1>1. \A q \in Requests : reacting'[q] = IF q = r THEN k ELSE reacting[q] BY DEF ReelInv
<1>2. reacting' = [q \in Requests |-> reacting'[q]] BY DEF ReelInv
<1>3. reel.version \in Nat /\ reel'.version \in Nat BY DEF ReelInv, ReelOnward, ReelDoc
<1>4. ASSUME NEW q \in Requests PROVE ReelHolds(reacting[q], reel')
  <2>1. ReelHolds(reacting[q], reel) BY DEF ReelInv
  <2>2. reacting[q].op = "react" => reacting[q].doc.version \in Nat
    BY <2>1 DEF ReelHolds, ReelDoc
  <2>3. reacting[q].op = "react" => reacting[q].doc.version <= reel'.version
    BY <1>3, <2>1, <2>2 DEF ReelHolds, ReelOnward
  <2>4. reacting[q].op = "react" /\ reacting[q].doc.version = reel'.version
           => reel'.version = reel.version
    BY <1>3, <2>1, <2>2 DEF ReelHolds, ReelOnward
  <2> QED BY <2>1, <2>3, <2>4 DEF ReelHolds, ReelOnward
<1> QED BY <1>1, <1>2, <1>4 DEF ReelInv, ReelOnward

\* How many requests are about to count a response.
LEMMA CountingMoves ==
  ASSUME ReelInv, NEW r \in Requests, NEW k, reacting' = [reacting EXCEPT ![r] = k]
  PROVE  /\ Cardinality(Counting(reacting)) \in Nat /\ Cardinality(Counting(reacting')) \in Nat
         /\ k.op # "count" /\ reacting[r].op # "count" =>
              Cardinality(Counting(reacting')) = Cardinality(Counting(reacting))
         /\ k.op # "count" /\ reacting[r].op = "count" =>
              Cardinality(Counting(reacting')) = Cardinality(Counting(reacting)) - 1
         /\ k.op = "count" /\ reacting[r].op # "count" =>
              Cardinality(Counting(reacting')) = Cardinality(Counting(reacting)) + 1
<1> DEFINE before == Counting(reacting)
           after == Counting(reacting')
<1>1. \A q \in Requests : reacting'[q] = IF q = r THEN k ELSE reacting[q] BY DEF ReelInv
<1>2. before \subseteq Requests /\ after \subseteq Requests BY DEF Counting
<1>3. IsFiniteSet(before) /\ IsFiniteSet(after) BY <1>2, RequestsAssumption, FS_Subset
<1>4. k.op # "count" /\ reacting[r].op # "count" => after = before BY <1>1 DEF Counting
<1>5. k.op # "count" /\ reacting[r].op = "count" => after = before \ {r} /\ r \in before
  BY <1>1 DEF Counting
<1>6. k.op = "count" /\ reacting[r].op # "count" => after = before \cup {r} /\ r \notin before
  BY <1>1 DEF Counting
<1> HIDE DEF before, after
<1>7. Cardinality(before) \in Nat /\ Cardinality(after) \in Nat BY <1>3, FS_CardinalityType
<1>8. r \in before => Cardinality(before \ {r}) = Cardinality(before) - 1
  BY <1>3, FS_RemoveElement
<1>9. r \notin before => Cardinality(before \cup {r}) = Cardinality(before) + 1
  BY <1>3, FS_AddElement
<1>10. Cardinality(before) \in Nat /\ Cardinality(after) \in Nat
       /\ (k.op # "count" /\ reacting[r].op # "count" => Cardinality(after) = Cardinality(before))
       /\ (k.op # "count" /\ reacting[r].op = "count" => Cardinality(after) = Cardinality(before) - 1)
       /\ (k.op = "count" /\ reacting[r].op # "count" => Cardinality(after) = Cardinality(before) + 1)
  BY <1>4, <1>5, <1>6, <1>7, <1>8, <1>9
<1> QED BY <1>10 DEF before, after

LEMMA Opposites == /\ R!Opposite("likes") = "loves" /\ R!Opposite("loves") = "likes"
                   /\ R!Kinds = {"likes", "loves"}
BY DEF R!Opposite, R!Kinds

LEMMA TallyMoves ==
  ASSUME NEW t \in Tally, NEW u \in Users
  PROVE  /\ R!Without(t, u) \in Tally /\ R!With(t, u) \in Tally
         /\ \A w \in Users \ {u} : R!Without(t, u)[w] = t[w] /\ R!With(t, u)[w] = t[w]
BY DEF Tally, R!Without, R!With

\* A reaction leaves the entries of the other users as they are.
LEMMA Reacts ==
  ASSUME reel \in ReelDoc, NEW doc \in ReelDoc, NEW u \in Users, NEW k \in R!Kinds,
         doc.version = reel.version => doc.likes = reel.likes /\ doc.loves = reel.loves
  PROVE  LET re == R!Reacted(doc, u, k)
         IN  \/ re = reel
             \/ /\ re \in ReelDoc /\ re.version = reel.version + 1
                /\ re.removed = reel.removed /\ re.derivatives = reel.derivatives
                /\ \A w \in Users \ {u} : re.likes[w] = reel.likes[w] /\ re.loves[w] = reel.loves[w]
<1> DEFINE re == R!Reacted(doc, u, k)
           replaced == R!Replaced(doc, u, k)
<1>1. CASE replaced # {} /\ doc.version # reel.version BY <1>1 DEF R!Reacted
<1>2. CASE ~(replaced # {} /\ doc.version # reel.version)
  <2> DEFINE o == R!Opposite(k)
             mine == IF k \in replaced THEN R!Without(doc[k], u) ELSE R!With(reel[k], u)
             other == IF o \in replaced THEN R!Without(doc[o], u) ELSE reel[o]
             n == reel.version + 1
             Fields == [likes : Tally, loves : Tally, version : Nat, removed : BOOLEAN,
                        derivatives : Nat]
  <2>1. re = [reel EXCEPT !.version = n, ![k] = mine, ![o] = other]
    BY <1>2 DEF R!Reacted
  <2>2. (k = "likes" /\ o = "loves") \/ (k = "loves" /\ o = "likes") BY Opposites
  <2>3. \A f \in {"likes", "loves"} : reel[f] \in Tally /\ doc[f] \in Tally BY DEF ReelDoc
  <2>4. replaced # {} => doc["likes"] = reel["likes"] /\ doc["loves"] = reel["loves"] BY <1>2
  <2>5. n \in Nat /\ reel \in Fields BY DEF ReelDoc
  <2>6. mine \in Tally /\ \A w \in Users \ {u} : mine[w] = reel[k][w]
    <3>1. CASE k \in replaced
      <4>1. mine = R!Without(reel[k], u) BY <2>2, <2>4, <3>1
      <4> HIDE DEF mine
      <4> QED BY <2>2, <2>3, <4>1, TallyMoves
    <3>2. CASE k \notin replaced
      <4>1. mine = R!With(reel[k], u) BY <3>2
      <4> HIDE DEF mine
      <4> QED BY <2>2, <2>3, <4>1, TallyMoves
    <3> QED BY <3>1, <3>2
  <2>7. other \in Tally /\ \A w \in Users \ {u} : other[w] = reel[o][w]
    <3>1. CASE o \in replaced
      <4>1. other = R!Without(reel[o], u) BY <2>2, <2>4, <3>1
      <4> HIDE DEF other
      <4> QED BY <2>2, <2>3, <4>1, TallyMoves
    <3>2. CASE o \notin replaced BY <2>2, <2>3, <3>2
    <3> QED BY <3>1, <3>2
  <2> HIDE DEF mine, other, n, re, o, Fields
  <2>8. re \in Fields /\ re.version = n /\ re[k] = mine /\ re[o] = other
        /\ re.removed = reel.removed /\ re.derivatives = reel.derivatives
    <3>1. CASE k = "likes" /\ o = "loves"
      <4>1. re = [reel EXCEPT !.version = n, !.likes = mine, !.loves = other] BY <2>1, <3>1, Zenon
      <4>2. re \in Fields /\ re.version = n /\ re.likes = mine /\ re.loves = other
            /\ re.removed = reel.removed /\ re.derivatives = reel.derivatives
        BY <2>5, <2>6, <2>7, <4>1, Zenon DEF Fields
      <4> QED BY <3>1, <4>2
    <3>2. CASE k = "loves" /\ o = "likes"
      <4>1. re = [reel EXCEPT !.version = n, !.loves = mine, !.likes = other] BY <2>1, <3>2, Zenon
      <4>2. re \in Fields /\ re.version = n /\ re.loves = mine /\ re.likes = other
            /\ re.removed = reel.removed /\ re.derivatives = reel.derivatives
        BY <2>5, <2>6, <2>7, <4>1, Zenon DEF Fields
      <4> QED BY <3>2, <4>2
    <3> QED BY <2>2, <3>1, <3>2
  <2>9. re \in ReelDoc /\ re.version = reel.version + 1 BY <2>8 DEF ReelDoc, Fields, n
  <2>10. \A w \in Users \ {u} : re.likes[w] = reel.likes[w] /\ re.loves[w] = reel.loves[w]
    BY <2>2, <2>6, <2>7, <2>8
  <2> QED BY <2>8, <2>9, <2>10 DEF re
<1> QED BY <1>1, <1>2

\* Every step of the reels.
ReelStep == ReelInv' /\ R!ReelsStep

\* A step that leaves the reel's arrays alone.
LEMMA ReelQuiet ==
  ASSUME ReelInv, ReelInv', reel'.likes = reel.likes, reel'.loves = reel.loves
  PROVE  R!ReelsStep
<1>1. \A u \in Users, f \in R!Kinds : R!OwnReaction(u, f) BY Opposites DEF R!OwnReaction
<1>2. /\ derivatives' \in Nat /\ Cardinality(Counting(reacting')) \in Nat
      /\ Cardinality(Counting(reacting')) + reel'.derivatives <= derivatives'
      /\ reel'.derivatives \in Nat
  <2>1. IsFiniteSet(Counting(reacting')) BY RequestsAssumption, FS_Subset DEF Counting
  <2> QED BY <2>1, FS_CardinalityType DEF ReelInv, ReelDoc
<1>3. flag' = "removed" => reel'.removed BY DEF ReelInv
<1>4. reel'.derivatives <= derivatives' BY <1>2
<1> QED BY <1>1, <1>3, <1>4 DEF R!ReelsStep

LEMMA ReelSteps == ASSUME ReelInv, R!Next PROVE ReelStep
<1> USE DEF ReelStep
<1> DEFINE many == Cardinality(Counting(reacting))
<1>1. /\ reel \in ReelDoc /\ derivatives \in Nat /\ reel.derivatives \in Nat
      /\ many + reel.derivatives <= derivatives /\ (flag = "removed" => reel.removed)
      /\ reel.version \in Nat
  BY DEF ReelInv, ReelDoc
<1>2. reel' = reel => ReelOnward BY <1>1 DEF ReelOnward
<1>3. R!Idle.op = "idle" /\ \A re : ReelHolds(R!Idle, re) BY DEF R!Idle, ReelHolds
<1>4. CASE R!FlagReel
  <2>1. ReelInv' BY <1>4 DEF R!FlagReel, ReelInv, ReelHolds, Counting
  <2> QED BY <1>4, <2>1, ReelQuiet DEF R!FlagReel
<1>5. ASSUME NEW r \in Requests,
             \/ R!LoadReaction(r) \/ R!SaveReaction(r) \/ R!CreateDerivative(r)
             \/ R!CountDerivative(r) \/ R!LoadFlag(r) \/ R!Remove(r) \/ R!Decide(r) \/ R!Fail(r)
      PROVE  ReelStep
  <2> DEFINE k == reacting[r]
  <2>1. ReelHolds(k, reel) BY DEF ReelInv
  <2>2. R!Answers(r) => reacting' = [reacting EXCEPT ![r] = R!Idle] /\ reacting'[r] = R!Idle
    BY DEF R!Answers, ReelInv
  \* A request is started, and the reel stays as it is.
  <2>3. ASSUME NEW op \in {"react", "count", "remove", "decide"}, NEW by, NEW kind,
               R!Starts(r, op, by, kind), reel' = reel, flag' = flag,
               derivatives' = IF op = "count" THEN derivatives + 1 ELSE derivatives,
               op = "react" => by \in Users /\ kind \in R!Kinds,
               op = "remove" => kind = "removed", op = "decide" => kind # "removed"
        PROVE  ReelStep
    <3> DEFINE q == [op |-> op, by |-> by, kind |-> kind, doc |-> reel]
    <3>1. /\ q.op = op /\ q.by = by /\ q.kind = kind /\ q.doc = reel
          /\ q = [op |-> q.op, by |-> q.by, kind |-> q.kind, doc |-> q.doc] OBVIOUS
    <3>2. reacting' = [reacting EXCEPT ![r] = q] /\ reacting[r] = R!Idle BY <2>3 DEF R!Starts
    <3> HIDE DEF q
    <3>3. ReelHolds(q, reel') BY <1>1, <2>3, <3>1 DEF ReelHolds
    <3>4. Cardinality(Counting(reacting')) + reel'.derivatives <= derivatives'
      <4>1. /\ many \in Nat
            /\ Cardinality(Counting(reacting')) = IF op = "count" THEN many + 1 ELSE many
        BY <1>3, <3>1, <3>2, CountingMoves
      <4> HIDE DEF many
      <4> QED BY <1>1, <2>3, <4>1
    <3>5. derivatives' \in Nat BY <1>1, <2>3
    <3>6. ReelInv' BY <1>1, <1>2, <2>3, <3>2, <3>3, <3>4, <3>5, ReelMoves
    <3> QED BY <2>3, <3>6, ReelQuiet
  \* A request ends that neither adds a response nor takes one from the count.
  <2>4. ASSUME NEW q, reacting' = [reacting EXCEPT ![r] = q], q.op # "count",
               ReelOnward, ReelHolds(q, reel'), derivatives' = derivatives,
               \/ reel'.derivatives = reel.derivatives
               \/ k.op = "count" /\ reel'.derivatives = reel.derivatives + 1,
               flag' = "removed" => reel'.removed
        PROVE  ReelInv'
    <3>1. /\ many \in Nat
          /\ Cardinality(Counting(reacting')) = IF k.op = "count" THEN many - 1 ELSE many
      <4>1. reacting' = [reacting EXCEPT ![r] = q] /\ q.op # "count" BY <2>4
      <4> QED BY <4>1, CountingMoves
    <3> HIDE DEF many
    <3>2. Cardinality(Counting(reacting')) + reel'.derivatives <= derivatives'
      BY <1>1, <2>4, <3>1
    <3>3. derivatives' \in Nat BY <1>1, <2>4
    <3> QED BY <2>4, <3>2, <3>3, ReelMoves
  <2>5. CASE R!LoadReaction(r)
    <3>1. PICK u \in Users, f \in R!Kinds : R!Starts(r, "react", u, f) BY <2>5 DEF R!LoadReaction
    <3> QED BY <2>3, <2>5, <3>1 DEF R!LoadReaction
  <2>6. CASE R!CreateDerivative(r) BY <2>3, <2>6 DEF R!CreateDerivative
  <2>7. CASE R!LoadFlag(r)
    <3>1. PICK decision \in {"approved", "rejected", "removed"} :
              R!Starts(r, IF decision = "removed" THEN "remove" ELSE "decide", None, decision)
      BY <2>7 DEF R!LoadFlag
    <3>2. UNCHANGED <<reel, derivatives, flag>> BY <2>7 DEF R!LoadFlag
    <3>3. CASE decision = "removed" BY <2>3, <3>1, <3>2, <3>3
    <3>4. CASE decision # "removed" BY <2>3, <3>1, <3>2, <3>4
    <3> QED BY <3>3, <3>4
  <2>8. CASE R!Fail(r)
    <3>1. UNCHANGED <<reel, derivatives, flag>> /\ R!Answers(r) BY <2>8 DEF R!Fail
    <3>2. ReelInv' BY <1>1, <1>2, <1>3, <2>2, <2>4, <3>1
    <3> QED BY <3>1, <3>2, ReelQuiet
  <2>9. CASE R!Decide(r)
    <3>1. /\ k.op = "decide" /\ flag' = k.kind /\ reel' = reel /\ derivatives' = derivatives
          /\ R!Answers(r) BY <2>9 DEF R!Decide
    <3>2. flag' = "removed" => reel'.removed BY <2>1, <3>1 DEF ReelHolds
    <3>3. ReelInv' BY <1>2, <1>3, <2>2, <2>4, <3>1, <3>2
    <3> QED BY <3>1, <3>3, ReelQuiet
  <2>10. CASE R!Remove(r)
    <3> DEFINE q == [k EXCEPT !.op = "decide"]
    <3>1. /\ k.op = "remove" /\ reel' = [reel EXCEPT !.removed = TRUE]
          /\ derivatives' = derivatives /\ flag' = flag BY <2>10 DEF R!Remove
    <3>2. /\ reel' \in ReelDoc /\ reel'.removed /\ reel'.likes = reel.likes
          /\ reel'.loves = reel.loves /\ reel'.version = reel.version
          /\ reel'.derivatives = reel.derivatives BY <1>1, <3>1 DEF ReelDoc
    <3>3. ReelOnward BY <1>1, <3>2 DEF ReelOnward
    <3>4. reacting' = [reacting EXCEPT ![r] = q]
      BY <2>10 DEF R!Remove, R!Goes
    <3>5. k = [op |-> k.op, by |-> k.by, kind |-> "removed", doc |-> k.doc]
      BY <2>1, <3>1 DEF ReelHolds
    <3>6. q.op = "decide" BY <3>5
    <3> HIDE DEF q
    <3>8. ReelHolds(q, reel') BY <3>2, <3>6 DEF ReelHolds
    <3>7. ReelInv' BY <1>1, <2>4, <3>1, <3>2, <3>3, <3>4, <3>6, <3>8
    <3> QED BY <3>2, <3>7, ReelQuiet
  <2>11. CASE R!CountDerivative(r)
    <3>1. /\ k.op = "count" /\ reel' = [reel EXCEPT !.derivatives = @ + 1]
          /\ derivatives' = derivatives /\ flag' = flag /\ R!Answers(r)
      BY <2>11 DEF R!CountDerivative
    <3>2. /\ reel' \in ReelDoc /\ reel'.removed = reel.removed /\ reel'.likes = reel.likes
          /\ reel'.loves = reel.loves /\ reel'.version = reel.version
          /\ reel'.derivatives = reel.derivatives + 1 BY <1>1, <3>1 DEF ReelDoc
    <3>3. ReelOnward BY <1>1, <3>2 DEF ReelOnward
    <3>4. ReelInv' BY <1>1, <1>3, <2>2, <2>4, <3>1, <3>2, <3>3
    <3> QED BY <3>2, <3>4, ReelQuiet
  <2>12. CASE R!SaveReaction(r)
    <3>1. /\ k.op = "react" /\ reel' = R!Reacted(k.doc, k.by, k.kind) /\ R!Answers(r)
          /\ derivatives' = derivatives /\ flag' = flag
      BY <2>12 DEF R!SaveReaction
    <3>2. /\ k.by \in Users /\ k.kind \in R!Kinds /\ k.doc \in ReelDoc
          /\ k.doc.version = reel.version => k.doc.likes = reel.likes /\ k.doc.loves = reel.loves
      BY <2>1, <3>1 DEF ReelHolds
    <3>3. \/ reel' = reel
          \/ /\ reel' \in ReelDoc /\ reel'.version = reel.version + 1
             /\ reel'.removed = reel.removed /\ reel'.derivatives = reel.derivatives
             /\ \A w \in Users \ {k.by} : reel'.likes[w] = reel.likes[w]
                                         /\ reel'.loves[w] = reel.loves[w]
      BY <1>1, <3>1, <3>2, Reacts
    <3>4. ReelOnward /\ reel'.derivatives = reel.derivatives /\ reel'.removed = reel.removed
      BY <1>1, <1>2, <3>3 DEF ReelOnward
    <3>5. ReelInv' BY <1>1, <1>3, <2>2, <2>4, <3>1, <3>4
    <3>6. ASSUME NEW u \in Users, NEW f \in R!Kinds PROVE R!OwnReaction(u, f)
      <4>1. u # k.by => reel'[f][u] = reel[f][u] BY <3>3, <3>6, Opposites
      <4> QED BY <2>2, <3>1, <4>1 DEF R!OwnReaction
    <3>7. reel' = reel => ReelStep BY <3>5, ReelQuiet
    <3>8. R!ReelsStep
      <4>1. IsFiniteSet(Counting(reacting')) BY RequestsAssumption, FS_Subset DEF Counting
      <4>2. /\ Cardinality(Counting(reacting')) \in Nat /\ derivatives' \in Nat
            /\ reel'.derivatives \in Nat
            /\ Cardinality(Counting(reacting')) + reel'.derivatives <= derivatives'
        BY <3>5, <4>1, FS_CardinalityType DEF ReelInv, ReelDoc
      <4>3. flag' = "removed" => reel'.removed BY <3>5 DEF ReelInv
      <4>4. reel'.derivatives <= derivatives' BY <4>2
      <4> QED BY <3>6, <4>3, <4>4 DEF R!ReelsStep
    <3> QED BY <3>5, <3>8
  <2> QED BY <1>5, <2>5, <2>6, <2>7, <2>8, <2>9, <2>10, <2>11, <2>12
<1> QED BY <1>4, <1>5 DEF R!Next

LEMMA ReelInit == R!Init => ReelInv
<1> SUFFICES ASSUME R!Init PROVE ReelInv OBVIOUS
<1>1. reel \in ReelDoc /\ reel.derivatives = 0 BY DEF R!Init, ReelDoc, Tally
<1>2. Counting(reacting) = {} BY DEF R!Init, R!Idle, Counting
<1>3. \A r \in Requests : ReelHolds(reacting[r], reel) BY DEF R!Init, R!Idle, ReelHolds
<1>4. reacting = [r \in Requests |-> reacting[r]] BY DEF R!Init
<1>5. Cardinality(Counting(reacting)) = 0 BY <1>2, FS_EmptySet
<1>6. flag # "removed" /\ derivatives = 0 BY FlagAssumption DEF R!Init
<1>7. Cardinality(Counting(reacting)) + reel.derivatives <= derivatives BY <1>1, <1>5, <1>6
<1> QED BY <1>1, <1>3, <1>4, <1>6, <1>7 DEF ReelInv

\* Nobody's review or reaction changes but by a request of its own, for any number of
\* users and requests that overlap: ids of reviews are never shared, an array that is
\* replaced is that of the version it is sent to, and only a saved removal is recorded.
THEOREM OthersStay == PlatformSpec => OthersKept
<1> DEFINE Own == /\ part = "reviews" => V!ReviewsStep
                  /\ part = "reels" => R!ReelsStep
<1>1. PlatformInit => ReviewInv /\ ReelInv BY ReviewInit, ReelInit DEF PlatformInit
<1>2. UNCHANGED allVars => UNCHANGED <<reviewVars, reelVars>> BY DEF allVars, learnerVars
<1>3. PlatformNext => (part = "reviews" /\ V!Next) \/ UNCHANGED reviewVars
  BY DEF PlatformNext, LearnerNext, SharedNext, learnerVars
<1>4. PlatformNext => (part = "reels" /\ R!Next) \/ UNCHANGED reelVars
  BY DEF PlatformNext, LearnerNext, SharedNext, learnerVars
<1>5. PlatformNext => /\ part = "reviews" => V!Next
                      /\ part = "reels" => R!Next
  BY DEF PlatformNext, LearnerNext, SharedNext
<1>6. ReviewInv /\ UNCHANGED reviewVars => ReviewInv' BY DEF ReviewInv, reviewVars
<1>7. ReelInv /\ UNCHANGED reelVars => ReelInv' BY DEF ReelInv, reelVars, Counting
<1>8. ReviewInv /\ V!Next => ReviewInv' /\ V!ReviewsStep BY ReviewSteps DEF ReviewStep
<1>9. ReelInv /\ R!Next => ReelInv' /\ R!ReelsStep BY ReelSteps DEF ReelStep
<1>10. ReviewInv /\ ReelInv /\ [PlatformNext]_allVars
         => /\ ReviewInv' /\ ReelInv' /\ [Own]_<<reviewVars, reelVars>>
  BY <1>2, <1>3, <1>4, <1>5, <1>6, <1>7, <1>8, <1>9
<1> QED BY <1>1, <1>10, PTL DEF PlatformSpec, OthersKept

-----------------------------------------------------------------------------
(***************************************************************************)
(* Proof, for any number of courses, lessons and requests, that a learner  *)
(* is credited only with what she did.  A request carries what it read;    *)
(* what was done, and the achievements owned, only grow, so what followed  *)
(* from them then still does when it writes.                               *)
(***************************************************************************)
Did(c) == {l \in Lessons[c] : <<c, l>> \in did}

ProgressHolds(k) ==
    /\ k.op = "mark" => \E c \in Courses : \E l \in Did(c) : k.on = <<c, l>> /\ k.doc \subseteq Did(c)
    /\ k.op = "certify" => k.on \in Finished
    /\ k.op = "badges" => \A t \in k.doc : t \in Awards /\ t <= Cardinality(Finished)
    /\ k.op \in {"profile", "grant"} =>
          \E n \in Nat : k.on = <<n>> /\ n <= Cardinality(Finished)
    /\ k.op = "save" => \E x \in Nat : k.on = <<x>> /\ x <= Points

RowHolds(c) ==
    /\ row[c].done \subseteq Did(c)
    /\ IsComplete(row[c]) => c \in Finished

Owned ==
    /\ badges \subseteq Awards /\ earned \subseteq Awards
    /\ \A t \in badges \cup earned : t <= Cardinality(Finished)

ProfileHolds ==
    /\ profile.xp \in Nat /\ profile.xp <= Points
    /\ profile.level \in Nat /\ profile.level <= LevelForXp(Points)

ProgressInv ==
    /\ DOMAIN row = Courses /\ \A c \in Courses : RowHolds(c)
    /\ certificates \subseteq Finished
    /\ Owned /\ ProfileHolds
    /\ req = [s \in Requests |-> req[s]] /\ \A r \in Requests : ProgressHolds(req[r])

LEMMA MinOf == ASSUME NEW a \in Int, NEW b \in Int PROVE Min({a, b}) <= b /\ Min({a, b}) \in {a, b}
<1>1. \E x \in {a, b} : \A y \in {a, b} : x <= y
  <2>1. CASE a <= b BY <2>1
  <2>2. CASE ~(a <= b) BY <2>2
  <2> QED BY <2>1, <2>2
<1>2. Min({a, b}) \in {a, b} /\ \A y \in {a, b} : Min({a, b}) <= y
  <2> DEFINE Least(x) == x \in {a, b} /\ \A y \in {a, b} : x <= y
  <2>1. Min({a, b}) = CHOOSE x : Least(x) BY Zenon DEF Min
  <2>2. \E x : Least(x) BY <1>1
  <2>3. Least(CHOOSE x : Least(x)) BY <2>2, Zenon
  <2> QED BY <2>1, <2>3
<1> QED BY <1>2

\* What is finished, its number and the points only grow.
LEMMA FinishedGrows ==
  ASSUME did \subseteq did'
  PROVE  /\ Finished \subseteq Finished'
         /\ \A c \in Courses : Did(c) \subseteq Did(c)'
<1> DEFINE Missing(c) == {l \in Lessons[c] : <<c, l>> \notin did}
<1>1. ASSUME NEW c \in Courses, c \in Finished PROVE c \in Finished'
  <2> DEFINE m == Missing(c)
             n == {l \in Lessons[c] : <<c, l>> \notin did'}
             a == Cardinality(m)
             b == Cardinality(n)
             t == Cardinality(Lessons[c])
  <2>1. IsFiniteSet(m) /\ n \subseteq m BY ProgressAssumption, FS_Subset
  <2>2. a \in Nat /\ b \in Nat /\ b <= a
    <3> HIDE DEF m, n
    <3> QED BY <2>1, FS_Subset, FS_CardinalityType
  <2>3. 2 * Whole * a <= t BY <1>1 DEF Finished
  <2>4. t \in Nat BY ProgressAssumption, FS_CardinalityType
  <2>5. 2 * Whole * b <= t
    <3> HIDE DEF a, b, t
    <3>1. Whole * b <= Whole * a BY <2>2, ProgressAssumption
    <3>2. Whole * b \in Nat /\ Whole * a \in Nat BY <2>2, ProgressAssumption
    <3>3. 2 * Whole * a = 2 * (Whole * a) /\ 2 * Whole * b = 2 * (Whole * b)
      BY <2>2, ProgressAssumption
    <3> QED BY <2>3, <2>4, <3>1, <3>2, <3>3
  <2> QED BY <2>5 DEF Finished
<1> QED BY <1>1 DEF Finished, Did

LEMMA FinishedCount ==
  /\ Finished \subseteq Courses /\ IsFiniteSet(Finished) /\ Cardinality(Finished) \in Nat
<1>1. Finished \subseteq Courses BY DEF Finished
<1> QED BY <1>1, ProgressAssumption, FS_Subset, FS_CardinalityType

LEMMA CountGrows ==
  ASSUME did \subseteq did'
  PROVE  Cardinality(Finished) <= Cardinality(Finished')
<1>1. Finished \subseteq Finished' BY FinishedGrows
<1>2. Finished' \subseteq Courses BY DEF Finished
<1>3. IsFiniteSet(Finished') BY <1>2, ProgressAssumption, FS_Subset
<1> QED BY <1>1, <1>3, FS_Subset

LEMMA PointsOf ==
  ASSUME NEW s \in SUBSET Awards
  PROVE  /\ SumOn(Xp, s) \in Nat
         /\ \A t \in Awards \ s : SumOn(Xp, s \cup {t}) = Xp[t] + SumOn(Xp, s)
<1>1. IsFiniteSet(s) /\ \A t \in s : Xp[t] \in Nat BY ProgressAssumption, FS_Subset
<1>2. SumOn(Xp, s) \in Nat BY <1>1, SumNat
<1>3. ASSUME NEW t \in Awards \ s PROVE SumOn(Xp, s \cup {t}) = Xp[t] + SumOn(Xp, s)
  <2> DEFINE u == s \cup {t}
  <2>1. IsFiniteSet(u) BY <1>1, FS_AddElement
  <2>2. \A x \in u : Xp[x] \in Int BY ProgressAssumption
  <2>3. t \in u /\ u \ {t} = s BY <1>3
  <2> HIDE DEF u
  <2>4. SumOn(Xp, u) = Xp[t] + SumOn(Xp, u \ {t}) BY <2>1, <2>2, <2>3, SumRemove
  <2> QED BY <2>3, <2>4 DEF u
<1> QED BY <1>2, <1>3

\* Every number of points has a level, and more points no lower one.
IsLevel(n, xp) == (n - 1) * (n - 1) * LevelXp <= xp /\ n * n * LevelXp > xp

LEMMA LevelExists ==
  ASSUME NEW xp \in Nat
  PROVE  LevelForXp(xp) \in 1..(xp + 1) /\ IsLevel(LevelForXp(xp), xp)
<1> DEFINE Bad == {n \in 1..(xp + 1) : n * n * LevelXp > xp}
<1>1. LevelXp \in Nat /\ LevelXp >= 1 BY ProgressAssumption
<1>2. (xp + 1) \in Bad
  <2>1. (xp + 1) * (xp + 1) \in Nat /\ (xp + 1) * (xp + 1) >= xp + 1 OBVIOUS
  <2>2. (xp + 1) * (xp + 1) * LevelXp >= (xp + 1) * (xp + 1) BY <1>1, <2>1
  <2> QED BY <2>1, <2>2, <1>1
<1>3. \E n \in 1..(xp + 1) : IsLevel(n, xp)
  <2> SUFFICES ASSUME \A n \in 1..(xp + 1) : ~IsLevel(n, xp) PROVE FALSE OBVIOUS
  <2>1. ASSUME NEW n \in Bad PROVE \E m \in Bad : m < n
    <3>1. n \in 1..(xp + 1) /\ n * n * LevelXp > xp OBVIOUS
    <3>2. ~((n - 1) * (n - 1) * LevelXp <= xp) BY <3>1 DEF IsLevel
    <3>3. n # 1 BY <3>2, <1>1
    <3>4. n - 1 \in 1..(xp + 1) BY <3>1, <3>3
    <3>5. (n - 1) * (n - 1) * LevelXp \in Int BY <3>4, <1>1
    <3> QED BY <3>1, <3>2, <3>4, <3>5
  <2>2. Bad \subseteq Nat OBVIOUS
  <2> HIDE DEF Bad
  <2>3. Bad = {} BY <2>1, <2>2, Descent
  <2> QED BY <1>2, <2>3
<1>4. LevelForXp(xp) = CHOOSE n \in 1..(xp + 1) : IsLevel(n, xp) BY Zenon DEF LevelForXp, IsLevel
<1> QED BY <1>3, <1>4

LEMMA LevelGrows ==
  ASSUME NEW a \in Nat, NEW b \in Nat, a <= b
  PROVE  LevelForXp(a) <= LevelForXp(b)
<1> DEFINE n == LevelForXp(a)
           m == LevelForXp(b)
<1>1. n \in 1..(a + 1) /\ m \in 1..(b + 1) /\ IsLevel(n, a) /\ IsLevel(m, b) BY LevelExists
<1> HIDE DEF n, m
<1> SUFFICES ASSUME n > m PROVE FALSE BY <1>1 DEF n, m
<1>2. n - 1 >= m /\ n - 1 \in Nat /\ m \in Nat BY <1>1
<1>3. (n - 1) * (n - 1) >= m * m
  <2> DEFINE i == n - 1
  <2>1. i \in Nat /\ i >= m BY <1>2
  <2> HIDE DEF i
  <2>2. i * i >= m * m BY <2>1, <1>2
  <2> QED BY <2>2 DEF i
<1>4. (n - 1) * (n - 1) \in Nat /\ m * m \in Nat BY <1>2
<1>5. (n - 1) * (n - 1) * LevelXp >= m * m * LevelXp BY <1>3, <1>4, ProgressAssumption
<1>6. (n - 1) * (n - 1) * LevelXp \in Int /\ m * m * LevelXp \in Int BY <1>4, ProgressAssumption
<1> QED BY <1>1, <1>5, <1>6 DEF IsLevel

\* Rounded to the nearest per cent, a course is whole when what is missing rounds away.
LEMMA PercentRounds ==
  ASSUME NEW n \in Nat, NEW t \in Nat \ {0}, NEW m \in Nat, m + n <= t,
         Percent(n, t) >= Whole
  PROVE  2 * Whole * m <= t
<1> DEFINE p == Percent(n, t)
           w == Whole
           x == 2 * w * n + t
<1>1. w \in Nat \ {0} BY ProgressAssumption
<1>2. x \in Nat BY <1>1
<1>3. p = x \div (2 * t) BY DEF Percent
<1>4. p \in Int /\ 2 * t * p <= x
  <2> DEFINE d == 2 * t
  <2>1. d \in Nat \ {0} OBVIOUS
  <2> HIDE DEF x, d
  <2>2. x \div d \in Int /\ d * (x \div d) <= x BY <1>2, <2>1
  <2> QED BY <2>2, <1>3 DEF d
<1> HIDE DEF p
<1>5. 2 * t * w <= 2 * t * p BY <1>1, <1>4 DEF p
<1>6. 2 * t * w <= 2 * w * n + t BY <1>2, <1>4, <1>5, <1>1
<1>7. w * (m + n) <= w * t BY <1>1
<1>8. w * (m + n) = w * m + w * n /\ w * m \in Nat /\ w * n \in Nat /\ w * t \in Nat BY <1>1
<1>9. 2 * t * w = 2 * (w * t) /\ 2 * w * n = 2 * (w * n) /\ 2 * w * m = 2 * (w * m) BY <1>1
<1> HIDE DEF w
<1> QED BY <1>6, <1>7, <1>8, <1>9 DEF w

LEMMA MarkedHolds ==
  ASSUME NEW c \in Courses, NEW done \in SUBSET Did(c), NEW l \in done,
         IsComplete(Marked(done, c))
  PROVE  c \in Finished
<1> DEFINE L == Lessons[c]
           n == Cardinality(done)
           t == Cardinality(L)
           m == Cardinality(L \ Did(c))
           p == Percent(n, t)
<1>1. IsFiniteSet(L) /\ done \subseteq L /\ l \in L BY ProgressAssumption DEF Did
<1>2. /\ IsFiniteSet(done) /\ IsFiniteSet(L \ done) /\ IsFiniteSet(L \ Did(c))
      /\ n \in Nat /\ t \in Nat /\ m \in Nat /\ Cardinality(L \ done) \in Nat
  <2> HIDE DEF L
  <2>1. L \ done \subseteq L /\ L \ Did(c) \subseteq L OBVIOUS
  <2>2. IsFiniteSet(done) /\ IsFiniteSet(L \ done) /\ IsFiniteSet(L \ Did(c))
    BY <1>1, <2>1, FS_Subset
  <2> QED BY <1>1, <2>2, FS_CardinalityType
<1>3. Cardinality(L \ done) = t - n
  <2> HIDE DEF L
  <2>1. L \cap done = done BY <1>1
  <2>2. Cardinality(L \ done) = t - Cardinality(L \cap done) BY <1>1, FS_Difference
  <2> QED BY <2>1, <2>2
<1>4. m <= Cardinality(L \ done)
  <2> HIDE DEF L
  <2>1. L \ Did(c) \subseteq L \ done OBVIOUS
  <2> QED BY <1>2, <2>1, FS_Subset
<1>5. t # 0
  <2> HIDE DEF L
  <2> QED BY <1>1, FS_EmptySet
<1>6. Marked(done, c).percent >= Whole
  BY DEF Marked, IsComplete
<1>7. Marked(done, c).percent = Min({Whole, p}) BY DEF Marked
<1>8. p \in Int
  <2> DEFINE a == 2 * Whole * n + t
             b == 2 * t
  <2>1. a \in Nat /\ b \in Nat \ {0} BY <1>2, <1>5, ProgressAssumption
  <2>2. p = a \div b BY DEF Percent
  <2> HIDE DEF a, b
  <2> QED BY <2>1, <2>2
<1> HIDE DEF p, n, t, m, L
<1>9. p >= Whole
  <2>1. Whole \in Int BY ProgressAssumption
  <2>2. Min({Whole, p}) <= p /\ Min({Whole, p}) \in Int BY <2>1, <1>8, MinOf
  <2> QED BY <1>6, <1>7, <1>8, <2>1, <2>2
<1>10. m + n <= t BY <1>2, <1>3, <1>4
<1>11. Percent(n, t) >= Whole BY <1>9 DEF p
<1>12. n \in Nat /\ t \in Nat \ {0} /\ m \in Nat BY <1>2, <1>5
<1>13. 2 * Whole * m <= t BY <1>10, <1>11, <1>12, PercentRounds
<1>14. {x \in Lessons[c] : <<c, x>> \notin did} = L \ Did(c) BY DEF L, Did
<1> QED BY <1>13, <1>14 DEF Finished, m, t, L

-----------------------------------------------------------------------------
\* What a request carries still holds after any step that takes nothing back.
Later == did \subseteq did' /\ earned \subseteq earned' /\ earned' \subseteq Awards

LEMMA PointsGrow ==
  ASSUME earned \subseteq Awards, earned' \subseteq Awards,
         earned' = earned \/ \E t \in Awards \ earned : earned' = earned \cup {t}
  PROVE  Points \in Nat /\ Points' \in Nat /\ Points <= Points'
<1>1. Points = SumOn(Xp, earned) /\ Points' = SumOn(Xp, earned') BY DEF Points, SumOn
<1>2. SumOn(Xp, earned) \in Nat /\ SumOn(Xp, earned') \in Nat BY PointsOf
<1>3. CASE earned' = earned BY <1>1, <1>2, <1>3
<1>4. CASE \E t \in Awards \ earned : earned' = earned \cup {t}
  <2>1. PICK t \in Awards \ earned : earned' = earned \cup {t} BY <1>4
  <2>2. SumOn(Xp, earned') = Xp[t] + SumOn(Xp, earned) BY <2>1, PointsOf
  <2>3. Xp[t] \in Nat BY ProgressAssumption
  <2> QED BY <1>1, <1>2, <2>2, <2>3
<1> QED BY <1>3, <1>4

Grows ==
    /\ did \subseteq did' /\ Owned'
    /\ earned' = earned \/ \E t \in Awards \ earned : earned' = earned \cup {t}

LEMMA CallStays ==
  ASSUME Owned, Grows, NEW k, ProgressHolds(k)
  PROVE  ProgressHolds(k)'
<1>1. Points \in Nat /\ Points' \in Nat /\ Points <= Points' BY PointsGrow DEF Owned, Grows
<1>2. Cardinality(Finished) <= Cardinality(Finished') BY CountGrows DEF Grows
<1>3. Cardinality(Finished) \in Nat BY FinishedCount
<1>4. Cardinality(Finished') \in Nat
  <2>1. Finished' \subseteq Courses BY DEF Finished
  <2> QED BY <2>1, ProgressAssumption, FS_Subset, FS_CardinalityType
<1>5. Finished \subseteq Finished' /\ \A c \in Courses : Did(c) \subseteq Did(c)'
  BY FinishedGrows DEF Grows
<1>6. k.op = "mark" => \E c \in Courses : \E l \in Did(c)' : k.on = <<c, l>> /\ k.doc \subseteq Did(c)'
  BY <1>5 DEF ProgressHolds
<1>7. k.op = "certify" => k.on \in Finished' BY <1>5 DEF ProgressHolds
<1>8. k.op = "badges" => \A t \in k.doc : t \in Awards /\ t <= Cardinality(Finished')
  BY <1>2, <1>3, <1>4, ProgressAssumption DEF ProgressHolds
<1>9. k.op \in {"profile", "grant"} => \E n \in Nat : k.on = <<n>> /\ n <= Cardinality(Finished')
  BY <1>2, <1>3, <1>4 DEF ProgressHolds
<1>10. k.op = "save" => \E x \in Nat : k.on = <<x>> /\ x <= Points'
  BY <1>1 DEF ProgressHolds
<1> QED BY <1>6, <1>7, <1>8, <1>9, <1>10 DEF ProgressHolds

\* One request goes on; everything else it writes is named by the facts.
LEMMA ProgressMoves ==
  ASSUME ProgressInv, Grows, NEW r \in Requests, NEW k, req' = [req EXCEPT ![r] = k],
         ProgressHolds(k)'
  PROVE  req' = [s \in Requests |-> req'[s]] /\ \A s \in Requests : ProgressHolds(req[s])'
<1>1. req = [s \in Requests |-> req[s]] /\ \A s \in Requests : ProgressHolds(req[s]) BY DEF ProgressInv
<1>2. Owned BY DEF ProgressInv
<1>3. ASSUME NEW s \in Requests PROVE ProgressHolds(req[s])'
  <2>1. PICK q : q = req[s] OBVIOUS
  <2>2. ProgressHolds(q) BY <1>1, <2>1
  <2>3. ProgressHolds(q)' BY <1>2, <2>2, CallStays
  <2>4. s # r => req'[s] = q BY <1>1, <2>1
  <2>5. req'[r] = k BY <1>1
  <2>6. CASE s = r BY <2>5, <2>6 DEF ProgressHolds
  <2>7. CASE s # r BY <2>3, <2>4, <2>7 DEF ProgressHolds
  <2> QED BY <2>6, <2>7
<1> QED BY <1>1, <1>3

LEMMA OwnedStays ==
  ASSUME ProgressInv, did \subseteq did', UNCHANGED <<badges, earned>>
  PROVE  Grows
<1>1. Cardinality(Finished) <= Cardinality(Finished') BY CountGrows
<1>2. Cardinality(Finished) \in Nat BY FinishedCount
<1>3. Cardinality(Finished') \in Nat
  <2>1. Finished' \subseteq Courses BY DEF Finished
  <2> QED BY <2>1, ProgressAssumption, FS_Subset, FS_CardinalityType
<1>4. \A t \in badges \cup earned : t \in Nat BY ProgressAssumption DEF ProgressInv, Owned
<1> QED BY <1>1, <1>2, <1>3, <1>4 DEF ProgressInv, Owned, Grows

LEMMA RowsStay ==
  ASSUME ProgressInv, did \subseteq did', row' = row
  PROVE  DOMAIN row' = Courses /\ \A c \in Courses : RowHolds(c)'
<1>1. Finished \subseteq Finished' /\ \A c \in Courses : Did(c) \subseteq Did(c)' BY FinishedGrows
<1> QED BY <1>1 DEF ProgressInv, RowHolds

LEMMA ProfileStays ==
  ASSUME ProgressInv, Grows, profile' = profile
  PROVE  ProfileHolds'
<1>1. Points \in Nat /\ Points' \in Nat /\ Points <= Points'
  BY PointsGrow DEF ProgressInv, Owned, Grows
<1>2. LevelForXp(Points) <= LevelForXp(Points') BY <1>1, LevelGrows
<1>3. LevelForXp(Points) \in Nat /\ LevelForXp(Points') \in Nat BY <1>1, LevelExists
<1> QED BY <1>1, <1>2, <1>3 DEF ProgressInv, ProfileHolds

\* A step of a request that writes neither a row, nor the profile, nor a certificate.
LEMMA ProgressQuiet ==
  ASSUME ProgressInv, Grows, UNCHANGED <<row, profile, certificates>>,
         NEW r \in Requests, NEW k, req' = [req EXCEPT ![r] = k], ProgressHolds(k)'
  PROVE  ProgressInv'
<1>1. did \subseteq did' BY DEF Grows
<1>2. req' = [s \in Requests |-> req'[s]] /\ \A s \in Requests : ProgressHolds(req[s])' BY ProgressMoves
<1>3. DOMAIN row' = Courses /\ \A c \in Courses : RowHolds(c)' BY <1>1, RowsStay
<1>4. certificates' \subseteq Finished' BY <1>1, FinishedGrows DEF ProgressInv
<1>5. ProfileHolds' BY ProfileStays
<1> QED BY <1>2, <1>3, <1>4, <1>5 DEF ProgressInv, Grows

LEMMA IdleStays == ProgressHolds(Idle)'
BY DEF ProgressHolds, Idle

LEMMA SameDid == UNCHANGED did => Finished' = Finished /\ \A c \in Courses : Did(c)' = Did(c)
BY DEF Finished, Did

LEMMA ProgressSteps == ASSUME ProgressInv, Next PROVE ProgressInv'
<1>1. PICK r \in Requests :
        \/ SubmitAttempt(r) \/ UpdateCourseProgress(r) \/ WriteProgress(r)
        \/ CheckCompletion(r) \/ CreateCertificate(r) \/ CountForBadges(r) \/ AwardBadge(r)
        \/ Evaluate(r) \/ LoadProfile(r) \/ Grant(r) \/ Total(r) \/ SaveProfile(r)
  BY DEF Next
<1>2. PICK k : k = req[r] OBVIOUS
<1>3. ProgressHolds(k) BY <1>2 DEF ProgressInv
<1>4. /\ DOMAIN row = Courses /\ \A c \in Courses : RowHolds(c)
      /\ certificates \subseteq Finished /\ Owned /\ ProfileHolds
  BY DEF ProgressInv
<1>5. Finished \subseteq Courses /\ IsFiniteSet(Finished) /\ Cardinality(Finished) \in Nat
  BY FinishedCount
<1>6. Completed \subseteq Finished BY <1>4 DEF Completed, RowHolds
<1>7. Cardinality(Completed) \in Nat /\ Cardinality(Completed) <= Cardinality(Finished)
  BY <1>5, <1>6, FS_Subset, FS_CardinalityType
\* A lesson is done: the request read a row of what was done before.
<1>8. ASSUME NEW c \in Courses, NEW l \in Lessons[c], did' = did \cup {<<c, l>>},
             Starts(r, "mark", <<c, l>>, row[c].done),
             UNCHANGED <<row, certificates, badges, earned, profile>>
      PROVE  ProgressInv'
  <2> DEFINE q == [op |-> "mark", on |-> <<c, l>>, doc |-> row[c].done]
  <2>1. Grows BY <1>8, OwnedStays
  <2>2. row[c].done \subseteq Did(c) BY <1>4 DEF RowHolds
  <2>3. Did(c) \subseteq Did(c)' /\ l \in Did(c)' BY <1>8 DEF Did
  <2>4. q.op = "mark" /\ q.on = <<c, l>> /\ q.doc \subseteq Did(c)' BY <2>2, <2>3
  <2>5. req' = [req EXCEPT ![r] = q] BY <1>8 DEF Starts
  <2> HIDE DEF q
  <2>6. PICK p : p = q OBVIOUS
  <2>7. ProgressHolds(p)' BY <2>3, <2>4, <2>6 DEF ProgressHolds
  <2> QED BY <1>8, <2>1, <2>5, <2>6, <2>7, ProgressQuiet
<1>9. CASE SubmitAttempt(r)
  <2>1. PICK q \in Quizzes : /\ Starts(r, "mark", q, row[q[1]].done) /\ did' = did \cup {q}
                             /\ UNCHANGED <<row, certificates, badges, earned, profile>>
    BY <1>9 DEF SubmitAttempt
  <2>2. PICK c \in Courses : \E l \in Lessons[c] : q = <<c, l>> BY ProgressAssumption
  <2>4. PICK l \in Lessons[c] : q = <<c, l>> BY <2>2
  <2>3. q[1] = c BY <2>4
  <2> QED BY <1>8, <2>1, <2>3, <2>4
<1>10. CASE UpdateCourseProgress(r) BY <1>8, <1>10 DEF UpdateCourseProgress
\* A request that starts from what it counts, or carries it on.
<1>11. ASSUME UNCHANGED <<row, certificates, badges, earned, profile, did>>,
              NEW q, req' = [req EXCEPT ![r] = q], ProgressHolds(q)
       PROVE  ProgressInv'
  <2>1. Grows BY <1>11, OwnedStays
  <2>2. ProgressHolds(q)' BY <1>4, <1>11, <2>1, CallStays
  <2> QED BY <1>11, <2>1, <2>2, ProgressQuiet
<1>12. CASE CheckCompletion(r)
  <2>1. PICK c \in Completed \ certificates : Starts(r, "certify", c, None)
    BY <1>12 DEF CheckCompletion
  <2>2. PICK q : q = [op |-> "certify", on |-> c, doc |-> None] OBVIOUS
  <2>3. ProgressHolds(q) BY <2>2, <1>6 DEF ProgressHolds
  <2> QED BY <1>11, <1>12, <2>1, <2>2, <2>3 DEF CheckCompletion, Starts
<1>13. CASE CountForBadges(r)
  <2>1. PICK d : d = {t \in Awards \ badges : Cardinality(Completed) >= t} OBVIOUS
  <2>2. PICK q : q = [op |-> "badges", on |-> None, doc |-> d] OBVIOUS
  <2>3. \A t \in d : t \in Awards /\ t <= Cardinality(Finished)
    BY <2>1, <1>5, <1>7, ProgressAssumption
  <2>4. ProgressHolds(q) BY <2>2, <2>3 DEF ProgressHolds
  <2> QED BY <1>11, <1>13, <2>1, <2>2, <2>4 DEF CountForBadges, Starts
<1>14. CASE Evaluate(r)
  <2>1. PICK n \in Nat : n = Cardinality(Completed) BY <1>7
  <2>2. PICK q : q = [op |-> "profile", on |-> <<n>>, doc |-> None] OBVIOUS
  <2>3. ProgressHolds(q) BY <2>1, <2>2, <1>7 DEF ProgressHolds
  <2> QED BY <1>11, <1>14, <2>1, <2>2, <2>3 DEF Evaluate, Starts
<1>15. CASE LoadProfile(r)
  <2>1. PICK q : q = [op |-> "grant", on |-> k.on, doc |-> profile] OBVIOUS
  <2>2. k.op = "profile" BY <1>2, <1>15 DEF LoadProfile
  <2>3. ProgressHolds(q) BY <1>3, <2>1, <2>2 DEF ProgressHolds
  <2>4. req' = [req EXCEPT ![r] = q] BY <1>2, <1>15, <2>1 DEF LoadProfile, Goes
  <2> QED BY <1>11, <1>15, <2>3, <2>4 DEF LoadProfile
<1>16. CASE Total(r)
  <2>1. Points \in Nat
    <3>1. Points = SumOn(Xp, earned) BY DEF Points, SumOn
    <3> QED BY <1>4, <3>1, PointsOf DEF Owned
  <2>2. PICK x \in Nat : x = Points BY <2>1
  <2>3. PICK q : q = [op |-> "save", on |-> <<x>>, doc |-> k.doc] OBVIOUS
  <2>4. ProgressHolds(q) BY <2>2, <2>3 DEF ProgressHolds
  <2>5. req' = [req EXCEPT ![r] = q] BY <1>2, <1>16, <2>2, <2>3 DEF Total
  <2> QED BY <1>11, <1>16, <2>4, <2>5 DEF Total
\* What is written.
<1>17. CASE WriteProgress(r)
  <2>1. k.op = "mark" BY <1>2, <1>17 DEF WriteProgress
  <2>2. PICK c \in Courses : \E l \in Did(c) : k.on = <<c, l>> /\ k.doc \subseteq Did(c)
    BY <1>3, <2>1 DEF ProgressHolds
  <2>3. PICK l \in Did(c) : k.on = <<c, l>> /\ k.doc \subseteq Did(c) BY <2>2
  <2>4. PICK done : done = k.doc \cup {l} OBVIOUS
  <2>5. done \in SUBSET Did(c) /\ l \in done BY <2>3, <2>4
  <2>6. PICK m : m = Marked(done, c) OBVIOUS
  <2>7. row' = [row EXCEPT ![c] = m]
    <3>1. k.on[1] = c /\ k.on[2] = l BY <2>3
    <3> QED BY <1>2, <1>17, <2>4, <2>6, <3>1 DEF WriteProgress
  <2>8. m.done = done BY <2>6 DEF Marked
  <2>9. IsComplete(m) => c \in Finished BY <2>5, <2>6, MarkedHolds
  <2>10. UNCHANGED <<certificates, badges, earned, profile, did>> /\ Answers(r)
    BY <1>17 DEF WriteProgress
  <2>11. Finished' = Finished /\ \A d \in Courses : Did(d)' = Did(d) BY <2>10, SameDid
  <2>12. \A d \in Courses : row'[d] = IF d = c THEN m ELSE row[d] BY <1>4, <2>7
  <2>13. DOMAIN row' = Courses BY <1>4, <2>7
  <2>14. ASSUME NEW d \in Courses PROVE RowHolds(d)'
    <3>1. CASE d = c
      <4>1. row'[d] = m BY <2>12, <3>1
      <4>2. row'[d].done \subseteq Did(d)' BY <2>5, <2>8, <2>11, <3>1, <4>1
      <4>3. IsComplete(row'[d]) => d \in Finished' BY <2>9, <2>11, <3>1, <4>1
      <4> QED BY <4>2, <4>3 DEF RowHolds
    <3>2. CASE d # c
      <4>1. row'[d] = row[d] BY <2>12, <3>2
      <4> QED BY <1>4, <2>11, <4>1 DEF RowHolds
    <3> QED BY <3>1, <3>2
  <2>15. Grows BY <2>10, OwnedStays
  <2>16. req' = [s \in Requests |-> req'[s]] /\ \A s \in Requests : ProgressHolds(req[s])'
    BY <2>10, <2>15, IdleStays, ProgressMoves DEF Answers
  <2>17. ProfileHolds' BY <2>10, <2>15, ProfileStays
  <2> QED BY <1>4, <2>10, <2>11, <2>13, <2>14, <2>15, <2>16, <2>17 DEF ProgressInv, Grows
<1>18. CASE CreateCertificate(r)
  <2>1. /\ k.op = "certify" /\ certificates' = certificates \cup {k.on}
        /\ UNCHANGED <<row, badges, earned, profile, did>> /\ Answers(r)
    BY <1>2, <1>18 DEF CreateCertificate
  <2>2. certificates' \subseteq Finished' BY <1>3, <1>4, <2>1, SameDid DEF ProgressHolds
  <2>3. Grows BY <2>1, OwnedStays
  <2>4. req' = [s \in Requests |-> req'[s]] /\ \A s \in Requests : ProgressHolds(req[s])'
    BY <2>1, <2>3, IdleStays, ProgressMoves DEF Answers
  <2>5. ProfileHolds' BY <2>1, <2>3, ProfileStays
  <2>6. DOMAIN row' = Courses /\ \A c \in Courses : RowHolds(c)' BY <2>1, RowsStay
  <2> QED BY <2>2, <2>3, <2>4, <2>5, <2>6 DEF ProgressInv, Grows
\* A badge or an achievement that was due is owned.
<1>19. CASE AwardBadge(r)
  <2>1. k.op = "badges" /\ UNCHANGED <<row, certificates, earned, profile, did>>
    BY <1>2, <1>19 DEF AwardBadge
  <2>2. Finished' = Finished BY <2>1, SameDid
  <2>3. CASE k.doc = {} /\ Answers(r) /\ UNCHANGED badges
    <3>1. Grows BY <2>1, <2>3, OwnedStays
    <3> QED BY <2>1, <2>3, <3>1, IdleStays, ProgressQuiet DEF Answers
  <2>4. CASE \E t \in k.doc : badges' = badges \cup {t} /\ Goes(r, "badges", k.doc \ {t})
    <3>1. PICK t \in k.doc : badges' = badges \cup {t} /\ Goes(r, "badges", k.doc \ {t})
      BY <2>4
    <3>2. t \in Awards /\ t <= Cardinality(Finished) BY <1>3, <2>1, <3>1 DEF ProgressHolds
    <3>3. Grows BY <1>4, <2>1, <2>2, <3>1, <3>2 DEF Grows, Owned
    <3>4. PICK q : q = [op |-> "badges", on |-> k.on, doc |-> k.doc \ {t}] OBVIOUS
    <3>5. req' = [req EXCEPT ![r] = q] BY <1>2, <3>1, <3>4 DEF Goes
    <3>6. ProgressHolds(q) BY <1>3, <2>1, <3>4 DEF ProgressHolds
    <3>7. ProgressHolds(q)' BY <1>4, <3>3, <3>6, CallStays
    <3> QED BY <2>1, <3>3, <3>5, <3>7, ProgressQuiet
  <2> QED BY <1>2, <1>19, <2>3, <2>4 DEF AwardBadge
<1>20. CASE Grant(r)
  <2>1. PICK t \in Awards : k.op = "grant" /\ t <= k.on[1] /\ t \notin earned
                             /\ earned' = earned \cup {t}
    BY <1>2, <1>20 DEF Grant
  <2>2. UNCHANGED <<row, certificates, badges, profile, req, did>> BY <1>20 DEF Grant
  <2>3. PICK n \in Nat : k.on = <<n>> /\ n <= Cardinality(Finished)
    BY <1>3, <2>1 DEF ProgressHolds
  <2>4. t <= Cardinality(Finished) BY <1>5, <2>1, <2>3, ProgressAssumption
  <2>5. Finished' = Finished BY <2>2, SameDid
  <2>6. Grows BY <1>4, <2>1, <2>2, <2>4, <2>5 DEF Grows, Owned
  <2>7. req' = [req EXCEPT ![r] = k] BY <1>2, <2>2 DEF ProgressInv
  <2>8. ProgressHolds(k)' BY <1>3, <1>4, <2>6, CallStays
  <2> QED BY <2>2, <2>6, <2>7, <2>8, ProgressQuiet
<1>21. CASE SaveProfile(r)
  <2>1. /\ k.op = "save" /\ UNCHANGED <<row, certificates, badges, earned, did>> /\ Answers(r)
    BY <1>2, <1>21 DEF SaveProfile
  <2>2. PICK x \in Nat : k.on = <<x>> /\ x <= Points BY <1>3, <2>1 DEF ProgressHolds
  <2>3. /\ profile'.xp \in {x, profile.xp}
        /\ profile'.level \in {LevelForXp(x), profile.level}
    <3>1. k.on[1] = x BY <2>2
    <3> QED BY <1>2, <1>21, <3>1 DEF SaveProfile
  <2>4. Points' = Points /\ Points \in Nat
    <3>1. Points = SumOn(Xp, earned) BY DEF Points, SumOn
    <3> QED BY <1>4, <2>1, <3>1, PointsOf DEF Owned, Points
  <2>5. LevelForXp(x) \in Nat /\ LevelForXp(x) <= LevelForXp(Points)
    BY <2>2, <2>4, LevelGrows, LevelExists
  <2>6. ProfileHolds' BY <1>4, <2>2, <2>3, <2>4, <2>5 DEF ProfileHolds
  <2>7. Grows BY <2>1, OwnedStays
  <2>8. req' = [s \in Requests |-> req'[s]] /\ \A s \in Requests : ProgressHolds(req[s])'
    BY <2>1, <2>7, IdleStays, ProgressMoves DEF Answers
  <2>9. DOMAIN row' = Courses /\ \A c \in Courses : RowHolds(c)' BY <2>1, RowsStay
  <2>10. certificates' \subseteq Finished' BY <1>4, <2>1, SameDid
  <2> QED BY <2>6, <2>7, <2>8, <2>9, <2>10 DEF ProgressInv, Grows
<1> QED BY <1>1, <1>9, <1>10, <1>12, <1>13, <1>14, <1>15, <1>16, <1>17, <1>18, <1>19, <1>20, <1>21

LEMMA ProgressInit == Init => ProgressInv
<1> SUFFICES ASSUME Init PROVE ProgressInv OBVIOUS
<1>1. ASSUME NEW c \in Courses PROVE RowHolds(c)
  <2>1. row[c] = NoRow BY DEF Init
  <2> QED BY <2>1, ProgressAssumption DEF RowHolds, NoRow, IsComplete
<1>2. ProfileHolds
  <2>1. Points \in Nat
    <3>1. Points = SumOn(Xp, earned) BY DEF Points, SumOn
    <3>2. earned \subseteq Awards BY DEF Init
    <3> QED BY <3>1, <3>2, PointsOf
  <2>2. LevelForXp(Points) \in 1..(Points + 1) BY <2>1, LevelExists
  <2> QED BY <2>1, <2>2 DEF Init, ProfileHolds
<1>3. \A r \in Requests : ProgressHolds(req[r]) BY DEF Init, Idle, ProgressHolds
<1>4. Owned BY DEF Init, Owned
<1> QED BY <1>1, <1>2, <1>3, <1>4 DEF Init, ProgressInv

LEMMA ProgressIsEarned == ProgressInv => ProgressEarned
BY DEF ProgressInv, ProgressEarned, RowHolds, Owned, ProfileHolds, Completed, Did

-----------------------------------------------------------------------------
(***************************************************************************)
(* Proof, for any number of requests, days and freezes, that a streak is   *)
(* earned.  While every request is over by the end of its day, those that  *)
(* count today have read rows with one and the same longest streak, and    *)
(* the first of them to save makes the row one of today.                   *)
(***************************************************************************)
TheRow == IF streak = None THEN S!NewStreak ELSE streak

\* What a request that is counting, or paying for missed days, is about to save.
Counts(k) == k.op # "idle" /\ k.sets.new.last # k.sets.old.last

CountedFrom(o, n, s, d, days) ==
    /\ o.last # d /\ n.last = d
    /\ o.current <= o.longest
    /\ n.current <= Cardinality(days) /\ n.current <= n.longest
    /\ n.longest = o.longest \/ (n.longest = o.longest + 1 /\ n.current = n.longest)
    /\ \A m \in n.reached \ o.reached : m <= Cardinality(days)
    /\ s.longest = o.longest \/ s.longest = o.longest + 1
    /\ s.last # d => s.longest = o.longest

PaidFrom(o, n) ==
    /\ n.last = o.last /\ n.longest = o.longest /\ n.reached = o.reached
    /\ n.current = o.current \/ n.current = 0

SlotTyped(k) ==
    /\ k.op \in {"idle", "save", "insert"}
    /\ k.op # "idle" => k.sets.old \in StreakRow /\ k.sets.new \in StreakRow
    /\ k.op = "insert" => k.sets.old = S!NewStreak

SlotHolds(k, s, d, days) ==
    /\ Counts(k) => CountedFrom(k.sets.old, k.sets.new, s, d, days)
    /\ k.op # "idle" /\ ~Counts(k) => PaidFrom(k.sets.old, k.sets.new)

DayRow(s, d, days) ==
    /\ s.current <= Cardinality(days) /\ s.current <= s.longest
    /\ s.last # d => s.current <= Cardinality(days \ {d})
    /\ \A m \in s.reached : m <= Cardinality(days)

Alike(slots) == \A r, q \in Requests : Counts(slots[r]) /\ Counts(slots[q])
                    => slots[r].sets.old.longest = slots[q].sets.old.longest

DayHolds(s, slots, d, days) ==
    DayRow(s, d, days) /\ Alike(slots) /\ \A r \in Requests : SlotHolds(slots[r], s, d, days)

StreakInv ==
    /\ day \in Nat /\ activeDays \subseteq 0..day /\ crossed \in BOOLEAN
    /\ streak = None \/ streak \in StreakRow
    /\ DOMAIN counting = Requests
    /\ \A r \in Requests : SlotTyped(counting[r])
    /\ \A r \in Requests : counting[r].op = "save" => streak # None
    /\ ~crossed => DayHolds(TheRow, counting, day, activeDays)

LEMMA NewRow == S!NewStreak \in StreakRow /\ S!NewStreak.longest = 0 /\ S!NewStreak.current = 0
                /\ S!NewStreak.reached = {} /\ S!NewStreak.last = None
BY StreakAssumption DEF S!NewStreak, StreakRow

LEMMA TheRowTyped == StreakInv => TheRow \in StreakRow
BY NewRow DEF StreakInv, TheRow

LEMMA LargerOf == ASSUME NEW a \in Nat, NEW b \in Nat
                  PROVE S!Max({a, b}) = IF b > a THEN b ELSE a
<1> DEFINE Most(x) == x \in {a, b} /\ \A y \in {a, b} : x >= y
<1>1. S!Max({a, b}) = CHOOSE x : Most(x) BY Zenon DEF S!Max
<1>2. Most(IF b > a THEN b ELSE a) OBVIOUS
<1>3. Most(CHOOSE x : Most(x)) BY <1>2, Zenon
<1>4. \A x : Most(x) => x = IF b > a THEN b ELSE a OBVIOUS
<1> QED BY <1>1, <1>3, <1>4

LEMMA CountedIs ==
  ASSUME day \in Nat, NEW s \in StreakRow
  PROVE  /\ S!Counted(s) \in StreakRow
         /\ S!Counted(s).current \in 1..(s.current + 1)
         /\ S!Counted(s).longest = s.longest /\ S!Counted(s).reached = s.reached
<1> DEFINE gap == day - s.last - 1
<1>1. CASE s.last = None BY <1>1 DEF S!Counted, StreakRow
<1>2. CASE s.last # None
  <2>1. gap \in Int BY <1>2 DEF StreakRow
  <2>2. s.current \in Nat /\ s.freezes \in 0..Freezes BY DEF StreakRow
  <2>3. CASE gap <= 0
    <3>1. S!Counted(s) = [s EXCEPT !.current = @ + 1] BY <1>2, <2>3 DEF S!Counted
    <3> QED BY <2>2, <3>1 DEF StreakRow
  <2>4. CASE gap > 0 /\ s.freezes >= gap
    <3>1. S!Counted(s) = [s EXCEPT !.current = @ + 1, !.freezes = @ - gap]
      BY <1>2, <2>1, <2>4 DEF S!Counted
    <3>2. s.freezes - gap \in 0..Freezes BY <2>1, <2>2, <2>4, StreakAssumption
    <3>3. PICK f \in 0..Freezes : f = s.freezes - gap BY <3>2
    <3>4. PICK n \in Nat : n = s.current + 1 BY <2>2
    <3>5. S!Counted(s) = [s EXCEPT !.current = n, !.freezes = f] BY <3>1, <3>3, <3>4
    <3>6. PICK q : q = [s EXCEPT !.current = n, !.freezes = f] OBVIOUS
    <3>7. q \in StreakRow BY <3>6 DEF StreakRow
    <3>8. q.current = n /\ q.longest = s.longest /\ q.reached = s.reached
      BY <3>6 DEF StreakRow
    <3>9. n \in 1..(s.current + 1) BY <2>2, <3>4
    <3> QED BY <3>5, <3>6, <3>7, <3>8, <3>9
  <2>5. CASE gap > 0 /\ ~(s.freezes >= gap)
    <3>1. S!Counted(s) = [s EXCEPT !.current = 1] BY <1>2, <2>1, <2>5 DEF S!Counted
    <3> QED BY <2>2, <3>1 DEF StreakRow
  <2> QED BY <2>1, <2>3, <2>4, <2>5
<1> QED BY <1>1, <1>2

LEMMA RecordedIs ==
  ASSUME day \in Nat, NEW s \in StreakRow
  PROVE  /\ S!Recorded(s) \in StreakRow
         /\ S!Recorded(s).last = day
         /\ S!Recorded(s).current \in 1..(s.current + 1)
         /\ S!Recorded(s).longest = IF S!Recorded(s).current > s.longest
                                    THEN S!Recorded(s).current ELSE s.longest
         /\ \A m \in S!Recorded(s).reached \ s.reached : m <= S!Recorded(s).current
<1> DEFINE c == S!Counted(s)
           w == S!Max({c.longest, c.current})
           z == c.reached \cup {m \in Milestones : c.current >= m}
<1>1. /\ c \in StreakRow /\ c.current \in 1..(s.current + 1)
      /\ c.longest = s.longest /\ c.reached = s.reached BY CountedIs
<1>2. w = (IF c.current > c.longest THEN c.current ELSE c.longest) /\ w \in Nat
  <2>1. c.longest \in Nat /\ c.current \in Nat BY <1>1 DEF StreakRow
  <2> HIDE DEF c
  <2> QED BY <2>1, LargerOf
<1>3. z \in SUBSET Milestones BY <1>1 DEF StreakRow
<1>4. S!Recorded(s) = [c EXCEPT !.last = day, !.longest = w, !.reached = z] BY DEF S!Recorded
<1> HIDE DEF c, w
<1>5. \A m \in z \ s.reached : m <= c.current
  <2>1. ASSUME NEW m \in z \ s.reached PROVE m <= c.current
    <3>1. m \in Milestones /\ c.current >= m BY <1>1, <2>1
    <3>2. m \in Nat /\ c.current \in Nat BY <1>1, <3>1, StreakAssumption DEF StreakRow
    <3> QED BY <3>1, <3>2
  <2> QED BY <2>1
<1> HIDE DEF z
<1>6. /\ S!Recorded(s) \in StreakRow /\ S!Recorded(s).last = day /\ S!Recorded(s).longest = w
      /\ S!Recorded(s).reached = z /\ S!Recorded(s).current = c.current
  BY <1>1, <1>2, <1>3, <1>4 DEF StreakRow
<1> QED BY <1>1, <1>2, <1>5, <1>6

LEMMA SavedIs ==
  ASSUME NEW s \in StreakRow, NEW o \in StreakRow, NEW n \in StreakRow
  PROVE  /\ S!Saved(s, o, n) \in StreakRow
         /\ S!Saved(s, o, n).current = IF n.current # o.current THEN n.current ELSE s.current
         /\ S!Saved(s, o, n).longest = IF n.longest # o.longest THEN n.longest ELSE s.longest
         /\ S!Saved(s, o, n).last = IF n.last # o.last THEN n.last ELSE s.last
         /\ S!Saved(s, o, n).reached = s.reached \cup (n.reached \ o.reached)
<1> DEFINE z == S!Saved(s, o, n)
<1>1. DOMAIN s = {"current", "longest", "last", "freezes", "reached"} BY DEF StreakRow
<1>2. z = [f \in DOMAIN s |-> IF f = "reached" THEN s.reached \cup (n.reached \ o.reached)
                              ELSE IF n[f] # o[f] THEN n[f] ELSE s[f]]
  BY Zenon DEF S!Saved
<1>3. /\ z.current = IF n.current # o.current THEN n.current ELSE s.current
      /\ z.longest = IF n.longest # o.longest THEN n.longest ELSE s.longest
      /\ z.last = IF n.last # o.last THEN n.last ELSE s.last
      /\ z.freezes = IF n.freezes # o.freezes THEN n.freezes ELSE s.freezes
      /\ z.reached = s.reached \cup (n.reached \ o.reached)
  <2> HIDE DEF z
  <2> QED BY <1>1, <1>2
<1>4. z = [current |-> z.current, longest |-> z.longest, last |-> z.last,
           freezes |-> z.freezes, reached |-> z.reached]
  <2> HIDE DEF z
  <2> QED BY <1>1, <1>2
<1> HIDE DEF z
<1>5. z \in StreakRow BY <1>3, <1>4 DEF StreakRow
<1> QED BY <1>3, <1>5 DEF z

\* The days of activity are numbers of days.
LEMMA DaysCount ==
  ASSUME NEW d \in Nat, NEW days \in SUBSET (0..d)
  PROVE  /\ IsFiniteSet(days) /\ Cardinality(days) \in Nat
         /\ Cardinality(days) <= Cardinality(days \cup {d})
         /\ Cardinality(days \cup {d}) = Cardinality(days \ {d}) + 1
         /\ Cardinality(days \cup {d}) \in Nat /\ Cardinality(days \ {d}) \in Nat
         /\ (days \cup {d}) \ {d} = days \ {d}
<1>1. IsFiniteSet(0..d) BY FS_Interval
<1>2. IsFiniteSet(days) BY <1>1, FS_Subset
<1>3. IsFiniteSet(days \ {d}) BY <1>2, FS_RemoveElement
<1>4. IsFiniteSet(days \cup {d}) BY <1>2, FS_AddElement
<1>5. days \cup {d} = (days \ {d}) \cup {d} /\ d \notin days \ {d} OBVIOUS
<1>6. Cardinality((days \ {d}) \cup {d}) = Cardinality(days \ {d}) + 1 BY <1>3, <1>5, FS_AddElement
<1>7. Cardinality(days) <= Cardinality(days \cup {d}) BY <1>4, FS_Subset
<1> QED BY <1>2, <1>3, <1>4, <1>5, <1>6, <1>7, FS_CardinalityType

\* What holds of a slot still does when the day has an activity more.
LEMMA SlotStays ==
  ASSUME NEW d \in Nat, NEW days \in SUBSET (0..d), NEW s \in StreakRow, NEW k,
         SlotTyped(k), SlotHolds(k, s, d, days)
  PROVE  SlotHolds(k, s, d, days \cup {d})
<1>1. Cardinality(days) <= Cardinality(days \cup {d}) /\ Cardinality(days) \in Nat
      /\ Cardinality(days \cup {d}) \in Nat BY DaysCount
<1>2. ASSUME Counts(k) PROVE CountedFrom(k.sets.old, k.sets.new, s, d, days \cup {d})
  <2>1. PICK o \in StreakRow, n \in StreakRow : o = k.sets.old /\ n = k.sets.new
    BY <1>2 DEF SlotTyped, Counts
  <2>2. CountedFrom(o, n, s, d, days) BY <1>2, <2>1 DEF SlotHolds
  <2>3. n.current \in Nat /\ \A m \in n.reached : m \in Nat BY StreakAssumption DEF StreakRow
  <2>5. PICK a \in Nat, b \in Nat : a = Cardinality(days) /\ b = Cardinality(days \cup {d}) /\ a <= b
    BY <1>1
  <2>6. n.current <= b
    <3>1. n.current <= a BY <2>2, <2>5 DEF CountedFrom
    <3> QED BY <2>3, <2>5, <3>1
  <2>7. \A m \in n.reached \ o.reached : m <= b
    <3>1. \A m \in n.reached \ o.reached : m <= a BY <2>2, <2>5 DEF CountedFrom
    <3> QED BY <2>3, <2>5, <3>1
  <2>4. CountedFrom(o, n, s, d, days \cup {d}) BY <2>2, <2>5, <2>6, <2>7 DEF CountedFrom
  <2> QED BY <2>1, <2>4
<1> QED BY <1>2 DEF SlotHolds

\* One slot changes, on the same day.
LEMMA StreakMoves ==
  ASSUME StreakInv, NEW r \in Requests, NEW q, counting' = [counting EXCEPT ![r] = q],
         SlotTyped(q), q.op = "save" => streak' # None, streak # None => streak' # None,
         streak' = None \/ streak' \in StreakRow, UNCHANGED <<day, crossed>>,
         activeDays' \subseteq 0..day,
         ~crossed => /\ DayRow(TheRow', day, activeDays')
                     /\ SlotHolds(q, TheRow', day, activeDays')
                     /\ \A p \in Requests : /\ SlotHolds(counting[p], TheRow', day, activeDays')
                                            /\ Counts(q) /\ Counts(counting[p]) =>
                                                  q.sets.old.longest = counting[p].sets.old.longest
  PROVE  StreakInv'
<1>1. DOMAIN counting = Requests BY DEF StreakInv
<1>2. \A p \in Requests : counting'[p] = IF p = r THEN q ELSE counting[p] BY <1>1
<1>3. DOMAIN counting' = Requests BY <1>1
<1>4. \A p \in Requests : SlotTyped(counting'[p]) BY <1>2 DEF StreakInv
<1>5. \A p \in Requests : counting'[p].op = "save" => streak' # None BY <1>2 DEF StreakInv
<1>6. ASSUME ~crossed PROVE DayHolds(TheRow', counting', day, activeDays')
  <2>1. Alike(counting) BY <1>6 DEF StreakInv, DayHolds
  <2>2. \A p \in Requests : Counts(q) /\ Counts(counting[p]) =>
                                q.sets.old.longest = counting[p].sets.old.longest BY <1>6
  <2>3. Alike(counting') BY <1>2, <2>1, <2>2 DEF Alike
  <2>4. \A p \in Requests : SlotHolds(counting'[p], TheRow', day, activeDays') BY <1>2, <1>6
  <2> QED BY <1>6, <2>3, <2>4 DEF DayHolds
<1> QED BY <1>3, <1>4, <1>5, <1>6 DEF StreakInv

LEMMA SlotIdle ==
  /\ S!Idle.op = "idle" /\ SlotTyped(S!Idle)
  /\ \A s, d, days : SlotHolds(S!Idle, s, d, days)
BY DEF S!Idle, SlotTyped, SlotHolds, Counts

LEMMA DayPasses == ASSUME StreakInv, S!Midnight PROVE StreakInv'
<1>1. /\ day' = day + 1 /\ UNCHANGED <<streak, counting, activeDays>>
      /\ crossed' = (crossed \/ \E r \in Requests : counting[r] # S!Idle)
  BY DEF S!Midnight
<1>2. day' \in Nat /\ activeDays' \subseteq 0..day' /\ crossed' \in BOOLEAN
  BY <1>1 DEF StreakInv
<1>3. ASSUME ~crossed' PROVE DayHolds(TheRow', counting', day', activeDays')
  <2>1. ~crossed /\ \A r \in Requests : counting[r] = S!Idle BY <1>1, <1>3
  <2>2. PICK s : s = TheRow OBVIOUS
  <2>3. TheRow' = s BY <1>1, <2>2 DEF TheRow
  <2>4. DayRow(s, day, activeDays) BY <2>1, <2>2 DEF StreakInv, DayHolds
  <2>5. activeDays \ {day + 1} = activeDays BY DEF StreakInv
  <2>6. DayRow(s, day + 1, activeDays) BY <2>4, <2>5 DEF DayRow
  <2>7. \A r \in Requests : counting'[r] = S!Idle BY <1>1, <2>1
  <2>8. Alike(counting') BY <2>7, SlotIdle DEF Alike, Counts
  <2>9. \A r \in Requests : SlotHolds(counting'[r], TheRow', day', activeDays')
    BY <2>7, SlotIdle
  <2> QED BY <1>1, <2>3, <2>6, <2>8, <2>9 DEF DayHolds
<1> QED BY <1>1, <1>2, <1>3 DEF StreakInv

\* A request loads the row and computes what it will save.
LEMMA StreakLoads ==
  ASSUME StreakInv, NEW r \in Requests, NEW op \in {"save", "insert"}, NEW n \in StreakRow,
         S!Starts(r, op, [old |-> TheRow, new |-> n]),
         op = IF streak = None THEN "insert" ELSE "save",
         \/ UNCHANGED activeDays /\ PaidFrom(TheRow, n)
         \/ /\ activeDays' = activeDays \cup {day} /\ TheRow.last # day
            /\ n = S!Recorded(TheRow)
  PROVE  StreakInv'
<1> DEFINE q == [op |-> op, sets |-> [old |-> TheRow, new |-> n]]
<1>1. PICK s \in StreakRow : s = TheRow BY TheRowTyped
<1>2. counting' = [counting EXCEPT ![r] = q] /\ UNCHANGED <<day, streak, crossed>>
  BY DEF S!Starts
<1>3. q.op = op /\ q.sets.old = s /\ q.sets.new = n BY <1>1
<1> HIDE DEF q
<1>4. SlotTyped(q) BY <1>1, <1>3 DEF SlotTyped, TheRow
<1>5. day \in Nat /\ activeDays \in SUBSET (0..day) BY DEF StreakInv
<1>6. TheRow' = s BY <1>1, <1>2 DEF TheRow
<1>7. ASSUME ~crossed
      PROVE  /\ DayRow(s, day, activeDays') /\ SlotHolds(q, s, day, activeDays')
             /\ \A p \in Requests : /\ SlotHolds(counting[p], s, day, activeDays')
                                    /\ Counts(q) /\ Counts(counting[p]) =>
                                           q.sets.old.longest = counting[p].sets.old.longest
  <2>1. /\ DayRow(s, day, activeDays)
        /\ \A p \in Requests : SlotTyped(counting[p]) /\ SlotHolds(counting[p], s, day, activeDays)
    BY <1>1, <1>7 DEF StreakInv, DayHolds
  <2>2. CASE UNCHANGED activeDays /\ PaidFrom(s, n)
    <3>1. ~Counts(q) BY <1>3, <2>2 DEF Counts, PaidFrom
    <3>2. SlotHolds(q, s, day, activeDays') BY <1>3, <2>2, <3>1 DEF SlotHolds
    <3>3. activeDays' = activeDays BY <2>2
    <3> QED BY <2>1, <3>1, <3>2, <3>3
  <2>3. CASE activeDays' = activeDays \cup {day} /\ s.last # day /\ n = S!Recorded(s)
    <3>1. PICK days : days = activeDays \cup {day} OBVIOUS
    <3>2. /\ Cardinality(activeDays) \in Nat /\ Cardinality(days) \in Nat
          /\ Cardinality(activeDays \ {day}) \in Nat
          /\ Cardinality(activeDays) <= Cardinality(days)
          /\ Cardinality(days) = Cardinality(activeDays \ {day}) + 1
          /\ days \ {day} = activeDays \ {day}
      BY <1>5, <3>1, DaysCount
    <3>3. PICK a \in Nat, b \in Nat, c \in Nat :
             /\ a = Cardinality(activeDays) /\ b = Cardinality(days)
             /\ c = Cardinality(activeDays \ {day}) /\ a <= b /\ b = c + 1
      BY <3>2
    <3>4. /\ s.current \in Nat /\ s.longest \in Nat /\ \A m \in s.reached : m \in Nat
          /\ n.current \in Nat /\ n.longest \in Nat /\ \A m \in n.reached : m \in Nat
      BY StreakAssumption DEF StreakRow
    <3>5. DayRow(s, day, days)
      <4>1. s.current <= a /\ s.current <= s.longest /\ s.current <= c
        BY <2>1, <2>3, <3>3 DEF DayRow
      <4>2. \A m \in s.reached : m <= b
        <5>1. \A m \in s.reached : m <= a BY <2>1, <3>3 DEF DayRow
        <5> QED BY <3>3, <3>4, <5>1
      <4>3. s.current <= b BY <3>3, <3>4, <4>1
      <4>4. Cardinality(days \ {day}) = c BY <3>2, <3>3
      <4> QED BY <3>3, <4>1, <4>2, <4>3, <4>4 DEF DayRow
    <3>6. /\ n.last = day /\ n.current \in 1..(s.current + 1)
          /\ n.longest = IF n.current > s.longest THEN n.current ELSE s.longest
          /\ \A m \in n.reached \ s.reached : m <= n.current
      BY <1>5, <2>3, RecordedIs
    <3>7. CountedFrom(s, n, s, day, days)
      <4>1. s.current <= s.longest /\ s.current <= c BY <2>1, <2>3, <3>3 DEF DayRow
      <4>2. n.current <= b BY <3>3, <3>4, <3>6, <4>1
      <4>3. n.current <= n.longest BY <3>4, <3>6
      <4>4. n.longest = s.longest \/ (n.longest = s.longest + 1 /\ n.current = n.longest)
        <5>1. CASE n.current > s.longest
          <6>1. n.longest = n.current BY <3>6, <5>1
          <6>2. n.current <= s.current + 1 BY <3>6
          <6> QED BY <3>4, <4>1, <5>1, <6>1, <6>2
        <5>2. CASE ~(n.current > s.longest)
          <6>1. n.longest = s.longest BY <3>6, <5>2
          <6> QED BY <6>1
        <5> QED BY <5>1, <5>2
      <4>5. \A m \in n.reached \ s.reached : m <= b BY <3>3, <3>4, <3>6, <4>2
      <4> QED BY <2>3, <3>3, <3>6, <4>1, <4>2, <4>3, <4>4, <4>5 DEF CountedFrom
    <3>8. Counts(q) /\ SlotHolds(q, s, day, days)
      <4>1. Counts(q) BY <1>3, <2>3, <3>6 DEF Counts
      <4> QED BY <1>3, <3>7, <4>1 DEF SlotHolds
    <3>9. \A p \in Requests : SlotHolds(counting[p], s, day, days)
      BY <1>5, <2>1, <3>1, SlotStays
    <3>10. \A p \in Requests : Counts(counting[p]) => counting[p].sets.old.longest = s.longest
      BY <2>1, <2>3 DEF SlotHolds, CountedFrom
    <3>11. activeDays' = days BY <2>3, <3>1
    <3> QED BY <1>3, <3>5, <3>8, <3>9, <3>10, <3>11
  <2> QED BY <1>1, <2>2, <2>3
<1>8. activeDays' \subseteq 0..day
  <2>1. activeDays' = activeDays \/ activeDays' = activeDays \cup {day} OBVIOUS
  <2>2. day \in 0..day BY <1>5
  <2>3. PICK T : T = 0..day OBVIOUS
  <2> QED BY <1>5, <2>1, <2>2, <2>3
<1> QED BY <1>2, <1>3, <1>4, <1>6, <1>7, <1>8, StreakMoves DEF StreakInv

\* A save of today's count leaves the longest streak no shorter than the current one.
LEMMA CountSaved ==
  ASSUME NEW d \in Nat, NEW days \in SUBSET (0..d), NEW s \in StreakRow,
         NEW o \in StreakRow, NEW n \in StreakRow, NEW z \in StreakRow,
         DayRow(s, d, days), CountedFrom(o, n, s, d, days),
         z.current = IF n.current # o.current THEN n.current ELSE s.current,
         z.longest = IF n.longest # o.longest THEN n.longest ELSE s.longest,
         z.last = IF n.last # o.last THEN n.last ELSE s.last,
         z.reached = s.reached \cup (n.reached \ o.reached)
  PROVE  /\ DayRow(z, d, days) /\ z.last = d
         /\ z.longest = o.longest \/ z.longest = o.longest + 1
<1>1. PICK a \in Nat : a = Cardinality(days) BY DaysCount
<1>2. /\ s.current \in Nat /\ s.longest \in Nat /\ n.current \in Nat /\ n.longest \in Nat
      /\ o.current \in Nat /\ o.longest \in Nat
  BY DEF StreakRow
<1>3. /\ s.current <= a /\ s.current <= s.longest /\ n.current <= a /\ n.current <= n.longest
      /\ o.last # d /\ n.last = d /\ o.current <= o.longest
      /\ \A m \in s.reached : m <= a
      /\ \A m \in n.reached \ o.reached : m <= a
      /\ n.longest = o.longest \/ (n.longest = o.longest + 1 /\ n.current = n.longest)
      /\ s.longest = o.longest \/ s.longest = o.longest + 1
  BY <1>1 DEF DayRow, CountedFrom
<1>4. z.last = d BY <1>3
<1>5. z.longest = o.longest \/ z.longest = o.longest + 1 BY <1>3
<1>6. z.longest >= s.longest /\ z.longest >= n.longest BY <1>2, <1>3
<1>7. z.current <= a /\ z.current <= z.longest
  <2>1. CASE n.current # o.current BY <1>2, <1>3, <1>6, <2>1
  <2>2. CASE n.current = o.current BY <1>2, <1>3, <1>6, <2>2
  <2> QED BY <2>1, <2>2
<1>8. \A m \in z.reached : m <= a BY <1>3
<1> QED BY <1>1, <1>4, <1>5, <1>7, <1>8 DEF DayRow

\* The slots that wait, when the row becomes one of today.
LEMMA SlotAfter ==
  ASSUME NEW d, NEW days, NEW s, NEW z, NEW k, NEW o,
         SlotHolds(k, s, d, days), z.last = d,
         z.longest = o.longest \/ z.longest = o.longest + 1,
         Counts(k) => k.sets.old.longest = o.longest
  PROVE  SlotHolds(k, z, d, days)
BY DEF SlotHolds, CountedFrom

\* A row that is replaced by one that no slot and no day tells apart from it.
LEMMA StreakSaves ==
  ASSUME StreakInv, NEW r \in Requests, counting' = [counting EXCEPT ![r] = S!Idle],
         UNCHANGED <<day, crossed, activeDays>>,
         streak' \in StreakRow,
         LET k == counting[r] IN
         /\ k.op # "idle"
         /\ \/ streak' = streak
            \/ k.op = "save" /\ streak' = S!Saved(streak, k.sets.old, k.sets.new)
            \/ k.op = "insert" /\ streak = None /\ streak' = k.sets.new
  PROVE  StreakInv'
<1>1. PICK k : k = counting[r] OBVIOUS
<1>2. SlotTyped(k) /\ (k.op = "save" => streak # None) BY <1>1 DEF StreakInv
<1>3. PICK o \in StreakRow, n \in StreakRow : o = k.sets.old /\ n = k.sets.new
  BY <1>1, <1>2 DEF SlotTyped
<1>4. PICK s \in StreakRow : s = TheRow BY TheRowTyped
<1>5. PICK z \in StreakRow : z = streak' OBVIOUS
<1>6. streak' # None /\ TheRow' = z BY <1>5, StreakAssumption DEF TheRow
<1>7. day \in Nat /\ activeDays \in SUBSET (0..day) BY DEF StreakInv
<1>8. ASSUME ~crossed
      PROVE  /\ DayRow(z, day, activeDays)
             /\ \A p \in Requests : SlotHolds(counting[p], z, day, activeDays)
  <2>1. /\ DayRow(s, day, activeDays) /\ Alike(counting)
        /\ \A p \in Requests : SlotHolds(counting[p], s, day, activeDays)
    BY <1>4, <1>8 DEF StreakInv, DayHolds
  <2>2. CASE streak' = streak
    <3>1. z = s BY <1>4, <1>5, <1>6, <2>2 DEF TheRow
    <3> QED BY <2>1, <3>1
  <2>3. ASSUME streak' # streak
        PROVE  /\ z.current = IF n.current # o.current THEN n.current ELSE s.current
               /\ z.longest = IF n.longest # o.longest THEN n.longest ELSE s.longest
               /\ z.last = IF n.last # o.last THEN n.last ELSE s.last
               /\ z.reached = s.reached \cup (n.reached \ o.reached)
    <3>2. CASE k.op = "save" /\ streak' = S!Saved(streak, o, n)
      <4>1. s = streak BY <1>2, <1>4, <3>2 DEF TheRow
      <4> QED BY <1>5, <3>2, <4>1, SavedIs
    <3>3. CASE k.op = "insert" /\ streak = None /\ streak' = n
      <4>1. s = S!NewStreak /\ o = s BY <1>2, <1>3, <1>4, <3>3 DEF TheRow, SlotTyped
      <4>2. z = n /\ s.reached = {} BY <1>5, <3>3, <4>1, NewRow
      <4> QED BY <4>1, <4>2
    <3> QED BY <1>1, <1>3, <2>3, <3>2, <3>3
  <2>4. CASE Counts(k) /\ streak' # streak
    <3>1. CountedFrom(o, n, s, day, activeDays) BY <1>1, <1>3, <2>1, <2>4 DEF SlotHolds
    <3>2. /\ DayRow(z, day, activeDays) /\ z.last = day
          /\ z.longest = o.longest \/ z.longest = o.longest + 1
      BY <1>7, <2>1, <2>3, <2>4, <3>1, CountSaved
    <3>3. ASSUME NEW p \in Requests PROVE SlotHolds(counting[p], z, day, activeDays)
      <4>1. PICK q : q = counting[p] OBVIOUS
      <4>2. SlotHolds(q, s, day, activeDays) BY <2>1, <4>1
      <4>3. Counts(q) => q.sets.old.longest = o.longest
        BY <1>1, <1>3, <2>1, <2>4, <4>1 DEF Alike
      <4>4. SlotHolds(q, z, day, activeDays) BY <3>2, <4>2, <4>3, SlotAfter
      <4> QED BY <4>1, <4>4
    <3> QED BY <3>2, <3>3
  <2>5. CASE ~Counts(k) /\ streak' # streak
    <3>1. PaidFrom(o, n)
      <4>1. SlotHolds(k, s, day, activeDays) /\ k.op # "idle" BY <1>1, <2>1
      <4> QED BY <1>3, <2>5, <4>1 DEF SlotHolds
    <3>2. /\ z.last = s.last /\ z.longest = s.longest /\ z.reached = s.reached
          /\ z.current = s.current \/ z.current = 0
      BY <2>3, <2>5, <3>1 DEF PaidFrom
    <3>3. DayRow(z, day, activeDays)
      <4>1. /\ Cardinality(activeDays) \in Nat /\ Cardinality(activeDays \ {day}) \in Nat
            /\ s.longest \in Nat /\ s.current \in Nat
        BY <1>7, DaysCount DEF StreakRow
      <4> QED BY <2>1, <3>2, <4>1 DEF DayRow
    <3>4. ASSUME NEW p \in Requests PROVE SlotHolds(counting[p], z, day, activeDays)
      <4>1. PICK q : q = counting[p] OBVIOUS
      <4>2. SlotHolds(q, s, day, activeDays) BY <2>1, <4>1
      <4>3. SlotHolds(q, z, day, activeDays) BY <3>2, <4>2 DEF SlotHolds, CountedFrom
      <4> QED BY <4>1, <4>3
    <3> QED BY <3>3, <3>4
  <2> QED BY <2>2, <2>4, <2>5
<1>9. ~Counts(S!Idle) BY SlotIdle DEF Counts
<1> QED BY <1>6, <1>7, <1>8, <1>9, SlotIdle, StreakMoves

LEMMA StreakSteps == ASSUME StreakInv, S!Next PROVE StreakInv'
<1>1. \/ S!Midnight \/ S!GetStreakStatus
      \/ \E r \in Requests : S!RecordActivity(r) \/ S!UseStreakFreeze(r)
                            \/ S!CheckDailyStreaks(r) \/ S!Save(r) \/ S!Insert(r)
  BY DEF S!Next
<1>2. CASE S!GetStreakStatus
  <2>1. /\ streak = None /\ streak' = S!NewStreak
        /\ UNCHANGED <<day, counting, activeDays, crossed>> BY <1>2 DEF S!GetStreakStatus
  <2>2. PICK s : s = TheRow OBVIOUS
  <2>3. TheRow' = s /\ streak' \in StreakRow /\ streak' # None
    BY <2>1, <2>2, NewRow, StreakAssumption DEF TheRow
  <2> QED BY <2>1, <2>2, <2>3 DEF StreakInv
<1>3. ASSUME NEW r \in Requests, S!RecordActivity(r) PROVE StreakInv'
  <2>1. /\ TheRow.last # day /\ activeDays' = activeDays \cup {day}
        /\ S!Starts(r, IF streak = None THEN "insert" ELSE "save",
                    [old |-> TheRow, new |-> S!Recorded(TheRow)])
    BY <1>3, Zenon DEF S!RecordActivity, TheRow
  <2>2. PICK n : n = S!Recorded(TheRow) OBVIOUS
  <2>3. n \in StreakRow
    <3>1. PICK s \in StreakRow : s = TheRow BY TheRowTyped
    <3>2. day \in Nat BY DEF StreakInv
    <3> QED BY <2>2, <3>1, <3>2, RecordedIs
  <2>4. PICK op \in {"save", "insert"} : op = IF streak = None THEN "insert" ELSE "save" OBVIOUS
  <2>5. S!Starts(r, op, [old |-> TheRow, new |-> n]) BY <2>1, <2>2, <2>4
  <2> QED BY <2>1, <2>2, <2>3, <2>4, <2>5, StreakLoads
\* Freezes are paid, or the streak ends.
<1>4. ASSUME NEW r \in Requests, NEW n \in StreakRow, streak # None, PaidFrom(streak, n),
             S!Starts(r, "save", [old |-> streak, new |-> n]), UNCHANGED activeDays
      PROVE  StreakInv'
  <2>1. TheRow = streak BY <1>4 DEF TheRow
  <2>2. PICK op \in {"save", "insert"} : op = IF streak = None THEN "insert" ELSE "save" OBVIOUS
  <2>3. op = "save" BY <1>4, <2>2
  <2>4. S!Starts(r, op, [old |-> TheRow, new |-> n]) /\ PaidFrom(TheRow, n) BY <1>4, <2>1, <2>3
  <2> QED BY <1>4, <2>2, <2>4, StreakLoads
<1>5. ASSUME NEW r \in Requests, S!UseStreakFreeze(r) PROVE StreakInv'
  <2>1. streak # None /\ streak.freezes > 0 /\ UNCHANGED activeDays BY <1>5 DEF S!UseStreakFreeze
  <2>2. streak \in StreakRow BY <2>1 DEF StreakInv
  <2>3. PICK n : n = [streak EXCEPT !.freezes = @ - 1] OBVIOUS
  <2>4. streak.freezes - 1 \in 0..Freezes BY <2>1, <2>2, StreakAssumption DEF StreakRow
  <2>5. n \in StreakRow /\ PaidFrom(streak, n) BY <2>2, <2>3, <2>4 DEF StreakRow, PaidFrom
  <2>6. S!Starts(r, "save", [old |-> streak, new |-> n]) BY <1>5, <2>3 DEF S!UseStreakFreeze
  <2> QED BY <1>4, <2>1, <2>5, <2>6
<1>6. ASSUME NEW r \in Requests, S!CheckDailyStreaks(r) PROVE StreakInv'
  <2> DEFINE gap == day - streak.last - 1
  <2>1. streak # None /\ streak.last # None /\ gap > 0 /\ UNCHANGED activeDays
    BY <1>6 DEF S!CheckDailyStreaks
  <2>2. streak \in StreakRow /\ day \in Nat BY <2>1 DEF StreakInv
  <2>3. gap \in Int BY <2>1, <2>2 DEF StreakRow
  <2>4. PICK n : n = IF streak.freezes >= gap THEN [streak EXCEPT !.freezes = @ - gap]
                     ELSE [streak EXCEPT !.current = 0] OBVIOUS
  <2>5. S!Starts(r, "save", [old |-> streak, new |-> n]) BY <1>6, <2>4 DEF S!CheckDailyStreaks
  <2>6. n \in StreakRow /\ PaidFrom(streak, n)
    <3>1. CASE streak.freezes >= gap
      <4>1. streak.freezes - gap \in 0..Freezes
        BY <2>1, <2>2, <2>3, <3>1, StreakAssumption DEF StreakRow
      <4>2. PICK f \in 0..Freezes : f = streak.freezes - gap BY <4>1
      <4>3. n = [streak EXCEPT !.freezes = f] BY <2>4, <3>1, <4>2
      <4> QED BY <2>2, <4>3 DEF StreakRow, PaidFrom
    <3>2. CASE ~(streak.freezes >= gap)
      <4>1. n = [streak EXCEPT !.current = 0] BY <2>4, <3>2
      <4> QED BY <2>2, <4>1 DEF StreakRow, PaidFrom
    <3> QED BY <3>1, <3>2
  <2> QED BY <1>4, <2>1, <2>5, <2>6
<1>7. ASSUME NEW r \in Requests, S!Save(r) PROVE StreakInv'
  <2>1. PICK k : k = counting[r] OBVIOUS
  <2>2. /\ k.op = "save" /\ streak' = S!Saved(streak, k.sets.old, k.sets.new)
        /\ counting' = [counting EXCEPT ![r] = S!Idle] /\ UNCHANGED <<day, crossed, activeDays>>
    BY <1>7, <2>1 DEF S!Save
  <2>3. streak \in StreakRow BY <2>1, <2>2 DEF StreakInv
  <2>4. k.sets.old \in StreakRow /\ k.sets.new \in StreakRow
    BY <2>1, <2>2 DEF StreakInv, SlotTyped
  <2>5. streak' \in StreakRow BY <2>2, <2>3, <2>4, SavedIs
  <2> QED BY <2>1, <2>2, <2>5, StreakSaves
<1>8. ASSUME NEW r \in Requests, S!Insert(r) PROVE StreakInv'
  <2>1. PICK k : k = counting[r] OBVIOUS
  <2>2. /\ k.op = "insert" /\ streak' = IF streak = None THEN k.sets.new ELSE streak
        /\ counting' = [counting EXCEPT ![r] = S!Idle] /\ UNCHANGED <<day, crossed, activeDays>>
    BY <1>8, <2>1 DEF S!Insert
  <2>3. k.sets.new \in StreakRow BY <2>1, <2>2 DEF StreakInv, SlotTyped
  <2>4. streak' \in StreakRow BY <2>2, <2>3 DEF StreakInv
  <2> QED BY <2>1, <2>2, <2>4, StreakSaves
<1> QED BY <1>1, <1>2, <1>3, <1>5, <1>6, <1>7, <1>8, DayPasses

LEMMA StreakInit == S!Init => StreakInv
<1> SUFFICES ASSUME S!Init PROVE StreakInv OBVIOUS
<1>1. /\ day = 0 /\ streak = None /\ activeDays = {} /\ crossed = FALSE
      /\ counting = [r \in Requests |-> S!Idle]
  BY DEF S!Init
<1>2. TheRow = S!NewStreak BY <1>1 DEF TheRow
<1>3. Cardinality({}) = 0 /\ {} \ {day} = {} BY FS_EmptySet
<1>4. DayRow(TheRow, day, activeDays) BY <1>1, <1>2, <1>3, NewRow DEF DayRow
<1>5. Alike(counting) /\ \A r \in Requests : SlotTyped(counting[r]) /\ counting[r].op = "idle"
                            /\ SlotHolds(counting[r], TheRow, day, activeDays)
  BY <1>1, SlotIdle DEF Alike, Counts
<1> QED BY <1>1, <1>4, <1>5 DEF StreakInv, DayHolds

LEMMA DaysCounted == \A s : S!Cardinality(s) = Cardinality(s)
BY DEF S!Cardinality, Cardinality

LEMMA StreakIsEarned == StreakInv => S!StreakEarned
<1> SUFFICES ASSUME StreakInv, streak # None
             PROVE  /\ streak.freezes \in 0..Freezes
                    /\ ~crossed => /\ streak.current <= Cardinality(activeDays)
                                   /\ streak.current <= streak.longest
                                   /\ \A m \in streak.reached : m <= Cardinality(activeDays)
  BY DaysCounted DEF S!StreakEarned
<1>1. TheRow = streak /\ streak \in StreakRow BY DEF StreakInv, TheRow
<1>2. ~crossed => DayRow(streak, day, activeDays) BY <1>1 DEF StreakInv, DayHolds
<1> QED BY <1>1, <1>2 DEF StreakRow, DayRow

\* What a learner is credited with she did, for any courses, thresholds and requests.
THEOREM CreditKept == PlatformSpec => []CreditEarned
<1>1. PlatformInit => ProgressInv /\ StreakInv BY ProgressInit, StreakInit DEF PlatformInit
<1>2. PlatformNext \/ UNCHANGED allVars => (part = "progress" /\ Next) \/ UNCHANGED vars
  BY DEF PlatformNext, LearnerNext, SharedNext, learnerVars, allVars
<1>3. PlatformNext \/ UNCHANGED allVars => (part = "streaks" /\ S!Next) \/ UNCHANGED streakVars
  BY DEF PlatformNext, LearnerNext, SharedNext, learnerVars, allVars
<1>4. ProgressInv /\ UNCHANGED vars => ProgressInv'
  <2> SUFFICES ASSUME ProgressInv, UNCHANGED vars PROVE ProgressInv' OBVIOUS
  <2>1. UNCHANGED <<row, certificates, badges, earned, profile, req, started, did>> BY DEF vars
  <2>2. Finished' = Finished /\ Points' = Points /\ \A c \in Courses : Did(c)' = Did(c)
    BY <2>1 DEF Finished, Points, Did
  <2>3. \A c \in Courses : RowHolds(c)' BY <2>1, <2>2 DEF ProgressInv, RowHolds
  <2>4. Owned' /\ ProfileHolds' BY <2>1, <2>2 DEF ProgressInv, Owned, ProfileHolds
  <2>5. ASSUME NEW r \in Requests PROVE ProgressHolds(req[r])'
    <3>1. PICK k : k = req[r] OBVIOUS
    <3>2. ProgressHolds(k) BY <3>1 DEF ProgressInv
    <3>3. ProgressHolds(k)' BY <2>2, <3>2 DEF ProgressHolds
    <3>4. req'[r] = k BY <2>1, <3>1
    <3> QED BY <3>3, <3>4 DEF ProgressHolds
  <2> QED BY <2>1, <2>2, <2>3, <2>4, <2>5 DEF ProgressInv
<1>5. StreakInv /\ UNCHANGED streakVars => StreakInv'
  BY DEF StreakInv, streakVars, TheRow
<1>6. ProgressInv /\ StreakInv /\ [PlatformNext]_allVars => ProgressInv' /\ StreakInv'
  BY <1>2, <1>3, <1>4, <1>5, ProgressSteps, StreakSteps
<1>7. ProgressInv /\ StreakInv => CreditEarned
  BY ProgressIsEarned, StreakIsEarned DEF CreditEarned
<1> QED BY <1>1, <1>6, <1>7, PTL DEF PlatformSpec

-----------------------------------------------------------------------------
(***************************************************************************)
(* Proof, for any courses, prerequisites, bundle and number of requests,   *)
(* that the records of an enrolment agree as far as the order of their     *)
(* writes allows.  What a request has checked or written stays true: nobody *)
(* leaves a course, completed courses stay so, and the entries only grow.  *)
(***************************************************************************)
UserDoc == [bought : [E!Courses -> Nat], stat : Nat]
EnrolCall == [op : {"idle", "check", "enrol", "user", "buy", "bundle", "progress"},
              left : SUBSET E!Courses, on : E!Courses \cup {None},
              enrolled : [E!Courses -> Nat] \cup {None}, user : UserDoc \cup {None}]
Entries == SumOn(bought, E!Courses)

CallEnrols(k) ==
    /\ k.op \in {"check", "enrol", "user", "buy", "progress"} => k.on \in E!Courses
    /\ k.op = "enrol" => Prerequisites[k.on] \subseteq completed
    /\ k.op \in {"user", "buy", "progress"} => enrolled[k.on] > 0
    /\ k.op \in {"bundle", "progress"} =>
          /\ k.enrolled \in [E!Courses -> Nat]
          /\ \A c \in E!Courses : k.enrolled[c] > 0 => enrolled[c] > 0
          /\ k.left \subseteq Bundle
          /\ \A c \in Bundle \ k.left : enrolled[c] > 0
    /\ k.user # None => k.user.stat <= Entries

EnrolTypes ==
    /\ enrolled \in [E!Courses -> Nat] /\ bought \in [E!Courses -> Nat] /\ stat \in Nat
    /\ progress \subseteq E!Courses
    /\ enrolling \in [Requests -> EnrolCall]

EnrolInv ==
    /\ EnrolTypes
    /\ \A c \in E!Courses : bought[c] > 0 \/ c \in progress => enrolled[c] > 0
    /\ \A c \in E!Courses \ bundled : enrolled[c] > 0 => Prerequisites[c] \subseteq completed
    /\ stat <= Entries
    /\ \A r \in Requests : CallEnrols(enrolling[r])

\* Nothing a request relies on is taken back.
EnrolGrows ==
    /\ \A c \in E!Courses : enrolled[c] > 0 => enrolled'[c] > 0
    /\ completed \subseteq completed' /\ bundled \subseteq bundled'
    /\ Entries <= Entries'

LEMMA EntriesCounted ==
  /\ E!SumFunctionOnSet(bought, E!Courses) = Entries
  /\ \A s : E!Cardinality(s) = Cardinality(s)
BY DEF E!SumFunctionOnSet, E!FoldFunctionOnSet, E!MapThenFoldSet, Entries, SumOn, SumFunctionOnSet,
       FoldFunctionOnSet, MapThenFoldSet, E!Cardinality, Cardinality

LEMMA EntriesAre == ASSUME bought \in [E!Courses -> Nat] PROVE Entries \in Nat
BY SumNat, EnrolmentAssumption DEF Entries

LEMMA CallEnrolsStill ==
  ASSUME EnrolTypes, EnrolTypes', EnrolGrows, NEW k \in EnrolCall, CallEnrols(k)
  PROVE  CallEnrols(k)'
<1>1. Entries \in Nat /\ Entries' \in Nat
  <2>1. bought \in [E!Courses -> Nat] /\ bought' \in [E!Courses -> Nat] BY DEF EnrolTypes
  <2>2. SumOn(bought', E!Courses) \in Nat BY <2>1, SumNat, EnrolmentAssumption
  <2> QED BY <2>1, <2>2, EntriesAre DEF Entries
<1>2. k.user # None => k.user.stat \in Nat BY DEF EnrolCall, UserDoc
<1>3. k.user # None => k.user.stat <= Entries' BY <1>1, <1>2 DEF CallEnrols, EnrolGrows
<1>4. \A c \in Bundle : c \in E!Courses BY EnrolmentAssumption
<1>5. k.op \in {"check", "enrol", "user", "buy", "progress"} => k.on \in E!Courses
  BY DEF CallEnrols
<1>6. k.op = "enrol" => Prerequisites[k.on] \subseteq completed' BY DEF CallEnrols, EnrolGrows
<1>7. k.op \in {"user", "buy", "progress"} => enrolled'[k.on] > 0
  BY <1>5 DEF CallEnrols, EnrolGrows
<1>8. k.op \in {"bundle", "progress"} =>
          /\ k.enrolled \in [E!Courses -> Nat]
          /\ \A c \in E!Courses : k.enrolled[c] > 0 => enrolled'[c] > 0
          /\ k.left \subseteq Bundle
          /\ \A c \in Bundle \ k.left : enrolled'[c] > 0
  BY <1>4 DEF CallEnrols, EnrolGrows
<1> QED BY <1>3, <1>5, <1>6, <1>7, <1>8 DEF CallEnrols

\* One request goes on, and the records keep what they say of each other.
LEMMA EnrolMoves ==
  ASSUME EnrolInv, EnrolGrows, NEW r \in Requests, NEW q \in EnrolCall,
         enrolling' = [enrolling EXCEPT ![r] = q], CallEnrols(q)',
         enrolled' \in [E!Courses -> Nat], bought' \in [E!Courses -> Nat], stat' \in Nat,
         progress' \subseteq E!Courses,
         \A c \in E!Courses : bought'[c] > 0 \/ c \in progress' => enrolled'[c] > 0,
         \A c \in E!Courses \ bundled' : enrolled'[c] > 0 => Prerequisites[c] \subseteq completed',
         stat' <= Entries'
  PROVE  EnrolInv'
<1>1. EnrolTypes' BY DEF EnrolInv, EnrolTypes
<1>2. ASSUME NEW p \in Requests PROVE CallEnrols(enrolling[p])'
  <2>1. PICK k \in EnrolCall : k = enrolling[p] BY DEF EnrolInv, EnrolTypes
  <2>2. CallEnrols(k) BY <2>1 DEF EnrolInv
  <2>3. CallEnrols(k)' BY <1>1, <2>2, CallEnrolsStill DEF EnrolInv
  <2>4. enrolling'[p] = IF p = r THEN q ELSE k BY <2>1 DEF EnrolInv, EnrolTypes
  <2>5. CASE p = r
    <3>1. enrolling'[p] = q BY <2>4, <2>5
    <3> QED BY <3>1 DEF CallEnrols
  <2>6. CASE p # r
    <3>1. enrolling'[p] = k BY <2>4, <2>6
    <3> QED BY <2>3, <3>1 DEF CallEnrols
  <2> QED BY <2>5, <2>6
<1> QED BY <1>1, <1>2 DEF EnrolInv

\* A request that writes nothing but its own state.
LEMMA EnrolReads ==
  ASSUME EnrolInv, NEW r \in Requests, NEW q \in EnrolCall, CallEnrols(q),
         enrolling' = [enrolling EXCEPT ![r] = q],
         UNCHANGED <<enrolled, bought, stat, progress, completed, bundled>>
  PROVE  EnrolInv'
<1>1. Entries' = Entries /\ Entries \in Nat BY EntriesAre DEF Entries, EnrolInv, EnrolTypes
<1>2. EnrolGrows BY <1>1 DEF EnrolGrows
<1>3. CallEnrols(q)' BY <1>1 DEF CallEnrols
<1>4. /\ enrolled' \in [E!Courses -> Nat] /\ bought' \in [E!Courses -> Nat] /\ stat' \in Nat
      /\ progress' \subseteq E!Courses /\ stat' <= Entries'
  BY <1>1 DEF EnrolInv, EnrolTypes
<1>5. /\ \A c \in E!Courses : bought'[c] > 0 \/ c \in progress' => enrolled'[c] > 0
      /\ \A c \in E!Courses \ bundled' : enrolled'[c] > 0 => Prerequisites[c] \subseteq completed'
  BY DEF EnrolInv
<1> QED BY <1>2, <1>3, <1>4, <1>5, EnrolMoves

LEMMA EnrolIdle == E!Idle \in EnrolCall /\ CallEnrols(E!Idle) /\ CallEnrols(E!Idle)'
                   /\ E!Idle.op = "idle" /\ E!Idle.user = None
BY DEF E!Idle, EnrolCall, CallEnrols

LEMMA EnrolLoads ==
  ASSUME EnrolInv, NEW r \in Requests,
         \/ E!LoadCourse(r) \/ E!CheckPrerequisites(r) \/ E!LoadUser(r)
         \/ E!LoadBundle(r) \/ E!LoadBundleUser(r) \/ E!Fail(r)
  PROVE  EnrolInv'
<1>1. PICK k \in EnrolCall : k = enrolling[r] BY DEF EnrolInv, EnrolTypes
<1>2. CallEnrols(k) BY <1>1 DEF EnrolInv
<1>3. UNCHANGED <<enrolled, bought, stat, progress, completed, bundled>>
  BY DEF E!LoadCourse, E!CheckPrerequisites, E!LoadUser, E!LoadBundle, E!LoadBundleUser, E!Fail
<1>4. PICK i \in EnrolCall : i = E!Idle BY EnrolIdle
<1>5. i.op = "idle" /\ i.user = None /\ CallEnrols(i) BY <1>4, EnrolIdle
<1>6. CASE E!LoadCourse(r)
  <2>1. PICK c \in E!Courses : E!Starts(r, [i EXCEPT !.op = "check", !.on = c])
    BY <1>4, <1>6 DEF E!LoadCourse
  <2>2. PICK q : q = [i EXCEPT !.op = "check", !.on = c] OBVIOUS
  <2>3. q \in EnrolCall /\ q.op = "check" /\ q.on = c /\ q.user = i.user BY <2>2 DEF EnrolCall
  <2>4. CallEnrols(q) BY <1>5, <2>3 DEF CallEnrols
  <2>5. enrolling' = [enrolling EXCEPT ![r] = q] BY <2>1, <2>2 DEF E!Starts
  <2> QED BY <1>3, <2>3, <2>4, <2>5, EnrolReads
<1>7. CASE E!CheckPrerequisites(r)
  <2>1. k.op = "check" BY <1>1, <1>7 DEF E!CheckPrerequisites
  <2>2. CASE E!MayEnrol(k.on)
    <3>1. PICK q : q = [k EXCEPT !.op = "enrol"] OBVIOUS
    <3>2. q \in EnrolCall /\ q.op = "enrol" /\ q.on = k.on /\ q.user = k.user
      BY <3>1 DEF EnrolCall
    <3>3. CallEnrols(q) BY <1>2, <2>1, <2>2, <3>2 DEF CallEnrols, E!MayEnrol
    <3>4. enrolling' = [enrolling EXCEPT ![r] = q]
      BY <1>1, <1>7, <2>2, <3>1 DEF E!CheckPrerequisites, E!Goes
    <3> QED BY <1>3, <3>2, <3>3, <3>4, EnrolReads
  <2>3. CASE ~E!MayEnrol(k.on)
    <3>1. enrolling' = [enrolling EXCEPT ![r] = i]
      BY <1>1, <1>4, <1>7, <2>3 DEF E!CheckPrerequisites, E!Answers, E!Goes
    <3> QED BY <1>3, <1>5, <3>1, EnrolReads
  <2> QED BY <2>2, <2>3
<1>8. PICK u \in UserDoc : u = E!User /\ u.stat <= Entries
  <2>1. E!User \in UserDoc /\ E!User.stat = stat BY DEF EnrolInv, EnrolTypes, E!User, UserDoc
  <2>2. stat <= Entries BY DEF EnrolInv
  <2> QED BY <2>1, <2>2
<1>9. CASE E!LoadUser(r)
  <2>1. k.op = "user" BY <1>1, <1>9 DEF E!LoadUser
  <2>2. PICK q : q = [k EXCEPT !.op = "buy", !.user = u] OBVIOUS
  <2>3. q \in EnrolCall /\ q.op = "buy" /\ q.on = k.on /\ q.user = u BY <2>2 DEF EnrolCall
  <2>4. CallEnrols(q) BY <1>2, <1>8, <2>1, <2>3 DEF CallEnrols
  <2>5. enrolling' = [enrolling EXCEPT ![r] = q] BY <1>1, <1>8, <1>9, <2>2 DEF E!LoadUser, E!Goes
  <2> QED BY <1>3, <2>3, <2>4, <2>5, EnrolReads
<1>10. CASE E!LoadBundle(r)
  <2>1. E!Starts(r, [i EXCEPT !.op = "bundle", !.left = Bundle, !.enrolled = enrolled])
    BY <1>4, <1>10 DEF E!LoadBundle
  <2>2. PICK e \in [E!Courses -> Nat] : e = enrolled BY DEF EnrolInv, EnrolTypes
  <2>3. PICK q : q = [i EXCEPT !.op = "bundle", !.left = Bundle, !.enrolled = e] OBVIOUS
  <2>4. q \in EnrolCall /\ q.op = "bundle" /\ q.left = Bundle /\ q.enrolled = e /\ q.user = i.user
    BY <2>3, EnrolmentAssumption DEF EnrolCall
  <2>5. CallEnrols(q) BY <1>5, <2>2, <2>4 DEF CallEnrols
  <2>6. enrolling' = [enrolling EXCEPT ![r] = q] BY <2>1, <2>2, <2>3 DEF E!Starts
  <2> QED BY <1>3, <2>4, <2>5, <2>6, EnrolReads
<1>11. CASE E!LoadBundleUser(r)
  <2>1. k.op = "bundle" BY <1>1, <1>11 DEF E!LoadBundleUser
  <2>2. PICK q : q = [k EXCEPT !.user = u] OBVIOUS
  <2>3. q \in EnrolCall /\ q.op = k.op /\ q.left = k.left /\ q.enrolled = k.enrolled /\ q.user = u
    BY <2>2 DEF EnrolCall
  <2>4. CallEnrols(q) BY <1>2, <1>8, <2>1, <2>3 DEF CallEnrols
  <2>5. enrolling' = [enrolling EXCEPT ![r] = q]
    BY <1>1, <1>8, <1>11, <2>2 DEF E!LoadBundleUser, E!Goes
  <2> QED BY <1>3, <2>3, <2>4, <2>5, EnrolReads
<1>12. CASE E!Fail(r)
  <2>1. enrolling' = [enrolling EXCEPT ![r] = i] BY <1>4, <1>12 DEF E!Fail, E!Answers, E!Goes
  <2> QED BY <1>3, <1>5, <2>1, EnrolReads
<1> QED BY <1>6, <1>7, <1>9, <1>10, <1>11, <1>12

\* The entries of the user only grow, and with them the count they bound.
LEMMA EntriesGrow ==
  ASSUME EnrolTypes, bought' \in [E!Courses -> Nat], \A c \in E!Courses : bought[c] <= bought'[c]
  PROVE  Entries \in Nat /\ Entries' \in Nat /\ Entries <= Entries'
<1>1. bought \in [E!Courses -> Nat] BY DEF EnrolTypes
<1>2. SumOn(bought', E!Courses) \in Nat BY SumNat, EnrolmentAssumption
<1>3. \A c \in E!Courses : bought[c] \in Int /\ bought'[c] \in Int BY <1>1
<1>4. SumOn(bought, E!Courses) <= SumOn(bought', E!Courses)
  BY <1>3, SumsCompare, EnrolmentAssumption
<1> QED BY <1>1, <1>2, <1>4, EntriesAre DEF Entries

LEMMA SameEntries == UNCHANGED bought => Entries' = Entries
BY DEF Entries

\* The learner is pushed to a course.
LEMMA EnrolPushes ==
  ASSUME EnrolInv, NEW r \in Requests, NEW k \in EnrolCall, NEW q \in EnrolCall,
         k = enrolling[r], NEW c \in E!Courses,
         enrolling' = [enrolling EXCEPT ![r] = q],
         enrolled' = enrolled \/ enrolled' = [enrolled EXCEPT ![c] = @ + 1],
         enrolled'[c] > 0, c \notin bundled' => Prerequisites[c] \subseteq completed,
         bundled \subseteq bundled', UNCHANGED <<bought, stat, progress, completed>>,
         EnrolTypes' /\ EnrolGrows => CallEnrols(q)'
  PROVE  EnrolInv'
<1>1. enrolled \in [E!Courses -> Nat] BY DEF EnrolInv, EnrolTypes
<1>2. enrolled' \in [E!Courses -> Nat] BY <1>1
<1>3. \A d \in E!Courses : enrolled[d] > 0 => enrolled'[d] > 0 BY <1>1
<1>4. \A d \in E!Courses : d # c => enrolled'[d] = enrolled[d] BY <1>1
<1>5. Entries' = Entries /\ Entries \in Nat BY SameEntries, EntriesAre DEF EnrolInv, EnrolTypes
<1>6. EnrolGrows BY <1>3, <1>5 DEF EnrolGrows
<1>7. /\ bought' \in [E!Courses -> Nat] /\ stat' \in Nat
      /\ progress' \subseteq E!Courses /\ stat' <= Entries'
  BY <1>5 DEF EnrolInv, EnrolTypes
<1>8. EnrolTypes' BY <1>2, <1>7 DEF EnrolInv, EnrolTypes
<1>9. \A d \in E!Courses : bought'[d] > 0 \/ d \in progress' => enrolled'[d] > 0
  BY <1>3 DEF EnrolInv
<1>10. \A d \in E!Courses \ bundled' : enrolled'[d] > 0 => Prerequisites[d] \subseteq completed'
  BY <1>4 DEF EnrolInv
<1> QED BY <1>2, <1>6, <1>7, <1>8, <1>9, <1>10, EnrolMoves

LEMMA EnrolWrites ==
  ASSUME EnrolInv, NEW r \in Requests, E!EnrolInCourse(r) \/ E!EnrolByBundle(r)
  PROVE  EnrolInv'
<1>1. PICK k \in EnrolCall : k = enrolling[r] BY DEF EnrolInv, EnrolTypes
<1>2. CallEnrols(k) BY <1>1 DEF EnrolInv
<1>3. enrolled \in [E!Courses -> Nat] BY DEF EnrolInv, EnrolTypes
<1>4. CASE E!EnrolInCourse(r)
  <2>1. k.op = "enrol" /\ enrolled' = [enrolled EXCEPT ![k.on] = @ + 1]
    BY <1>1, <1>4 DEF E!EnrolInCourse
  <2>2. k.on \in E!Courses /\ Prerequisites[k.on] \subseteq completed BY <1>2, <2>1 DEF CallEnrols
  <2>3. PICK q : q = [k EXCEPT !.op = "user"] OBVIOUS
  <2>4. q \in EnrolCall /\ q.op = "user" /\ q.on = k.on /\ q.user = k.user BY <2>3 DEF EnrolCall
  <2>5. enrolling' = [enrolling EXCEPT ![r] = q] BY <1>1, <1>4, <2>3 DEF E!EnrolInCourse, E!Goes
  <2>6. enrolled'[k.on] > 0 BY <1>3, <2>1, <2>2
  <2>7. UNCHANGED <<bought, stat, progress, completed, bundled>> BY <1>4 DEF E!EnrolInCourse
  <2>8. CallEnrols(q)' BY <1>2, <2>4, <2>2, <2>6, <2>7, SameEntries DEF CallEnrols
  <2> QED BY <1>1, <2>1, <2>2, <2>4, <2>5, <2>6, <2>7, <2>8, EnrolPushes
<1>5. CASE E!EnrolByBundle(r)
  <2>1. PICK c \in k.left :
           /\ enrolled' = IF k.enrolled[c] > 0 THEN enrolled ELSE [enrolled EXCEPT ![c] = @ + 1]
           /\ bundled' = bundled \cup {c}
           /\ E!Goes(r, [k EXCEPT !.op = "progress", !.on = c, !.left = @ \ {c}])
    BY <1>1, <1>5 DEF E!EnrolByBundle
  <2>2. k.op = "bundle" /\ UNCHANGED <<bought, stat, progress, completed>>
    BY <1>1, <1>5 DEF E!EnrolByBundle
  <2>3. c \in E!Courses /\ c \in Bundle BY <1>2, <2>2, EnrolmentAssumption DEF CallEnrols
  <2>4. PICK l \in SUBSET E!Courses : l = k.left \ {c} BY DEF EnrolCall
  <2>5. PICK q : q = [k EXCEPT !.op = "progress", !.on = c, !.left = l] OBVIOUS
  <2>6. /\ q \in EnrolCall /\ q.op = "progress" /\ q.on = c /\ q.left = l
        /\ q.enrolled = k.enrolled /\ q.user = k.user BY <2>3, <2>5 DEF EnrolCall
  <2>7. enrolling' = [enrolling EXCEPT ![r] = q] BY <2>1, <2>4, <2>5 DEF E!Goes
  <2>8. k.enrolled[c] > 0 => enrolled[c] > 0 BY <1>2, <2>2, <2>3 DEF CallEnrols
  <2>9. enrolled'[c] > 0 BY <1>3, <2>1, <2>3, <2>8
  <2>10. ASSUME EnrolTypes', EnrolGrows PROVE CallEnrols(q)'
    <3>1. CallEnrols(k)' BY <1>2, <2>10, CallEnrolsStill DEF EnrolInv
    <3> QED BY <2>2, <2>3, <2>4, <2>6, <2>9, <3>1 DEF CallEnrols
  <2>11. bundled \subseteq bundled' /\ c \in bundled' BY <2>1
  <2>12. enrolled' = enrolled \/ enrolled' = [enrolled EXCEPT ![c] = @ + 1] BY <2>1
  <2> QED BY <1>1, <2>2, <2>3, <2>6, <2>7, <2>9, <2>10, <2>11, <2>12, EnrolPushes
<1> QED BY <1>4, <1>5

LEMMA EnrolSaves ==
  ASSUME EnrolInv, NEW r \in Requests,
         E!BuyCourse(r) \/ E!StartProgress(r) \/ E!SaveBundleUser(r)
  PROVE  EnrolInv'
<1>1. PICK k \in EnrolCall : k = enrolling[r] BY DEF EnrolInv, EnrolTypes
<1>2. CallEnrols(k) BY <1>1 DEF EnrolInv
<1>3. /\ enrolled \in [E!Courses -> Nat] /\ bought \in [E!Courses -> Nat] /\ stat \in Nat
      /\ stat <= Entries /\ progress \subseteq E!Courses
  BY DEF EnrolInv, EnrolTypes
<1>4. UNCHANGED <<enrolled, completed, bundled>>
  BY DEF E!BuyCourse, E!StartProgress, E!SaveBundleUser
\* What each of them writes, and the state it goes to.
<1>5. ASSUME NEW q \in EnrolCall, enrolling' = [enrolling EXCEPT ![r] = q],
             bought' \in [E!Courses -> Nat], \A c \in E!Courses : bought[c] <= bought'[c],
             stat' \in Nat, stat' <= Entries', progress' \subseteq E!Courses,
             \A c \in E!Courses : bought'[c] > 0 \/ c \in progress' => enrolled[c] > 0,
             EnrolTypes' /\ EnrolGrows => CallEnrols(q)'
      PROVE  EnrolInv'
  <2>1. Entries <= Entries' BY <1>5, EntriesGrow DEF EnrolInv
  <2>2. EnrolGrows BY <1>4, <2>1 DEF EnrolGrows
  <2>3. enrolled' \in [E!Courses -> Nat] BY <1>3, <1>4
  <2>4. EnrolTypes' BY <1>5, <2>3 DEF EnrolInv, EnrolTypes
  <2>5. \A c \in E!Courses \ bundled' : enrolled'[c] > 0 => Prerequisites[c] \subseteq completed'
    BY <1>4 DEF EnrolInv
  <2>6. \A c \in E!Courses : bought'[c] > 0 \/ c \in progress' => enrolled'[c] > 0
    BY <1>4, <1>5
  <2> QED BY <1>5, <2>2, <2>3, <2>4, <2>5, <2>6, EnrolMoves
<1>6. PICK i \in EnrolCall : i = E!Idle /\ CallEnrols(i)' BY EnrolIdle
<1>7. \A c \in E!Courses : bought[c] > 0 \/ c \in progress => enrolled[c] > 0 BY DEF EnrolInv
<1>8. CASE E!BuyCourse(r)
  <2>1. /\ k.op = "buy" /\ UNCHANGED <<stat, progress>>
        /\ bought' = bought \/ bought' = [bought EXCEPT ![k.on] = @ + 1]
        /\ enrolling' = [enrolling EXCEPT ![r] = i]
    BY <1>1, <1>6, <1>8 DEF E!BuyCourse, E!Answers, E!Goes
  <2>2. k.on \in E!Courses /\ enrolled[k.on] > 0 BY <1>2, <2>1 DEF CallEnrols
  <2>3. /\ bought' \in [E!Courses -> Nat]
        /\ \A c \in E!Courses : bought[c] <= bought'[c]
        /\ \A c \in E!Courses : c # k.on => bought'[c] = bought[c]
    BY <1>3, <2>1
  <2>4. Entries \in Nat /\ Entries' \in Nat /\ Entries <= Entries'
    BY <2>3, EntriesGrow DEF EnrolInv
  <2>5. stat' \in Nat /\ stat' <= Entries' BY <1>3, <2>1, <2>4
  <2>6. \A c \in E!Courses : bought'[c] > 0 \/ c \in progress' => enrolled[c] > 0
    BY <1>7, <2>1, <2>2, <2>3
  <2>7. progress' \subseteq E!Courses BY <1>3, <2>1
  <2> QED BY <1>5, <1>6, <2>1, <2>3, <2>5, <2>6, <2>7
<1>9. CASE E!StartProgress(r)
  <2>1. k.op = "progress" /\ UNCHANGED <<stat, bought>> /\ progress' = progress \cup {k.on}
    BY <1>1, <1>9 DEF E!StartProgress
  <2>2. k.on \in E!Courses /\ enrolled[k.on] > 0 BY <1>2, <2>1 DEF CallEnrols
  <2>3. PICK q : q = [k EXCEPT !.op = "bundle"] OBVIOUS
  <2>4. /\ q \in EnrolCall /\ q.op = "bundle" /\ q.left = k.left /\ q.enrolled = k.enrolled
        /\ q.user = k.user BY <2>3 DEF EnrolCall
  <2>5. enrolling' = [enrolling EXCEPT ![r] = q] BY <1>1, <1>9, <2>3 DEF E!StartProgress, E!Goes
  <2>6. ASSUME EnrolTypes', EnrolGrows PROVE CallEnrols(q)'
    <3>1. CallEnrols(k)' BY <1>2, <2>6, CallEnrolsStill DEF EnrolInv
    <3> QED BY <2>1, <2>4, <3>1 DEF CallEnrols
  <2>7. /\ bought' \in [E!Courses -> Nat] /\ \A c \in E!Courses : bought[c] <= bought'[c]
        /\ progress' \subseteq E!Courses /\ stat' \in Nat BY <1>3, <2>1, <2>2
  <2>8. stat' <= Entries' BY <1>3, <2>1, SameEntries
  <2>9. \A c \in E!Courses : bought'[c] > 0 \/ c \in progress' => enrolled[c] > 0
    BY <1>7, <2>1, <2>2
  <2> QED BY <1>5, <2>4, <2>5, <2>6, <2>7, <2>8, <2>9
<1>10. CASE E!SaveBundleUser(r)
  <2>1. k.op = "bundle" /\ k.user # None /\ k.left = {} /\ UNCHANGED progress
        /\ enrolling' = [enrolling EXCEPT ![r] = i]
    BY <1>1, <1>6, <1>10 DEF E!SaveBundleUser, E!Answers, E!Goes
  <2>2. PICK u \in UserDoc : u = k.user BY <2>1 DEF EnrolCall
  <2>3. u.stat \in Nat /\ u.bought \in [E!Courses -> Nat] BY DEF UserDoc
  <2>4. PICK M \in SUBSET E!Courses : M = {c \in Bundle : u.bought[c] = 0} BY EnrolmentAssumption
  <2>5. E!NewCourses(r) = M BY <1>1, <2>2, <2>4 DEF E!NewCourses
  <2>6. bought' = [c \in E!Courses |-> IF c \in M THEN bought[c] + 1 ELSE bought[c]]
    BY <1>1, <1>10, <2>2, <2>4 DEF E!SaveBundleUser
  <2>7. stat' = IF M = {} THEN stat ELSE u.stat + Cardinality(M)
    BY <1>1, <1>10, <2>2, <2>5, EntriesCounted DEF E!SaveBundleUser
  <2>8. /\ bought' \in [E!Courses -> Nat] /\ \A c \in E!Courses : bought[c] <= bought'[c]
        /\ \A c \in E!Courses : bought'[c] = IF c \in M THEN bought[c] + 1 ELSE bought[c]
    BY <1>3, <2>6
  <2>9. Entries' = Entries + Cardinality(M)
    <3>1. \A c \in E!Courses : bought[c] \in Int BY <1>3
    <3> QED BY <2>8, <3>1, EnrolmentAssumption, SumMarks DEF Entries
  <2>10. IsFiniteSet(M) /\ Cardinality(M) \in Nat
    BY EnrolmentAssumption, FS_Subset, FS_CardinalityType
  <2>11. Entries \in Nat /\ Entries' \in Nat /\ Entries <= Entries'
    BY <2>8, EntriesGrow DEF EnrolInv
  <2>12. u.stat <= Entries BY <1>2, <2>1, <2>2 DEF CallEnrols
  <2>13. stat' \in Nat /\ stat' <= Entries'
    BY <1>3, <2>3, <2>7, <2>9, <2>10, <2>11, <2>12
  <2>14. \A c \in Bundle : enrolled[c] > 0 BY <1>2, <2>1 DEF CallEnrols
  <2>15. \A c \in E!Courses : bought'[c] > 0 \/ c \in progress' => enrolled[c] > 0
    BY <1>7, <2>1, <2>4, <2>8, <2>14
  <2>16. progress' \subseteq E!Courses BY <1>3, <2>1
  <2> QED BY <1>5, <1>6, <2>1, <2>8, <2>13, <2>15, <2>16
<1> QED BY <1>8, <1>9, <1>10

LEMMA EnrolSteps == ASSUME EnrolInv, E!Next PROVE EnrolInv'
<1>1. \/ E!DeleteBundle
      \/ \E c \in E!Courses : E!Complete(c)
      \/ \E r \in Requests :
            \/ E!LoadCourse(r) \/ E!CheckPrerequisites(r) \/ E!EnrolInCourse(r) \/ E!LoadUser(r)
            \/ E!BuyCourse(r) \/ E!LoadBundle(r) \/ E!LoadBundleUser(r) \/ E!EnrolByBundle(r)
            \/ E!StartProgress(r) \/ E!SaveBundleUser(r) \/ E!Fail(r)
  BY DEF E!Next
<1>2. CASE E!DeleteBundle \/ \E c \in E!Courses : E!Complete(c)
  <2>1. UNCHANGED <<enrolled, bought, stat, progress, enrolling, bundled>>
        /\ completed \subseteq completed'
    BY <1>2 DEF E!DeleteBundle, E!Complete
  <2>2. Entries' = Entries /\ Entries \in Nat
    BY <2>1, SameEntries, EntriesAre DEF EnrolInv, EnrolTypes
  <2>3. EnrolGrows BY <2>1, <2>2 DEF EnrolGrows
  <2>4. EnrolTypes' BY <2>1 DEF EnrolInv, EnrolTypes
  <2>5. ASSUME NEW r \in Requests PROVE CallEnrols(enrolling[r])'
    <3>1. PICK k \in EnrolCall : k = enrolling[r] BY DEF EnrolInv, EnrolTypes
    <3>2. CallEnrols(k)' BY <2>3, <2>4, <3>1, CallEnrolsStill DEF EnrolInv
    <3>3. enrolling'[r] = k BY <2>1, <3>1
    <3> QED BY <3>2, <3>3 DEF CallEnrols
  <2>6. /\ \A c \in E!Courses : bought'[c] > 0 \/ c \in progress' => enrolled'[c] > 0
        /\ \A c \in E!Courses \ bundled' : enrolled'[c] > 0 => Prerequisites[c] \subseteq completed'
        /\ stat' <= Entries'
    BY <2>1, <2>2 DEF EnrolInv
  <2> QED BY <2>4, <2>5, <2>6 DEF EnrolInv
<1> QED BY <1>1, <1>2, EnrolLoads, EnrolWrites, EnrolSaves

LEMMA EnrolInit == E!Init => EnrolInv
<1> SUFFICES ASSUME E!Init PROVE EnrolInv OBVIOUS
<1>1. EnrolTypes BY EnrolIdle DEF E!Init, EnrolTypes
<1>2. Entries \in Nat BY <1>1, EntriesAre DEF EnrolTypes
<1>3. \A r \in Requests : CallEnrols(enrolling[r])
  <2> SUFFICES ASSUME NEW r \in Requests PROVE CallEnrols(enrolling[r]) OBVIOUS
  <2>1. enrolling[r] = E!Idle BY DEF E!Init
  <2> QED BY <2>1, EnrolIdle
<1> QED BY <1>1, <1>2, <1>3 DEF E!Init, EnrolInv

LEMMA EnrolIsSound == EnrolInv => E!EnrolmentSound
BY EntriesCounted DEF EnrolInv, E!EnrolmentSound

-----------------------------------------------------------------------------
(***************************************************************************)
(* Proof, for any members and requests, that a private group admits nobody *)
(* by itself.  Only a join or the creation of the group makes a row active, *)
(* and a request that is about to post found an active row, which tells    *)
(* whose it may be whatever became of it since.                            *)
(***************************************************************************)
Poster(u) == (privacy = "private" => u = Creator) /\ (u # Creator => u \in joined)

GroupInv ==
    /\ member \in [Members -> {None} \cup [role : {"admin", "member"},
                                           status : {"active", "pending", "invited"}]]
    /\ DOMAIN grouping = Requests
    /\ posts \subseteq Members
    /\ \A u \in Members : G!IsActive(u) => Poster(u)
    /\ \A u \in Members \ {Creator} : member[u] # None => member[u].role = "member"
    /\ \A u \in posts : Poster(u)
    /\ \A r \in Requests : grouping[r].op = "post" => grouping[r].by \in Members /\ Poster(grouping[r].by)

LEMMA GroupInit == G!Init => GroupInv
BY DEF G!Init, GroupInv, G!IsActive, G!Idle

LEMMA GroupSteps == ASSUME GroupInv, G!Next PROVE GroupInv'
<1>1. /\ DOMAIN grouping = Requests
      /\ member \in [Members -> {None} \cup [role : {"admin", "member"},
                                             status : {"active", "pending", "invited"}]]
  BY DEF GroupInv
<1>2. \/ G!JoinAsCreator \/ \E u \in Members : G!JoinGroup(u)
      \/ \E r \in Requests : \/ G!CheckInviter(r) \/ G!InviteMember(r)
                             \/ G!CheckPoster(r) \/ G!AddDiscussionPost(r)
  BY DEF G!Next
\* One row is written.
<1>3. ASSUME NEW u, NEW row0 \in [role : {"admin", "member"}, status : {"active", "pending", "invited"}],
             member' = [member EXCEPT ![u] = row0], UNCHANGED <<privacy, posts>>,
             joined \subseteq joined',
             row0.status = "active" => (privacy = "private" => u = Creator)
                                       /\ (u # Creator => u \in joined'),
             u # Creator => row0.role = "member",
             DOMAIN grouping' = Requests,
             \A r \in Requests : grouping'[r].op = "post" => grouping'[r] = grouping[r]
      PROVE  GroupInv'
  <2>1. \A v \in Members : Poster(v) => Poster(v)' BY <1>3 DEF Poster
  <2>2. member' \in [Members -> {None} \cup [role : {"admin", "member"},
                                             status : {"active", "pending", "invited"}]]
    BY <1>1, <1>3
  <2>3. \A v \in Members : member'[v] = IF v = u THEN row0 ELSE member[v] BY <1>1, <1>3
  <2>4. ASSUME NEW v \in Members, G!IsActive(v)' PROVE Poster(v)'
    <3>1. CASE v = u BY <1>3, <2>3, <2>4, <3>1 DEF G!IsActive, Poster
    <3>2. CASE v # u BY <2>1, <2>3, <2>4, <3>2 DEF G!IsActive, GroupInv
    <3> QED BY <3>1, <3>2
  <2>5. \A v \in Members \ {Creator} : member'[v] # None => member'[v].role = "member"
    BY <1>3, <2>3 DEF GroupInv
  <2>6. posts' \subseteq Members /\ \A v \in posts' : Poster(v)' BY <1>3, <2>1 DEF GroupInv
  <2>7. \A r \in Requests : grouping'[r].op = "post" =>
           grouping'[r].by \in Members /\ Poster(grouping[r].by)'
    <3> SUFFICES ASSUME NEW r \in Requests, grouping'[r].op = "post"
                 PROVE  grouping'[r].by \in Members /\ Poster(grouping[r].by)' OBVIOUS
    <3>1. PICK v \in Members : v = grouping[r].by /\ Poster(v) BY <1>3 DEF GroupInv
    <3>2. grouping'[r].by = v BY <1>3, <3>1
    <3> QED BY <2>1, <3>1, <3>2 DEF Poster
  <2> QED BY <1>3, <2>2, <2>4, <2>5, <2>6, <2>7 DEF GroupInv
<1>4. CASE G!JoinAsCreator
  <2>1. /\ member' = [member EXCEPT ![Creator] = [role |-> "admin", status |-> "active"]]
        /\ UNCHANGED <<privacy, posts, grouping, joined>> BY <1>4 DEF G!JoinAsCreator
  <2>2. [role |-> "admin", status |-> "active"] \in [role : {"admin", "member"},
                                                     status : {"active", "pending", "invited"}]
    OBVIOUS
  <2>3. DOMAIN grouping' = Requests BY <1>1, <2>1
  <2> QED BY <1>3, <2>1, <2>2, <2>3
<1>5. ASSUME NEW u \in Members, G!JoinGroup(u) PROVE GroupInv'
  <2>1. PICK m : m = [role |-> "member", status |-> G!JoinStatus] OBVIOUS
  <2>2. /\ m \in [role : {"admin", "member"}, status : {"active", "pending", "invited"}]
        /\ m.role = "member" /\ (m.status = "active" => privacy # "private")
    BY <2>1 DEF G!JoinStatus
  <2>3. /\ member' = [member EXCEPT ![u] = m] /\ joined' = joined \cup {u}
        /\ UNCHANGED <<privacy, posts, grouping>> BY <1>5, <2>1 DEF G!JoinGroup
  <2>4. DOMAIN grouping' = Requests BY <1>1, <2>3
  <2> QED BY <1>3, <2>2, <2>3, <2>4
\* A request starts: it may have found an active row.
<1>6. ASSUME NEW r \in Requests, NEW op, NEW u \in Members, NEW v, G!Starts(r, op, u, v),
             op = "post" => G!IsActive(u)
      PROVE  GroupInv'
  <2>1. PICK q : q = [op |-> op, by |-> u, whom |-> v] OBVIOUS
  <2>2. q.op = op /\ q.by = u BY <2>1
  <2>3. /\ grouping' = [grouping EXCEPT ![r] = q]
        /\ UNCHANGED <<privacy, member, posts, joined>> BY <1>6, <2>1 DEF G!Starts
  <2>4. op = "post" => Poster(u) BY <1>6 DEF GroupInv
  <2>5. \A p \in Requests : grouping'[p] = IF p = r THEN q ELSE grouping[p] BY <1>1, <2>3
  <2>6. DOMAIN grouping' = Requests BY <1>1, <2>3
  <2>7. \A p \in Members : Poster(p)' = Poster(p) BY <2>3 DEF Poster
  <2>8. ASSUME NEW p \in Requests, grouping'[p].op = "post"
        PROVE  grouping'[p].by \in Members /\ Poster(grouping[p].by)'
    <3>1. PICK w \in Members : w = grouping'[p].by /\ Poster(w)
      <4>1. CASE p = r BY <2>2, <2>4, <2>5, <2>8, <4>1
      <4>2. CASE p # r BY <2>5, <2>8, <4>2 DEF GroupInv
      <4> QED BY <4>1, <4>2
    <3>2. Poster(w)' BY <2>7, <3>1
    <3> QED BY <3>1, <3>2 DEF Poster
  <2>9. \A p \in posts' : Poster(p)' BY <2>3 DEF GroupInv, Poster
  <2>10. \A p \in Members : G!IsActive(p)' => Poster(p)' BY <2>3 DEF GroupInv, Poster, G!IsActive
  <2> QED BY <2>3, <2>6, <2>8, <2>9, <2>10 DEF GroupInv
<1>7. ASSUME NEW r \in Requests, G!CheckInviter(r) PROVE GroupInv'
  <2>1. PICK u \in Members, v \in Members : G!Starts(r, "invite", u, v) BY <1>7 DEF G!CheckInviter
  <2> QED BY <1>6, <2>1
<1>8. ASSUME NEW r \in Requests, G!CheckPoster(r) PROVE GroupInv'
  <2>1. PICK u \in Members : G!MayPost(u) /\ G!Starts(r, "post", u, u) BY <1>8 DEF G!CheckPoster
  <2> QED BY <1>6, <2>1 DEF G!MayPost
<1>9. ASSUME NEW r \in Requests, grouping' = [grouping EXCEPT ![r] = G!Idle]
      PROVE  /\ DOMAIN grouping' = Requests
             /\ \A p \in Requests : grouping'[p].op = "post" => grouping'[p] = grouping[p]
  BY <1>1, <1>9 DEF G!Idle
<1>10. ASSUME NEW r \in Requests, G!InviteMember(r) PROVE GroupInv'
  <2>1. PICK m : m = [role |-> "member", status |-> "invited"] OBVIOUS
  <2>2. /\ m \in [role : {"admin", "member"}, status : {"active", "pending", "invited"}]
        /\ m.role = "member" /\ m.status = "invited" BY <2>1
  <2>3. PICK u : u = grouping[r].whom OBVIOUS
  <2>4. /\ member' = [member EXCEPT ![u] = m] /\ UNCHANGED <<privacy, posts, joined>>
        /\ grouping' = [grouping EXCEPT ![r] = G!Idle]
    BY <1>10, <2>1, <2>3 DEF G!InviteMember, G!Answers
  <2> QED BY <1>3, <1>9, <2>2, <2>4
<1>11. ASSUME NEW r \in Requests, G!AddDiscussionPost(r) PROVE GroupInv'
  <2>1. /\ grouping[r].op = "post" /\ posts' = posts \cup {grouping[r].by}
        /\ UNCHANGED <<privacy, member, joined>> /\ grouping' = [grouping EXCEPT ![r] = G!Idle]
    BY <1>11 DEF G!AddDiscussionPost, G!Answers
  <2>2. PICK u \in Members : u = grouping[r].by /\ Poster(u) BY <2>1 DEF GroupInv
  <2>3. \A p \in Members : Poster(p)' = Poster(p) BY <2>1 DEF Poster
  <2>4. posts' \subseteq Members /\ \A p \in posts' : Poster(p)'
    BY <2>1, <2>2, <2>3 DEF GroupInv
  <2>5. /\ DOMAIN grouping' = Requests
        /\ \A p \in Requests : grouping'[p].op = "post" => grouping'[p] = grouping[p]
    BY <1>9, <2>1
  <2>6. ASSUME NEW p \in Requests, grouping'[p].op = "post"
        PROVE  grouping'[p].by \in Members /\ Poster(grouping[p].by)'
    <3>1. PICK w \in Members : w = grouping[p].by /\ Poster(w) BY <2>5, <2>6 DEF GroupInv
    <3>2. grouping'[p].by = w BY <2>5, <2>6, <3>1
    <3> QED BY <2>3, <3>1, <3>2 DEF Poster
  <2>7. \A p \in Members : G!IsActive(p)' => Poster(p)' BY <2>1, <2>3 DEF GroupInv, G!IsActive
  <2> QED BY <2>1, <2>4, <2>5, <2>6, <2>7 DEF GroupInv
<1> QED BY <1>2, <1>4, <1>5, <1>7, <1>8, <1>10, <1>11

LEMMA GroupIsSound == GroupInv => G!GroupSound
BY DEF GroupInv, G!GroupSound, Poster

\* Course, user and progress agree, and a private group admits only its creator, for any
\* courses, members and requests that overlap.
THEOREM MembersKept == PlatformSpec => []MembersSound
<1>1. PlatformInit => EnrolInv /\ GroupInv BY EnrolInit, GroupInit DEF PlatformInit
<1>2. PlatformNext \/ UNCHANGED allVars => (part = "enrolment" /\ E!Next) \/ UNCHANGED enrolVars
  BY DEF PlatformNext, LearnerNext, SharedNext, learnerVars, allVars
<1>3. PlatformNext \/ UNCHANGED allVars => (part = "groups" /\ G!Next) \/ UNCHANGED groupVars
  BY DEF PlatformNext, LearnerNext, SharedNext, learnerVars, allVars
<1>4. EnrolInv /\ UNCHANGED enrolVars => EnrolInv'
  <2> SUFFICES ASSUME EnrolInv, UNCHANGED enrolVars PROVE EnrolInv' OBVIOUS
  <2>1. UNCHANGED <<enrolled, bought, stat, progress, completed, active, enrolling, enrolments, bundled>>
    BY DEF enrolVars
  <2>2. Entries' = Entries BY <2>1, SameEntries
  <2>3. \A r \in Requests : CallEnrols(enrolling[r])'
    BY <2>1, <2>2 DEF EnrolInv, CallEnrols
  <2> QED BY <2>1, <2>2, <2>3 DEF EnrolInv, EnrolTypes
<1>5. GroupInv /\ UNCHANGED groupVars => GroupInv'
  BY DEF GroupInv, groupVars, Poster, G!IsActive
<1>6. EnrolInv /\ GroupInv /\ [PlatformNext]_allVars => EnrolInv' /\ GroupInv'
  BY <1>2, <1>3, <1>4, <1>5, EnrolSteps, GroupSteps
<1>7. EnrolInv /\ GroupInv => MembersSound BY EnrolIsSound, GroupIsSound DEF MembersSound
<1> QED BY <1>1, <1>6, <1>7, PTL DEF PlatformSpec

-----------------------------------------------------------------------------
(***************************************************************************)
(* Proof, for any number of sessions, users, notifications and calls that   *)
(* interleave, that the documents of the repositories are what the calls    *)
(* made them.  Each kind of document has an invariant of its own: a         *)
(* behaviour follows one.                                                   *)
(***************************************************************************)
BalanceInv ==
    /\ document \in [owed : Nat, settled : Nat]
    /\ log \in [credited : Nat, deducted : Nat]
    /\ document.owed + document.settled + log.deducted = log.credited

SessionRow == [state : {"none", "live", "revoked", "gone"}, family : Sessions \cup {None},
               replaced : BOOLEAN, expired : BOOLEAN]

\* The sessions of a family that are alive, and the calls that rotate one of them.
LiveOf(f, d) == {s \in Sessions : d[s].family = f /\ d[s].state = "live"}
RotatesIn(f, d, k) == k.op = "rotate" /\ d[k.seen].family = f

Rotation(k, d) ==
    k.op = "rotate" =>
        /\ k.seen \in Sessions /\ d[k.seen].state # "none"
        /\ k.pc \in {"loaded", "created"} /\ (k.pc = "created" => k.on \in Sessions)

\* One rotation at a time: it knows which sessions may be alive.
OneAlive(f, d, slots) ==
    /\ \A q, p \in Requests : RotatesIn(f, d, slots[q]) /\ RotatesIn(f, d, slots[p]) => q = p
    /\ \A q \in Requests : RotatesIn(f, d, slots[q]) =>
          \A s \in LiveOf(f, d) : s = slots[q].seen \/ (slots[q].pc = "created" /\ s = slots[q].on)
    /\ (\A q \in Requests : ~RotatesIn(f, d, slots[q])) => \A s, t \in LiveOf(f, d) : s = t

\* Nothing of the family is alive, and nobody is about to make it so.
Dead(f, d, slots) ==
    /\ d[f].state # "none" /\ LiveOf(f, d) = {}
    /\ \A q \in Requests : ~RotatesIn(f, d, slots[q])

SessionsInv ==
    /\ document \in [Sessions -> SessionRow]
    /\ log \in [raced : SUBSET Sessions, killed : SUBSET Sessions]
    /\ DOMAIN calling = Requests /\ \A q \in Requests : Rotation(calling[q], document)
    /\ \A s \in Sessions : document[s].state # "none" =>
          document[s].family \in Sessions /\ document[document[s].family].state # "none"
    /\ \A f \in Sessions \ log.raced : OneAlive(f, document, calling)
    /\ \A f \in log.killed : Dead(f, document, calling)

\* As long as no two calls overlapped: what one call has read is what is there.
LockInv ==
    /\ document \in [attempts : Nat, locked : BOOLEAN] /\ log \in [fails : Nat, mixed : BOOLEAN]
    /\ DOMAIN calling = Requests
    /\ \A q \in Requests : calling[q] # D!Idle => calling[q].op = "fail" /\ calling[q].seen \in Nat
    /\ document.locked => log.mixed \/ log.fails >= Threshold
    /\ ~log.mixed =>
         /\ \A q, p \in Requests : calling[q] # D!Idle /\ calling[p] # D!Idle => q = p
         /\ document.locked = (document.attempts >= Threshold)
         /\ \A q \in Requests : calling[q] # D!Idle =>
               calling[q].seen = document.attempts /\ log.fails = document.attempts + 1
         /\ (\A q \in Requests : calling[q] = D!Idle) => log.fails = document.attempts

\* A call that wrote one of the two lists wrote what all calls under way write.
EdgeInv ==
    /\ document \in [following : BOOLEAN, follower : BOOLEAN] /\ log \in [mixed : BOOLEAN]
    /\ DOMAIN calling = Requests
    /\ \A q \in Requests : calling[q] # D!Idle =>
          calling[q].op \in {"follow", "unfollow"} /\ calling[q].pc \in {"both", "mine", "theirs"}
    /\ ~log.mixed =>
         /\ \A q, p \in Requests : calling[q] # D!Idle /\ calling[p] # D!Idle
                                      => calling[q].op = calling[p].op
         /\ \A q \in Requests : calling[q].pc = "theirs" =>
               document.following = (calling[q].op = "follow")
         /\ \A q \in Requests : calling[q].pc = "mine" =>
               document.follower = (calling[q].op = "follow")
         /\ (\A q \in Requests : calling[q] = D!Idle) => document.following = document.follower

ReelDocInv == document \in [likes : SUBSET Users, loves : SUBSET Users] /\ D!OneReaction

NotesInv ==
    /\ document \in [Notes -> [to : Users \cup {None}, read : BOOLEAN, hidden : BOOLEAN]]
    /\ log \in [marked : SUBSET Notes] /\ D!ReadIsMarked

RecordInv ==
    /\ subject = "balance" => BalanceInv
    /\ subject = "sessions" => SessionsInv
    /\ subject = "lock" => LockInv
    /\ subject = "edge" => EdgeInv
    /\ subject = "reel" => ReelDocInv
    /\ subject = "notes" => NotesInv

LEMMA BalanceSteps == ASSUME BalanceInv, D!Balance PROVE BalanceInv'
<1>1. PICK n \in Nat : D!CreditOwedBalance(n) \/ D!DeductOwedBalance(n) \/ D!SettleOwedToSettled(n)
  BY RecordsAssumption DEF D!Balance
<1>2. /\ document \in [owed : Nat, settled : Nat] /\ log \in [credited : Nat, deducted : Nat]
      /\ document.owed + document.settled + log.deducted = log.credited
  BY DEF BalanceInv
<1>3. CASE D!CreditOwedBalance(n) BY <1>2, <1>3 DEF BalanceInv, D!CreditOwedBalance
<1>4. CASE D!DeductOwedBalance(n) BY <1>2, <1>4 DEF BalanceInv, D!DeductOwedBalance, D!Suffices
<1>5. CASE D!SettleOwedToSettled(n)
  <2>1. PICK o \in Nat, t \in Nat : o = document.owed - n /\ t = document.settled + n
    BY <1>2, <1>5 DEF D!SettleOwedToSettled, D!Suffices
  <2>2. document' = [document EXCEPT !.owed = o, !.settled = t] /\ log' = log
    BY <1>5, <2>1 DEF D!SettleOwedToSettled
  <2>3. document' \in [owed : Nat, settled : Nat] /\ document'.owed = o /\ document'.settled = t
    BY <1>2, <2>2
  <2> QED BY <1>2, <2>1, <2>2, <2>3 DEF BalanceInv
<1> QED BY <1>1, <1>3, <1>4, <1>5

LEMMA ReelDocSteps == ASSUME ReelDocInv, D!Reactions PROVE ReelDocInv'
<1>1. PICK u \in Users : D!AddLike(u) \/ D!RemoveLike(u) \/ D!AddLove(u) \/ D!RemoveLove(u)
  BY DEF D!Reactions
<1>2. document \in [likes : SUBSET Users, loves : SUBSET Users]
      /\ document.likes \cap document.loves = {}
  BY DEF ReelDocInv, D!OneReaction
<1>3. \E l \in SUBSET Users : \E m \in SUBSET Users :
         /\ document' \in [likes : SUBSET Users, loves : SUBSET Users]
         /\ document'.likes = l /\ document'.loves = m /\ l \cap m = {}
  <2>1. CASE D!RemoveLike(u) \/ D!RemoveLove(u) BY <1>2, <2>1 DEF D!RemoveLike, D!RemoveLove
  <2>2. CASE D!AddLike(u)
    <3>1. PICK l \in SUBSET Users, m \in SUBSET Users :
             l = document.likes \cup {u} /\ m = document.loves \ {u}
      BY <1>2
    <3>2. document' = [document EXCEPT !.likes = l, !.loves = m] BY <2>2, <3>1 DEF D!AddLike
    <3> QED BY <1>2, <3>1, <3>2
  <2>3. CASE D!AddLove(u)
    <3>1. PICK l \in SUBSET Users, m \in SUBSET Users :
             l = document.likes \ {u} /\ m = document.loves \cup {u}
      BY <1>2
    <3>2. document' = [document EXCEPT !.loves = m, !.likes = l] BY <2>3, <3>1 DEF D!AddLove
    <3> QED BY <1>2, <3>1, <3>2
  <2> QED BY <1>1, <2>1, <2>2, <2>3
<1> QED BY <1>3 DEF ReelDocInv, D!OneReaction

LEMMA NotesSteps == ASSUME NotesInv, D!Notifications PROVE NotesInv'
<1> DEFINE Row == [to : Users \cup {None}, read : BOOLEAN, hidden : BOOLEAN]
<1>1. document \in [Notes -> Row] /\ log \in [marked : SUBSET Notes]
      /\ \A n \in Notes : document[n].read => n \in log.marked
  BY DEF NotesInv, D!ReadIsMarked
<1>2. SUFFICES /\ document' \in [Notes -> Row] /\ log' \in [marked : SUBSET Notes]
               /\ \A n \in Notes : document'[n].read => n \in log'.marked
  BY DEF NotesInv, D!ReadIsMarked
<1>3. CASE \E n \in Notes : D!MarkAsRead(n) \/ \E u \in Users : D!MarkNotificationAsRead(n, u)
  <2>1. PICK n \in Notes : D!MarkAsRead(n) BY <1>3 DEF D!MarkNotificationAsRead
  <2> QED BY <1>1, <2>1 DEF D!MarkAsRead
<1>4. CASE \E n \in Notes : \E u \in Users : D!Send(n, u) \/ D!DeleteNotification(n, u)
  <2>1. PICK n \in Notes : \E u \in Users : D!Send(n, u) \/ D!DeleteNotification(n, u) BY <1>4
  <2>2. document[n] \in Row BY <1>1
  <2>3. \A u \in Users : [document[n] EXCEPT !.to = u] \in Row
                          /\ [document[n] EXCEPT !.to = u].read = document[n].read
    BY <2>2
  <2>4. [document[n] EXCEPT !.hidden = TRUE] \in Row
        /\ [document[n] EXCEPT !.hidden = TRUE].read = document[n].read
    BY <2>2
  <2>5. \E row2 \in Row : row2.read = document[n].read /\ document' = [document EXCEPT ![n] = row2]
    <3>1. CASE \E u \in Users : D!Send(n, u)
      <4>1. PICK u \in Users : document' = [document EXCEPT ![n] = [document[n] EXCEPT !.to = u]]
        BY <3>1 DEF D!Send
      <4> QED BY <2>3, <4>1
    <3>2. CASE \E u \in Users : D!DeleteNotification(n, u)
      <4>1. document' = [document EXCEPT ![n] = [document[n] EXCEPT !.hidden = TRUE]]
        BY <3>2 DEF D!DeleteNotification
      <4> QED BY <2>4, <4>1
    <3> QED BY <2>1, <3>1, <3>2
  <2>6. log' = log BY <2>1 DEF D!Send, D!DeleteNotification
  <2> HIDE DEF Row
  <2> QED BY <1>1, <2>5, <2>6
<1>5. CASE \E ids \in SUBSET Notes : D!SoftDeleteOlderThan(ids)
  <2>1. PICK ids \in SUBSET Notes : D!SoftDeleteOlderThan(ids) BY <1>5
  <2>2. \A n \in Notes : [document[n] EXCEPT !.hidden = TRUE] \in Row
                          /\ [document[n] EXCEPT !.hidden = TRUE].read = document[n].read
    BY <1>1
  <2> QED BY <1>1, <2>1, <2>2 DEF D!SoftDeleteOlderThan
<1>6. CASE \E ids \in SUBSET Notes : \E u \in Users : D!MarkManyAsRead(u, ids)
  <2>1. PICK ids \in SUBSET Notes : \E u \in Users : D!MarkManyAsRead(u, ids) BY <1>6
  <2>2. PICK u \in Users : D!MarkManyAsRead(u, ids) BY <2>1
  <2>3. \A n \in Notes : [document[n] EXCEPT !.read = TRUE] \in Row BY <1>1
  <2>4. /\ document' = [n \in Notes |-> IF n \in ids /\ document[n].to = u /\ ~document[n].read
                                              /\ ~document[n].hidden
                                        THEN [document[n] EXCEPT !.read = TRUE] ELSE document[n]]
        /\ log' = [log EXCEPT !.marked = @ \cup {n \in ids : document[n].to = u}]
    BY <2>2 DEF D!MarkManyAsRead, D!Markable
  <2>5. log' \in [marked : SUBSET Notes]
        /\ log'.marked = log.marked \cup {n \in ids : document[n].to = u}
    BY <1>1, <2>4
  <2> QED BY <1>1, <2>3, <2>4, <2>5
<1> QED BY <1>3, <1>4, <1>5, <1>6 DEF D!Notifications

LEMMA LockSteps == ASSUME LockInv, D!Lock PROVE LockInv'
<1> DEFINE Busy(q) == calling[q] # D!Idle
<1>1. /\ document \in [attempts : Nat, locked : BOOLEAN] /\ log \in [fails : Nat, mixed : BOOLEAN]
      /\ DOMAIN calling = Requests /\ Threshold \in Nat \ {0}
      /\ \A q \in Requests : Busy(q) => calling[q].op = "fail" /\ calling[q].seen \in Nat
      /\ document.locked => log.mixed \/ log.fails >= Threshold
  BY RecordsAssumption DEF LockInv
<1>2. ~log.mixed =>
         /\ \A q, p \in Requests : Busy(q) /\ Busy(p) => q = p
         /\ document.locked = (document.attempts >= Threshold)
         /\ \A q \in Requests : Busy(q) =>
               calling[q].seen = document.attempts /\ log.fails = document.attempts + 1
         /\ (\A q \in Requests : ~Busy(q)) => log.fails = document.attempts
  BY DEF LockInv
<1>3. CASE D!ClearLock
  <2>1. /\ document' = [attempts |-> 0, locked |-> FALSE] /\ calling' = calling
        /\ log' = [fails |-> 0, mixed |-> log.mixed \/ \E q \in Requests : Busy(q)]
    BY <1>3 DEF D!ClearLock, D!Single
  <2>2. PICK b \in BOOLEAN : b = (log.mixed \/ \E q \in Requests : Busy(q)) OBVIOUS
  <2>3. log' = [fails |-> 0, mixed |-> b] BY <2>1, <2>2
  <2>4. log' \in [fails : Nat, mixed : BOOLEAN] /\ log'.fails = 0 /\ log'.mixed = b BY <2>3
  <2>5. document' \in [attempts : Nat, locked : BOOLEAN] /\ document'.attempts = 0
        /\ document'.locked = FALSE
    BY <2>1
  <2>6. ~b => \A q \in Requests : ~Busy(q) BY <2>2
  <2>7. 0 \in Nat /\ ~(0 >= Threshold) BY <1>1
  <2>8. calling' = calling BY <2>1
  <2> QED BY <1>1, <2>4, <2>5, <2>6, <2>7, <2>8 DEF LockInv
<1>4. ASSUME NEW q \in Requests, D!LoadAttempts(q) PROVE LockInv'
  <2>1. PICK k : k = [op |-> "fail", pc |-> "loaded", seen |-> document.attempts, on |-> None] OBVIOUS
  <2>2. /\ document' = document /\ ~Busy(q) /\ calling' = [calling EXCEPT ![q] = k]
        /\ log' = [fails |-> log.fails + 1, mixed |-> log.mixed \/ D!Others(q) # {}]
    BY <1>4, <2>1 DEF D!LoadAttempts, D!Begin, D!Call, D!Overlapped
  <2>3. log'.mixed \in BOOLEAN /\ log'.fails = log.fails + 1
        /\ (~log'.mixed => ~log.mixed /\ \A p \in Requests \ {q} : ~Busy(p))
        /\ (log.mixed => log'.mixed)
    BY <1>1, <2>2 DEF D!Others
  <2>4. k # D!Idle /\ k.op = "fail" /\ k.seen = document.attempts /\ calling'[q] = k
        /\ \A p \in Requests \ {q} : calling'[p] = calling[p]
    BY <1>1, <2>1, <2>2 DEF D!Idle
  <2>5. log' \in [fails : Nat, mixed : BOOLEAN] BY <1>1, <2>2, <2>3
  <2>6. DOMAIN calling' = Requests BY <1>1, <2>2
  <2>7. ~log'.mixed => log.fails = document.attempts BY <1>2, <2>2, <2>3
  <2>8. \A p \in Requests : calling'[p] # D!Idle => calling'[p].op = "fail" /\ calling'[p].seen \in Nat
    BY <1>1, <2>4
  <2>9. document'.locked => log'.mixed \/ log'.fails >= Threshold BY <1>1, <2>2, <2>3
  <2>10. ASSUME ~log'.mixed
         PROVE  /\ \A p, o \in Requests : calling'[p] # D!Idle /\ calling'[o] # D!Idle => p = o
                /\ document'.locked = (document'.attempts >= Threshold)
                /\ \A p \in Requests : calling'[p] # D!Idle =>
                      calling'[p].seen = document'.attempts /\ log'.fails = document'.attempts + 1
                /\ ~ \A p \in Requests : calling'[p] = D!Idle
    BY <1>1, <1>2, <2>2, <2>3, <2>4, <2>7, <2>10
  <2> HIDE DEF Busy
  <2> QED BY <1>1, <2>2, <2>5, <2>6, <2>8, <2>9, <2>10 DEF LockInv
<1>5. ASSUME NEW q \in Requests, D!SaveAttempts(q) PROVE LockInv'
  <2>1. calling[q].op = "fail" BY <1>5 DEF D!SaveAttempts, D!At
  <2>2. Busy(q) BY <2>1 DEF D!Idle
  <2>3. PICK n \in Nat : n = calling[q].seen + 1 BY <1>1, <2>2
  <2>4. /\ document' = [attempts |-> n, locked |-> document.locked \/ n >= Threshold]
        /\ log' = log /\ calling' = [calling EXCEPT ![q] = D!Idle]
    BY <1>5, <2>3 DEF D!SaveAttempts, D!Locks, D!Leave
  <2>5. calling'[q] = D!Idle /\ \A p \in Requests \ {q} : calling'[p] = calling[p]
    BY <1>1, <2>4
  <2>6. document' \in [attempts : Nat, locked : BOOLEAN] /\ document'.attempts = n
        /\ document'.locked = (document.locked \/ n >= Threshold)
    BY <1>1, <2>4
  <2>7. ASSUME ~log.mixed
        PROVE  /\ \A p \in Requests : calling'[p] = D!Idle
               /\ log.fails = n /\ document.locked = (document.attempts >= Threshold)
               /\ n = document.attempts + 1
    BY <1>1, <1>2, <2>2, <2>3, <2>5, <2>7
  <2>8. ~log.mixed => document'.locked = (n >= Threshold) BY <1>1, <2>6, <2>7
  <2>9. document'.locked => log.mixed \/ log.fails >= Threshold BY <1>1, <2>6, <2>7
  <2>10. \A p \in Requests : calling'[p] # D!Idle => calling'[p].op = "fail" /\ calling'[p].seen \in Nat
    BY <1>1, <2>5
  <2>11. DOMAIN calling' = Requests BY <1>1, <2>4
  <2> HIDE DEF Busy
  <2> QED BY <1>1, <2>4, <2>6, <2>7, <2>8, <2>9, <2>10, <2>11 DEF LockInv
<1> QED BY <1>3, <1>4, <1>5 DEF D!Lock

LEMMA EdgeSteps == ASSUME EdgeInv, D!Edge PROVE EdgeInv'
<1> DEFINE Busy(q) == calling[q] # D!Idle
<1>1. /\ document \in [following : BOOLEAN, follower : BOOLEAN] /\ log \in [mixed : BOOLEAN]
      /\ DOMAIN calling = Requests
      /\ \A q \in Requests : Busy(q) => /\ calling[q].op \in {"follow", "unfollow"}
                                        /\ calling[q].pc \in {"both", "mine", "theirs"}
  BY DEF EdgeInv
<1>2. ~log.mixed =>
         /\ \A q, p \in Requests : Busy(q) /\ Busy(p) => calling[q].op = calling[p].op
         /\ \A q \in Requests : calling[q].pc = "theirs" =>
               document.following = (calling[q].op = "follow")
         /\ \A q \in Requests : calling[q].pc = "mine" =>
               document.follower = (calling[q].op = "follow")
         /\ (\A q \in Requests : ~Busy(q)) => document.following = document.follower
  BY DEF EdgeInv
<1>3. D!Idle.pc = "idle" BY DEF D!Idle
<1>4. ASSUME NEW q \in Requests, NEW yes \in BOOLEAN, D!Follows(q, yes) PROVE EdgeInv'
  <2>1. PICK o \in {"follow", "unfollow"} : o = IF yes THEN "follow" ELSE "unfollow" OBVIOUS
  <2>2. PICK k : k = [op |-> o, pc |-> "both", seen |-> None, on |-> None] OBVIOUS
  <2>3. /\ document' = document /\ ~Busy(q) /\ calling' = [calling EXCEPT ![q] = k]
        /\ log' = [log EXCEPT !.mixed = @ \/ \E p \in D!Others(q) : calling[p].op # o]
    BY <1>4, <2>1, <2>2 DEF D!Follows, D!Begin, D!Call
  <2>4. log' \in [mixed : BOOLEAN]
        /\ (~log'.mixed => ~log.mixed /\ \A p \in Requests \ {q} : Busy(p) => calling[p].op = o)
    BY <1>1, <2>3 DEF D!Others
  <2>5. /\ k # D!Idle /\ k.op = o /\ k.pc = "both" /\ calling'[q] = k
        /\ \A p \in Requests \ {q} : calling'[p] = calling[p] /\ DOMAIN calling' = Requests
    BY <1>1, <2>2, <2>3 DEF D!Idle
  <2>6. DOMAIN calling' = Requests BY <1>1, <2>3
  <2>7. ~ \A p \in Requests : calling'[p] = D!Idle BY <2>5
  <2>8. \A p \in Requests : calling'[p] # D!Idle =>
           calling'[p].op \in {"follow", "unfollow"} /\ calling'[p].pc \in {"both", "mine", "theirs"}
    BY <1>1, <2>1, <2>5
  <2>9. ~log'.mixed =>
           /\ \A r, p \in Requests : calling'[r] # D!Idle /\ calling'[p] # D!Idle
                                        => calling'[r].op = calling'[p].op
           /\ \A r \in Requests : calling'[r].pc = "theirs" =>
                 document'.following = (calling'[r].op = "follow")
           /\ \A r \in Requests : calling'[r].pc = "mine" =>
                 document'.follower = (calling'[r].op = "follow")
    BY <1>2, <2>3, <2>4, <2>5
  <2> HIDE DEF Busy
  <2> QED BY <1>1, <2>3, <2>4, <2>6, <2>7, <2>8, <2>9 DEF EdgeInv
\* What a call writes all calls under way write.
<1>5. ASSUME NEW q \in Requests, D!UpdateFollower(q) \/ D!UpdateTarget(q) PROVE EdgeInv'
  <2>1. PICK o : o = calling[q].op OBVIOUS
  <2>2. calling[q].pc \in {"both", "mine", "theirs"} /\ log' = log
    BY <1>5 DEF D!UpdateFollower, D!UpdateTarget
  <2>3. Busy(q) /\ o \in {"follow", "unfollow"} BY <1>1, <1>3, <2>1, <2>2
  <2>10. ASSUME NEW pc, D!Go(q, pc, None)
         PROVE  \E k : calling' = [calling EXCEPT ![q] = k] /\ k.pc = pc /\ k.op = o
    <3>1. PICK k : k = [op |-> calling[q].op, pc |-> pc, seen |-> calling[q].seen, on |-> None] OBVIOUS
    <3>2. calling' = [calling EXCEPT ![q] = k] BY <2>10, <3>1 DEF D!Go
    <3>3. k.pc = pc /\ k.op = o BY <2>1, <3>1
    <3> QED BY <3>2, <3>3, Zenon
  <2>11. D!Leave(q) => calling' = [calling EXCEPT ![q] = D!Idle] BY DEF D!Leave
  <2>4. PICK k : calling' = [calling EXCEPT ![q] = k]
          /\ \/ /\ D!UpdateFollower(q) /\ calling[q].pc = "both" /\ k.pc = "theirs" /\ k.op = o
             \/ /\ D!UpdateTarget(q) /\ calling[q].pc = "both" /\ k.pc = "mine" /\ k.op = o
             \/ /\ D!UpdateFollower(q) /\ calling[q].pc = "mine" /\ k = D!Idle
             \/ /\ D!UpdateTarget(q) /\ calling[q].pc = "theirs" /\ k = D!Idle
    <3>1. CASE D!UpdateFollower(q) /\ calling[q].pc = "both"
      BY <2>10, <3>1 DEF D!UpdateFollower
    <3>2. CASE D!UpdateTarget(q) /\ calling[q].pc = "both"
      BY <2>10, <3>2 DEF D!UpdateTarget
    <3>3. CASE D!UpdateFollower(q) /\ calling[q].pc # "both"
      BY <2>11, <3>3 DEF D!UpdateFollower
    <3>4. CASE D!UpdateTarget(q) /\ calling[q].pc # "both"
      BY <2>11, <3>4 DEF D!UpdateTarget
    <3> QED BY <1>5, <3>1, <3>2, <3>3, <3>4
  <2>5. /\ document' \in [following : BOOLEAN, follower : BOOLEAN]
        /\ D!UpdateFollower(q) => /\ document'.following = (o = "follow")
                                  /\ document'.follower = document.follower
        /\ D!UpdateTarget(q) => /\ document'.follower = (o = "follow")
                                /\ document'.following = document.following
    BY <1>1, <1>5, <2>1 DEF D!UpdateFollower, D!UpdateTarget
  <2>6. calling'[q] = k /\ DOMAIN calling' = Requests
        /\ \A p \in Requests \ {q} : calling'[p] = calling[p]
    BY <1>1, <2>4
  <2>7. \A p \in Requests : calling'[p] # D!Idle =>
           calling'[p].op \in {"follow", "unfollow"} /\ calling'[p].pc \in {"both", "mine", "theirs"}
    BY <1>1, <2>3, <2>4, <2>6
  <2>8. ASSUME ~log.mixed
        PROVE  /\ \A r, p \in Requests : calling'[r] # D!Idle /\ calling'[p] # D!Idle
                                             => calling'[r].op = calling'[p].op
               /\ \A r \in Requests : calling'[r].pc = "theirs" =>
                     document'.following = (calling'[r].op = "follow")
               /\ \A r \in Requests : calling'[r].pc = "mine" =>
                     document'.follower = (calling'[r].op = "follow")
               /\ (\A r \in Requests : calling'[r] = D!Idle)
                     => document'.following = document'.follower
    <3>1. \A r \in Requests : Busy(r) => calling[r].op = o BY <1>2, <2>1, <2>3, <2>8
    <3>2. \A r \in Requests : calling[r].pc \in {"mine", "theirs"} => Busy(r) BY <1>3
    <3>3. \A r, p \in Requests : calling'[r] # D!Idle /\ calling'[p] # D!Idle
                                     => calling'[r].op = calling'[p].op
      BY <2>4, <2>6, <3>1
    <3>4. \A r \in Requests : calling'[r].pc = "theirs" =>
             document'.following = (calling'[r].op = "follow")
      BY <1>2, <1>3, <2>4, <2>5, <2>6, <2>8, <3>1, <3>2
    <3>5. \A r \in Requests : calling'[r].pc = "mine" =>
             document'.follower = (calling'[r].op = "follow")
      BY <1>2, <1>3, <2>4, <2>5, <2>6, <2>8, <3>1, <3>2
    <3>6. (\A r \in Requests : calling'[r] = D!Idle) => document'.following = document'.follower
      BY <1>2, <1>3, <2>1, <2>4, <2>5, <2>6, <2>8
    <3> QED BY <3>3, <3>4, <3>5, <3>6
  <2> HIDE DEF Busy
  <2> QED BY <1>1, <2>2, <2>5, <2>6, <2>7, <2>8 DEF EdgeInv
<1> QED BY <1>4, <1>5 DEF D!Edge

-----------------------------------------------------------------------------
\* Sessions.  A step that makes none alive and keeps every family keeps the invariant,
\* if the calls are the same or one that does not rotate came or went.
Fades(d, e) ==
    /\ e \in [Sessions -> SessionRow]
    /\ \A s \in Sessions : /\ e[s].family = d[s].family
                           /\ e[s].state = "none" <=> d[s].state = "none"
                           /\ e[s].state = "live" => d[s].state = "live"

SameRotations(a, b) ==
    /\ DOMAIN b = Requests
    /\ \A q \in Requests : b[q].op = "rotate" => b[q] = a[q]
    /\ \A q \in Requests : a[q].op = "rotate" => b[q] = a[q]

LEMMA FadesKeeps ==
  ASSUME SessionsInv, Fades(document, document'), SameRotations(calling, calling'),
         log' \in [raced : SUBSET Sessions, killed : SUBSET Sessions],
         log.raced \subseteq log'.raced,
         \A f \in log'.killed \ log.killed : Dead(f, document', calling')
  PROVE  SessionsInv'
<1>1. /\ document \in [Sessions -> SessionRow] /\ document' \in [Sessions -> SessionRow]
      /\ \A q \in Requests : Rotation(calling[q], document)
      /\ \A s \in Sessions : document[s].state # "none" =>
            document[s].family \in Sessions /\ document[document[s].family].state # "none"
  BY DEF SessionsInv, Fades
<1>2. \A s \in Sessions : /\ document'[s].family = document[s].family
                          /\ document'[s].state = "none" <=> document[s].state = "none"
                          /\ document'[s].state = "live" => document[s].state = "live"
  BY DEF Fades
<1>3. /\ \A q \in Requests : calling'[q].op = "rotate" => calling'[q] = calling[q]
      /\ \A q \in Requests : calling[q].op = "rotate" => calling'[q] = calling[q]
  BY DEF SameRotations
<1>4. \A q \in Requests : Rotation(calling'[q], document') BY <1>1, <1>2, <1>3 DEF Rotation
<1>5. \A f \in Sessions : LiveOf(f, document') \subseteq LiveOf(f, document) BY <1>2 DEF LiveOf
<1>6. \A f \in Sessions, q \in Requests :
         RotatesIn(f, document', calling'[q]) <=> RotatesIn(f, document, calling[q])
  BY <1>1, <1>2, <1>3, <1>4 DEF RotatesIn, Rotation
<1>7. ASSUME NEW f \in Sessions \ log'.raced PROVE OneAlive(f, document', calling')
  <2>1. OneAlive(f, document, calling) BY DEF SessionsInv
  <2>2. \A q \in Requests : RotatesIn(f, document, calling[q]) => calling'[q] = calling[q]
    BY <1>3 DEF RotatesIn
  <2> QED BY <1>5, <1>6, <2>1, <2>2 DEF OneAlive
<1>8. ASSUME NEW f \in log'.killed PROVE Dead(f, document', calling')
  <2>1. CASE f \in log.killed
    <3>1. Dead(f, document, calling) /\ f \in Sessions BY <2>1 DEF SessionsInv
    <3> QED BY <1>2, <1>5, <1>6, <3>1 DEF Dead
  <2> QED BY <2>1
<1>9. DOMAIN calling' = Requests BY DEF SameRotations
<1> QED BY <1>1, <1>2, <1>4, <1>7, <1>8, <1>9 DEF SessionsInv

\* The updates of one statement: revocations, deletions and the clock.
LEMMA SessionsFade ==
  ASSUME SessionsInv,
         \/ \E s \in Sessions : D!Revoke(s) \/ D!RevokeFamily(s) \/ D!Expire(s)
         \/ \E s \in Sessions \cup {None} : D!RevokeAllByUser(s)
         \/ D!DeleteSessions({"live", "revoked"}) \/ D!DeleteSessions({"revoked"})
  PROVE  SessionsInv'
<1>1. /\ document \in [Sessions -> SessionRow] /\ DOMAIN calling = Requests
      /\ log \in [raced : SUBSET Sessions, killed : SUBSET Sessions]
  BY DEF SessionsInv
<1>2. calling' = calling
  BY DEF D!Revoke, D!RevokeFamily, D!Expire, D!RevokeAllByUser, D!DeleteSessions, D!Single
<1>3. SameRotations(calling, calling') BY <1>1, <1>2 DEF SameRotations
<1>4. ASSUME NEW to \in {"revoked", "gone"}, NEW s \in Sessions
      PROVE  LET e == [document[s] EXCEPT !.state = to] IN
             e \in SessionRow /\ e.state = to /\ e.family = document[s].family
  BY <1>1 DEF SessionRow
<1>5. ASSUME NEW set, D!RevokeWhere(set) PROVE Fades(document, document')
  <2>1. document' = [s \in Sessions |-> IF s \in set /\ document[s].state = "live"
                                        THEN [document[s] EXCEPT !.state = "revoked"] ELSE document[s]]
    BY <1>5 DEF D!RevokeWhere
  <2>2. \A s \in Sessions : LET e == [document[s] EXCEPT !.state = "revoked"] IN
             e \in SessionRow /\ e.state = "revoked" /\ e.family = document[s].family
    BY <1>4
  <2> QED BY <1>1, <2>1, <2>2 DEF Fades
<1>6. CASE \E s \in Sessions : D!RevokeFamily(s)
  <2>1. PICK f \in Sessions : D!RevokeFamily(f) BY <1>6
  <2>2. Fades(document, document') BY <1>5, <2>1 DEF D!RevokeFamily
  <2>3. /\ document[f].state # "none"
        /\ document' = [s \in Sessions |-> IF document[s].family = f /\ document[s].state = "live"
                                        THEN [document[s] EXCEPT !.state = "revoked"] ELSE document[s]]
        /\ log' = [log EXCEPT !.killed = IF D!Rotations(f) = {} THEN @ \cup {f} ELSE @]
    BY <2>1 DEF D!RevokeFamily, D!RevokeWhere
  <2>4. /\ log' \in [raced : SUBSET Sessions, killed : SUBSET Sessions] /\ log'.raced = log.raced
        /\ log'.killed \subseteq log.killed \cup {f}
        /\ log'.killed # log.killed => D!Rotations(f) = {}
    BY <1>1, <2>3
  <2>5. ASSUME D!Rotations(f) = {} PROVE Dead(f, document', calling')
    <3>1. \A s \in Sessions : LET e == [document[s] EXCEPT !.state = "revoked"] IN
               e.state = "revoked" /\ e.family = document[s].family
      BY <1>4
    <3>2. LiveOf(f, document') = {} BY <1>1, <2>3, <3>1 DEF LiveOf
    <3>3. \A q \in Requests : ~RotatesIn(f, document, calling[q])
      BY <2>5 DEF D!Rotations, RotatesIn
    <3>4. \A q \in Requests : Rotation(calling[q], document) BY DEF SessionsInv
    <3>5. \A q \in Requests : ~RotatesIn(f, document', calling[q])
      BY <2>2, <3>3, <3>4 DEF RotatesIn, Rotation, Fades
    <3>6. document'[f].state # "none" BY <2>2, <2>3 DEF Fades
    <3> QED BY <1>2, <3>2, <3>5, <3>6 DEF Dead
  <2> QED BY <1>3, <2>2, <2>4, <2>5, FadesKeeps
<1>7. CASE \E s \in Sessions : D!Revoke(s) \/ D!Expire(s)
  <2>1. PICK s \in Sessions : D!Revoke(s) \/ D!Expire(s) BY <1>7
  <2>2. document[s] \in SessionRow BY <1>1
  <2>3. CASE D!Revoke(s)
    <3>1. document' = [document EXCEPT ![s].state = "revoked"] /\ log' = log
          /\ document[s].state \in {"live", "revoked"}
      BY <2>3 DEF D!Revoke
    <3>2. Fades(document, document') BY <1>1, <2>2, <3>1 DEF Fades, SessionRow
    <3> QED BY <1>1, <1>3, <3>1, <3>2, FadesKeeps
  <2>4. CASE D!Expire(s)
    <3>1. document' = [document EXCEPT ![s].expired = TRUE] /\ log' = log BY <2>4 DEF D!Expire
    <3>2. Fades(document, document') BY <1>1, <2>2, <3>1 DEF Fades, SessionRow
    <3> QED BY <1>1, <1>3, <3>1, <3>2, FadesKeeps
  <2> QED BY <2>1, <2>3, <2>4
<1>8. CASE \E s \in Sessions \cup {None} : D!RevokeAllByUser(s)
  <2>1. Fades(document, document') /\ log' = log BY <1>5, <1>8 DEF D!RevokeAllByUser
  <2> QED BY <1>1, <1>3, <2>1, FadesKeeps
<1>9. ASSUME NEW set \in {{"live", "revoked"}, {"revoked"}}, D!DeleteSessions(set)
      PROVE  SessionsInv'
  <2>1. /\ document' = [s \in Sessions |-> IF document[s].state \in set /\ document[s].expired
                                  THEN [document[s] EXCEPT !.state = "gone"] ELSE document[s]]
        /\ log' = log
    BY <1>9 DEF D!DeleteSessions
  <2>2. \A s \in Sessions : LET e == [document[s] EXCEPT !.state = "gone"] IN
             e \in SessionRow /\ e.state = "gone" /\ e.family = document[s].family
    BY <1>4
  <2>3. Fades(document, document') BY <1>1, <2>1, <2>2 DEF Fades
  <2> QED BY <1>1, <1>3, <2>1, <2>3, FadesKeeps
<1> QED BY <1>6, <1>7, <1>8, <1>9

\* A new session has a new id.
LEMMA SessionMade ==
  ASSUME SessionsInv, NEW t \in Sessions, NEW f \in Sessions, document[t].state = "none",
         document' = [document EXCEPT ![t] = D!NewSession(f)]
  PROVE  /\ document' \in [Sessions -> SessionRow]
         /\ document'[t].family = f /\ document'[t].state = "live"
         /\ \A s \in Sessions \ {t} : document'[s] = document[s]
         /\ \A g \in Sessions : document[g].state # "none" =>
               document'[g] = document[g] /\ g # t
         /\ \A g \in Sessions : LiveOf(g, document') =
               IF g = f THEN LiveOf(g, document) \cup {t} ELSE LiveOf(g, document)
<1>1. document \in [Sessions -> SessionRow] BY DEF SessionsInv
<1>2. D!NewSession(f) \in SessionRow /\ D!NewSession(f).family = f /\ D!NewSession(f).state = "live"
  BY DEF D!NewSession, SessionRow
<1>3. document'[t] = D!NewSession(f) /\ document' \in [Sessions -> SessionRow]
      /\ \A s \in Sessions \ {t} : document'[s] = document[s]
  BY <1>1, <1>2
<1> QED BY <1>2, <1>3 DEF LiveOf

LEMMA SessionsMade ==
  ASSUME SessionsInv,
         \/ \E s \in Sessions : D!CreateSession(s)
         \/ \E q \in Requests : \E t \in Sessions : D!CreateRotated(q, t)
  PROVE  SessionsInv'
<1>1. /\ document \in [Sessions -> SessionRow] /\ DOMAIN calling = Requests
      /\ log \in [raced : SUBSET Sessions, killed : SUBSET Sessions]
      /\ \A q \in Requests : Rotation(calling[q], document)
      /\ \A s \in Sessions : document[s].state # "none" =>
            document[s].family \in Sessions /\ document[document[s].family].state # "none"
  BY DEF SessionsInv
<1>2. CASE \E s \in Sessions : D!CreateSession(s)
  <2>1. PICK t \in Sessions : D!CreateSession(t) BY <1>2
  <2>2. /\ document[t].state = "none" /\ document' = [document EXCEPT ![t] = D!NewSession(t)]
        /\ calling' = calling /\ log' = log
    BY <2>1 DEF D!CreateSession, D!Single
  <2>3. /\ document' \in [Sessions -> SessionRow]
        /\ document'[t].family = t /\ document'[t].state = "live"
        /\ \A s \in Sessions \ {t} : document'[s] = document[s]
        /\ \A g \in Sessions : document[g].state # "none" => document'[g] = document[g] /\ g # t
        /\ \A g \in Sessions : LiveOf(g, document') =
               IF g = t THEN LiveOf(g, document) \cup {t} ELSE LiveOf(g, document)
    BY <2>2, SessionMade
  <2>4. \A q \in Requests : Rotation(calling[q], document') BY <1>1, <2>3 DEF Rotation
  <2>5. \A g \in Sessions, q \in Requests :
           RotatesIn(g, document', calling[q]) <=> RotatesIn(g, document, calling[q])
    BY <1>1, <2>3 DEF RotatesIn, Rotation
  \* Nothing was of the new family before.
  <2>6. LiveOf(t, document) = {} /\ \A q \in Requests : ~RotatesIn(t, document, calling[q])
    BY <1>1, <2>2 DEF LiveOf, RotatesIn, Rotation
  <2>7. ASSUME NEW g \in Sessions \ log.raced PROVE OneAlive(g, document', calling)
    <3>1. OneAlive(g, document, calling) BY DEF SessionsInv
    <3> QED BY <2>3, <2>5, <2>6, <3>1 DEF OneAlive
  <2>8. ASSUME NEW g \in log.killed PROVE Dead(g, document', calling)
    <3>1. Dead(g, document, calling) /\ g \in Sessions BY <1>1 DEF SessionsInv
    <3> QED BY <2>2, <2>3, <2>5, <3>1 DEF Dead
  <2>9. \A s \in Sessions : document'[s].state # "none" =>
            document'[s].family \in Sessions /\ document'[document'[s].family].state # "none"
    BY <1>1, <2>3
  <2> QED BY <1>1, <2>2, <2>3, <2>4, <2>7, <2>8, <2>9 DEF SessionsInv
<1>3. CASE \E q \in Requests : \E t \in Sessions : D!CreateRotated(q, t)
  <2>1. PICK q \in Requests : \E t \in Sessions : D!CreateRotated(q, t) BY <1>3
  <2>2. PICK t \in Sessions : D!CreateRotated(q, t) BY <2>1
  <2>3. PICK o : o = calling[q].seen OBVIOUS
  <2>4. PICK f : f = document[o].family OBVIOUS
  <2>5. PICK k : k = [op |-> calling[q].op, pc |-> "created", seen |-> o, on |-> t] OBVIOUS
  <2>6. /\ calling[q].op = "rotate" /\ calling[q].pc = "loaded" /\ document[t].state = "none"
        /\ document' = [document EXCEPT ![t] = D!NewSession(f)]
        /\ calling' = [calling EXCEPT ![q] = k] /\ log' = log
    BY <2>2, <2>3, <2>4, <2>5 DEF D!CreateRotated, D!At, D!Go
  <2>7. /\ o \in Sessions /\ document[o].state # "none"
        /\ f \in Sessions /\ document[f].state # "none"
    BY <1>1, <2>3, <2>4, <2>6 DEF Rotation
  <2>8. /\ document' \in [Sessions -> SessionRow]
        /\ document'[t].family = f /\ document'[t].state = "live"
        /\ \A s \in Sessions \ {t} : document'[s] = document[s]
        /\ \A g \in Sessions : document[g].state # "none" => document'[g] = document[g] /\ g # t
        /\ \A g \in Sessions : LiveOf(g, document') =
               IF g = f THEN LiveOf(g, document) \cup {t} ELSE LiveOf(g, document)
    BY <2>6, <2>7, SessionMade
  <2>9. /\ calling'[q] = k /\ \A p \in Requests \ {q} : calling'[p] = calling[p]
        /\ DOMAIN calling' = Requests
        /\ k.op = "rotate" /\ k.pc = "created" /\ k.seen = o /\ k.on = t
    BY <1>1, <2>5, <2>6
  <2>10. \A p \in Requests : Rotation(calling'[p], document')
    BY <1>1, <2>7, <2>8, <2>9 DEF Rotation
  <2>11. \A g \in Sessions, p \in Requests :
            RotatesIn(g, document', calling'[p]) <=> RotatesIn(g, document, calling[p])
    BY <1>1, <2>3, <2>6, <2>7, <2>8, <2>9 DEF RotatesIn, Rotation
  <2>12. RotatesIn(f, document, calling[q]) BY <2>3, <2>4, <2>6 DEF RotatesIn
  <2>13. ASSUME NEW g \in Sessions \ log.raced PROVE OneAlive(g, document', calling')
    <3>1. OneAlive(g, document, calling) BY DEF SessionsInv
    <3>2. CASE g = f
      <4>1. \A p \in Requests : RotatesIn(g, document, calling[p]) => p = q
        BY <2>12, <3>1, <3>2 DEF OneAlive
      <4>2. \A s \in LiveOf(g, document) : s = o
        BY <2>3, <2>6, <2>12, <3>1, <3>2 DEF OneAlive
      <4>3. \A p \in Requests : RotatesIn(g, document', calling'[p]) => p = q BY <2>11, <4>1
      <4>4. \A s \in LiveOf(g, document') : s = o \/ s = t BY <2>8, <3>2, <4>2
      <4>5. RotatesIn(g, document', calling'[q]) BY <2>11, <2>12, <3>2
      <4> QED BY <2>9, <4>3, <4>4, <4>5 DEF OneAlive
    <3>3. CASE g # f
      <4>1. LiveOf(g, document') = LiveOf(g, document) BY <2>8, <3>3
      <4>2. ~RotatesIn(g, document, calling[q]) BY <2>3, <2>4, <3>3 DEF RotatesIn
      <4> QED BY <2>9, <2>11, <3>1, <4>1, <4>2 DEF OneAlive
    <3> QED BY <3>2, <3>3
  <2>14. ASSUME NEW g \in log.killed PROVE Dead(g, document', calling')
    <3>1. Dead(g, document, calling) /\ g \in Sessions BY <1>1 DEF SessionsInv
    <3>2. g # f BY <2>12, <3>1 DEF Dead
    <3> QED BY <2>8, <2>11, <3>1, <3>2 DEF Dead
  <2>15. \A s \in Sessions : document'[s].state # "none" =>
            document'[s].family \in Sessions /\ document'[document'[s].family].state # "none"
    BY <1>1, <2>7, <2>8
  <2> QED BY <1>1, <2>6, <2>8, <2>9, <2>10, <2>13, <2>14, <2>15 DEF SessionsInv
<1> QED BY <1>2, <1>3

LEMMA RotationStarts ==
  ASSUME SessionsInv, NEW q \in Requests, NEW o \in Sessions, D!LoadToRotate(q, o)
  PROVE  SessionsInv'
<1>1. /\ document \in [Sessions -> SessionRow] /\ DOMAIN calling = Requests
      /\ log \in [raced : SUBSET Sessions, killed : SUBSET Sessions]
      /\ \A p \in Requests : Rotation(calling[p], document)
      /\ \A s \in Sessions : document[s].state # "none" =>
            document[s].family \in Sessions /\ document[document[s].family].state # "none"
  BY DEF SessionsInv
<1>2. PICK f : f = document[o].family OBVIOUS
<1>3. PICK k : k = [op |-> "rotate", pc |-> "loaded", seen |-> o, on |-> None] OBVIOUS
<1>4. /\ document[o].state = "live" /\ calling[q] = D!Idle /\ document' = document
      /\ calling' = [calling EXCEPT ![q] = k]
      /\ log' = [log EXCEPT !.raced = IF D!Rotations(f) = {} THEN @ ELSE @ \cup {f}]
  BY <1>2, <1>3 DEF D!LoadToRotate, D!Rotatable, D!Begin, D!Call
<1>5. f \in Sessions /\ document[f].state # "none" BY <1>1, <1>2, <1>4
<1>6. /\ log' \in [raced : SUBSET Sessions, killed : SUBSET Sessions] /\ log'.killed = log.killed
      /\ log.raced \subseteq log'.raced /\ (f \notin log'.raced => D!Rotations(f) = {})
  BY <1>1, <1>4, <1>5
<1>7. /\ calling'[q] = k /\ \A p \in Requests \ {q} : calling'[p] = calling[p]
      /\ DOMAIN calling' = Requests
      /\ k.op = "rotate" /\ k.pc = "loaded" /\ k.seen = o
  BY <1>1, <1>3, <1>4
<1>8. \A p \in Requests : Rotation(calling'[p], document') BY <1>1, <1>4, <1>7 DEF Rotation
<1>9. D!Idle.op = "none" BY DEF D!Idle
<1>10. ASSUME NEW g \in Sessions \ log'.raced PROVE OneAlive(g, document', calling')
  <2>1. OneAlive(g, document, calling) BY <1>6 DEF SessionsInv
  <2>2. CASE g = f
    <3>1. \A p \in Requests : ~RotatesIn(g, document, calling[p])
      BY <1>6, <2>2 DEF D!Rotations, RotatesIn
    <3>2. o \in LiveOf(g, document) BY <1>2, <1>4, <2>2 DEF LiveOf
    <3>3. \A s \in LiveOf(g, document) : s = o BY <2>1, <3>1, <3>2 DEF OneAlive
    <3>4. \A p \in Requests \ {q} : ~RotatesIn(g, document', calling'[p]) BY <1>4, <1>7, <3>1
    <3>5. RotatesIn(g, document', calling'[q]) BY <1>2, <1>4, <1>7, <2>2 DEF RotatesIn
    <3> QED BY <1>4, <1>7, <3>3, <3>4, <3>5 DEF OneAlive
  <2>3. CASE g # f
    <3>1. ~RotatesIn(g, document', calling'[q]) BY <1>2, <1>4, <1>7, <2>3 DEF RotatesIn
    <3>2. ~RotatesIn(g, document, calling[q]) BY <1>4, <1>9 DEF RotatesIn
    <3> QED BY <1>4, <1>7, <2>1, <3>1, <3>2 DEF OneAlive
  <2> QED BY <2>2, <2>3
<1>11. ASSUME NEW g \in log'.killed PROVE Dead(g, document', calling')
  <2>1. Dead(g, document, calling) /\ g \in Sessions BY <1>1, <1>6 DEF SessionsInv
  <2>2. g # f BY <1>2, <1>4, <2>1 DEF Dead, LiveOf
  <2>3. ~RotatesIn(g, document', calling'[q]) BY <1>2, <1>4, <1>7, <2>2 DEF RotatesIn
  <2> QED BY <1>4, <1>7, <2>1, <2>3 DEF Dead
<1> QED BY <1>1, <1>4, <1>6, <1>7, <1>8, <1>10, <1>11 DEF SessionsInv

LEMMA RotationEnds == ASSUME SessionsInv, NEW q \in Requests, D!RevokeRotated(q) PROVE SessionsInv'
<1>1. /\ document \in [Sessions -> SessionRow] /\ DOMAIN calling = Requests
      /\ log \in [raced : SUBSET Sessions, killed : SUBSET Sessions]
      /\ \A p \in Requests : Rotation(calling[p], document)
      /\ \A s \in Sessions : document[s].state # "none" =>
            document[s].family \in Sessions /\ document[document[s].family].state # "none"
  BY DEF SessionsInv
<1>2. PICK o : o = calling[q].seen OBVIOUS
<1>3. /\ calling[q].op = "rotate" /\ calling[q].pc = "created" /\ log' = log
      /\ calling' = [calling EXCEPT ![q] = D!Idle]
      /\ document' = IF document[o].state = "gone" THEN document
              ELSE [document EXCEPT ![o] = [state |-> "revoked", family |-> @.family,
                                            replaced |-> TRUE, expired |-> @.expired]]
  BY <1>2 DEF D!RevokeRotated, D!At, D!Leave
<1>4. o \in Sessions /\ document[o].state # "none" BY <1>1, <1>2, <1>3 DEF Rotation
<1>5. /\ document' \in [Sessions -> SessionRow]
      /\ \A s \in Sessions \ {o} : document'[s] = document[s]
      /\ document'[o].family = document[o].family /\ document'[o].state \in {"revoked", "gone"}
  BY <1>1, <1>3, <1>4 DEF SessionRow
<1>6. /\ calling'[q] = D!Idle /\ \A p \in Requests \ {q} : calling'[p] = calling[p]
      /\ DOMAIN calling' = Requests /\ D!Idle.op = "none"
  BY <1>1, <1>3 DEF D!Idle
<1>7. \A p \in Requests : Rotation(calling'[p], document')
  BY <1>1, <1>5, <1>6 DEF Rotation
<1>8. \A g \in Sessions : LiveOf(g, document') = LiveOf(g, document) \ {o}
  BY <1>4, <1>5 DEF LiveOf
<1>9. \A g \in Sessions : /\ ~RotatesIn(g, document', calling'[q])
        /\ \A p \in Requests \ {q} :
              RotatesIn(g, document', calling'[p]) <=> RotatesIn(g, document, calling[p])
  BY <1>1, <1>5, <1>6, <1>7 DEF RotatesIn, Rotation
<1>10. ASSUME NEW g \in Sessions \ log.raced PROVE OneAlive(g, document', calling')
  <2>1. OneAlive(g, document, calling) BY DEF SessionsInv
  <2>2. CASE RotatesIn(g, document, calling[q])
    <3>1. \A p \in Requests : ~RotatesIn(g, document', calling'[p])
      BY <1>9, <2>1, <2>2 DEF OneAlive
    <3>2. \A s \in LiveOf(g, document) : s = o \/ s = calling[q].on
      BY <1>2, <2>1, <2>2 DEF OneAlive
    <3>3. \A s \in LiveOf(g, document') : s = calling[q].on BY <1>8, <3>2
    <3> QED BY <3>1, <3>3 DEF OneAlive
  <2>3. CASE ~RotatesIn(g, document, calling[q])
    <3>1. g # document[o].family BY <1>2, <1>3, <2>3 DEF RotatesIn
    <3>2. LiveOf(g, document') = LiveOf(g, document) BY <1>5, <3>1 DEF LiveOf
    <3> QED BY <1>6, <1>9, <2>1, <2>3, <3>2 DEF OneAlive
  <2> QED BY <2>2, <2>3
<1>11. ASSUME NEW g \in log.killed PROVE Dead(g, document', calling')
  <2>1. Dead(g, document, calling) /\ g \in Sessions BY <1>1 DEF SessionsInv
  <2>2. document'[g].state # "none" BY <1>5, <2>1 DEF Dead
  <2> QED BY <1>8, <1>9, <2>1, <2>2 DEF Dead
<1>12. \A s \in Sessions : document'[s].state # "none" =>
          document'[s].family \in Sessions /\ document'[document'[s].family].state # "none"
  BY <1>1, <1>4, <1>5
<1> QED BY <1>1, <1>3, <1>5, <1>6, <1>7, <1>10, <1>11, <1>12 DEF SessionsInv

LEMMA SessionsSteps == ASSUME SessionsInv, D!SessionCalls PROVE SessionsInv'
<1>1. /\ document \in [Sessions -> SessionRow] /\ DOMAIN calling = Requests
      /\ log \in [raced : SUBSET Sessions, killed : SUBSET Sessions]
  BY DEF SessionsInv
<1>2. ASSUME NEW q \in Requests, D!Touch(q) \/ \E s \in Sessions : D!Validate(q, s)
      PROVE  SessionsInv'
  <2>1. PICK k : calling' = [calling EXCEPT ![q] = k] /\ k.op # "rotate"
    <3>1. CASE D!Touch(q)
      <4>1. calling' = [calling EXCEPT ![q] = D!Idle] BY <3>1 DEF D!Touch, D!Leave
      <4>2. D!Idle.op # "rotate" BY DEF D!Idle
      <4> QED BY <4>1, <4>2, Zenon
    <3>2. CASE \E s \in Sessions : D!Validate(q, s)
      <4>1. PICK s \in Sessions : D!Validate(q, s) BY <3>2
      <4>2. PICK k : k = [op |-> "validate", pc |-> "loaded", seen |-> s, on |-> None] OBVIOUS
      <4>3. calling' = [calling EXCEPT ![q] = k] BY <4>1, <4>2 DEF D!Validate, D!Begin
      <4>4. k.op # "rotate" BY <4>2
      <4> QED BY <4>3, <4>4, Zenon
    <3> QED BY <1>2, <3>1, <3>2
  <2>2. calling[q].op # "rotate" /\ UNCHANGED <<document, log>>
    BY <1>2 DEF D!Touch, D!Validate, D!At, D!Begin, D!Idle
  <2>3. SameRotations(calling, calling') BY <1>1, <2>1, <2>2 DEF SameRotations
  <2>4. Fades(document, document') BY <1>1, <2>2 DEF Fades
  <2> QED BY <1>1, <2>2, <2>3, <2>4, FadesKeeps
<1> QED BY <1>2, SessionsFade, SessionsMade, RotationStarts, RotationEnds DEF D!SessionCalls

LEMMA RecordInit == D!Init => RecordInv
<1> SUFFICES ASSUME D!Init PROVE RecordInv OBVIOUS
<1>1. calling = [q \in Requests |-> D!Idle] BY DEF D!Init
<1>2. DOMAIN calling = Requests /\ \A q \in Requests : calling[q] = D!Idle BY <1>1
<1>3. D!Idle.op = "none" /\ D!Idle.pc = "idle" BY DEF D!Idle
<1>4. subject = "balance" => BalanceInv BY DEF D!Init, BalanceInv
<1>5. subject = "sessions" => SessionsInv
  <2> SUFFICES ASSUME subject = "sessions" PROVE SessionsInv OBVIOUS
  <2>1. /\ log = [raced |-> {}, killed |-> {}]
        /\ document = [s \in Sessions |-> [state |-> "none", family |-> None,
                                           replaced |-> FALSE, expired |-> FALSE]]
    BY DEF D!Init
  <2>2. /\ log \in [raced : SUBSET Sessions, killed : SUBSET Sessions] /\ log.killed = {}
        /\ document \in [Sessions -> SessionRow] /\ \A s \in Sessions : document[s].state = "none"
    BY <2>1 DEF SessionRow
  <2> QED BY <1>2, <1>3, <2>2 DEF SessionsInv, OneAlive, RotatesIn, Rotation, LiveOf
<1>6. subject = "lock" => LockInv 
  <2> SUFFICES ASSUME subject = "lock" PROVE LockInv OBVIOUS
  <2>1. document = [attempts |-> 0, locked |-> FALSE] /\ log = [fails |-> 0, mixed |-> FALSE]
    BY DEF D!Init
  <2>2. /\ document \in [attempts : Nat, locked : BOOLEAN] /\ log \in [fails : Nat, mixed : BOOLEAN]
        /\ ~document.locked /\ document.attempts = 0 /\ log.fails = 0 /\ ~(0 >= Threshold)
    BY <2>1, RecordsAssumption
  <2> QED BY <1>2, <2>2 DEF LockInv
<1>7. subject = "edge" => EdgeInv 
  <2> SUFFICES ASSUME subject = "edge" PROVE EdgeInv OBVIOUS
  <2>1. document = [following |-> FALSE, follower |-> FALSE] /\ log = [mixed |-> FALSE]
    BY DEF D!Init
  <2>2. /\ document \in [following : BOOLEAN, follower : BOOLEAN] /\ log \in [mixed : BOOLEAN]
        /\ document.following = document.follower
    BY <2>1
  <2> QED BY <1>2, <1>3, <2>2 DEF EdgeInv
<1>8. subject = "reel" => ReelDocInv BY DEF D!Init, ReelDocInv, D!OneReaction
<1>9. subject = "notes" => NotesInv
  <2> SUFFICES ASSUME subject = "notes" PROVE NotesInv OBVIOUS
  <2>1. /\ log = [marked |-> {}]
        /\ document = [n \in Notes |-> [to |-> None, read |-> FALSE, hidden |-> FALSE]]
    BY DEF D!Init
  <2>2. /\ log \in [marked : SUBSET Notes] /\ \A n \in Notes : ~document[n].read
        /\ document \in [Notes -> [to : Users \cup {None}, read : BOOLEAN, hidden : BOOLEAN]]
    BY <2>1
  <2> QED BY <2>2 DEF NotesInv, D!ReadIsMarked
<1> QED BY <1>4, <1>5, <1>6, <1>7, <1>8, <1>9 DEF RecordInv

LEMMA RecordSteps == ASSUME RecordInv, D!Next PROVE RecordInv'
<1>1. subject' = subject
  BY DEF D!Next, D!Balance, D!CreditOwedBalance, D!DeductOwedBalance, D!SettleOwedToSettled,
         D!SessionCalls, D!CreateSession, D!Revoke, D!RevokeFamily, D!Expire, D!RevokeAllByUser,
         D!DeleteSessions, D!RevokeRotated, D!Touch, D!LoadToRotate, D!CreateRotated, D!Validate,
         D!Lock, D!ClearLock, D!LoadAttempts, D!SaveAttempts, D!Edge, D!UpdateFollower,
         D!UpdateTarget, D!Follows, D!Reactions, D!AddLike, D!RemoveLike, D!AddLove, D!RemoveLove,
         D!Notifications, D!MarkAsRead, D!Send, D!MarkNotificationAsRead, D!DeleteNotification,
         D!SoftDeleteOlderThan, D!MarkManyAsRead, D!Single, D!Call, D!Begin, D!At
<1>2. \/ subject = "balance" /\ D!Balance
      \/ subject = "sessions" /\ D!SessionCalls
      \/ subject = "lock" /\ D!Lock
      \/ subject = "edge" /\ D!Edge
      \/ subject = "reel" /\ D!Reactions
      \/ subject = "notes" /\ D!Notifications
  BY DEF D!Next
<1> QED BY <1>1, <1>2, BalanceSteps, SessionsSteps, LockSteps, EdgeSteps, ReelDocSteps, NotesSteps
        DEF RecordInv

LEMMA AtMostOne == ASSUME NEW A, \A x, y \in A : x = y PROVE Cardinality(A) <= 1
<1>1. CASE A = {} BY <1>1, FS_EmptySet
<1>2. CASE A # {}
  <2>1. PICK x \in A : TRUE BY <1>2
  <2>2. A = {x} BY <2>1
  <2> QED BY <2>2, FS_Singleton
<1> QED BY <1>1, <1>2

LEMMA RecordsAreKept == RecordInv => D!RecordsKept
<1> SUFFICES ASSUME RecordInv PROVE D!RecordsKept OBVIOUS
<1>1. subject = "balance" => D!BalanceKept BY DEF RecordInv, BalanceInv, D!BalanceKept
<1>2. subject = "sessions" => D!FamiliesKept
  <2> SUFFICES ASSUME SessionsInv, NEW f \in Sessions
               PROVE  LET live == {s \in Sessions : document[s].family = f /\ document[s].state = "live"}
                      IN  /\ D!Rotations(f) = {} /\ f \notin log.raced => D!Cardinality(live) <= 1
                          /\ f \in log.killed => live = {}
    BY DEF RecordInv, D!FamiliesKept
  <2>1. {s \in Sessions : document[s].family = f /\ document[s].state = "live"} = LiveOf(f, document)
    BY DEF LiveOf
  <2>2. D!Cardinality(LiveOf(f, document)) = Cardinality(LiveOf(f, document))
    BY DEF D!Cardinality, Cardinality
  <2>3. ASSUME D!Rotations(f) = {}, f \notin log.raced PROVE Cardinality(LiveOf(f, document)) <= 1
    <3>1. OneAlive(f, document, calling) BY <2>3 DEF SessionsInv
    <3>2. \A q \in Requests : ~RotatesIn(f, document, calling[q])
      BY <2>3 DEF D!Rotations, RotatesIn
    <3>3. \A s, t \in LiveOf(f, document) : s = t BY <3>1, <3>2 DEF OneAlive
    <3> QED BY <3>3, AtMostOne
  <2>4. f \in log.killed => LiveOf(f, document) = {} BY DEF SessionsInv, Dead
  <2> QED BY <2>1, <2>2, <2>3, <2>4
<1>3. subject = "lock" => D!LockEarned BY DEF RecordInv, LockInv, D!LockEarned, D!Resting
<1>4. subject = "edge" => D!EdgeAgrees BY DEF RecordInv, EdgeInv, D!EdgeAgrees, D!Resting
<1>5. subject = "reel" => D!OneReaction BY DEF RecordInv, ReelDocInv
<1>6. subject = "notes" => D!ReadIsMarked BY DEF RecordInv, NotesInv
<1> QED BY <1>1, <1>2, <1>3, <1>4, <1>5, <1>6 DEF D!RecordsKept

-----------------------------------------------------------------------------
(***************************************************************************)
(* Proof, for any number of requests and whatever they are about, that what *)
(* users keep about one another is what they asked for.  Most of it holds   *)
(* as long as a request was alone: then what it has read is still there.    *)
(***************************************************************************)
Busy(q) == request[q] # C!Idle
Alone == \A q, p \in Requests : Busy(q) /\ Busy(p) => q = p

FollowInv ==
    /\ data \in [following : Nat, followers : Nat, told : Nat] /\ history \in [mixed : BOOLEAN]
    /\ DOMAIN request = Requests
    /\ \A q \in Requests : Busy(q) => /\ request[q].op \in {"follow", "unfollow"}
                                      /\ request[q].at \in {"read", "second"}
    /\ ~history.mixed =>
         /\ Alone /\ data.following <= 1 /\ data.followers <= 1 /\ data.told <= 1
         /\ (\A q \in Requests : ~Busy(q)) => data.following = data.followers
         /\ \A q \in Requests : Busy(q) =>
              /\ request[q].at = "read" =>
                   /\ data.following = data.followers
                   /\ request[q].op = "follow" => data.following = 0
              /\ request[q].at = "second" =>
                   /\ data.following = IF request[q].op = "follow" THEN 1 ELSE 0
                   /\ request[q].op = "follow" => data.followers = 0

\* A list that has the version a request has read has the entries it has read.
EntriesInv ==
    /\ data \in [entries : Nat, version : Nat] /\ history \in [mixed : BOOLEAN, net : Nat]
    /\ DOMAIN request = Requests
    /\ \A q \in Requests : Busy(q) =>
         /\ request[q].read \in [entries : Nat, version : Nat]
         /\ request[q].read.version <= data.version
         /\ request[q].read.version = data.version => request[q].read.entries = data.entries
    /\ data.entries = history.net

Votes == [People -> Options \cup {None}]

\* A vote under way when the poll is closed is remembered as pending.
PollInv ==
    /\ data \in [active : BOOLEAN, votes : Votes]
    /\ history \in [mixed : BOOLEAN, final : Votes \cup {None},
                    pending : SUBSET (People \X (Options \cup {None}))]
    /\ DOMAIN request = Requests
    /\ \A q \in Requests : request[q].op = "vote" =>
         /\ request[q].by \in People /\ request[q].read \in Options
         /\ ~data.active => <<request[q].by, request[q].read>> \in history.pending
    /\ data.active => history.final = None
    /\ C!PollFinal

WalletInv ==
    /\ data \in [People -> Keys \cup {None}] /\ history \in [mixed : BOOLEAN]
    /\ DOMAIN request = Requests
    /\ \A q \in Requests : Busy(q) => request[q].by \in People /\ request[q].read \in Keys
    /\ ~history.mixed =>
         /\ Alone /\ \A p, r \in People : p # r /\ data[p] # None => data[p] # data[r]
         /\ \A q \in Requests : Busy(q) =>
              \A r \in People \ {request[q].by} : data[r] # request[q].read

\* While nobody else is at it, a highlight is deleted and then its owner's notes.
NotingInv ==
    /\ data \in [highlight : {"there", "deleted"}, notes : SUBSET People, owner : People]
    /\ history \in [mixed : BOOLEAN] /\ DOMAIN request = Requests
    /\ \A q \in Requests : Busy(q) => /\ request[q].op \in {"note", "delete"}
                                      /\ request[q].op = "note" => request[q].by \in People
    /\ data.highlight = "deleted" /\ ~history.mixed =>
         /\ Alone /\ \A q \in Requests : Busy(q) => request[q].op = "delete"
         /\ (\A q \in Requests : ~Busy(q)) => data.owner \notin data.notes

Standings == [active : BOOLEAN, lock : {"until", "forever", "none"}]
Decisions == {"suspend", "ban", "unban"}

StandingInv ==
    /\ data \in Standings /\ history \in [mixed : BOOLEAN, last : Decisions]
    /\ DOMAIN request = Requests
    /\ \A q \in Requests : Busy(q) => request[q].op \in Decisions /\ request[q].read \in Standings
    /\ ~history.mixed => /\ Alone /\ data = C!Standing(history.last)
                         /\ \A q \in Requests : Busy(q) => request[q].read = data

ReadingInv ==
    /\ data \in [percentage : Nat, version : Nat, completed : BOOLEAN] /\ requests \in Nat
    /\ history \in [mixed : BOOLEAN, reached : BOOLEAN] /\ C!ReadingTrue

\* What is above a category x in the tree d, and that nothing is above itself.
Above(d, x) == IF x \in Categories THEN d[x] ELSE None
NoLoop(d) == \A c \in Categories :
    c \notin {Above(d, c), Above(d, Above(d, c)), Above(d, Above(d, Above(d, c)))}
Top(d, c, x) == x = None \/ (x \in Categories /\ x # c /\ d[x] \notin Categories)

CategoryInv ==
    /\ data \in [Categories -> Categories \cup {None, "absent", "gone"}]
    /\ history \in [mixed : BOOLEAN] /\ DOMAIN request = Requests
    /\ \A q \in Requests : Busy(q) =>
         request[q].by \in Categories /\ request[q].read \in Categories \cup {None}
    /\ ~history.mixed =>
         /\ Alone /\ NoLoop(data)
         /\ \A q \in Requests : Busy(q) => Top(data, request[q].by, request[q].read)

CommunityInv ==
    /\ topic = "follow" => FollowInv
    /\ topic \in {"bookmark", "waiting"} => EntriesInv
    /\ topic = "poll" => PollInv
    /\ topic = "wallet" => WalletInv
    /\ topic = "notes" => NotingInv
    /\ topic = "standing" => StandingInv
    /\ topic = "reading" => ReadingInv
    /\ topic = "categories" => CategoryInv

\* A request that comes in holds what it was given, and is mixed or alone.
LEMMA Enters ==
  ASSUME NEW q \in Requests, NEW t, NEW op, NEW by, NEW read, C!Enter(q, t, op, by, read),
         DOMAIN request = Requests, history.mixed \in BOOLEAN
  PROVE  /\ data' = data /\ ~Busy(q) /\ DOMAIN request' = Requests
         /\ request'[q].op = op /\ request'[q].at = "read"
         /\ request'[q].by = by /\ request'[q].read = read /\ Busy(q)'
         /\ \A p \in Requests \ {q} : request'[p] = request[p]
         /\ \E m \in BOOLEAN : /\ history' = [history EXCEPT !.mixed = m]
                               /\ history.mixed => m
                               /\ ~m => \A p \in Requests : ~Busy(p)
<1>1. PICK k : k = [op |-> op, at |-> "read", by |-> by, read |-> read] OBVIOUS
<1>2. /\ data' = data /\ request[q] = C!Idle /\ request' = [request EXCEPT ![q] = k]
      /\ history' = [history EXCEPT !.mixed = @ \/ C!Running # {}]
  BY <1>1 DEF C!Enter
<1>3. request'[q] = k /\ DOMAIN request' = Requests
      /\ \A p \in Requests \ {q} : request'[p] = request[p]
  BY <1>2
<1>4. k.at # C!Idle.at BY <1>1 DEF C!Idle
<1>5. PICK m \in BOOLEAN : m = (history.mixed \/ C!Running # {}) OBVIOUS
<1>6. history' = [history EXCEPT !.mixed = m] BY <1>2, <1>5
<1>7. ~m => \A p \in Requests : ~Busy(p) BY <1>5 DEF C!Running, Busy
<1>8. history.mixed => m BY <1>5
<1>9. k.op = op /\ k.at = "read" /\ k.by = by /\ k.read = read BY <1>1
<1>10. \E n \in BOOLEAN : /\ history' = [history EXCEPT !.mixed = n]
                          /\ history.mixed => n
                          /\ ~n => \A p \in Requests : ~Busy(p)
  BY <1>6, <1>7, <1>8, Zenon
<1> QED BY <1>2, <1>3, <1>4, <1>9, <1>10 DEF Busy

\* One that is done leaves its slot to another.
LEMMA Leaves ==
  ASSUME NEW q \in Requests, C!Done(q), DOMAIN request = Requests
  PROVE  /\ DOMAIN request' = Requests /\ request'[q] = C!Idle /\ ~Busy(q)'
         /\ \A p \in Requests \ {q} : request'[p] = request[p]
         /\ \A p \in Requests : Busy(p)' => p # q /\ Busy(p) /\ request'[p] = request[p]
         /\ Alone => Alone'
<1>1. request' = [request EXCEPT ![q] = C!Idle] BY DEF C!Done
<1>2. DOMAIN request' = Requests /\ request'[q] = C!Idle
      /\ \A p \in Requests \ {q} : request'[p] = request[p]
  BY <1>1
<1> QED BY <1>2 DEF Busy, Alone

LEMMA IdleIs == C!Idle.op = "none" /\ C!Idle.at = "idle"
BY DEF C!Idle

LEMMA FollowSteps == ASSUME FollowInv, C!Following PROVE FollowInv'
<1>1. /\ data \in [following : Nat, followers : Nat, told : Nat] /\ history \in [mixed : BOOLEAN]
      /\ DOMAIN request = Requests
      /\ \A q \in Requests : Busy(q) => /\ request[q].op \in {"follow", "unfollow"}
                                        /\ request[q].at \in {"read", "second"}
  BY DEF FollowInv
<1>2. ~history.mixed =>
         /\ Alone /\ data.following <= 1 /\ data.followers <= 1 /\ data.told <= 1
         /\ (\A q \in Requests : ~Busy(q)) => data.following = data.followers
         /\ \A q \in Requests : Busy(q) =>
              /\ request[q].at = "read" =>
                   /\ data.following = data.followers
                   /\ request[q].op = "follow" => data.following = 0
              /\ request[q].at = "second" =>
                   /\ data.following = IF request[q].op = "follow" THEN 1 ELSE 0
                   /\ request[q].op = "follow" => data.followers = 0
  BY DEF FollowInv
<1>3. CASE C!Announce
  <2>1. data' = [data EXCEPT !.told = data.followers] /\ UNCHANGED <<request, history>>
    BY <1>3 DEF C!Announce
  <2>2. /\ data' \in [following : Nat, followers : Nat, told : Nat]
        /\ data'.following = data.following /\ data'.followers = data.followers
        /\ data'.told = data.followers
    BY <1>1, <2>1
  <2> QED BY <1>1, <1>2, <2>1, <2>2 DEF FollowInv, Busy, Alone
<1>4. ASSUME NEW q \in Requests, C!Follow(q) \/ C!Unfollow(q) PROVE FollowInv'
  <2>1. PICK o \in {"follow", "unfollow"} :
           C!Enter(q, "follow", o, None, None) /\ (o = "follow" => data.following = 0)
    BY <1>4 DEF C!Follow, C!Unfollow
  <2>2. /\ data' = data /\ ~Busy(q) /\ DOMAIN request' = Requests
        /\ request'[q].op = o /\ request'[q].at = "read" /\ Busy(q)'
        /\ \A p \in Requests \ {q} : request'[p] = request[p]
    BY <1>1, <2>1, Enters
  <2>3. PICK m \in BOOLEAN : /\ history' = [history EXCEPT !.mixed = m]
                             /\ history.mixed => m
                             /\ ~m => \A p \in Requests : ~Busy(p)
    BY <1>1, <2>1, Enters
  <2>4. history' \in [mixed : BOOLEAN] /\ history'.mixed = m BY <1>1, <2>3
  <2>5. \A p \in Requests : Busy(p)' => /\ request'[p].op \in {"follow", "unfollow"}
                                        /\ request'[p].at \in {"read", "second"}
    BY <1>1, <2>2 DEF Busy
  <2>6. ~m => \A p \in Requests : Busy(p)' => p = q BY <2>2, <2>3 DEF Busy
  <2>7. ~m => Alone' BY <2>6 DEF Alone
  <2>8. ~m => data.following = data.followers /\ ~history.mixed BY <1>2, <2>3
  <2> QED BY <1>1, <1>2, <2>1, <2>2, <2>4, <2>5, <2>6, <2>7, <2>8 DEF FollowInv
<1>5. ASSUME NEW q \in Requests, C!WriteFollowing(q) PROVE FollowInv'
  <2>1. PICK o \in {"follow", "unfollow"} :
           /\ request[q].op = o /\ request[q].at = "read" /\ UNCHANGED history
           /\ data' = [data EXCEPT !.following = IF o = "follow" THEN @ + 1 ELSE 0]
           /\ C!Goto(q, "second")
    BY <1>5 DEF C!WriteFollowing, C!At, C!Listed
  <2>2. PICK k : k = [op |-> o, at |-> "second", by |-> request[q].by, read |-> request[q].read] OBVIOUS
  <2>3. request' = [request EXCEPT ![q] = k] BY <2>1, <2>2 DEF C!Goto
  <2>4. /\ DOMAIN request' = Requests /\ request'[q] = k /\ k.op = o /\ k.at = "second"
        /\ \A p \in Requests \ {q} : request'[p] = request[p]
    BY <1>1, <2>2, <2>3
  <2>5. Busy(q) BY <2>1, IdleIs DEF Busy
  <2>6. \A p \in Requests : Busy(p)' => Busy(p) BY <2>4, <2>5 DEF Busy
  <2>7. Busy(q)' BY <2>4, IdleIs DEF Busy
  <2>8. /\ data' \in [following : Nat, followers : Nat, told : Nat]
        /\ data'.following = IF o = "follow" THEN data.following + 1 ELSE 0
        /\ data'.followers = data.followers /\ data'.told = data.told
    BY <1>1, <2>1
  <2>9. \A p \in Requests : Busy(p)' => /\ request'[p].op \in {"follow", "unfollow"}
                                        /\ request'[p].at \in {"read", "second"}
    BY <1>1, <2>4, <2>6
  <2>10. ASSUME ~history.mixed
         PROVE  /\ \A p \in Requests : Busy(p)' => p = q
                /\ data.following = data.followers /\ (o = "follow" => data.following = 0)
    BY <1>2, <2>1, <2>5, <2>6, <2>10 DEF Alone
  <2>11. ~history.mixed => Alone' BY <2>10 DEF Alone
  <2> QED BY <1>1, <1>2, <2>1, <2>4, <2>7, <2>8, <2>9, <2>10, <2>11 DEF FollowInv
<1>6. ASSUME NEW q \in Requests, C!WriteFollowers(q) PROVE FollowInv'
  <2>1. PICK o \in {"follow", "unfollow"} :
           /\ request[q].op = o /\ request[q].at = "second" /\ UNCHANGED history
           /\ data' = [data EXCEPT !.followers = IF o = "follow" THEN @ + 1 ELSE 0]
           /\ C!Done(q)
    BY <1>6 DEF C!WriteFollowers, C!At, C!Listed
  <2>2. /\ DOMAIN request' = Requests
        /\ \A p \in Requests : Busy(p)' => p # q /\ Busy(p) /\ request'[p] = request[p]
        /\ Alone => Alone'
    BY <1>1, <2>1, Leaves
  <2>3. Busy(q) BY <2>1, IdleIs DEF Busy
  <2>4. /\ data' \in [following : Nat, followers : Nat, told : Nat]
        /\ data'.followers = IF o = "follow" THEN data.followers + 1 ELSE 0
        /\ data'.following = data.following /\ data'.told = data.told
    BY <1>1, <2>1
  <2>5. \A p \in Requests : Busy(p)' => /\ request'[p].op \in {"follow", "unfollow"}
                                        /\ request'[p].at \in {"read", "second"}
    BY <1>1, <2>2
  <2>6. ASSUME ~history.mixed
        PROVE  /\ \A p \in Requests : ~Busy(p)'
               /\ data.following = (IF o = "follow" THEN 1 ELSE 0)
               /\ o = "follow" => data.followers = 0
    BY <1>2, <2>1, <2>2, <2>3, <2>6 DEF Alone
  <2> QED BY <1>1, <1>2, <2>1, <2>2, <2>4, <2>5, <2>6 DEF FollowInv
<1> QED BY <1>3, <1>4, <1>5, <1>6 DEF C!Following

LEMMA EntriesSteps ==
  ASSUME EntriesInv, C!Bookmarking \/ \E q \in Requests : C!JoinWaitList(q) \/ C!Push(q)
  PROVE  EntriesInv'
<1> DEFINE List == [entries : Nat, version : Nat]
<1>1. /\ data \in List /\ history \in [mixed : BOOLEAN, net : Nat]
      /\ DOMAIN request = Requests /\ data.entries = history.net
      /\ \A q \in Requests : Busy(q) =>
           /\ request[q].read \in List
           /\ request[q].read.version <= data.version
           /\ request[q].read.version = data.version => request[q].read.entries = data.entries
  BY DEF EntriesInv
<1>2. ASSUME NEW q \in Requests, NEW t, NEW op, C!Enter(q, t, op, None, data) PROVE EntriesInv'
  <2>1. PICK d \in List : d = data BY <1>1
  <2>2. C!Enter(q, t, op, None, d) BY <1>2, <2>1
  <2>3. /\ data' = data /\ DOMAIN request' = Requests /\ request'[q].read = d
        /\ \A p \in Requests \ {q} : request'[p] = request[p]
    BY <1>1, <2>2, Enters
  <2>4. \E m \in BOOLEAN : history' = [history EXCEPT !.mixed = m] BY <1>1, <2>2, Enters
  <2>5. history' \in [mixed : BOOLEAN, net : Nat] /\ history'.net = history.net BY <1>1, <2>4
  <2>6. \A p \in Requests : Busy(p)' =>
           /\ request'[p].read \in List
           /\ request'[p].read.version <= data.version
           /\ request'[p].read.version = data.version => request'[p].read.entries = data.entries
    BY <1>1, <2>1, <2>3 DEF Busy
  <2> QED BY <1>1, <2>3, <2>5, <2>6 DEF EntriesInv
\* A write makes a new version, so nobody's reading is of it.
<1>3. ASSUME NEW q \in Requests, NEW n \in Nat, C!Done(q),
             data' = [entries |-> n, version |-> data.version + 1],
             history' = [history EXCEPT !.net = n]
      PROVE  EntriesInv'
  <2>1. /\ DOMAIN request' = Requests
        /\ \A p \in Requests : Busy(p)' => Busy(p) /\ request'[p] = request[p]
    BY <1>1, <1>3, Leaves
  <2>2. data' \in List /\ data'.entries = n /\ data'.version = data.version + 1 BY <1>1, <1>3
  <2>3. history' \in [mixed : BOOLEAN, net : Nat] /\ history'.net = n BY <1>1, <1>3
  <2>4. \A p \in Requests : Busy(p)' =>
           /\ request'[p].read \in List
           /\ request'[p].read.version <= data'.version
           /\ request'[p].read.version # data'.version
    BY <1>1, <2>1, <2>2
  <2> QED BY <2>1, <2>2, <2>3, <2>4 DEF EntriesInv
<1>4. ASSUME NEW q \in Requests, C!Push(q) PROVE EntriesInv'
  <2>1. PICK n \in Nat : n = data.entries + 1 BY <1>1
  <2>2. history' = [history EXCEPT !.net = n] BY <1>1, <1>4, <2>1 DEF C!Push
  <2>3. data' = [entries |-> n, version |-> data.version + 1] /\ C!Done(q)
    BY <1>4, <2>1 DEF C!Push
  <2> QED BY <1>3, <2>2, <2>3
<1>5. ASSUME NEW q \in Requests, C!Replace(q) PROVE EntriesInv'
  <2>1. Busy(q) /\ C!Done(q) BY <1>5, IdleIs DEF C!Replace, C!At, Busy
  <2>2. PICK d \in List : d = request[q].read BY <1>1, <2>1
  <2>3. PICK n \in Int : n = IF request[q].op = "toggle" THEN d.entries - 1 ELSE 0 OBVIOUS
  <2>4. \/ UNCHANGED <<data, history>>
        \/ /\ d.entries # 0 /\ data.version = d.version
           /\ data' = [entries |-> n, version |-> data.version + 1]
           /\ history' = [history EXCEPT !.net = @ - (d.entries - n)]
    BY <1>5, <2>2, <2>3 DEF C!Replace, C!Current
  <2>5. CASE UNCHANGED <<data, history>>
    <3>1. /\ DOMAIN request' = Requests
          /\ \A p \in Requests : Busy(p)' => Busy(p) /\ request'[p] = request[p]
      BY <1>1, <2>1, Leaves
    <3> QED BY <1>1, <2>5, <3>1 DEF EntriesInv
  <2>6. CASE ~UNCHANGED <<data, history>>
    <3>1. d.entries = history.net /\ n \in Nat BY <1>1, <2>1, <2>2, <2>3, <2>4, <2>6
    <3>2. history.net - (d.entries - n) = n BY <1>1, <3>1
    <3>3. history' = [history EXCEPT !.net = n] BY <2>4, <2>6, <3>2
    <3> QED BY <1>3, <2>1, <2>4, <2>6, <3>1, <3>3
  <2> QED BY <2>5, <2>6
<1>6. ASSUME NEW q \in Requests, C!JoinWaitList(q) PROVE EntriesInv'
  BY <1>2, <1>6 DEF C!JoinWaitList
<1>7. ASSUME NEW q \in Requests, NEW op \in {"toggle", "remove"}, C!Bookmark(q, op)
      PROVE  EntriesInv'
  BY <1>2, <1>7 DEF C!Bookmark
<1> QED BY <1>4, <1>5, <1>6, <1>7 DEF C!Bookmarking

LEMMA PollSteps == ASSUME PollInv, C!Polling PROVE PollInv'
<1> DEFINE Cast == People \X (Options \cup {None})
           Poll == [active : BOOLEAN, votes : Votes]
           Past == [mixed : BOOLEAN, final : Votes \cup {None}, pending : SUBSET Cast]
<1>1. /\ data \in Poll /\ history \in Past /\ DOMAIN request = Requests
      /\ \A q \in Requests : request[q].op = "vote" =>
           /\ request[q].by \in People /\ request[q].read \in Options
           /\ ~data.active => <<request[q].by, request[q].read>> \in history.pending
      /\ data.active => history.final = None
      /\ history.final # None => \A p \in People :
            data.votes[p] = history.final[p] \/ <<p, data.votes[p]>> \in history.pending
  BY DEF PollInv, C!PollFinal
<1> HIDE DEF Cast, Poll, Past
\* A request comes in; it votes only in an open poll.
<1>2. ASSUME NEW q \in Requests, NEW t, NEW op, NEW p, NEW o, C!Enter(q, t, op, p, o),
             op = "vote" => data.active /\ p \in People /\ o \in Options
      PROVE  PollInv'
  <2>1. /\ data' = data /\ DOMAIN request' = Requests /\ request'[q].op = op
        /\ request'[q].by = p /\ request'[q].read = o
        /\ \A r \in Requests \ {q} : request'[r] = request[r]
    BY <1>1, <1>2, Enters DEF Past
  <2>2. \E m \in BOOLEAN : history' = [history EXCEPT !.mixed = m]
    BY <1>1, <1>2, Enters DEF Past
  <2>3. history' \in Past /\ history'.final = history.final /\ history'.pending = history.pending
    BY <1>1, <2>2 DEF Past
  <2>4. \A r \in Requests : request'[r].op = "vote" =>
           /\ request'[r].by \in People /\ request'[r].read \in Options
           /\ ~data'.active => <<request'[r].by, request'[r].read>> \in history'.pending
    BY <1>1, <1>2, <2>1, <2>3
  <2> QED BY <1>1, <2>1, <2>3, <2>4 DEF PollInv, C!PollFinal, Poll, Past, Cast
<1>3. ASSUME NEW q \in Requests, C!CastVote(q) PROVE PollInv'
  <2>1. /\ request[q].op = "vote" /\ history' = history /\ C!Done(q)
        /\ data' = [data EXCEPT !.votes[request[q].by] = request[q].read]
    BY <1>3 DEF C!CastVote, C!At
  <2>2. PICK p \in People, o \in Options : p = request[q].by /\ o = request[q].read BY <1>1, <2>1
  <2>3. PICK v : v = [data.votes EXCEPT ![p] = o] OBVIOUS
  <2>4. data' = [data EXCEPT !.votes = v] BY <2>1, <2>2, <2>3
  <2>5. v \in Votes /\ \A r \in People : v[r] = IF r = p THEN o ELSE data.votes[r]
    BY <1>1, <2>3 DEF Poll, Votes
  <2>6. data' \in Poll /\ data'.active = data.active /\ data'.votes = v
    BY <1>1, <2>4, <2>5 DEF Poll
  <2>7. /\ DOMAIN request' = Requests /\ request'[q].op = "none"
        /\ \A r \in Requests \ {q} : request'[r] = request[r]
    BY <1>1, <2>1, Leaves, IdleIs
  <2>8. history.final # None => <<p, o>> \in history.pending BY <1>1, <2>1, <2>2
  <2>9. history.final # None => \A r \in People :
           v[r] = history.final[r] \/ <<r, v[r]>> \in history.pending
    BY <1>1, <2>5, <2>8
  <2>10. \A r \in Requests : request'[r].op = "vote" =>
           /\ request'[r].by \in People /\ request'[r].read \in Options
           /\ ~data'.active => <<request'[r].by, request'[r].read>> \in history.pending
    BY <1>1, <2>6, <2>7
  <2> QED BY <1>1, <2>1, <2>6, <2>7, <2>9, <2>10 DEF PollInv, C!PollFinal, Poll, Past, Cast
<1>4. ASSUME NEW q \in Requests, C!SaveClosed(q) PROVE PollInv'
  <2>1. PICK w : w = {<<request[r].by, request[r].read>> :
                        r \in {r \in C!Running : request[r].op = "vote"}} OBVIOUS
  <2>2. /\ request[q].op = "close" /\ C!Done(q) /\ data' = [data EXCEPT !.active = FALSE]
        /\ history' = IF data.active THEN [history EXCEPT !.final = data.votes, !.pending = w]
                      ELSE history
    BY <1>4, <2>1 DEF C!SaveClosed, C!At
  <2>3. w \in SUBSET Cast BY <1>1, <2>1 DEF Cast, C!Running
  <2>4. \A r \in Requests : request[r].op = "vote" => <<request[r].by, request[r].read>> \in w
    BY <2>1, IdleIs DEF C!Running
  <2>5. data' \in Poll /\ data'.active = FALSE /\ data'.votes = data.votes /\ data.votes \in Votes
    BY <1>1, <2>2 DEF Poll
  <2>6. /\ DOMAIN request' = Requests /\ request'[q].op = "none"
        /\ \A r \in Requests \ {q} : request'[r] = request[r]
    BY <1>1, <2>2, Leaves, IdleIs
  <2>7. CASE data.active
    <3>1. history' = [history EXCEPT !.final = data.votes, !.pending = w] BY <2>2, <2>7
    <3>2. history' \in Past /\ history'.final = data.votes /\ history'.pending = w
      BY <1>1, <2>3, <2>5, <3>1 DEF Past
    <3>3. \A r \in Requests : request'[r].op = "vote" =>
             /\ request'[r].by \in People /\ request'[r].read \in Options
             /\ <<request'[r].by, request'[r].read>> \in w
      BY <1>1, <2>4, <2>6
    <3> QED BY <2>5, <2>6, <3>2, <3>3 DEF PollInv, C!PollFinal, Poll, Past, Cast
  <2>8. CASE ~data.active
    <3>1. history' = history BY <2>2, <2>8
    <3>2. \A r \in Requests : request'[r].op = "vote" =>
             /\ request'[r].by \in People /\ request'[r].read \in Options
             /\ <<request'[r].by, request'[r].read>> \in history.pending
      BY <1>1, <2>6, <2>8
    <3> QED BY <1>1, <2>5, <2>6, <3>1, <3>2 DEF PollInv, C!PollFinal, Poll, Past, Cast
  <2> QED BY <2>7, <2>8
<1>5. ASSUME NEW q \in Requests, NEW p \in People, NEW o \in Options, C!VoteInPoll(q, p, o)
      PROVE  PollInv'
  BY <1>2, <1>5 DEF C!VoteInPoll
<1>6. ASSUME NEW q \in Requests, C!ClosePoll(q) PROVE PollInv'
  <2>1. "close" # "vote" OBVIOUS
  <2> QED BY <1>2, <1>6, <2>1 DEF C!ClosePoll
<1> QED BY <1>3, <1>4, <1>5, <1>6 DEF C!Polling

LEMMA WalletSteps == ASSUME WalletInv, C!Wallets PROVE WalletInv'
<1>1. /\ data \in [People -> Keys \cup {None}] /\ history \in [mixed : BOOLEAN]
      /\ DOMAIN request = Requests
      /\ \A q \in Requests : Busy(q) => request[q].by \in People /\ request[q].read \in Keys
  BY DEF WalletInv
<1>2. ~history.mixed =>
         /\ Alone /\ \A p, r \in People : p # r /\ data[p] # None => data[p] # data[r]
         /\ \A q \in Requests : Busy(q) =>
              \A r \in People \ {request[q].by} : data[r] # request[q].read
  BY DEF WalletInv
<1>3. ASSUME NEW p \in People, C!DisconnectWallet(p) PROVE WalletInv'
  <2>1. data' = [data EXCEPT ![p] = None] /\ UNCHANGED <<request, history>>
    BY <1>3 DEF C!DisconnectWallet
  <2>2. /\ data' \in [People -> Keys \cup {None}]
        /\ \A r \in People : data'[r] = IF r = p THEN None ELSE data[r]
    BY <1>1, <2>1
  <2>3. /\ DOMAIN request' = Requests /\ history' \in [mixed : BOOLEAN]
        /\ \A q \in Requests : Busy(q)' => request'[q].by \in People /\ request'[q].read \in Keys
    BY <1>1, <2>1 DEF Busy
  <2>4. ASSUME ~history'.mixed
        PROVE  \A r, s \in People : r # s /\ data'[r] # None => data'[r] # data'[s]
    BY <1>2, <2>1, <2>2, <2>4
  <2>5. ASSUME ~history'.mixed, None \notin Keys
        PROVE  \A q \in Requests : Busy(q)' =>
                  \A r \in People \ {request'[q].by} : data'[r] # request'[q].read
    BY <1>1, <1>2, <2>1, <2>2, <2>5 DEF Busy
  <2>6. ~history'.mixed => Alone' BY <1>2, <2>1 DEF Busy, Alone
  <2> QED BY <2>2, <2>3, <2>4, <2>5, <2>6, CommunityAssumption DEF WalletInv
<1>4. ASSUME NEW q \in Requests, NEW p \in People, NEW k \in Keys, C!ConnectWallet(q, p, k)
      PROVE  WalletInv'
  <2>1. C!Enter(q, "wallet", "connect", p, k) /\ \A r \in People \ {p} : data[r] # k
    BY <1>4 DEF C!ConnectWallet, C!Unclaimed
  <2>2. /\ data' = data /\ DOMAIN request' = Requests
        /\ request'[q].by = p /\ request'[q].read = k
        /\ \A r \in Requests \ {q} : request'[r] = request[r]
    BY <1>1, <2>1, Enters
  <2>3. PICK m \in BOOLEAN : /\ history' = [history EXCEPT !.mixed = m]
                             /\ history.mixed => m
                             /\ ~m => \A r \in Requests : ~Busy(r)
    BY <1>1, <2>1, Enters
  <2>4. history' \in [mixed : BOOLEAN] /\ history'.mixed = m BY <1>1, <2>3
  <2>5. ~m => \A r \in Requests : Busy(r)' => r = q BY <2>2, <2>3 DEF Busy
  <2>6. ~m => Alone' BY <2>5 DEF Alone
  <2>7. \A r \in Requests : Busy(r)' => request'[r].by \in People /\ request'[r].read \in Keys
    BY <1>1, <2>2 DEF Busy
  <2> QED BY <1>1, <1>2, <2>1, <2>2, <2>3, <2>4, <2>5, <2>6, <2>7 DEF WalletInv
<1>5. ASSUME NEW q \in Requests, C!SaveWallet(q) \/ C!WalletUnverified(q) PROVE WalletInv'
  <2>1. Busy(q) /\ C!Done(q) /\ history' = history
    BY <1>5, IdleIs DEF C!SaveWallet, C!WalletUnverified, C!At, Busy
  <2>2. PICK p \in People, k \in Keys : p = request[q].by /\ k = request[q].read BY <1>1, <2>1
  <2>3. data' = data \/ data' = [data EXCEPT ![p] = k]
    BY <1>5, <2>2 DEF C!SaveWallet, C!WalletUnverified
  <2>4. /\ DOMAIN request' = Requests
        /\ \A r \in Requests : Busy(r)' => r # q /\ Busy(r) /\ request'[r] = request[r]
        /\ Alone => Alone'
    BY <1>1, <2>1, Leaves
  <2>5. /\ data' \in [People -> Keys \cup {None}]
        /\ \A r \in People \ {p} : data'[r] = data[r]
        /\ data'[p] \in {data[p], k}
    BY <1>1, <2>3
  <2>6. ASSUME ~history.mixed
        PROVE  /\ \A r \in Requests : ~Busy(r)'
               /\ \A r, s \in People : r # s /\ data'[r] # None => data'[r] # data'[s]
    <3>1. \A r \in People \ {p} : data[r] # k BY <1>2, <2>1, <2>2, <2>6
    <3>2. \A r, s \in People : r # s /\ data[r] # None => data[r] # data[s] BY <1>2, <2>6
    <3>3. \A r \in Requests : ~Busy(r)' BY <1>2, <2>1, <2>4, <2>6 DEF Alone
    <3> QED BY <2>3, <2>5, <3>1, <3>2, <3>3
  <2> QED BY <1>1, <1>2, <2>1, <2>4, <2>5, <2>6 DEF WalletInv
<1> QED BY <1>3, <1>4, <1>5 DEF C!Wallets

LEMMA NotingSteps == ASSUME NotingInv, C!Noting PROVE NotingInv'
<1> DEFINE Page == [highlight : {"there", "deleted"}, notes : SUBSET People, owner : People]
<1>1. /\ data \in Page /\ history \in [mixed : BOOLEAN] /\ DOMAIN request = Requests
      /\ \A q \in Requests : Busy(q) => /\ request[q].op \in {"note", "delete"}
                                        /\ request[q].op = "note" => request[q].by \in People
      /\ data.highlight = "deleted" /\ ~history.mixed =>
           /\ Alone /\ \A q \in Requests : Busy(q) => request[q].op = "delete"
           /\ (\A q \in Requests : ~Busy(q)) => data.owner \notin data.notes
  BY DEF NotingInv
<1> HIDE DEF Page
<1>2. ASSUME NEW p \in People, C!DeleteNote(p) PROVE NotingInv'
  <2>1. PICK n \in SUBSET People : n = data.notes \ {p} BY <1>1 DEF Page
  <2>2. data' = [data EXCEPT !.notes = n] /\ UNCHANGED <<request, history>>
    BY <1>2, <2>1 DEF C!DeleteNote
  <2>3. data' \in Page /\ data'.notes = n /\ data'.owner = data.owner
        /\ data'.highlight = data.highlight
    BY <1>1, <2>2 DEF Page
  <2> QED BY <1>1, <2>1, <2>2, <2>3 DEF NotingInv, Busy, Alone, Page
<1>3. ASSUME NEW q \in Requests, NEW p \in People, C!CreateNote(q, p) PROVE NotingInv'
  <2>1. C!Enter(q, "notes", "note", p, None) /\ data.highlight = "there"
    BY <1>3 DEF C!CreateNote
  <2>2. /\ data' = data /\ DOMAIN request' = Requests
        /\ request'[q].op = "note" /\ request'[q].by = p
        /\ \A r \in Requests \ {q} : request'[r] = request[r]
    BY <1>1, <2>1, Enters
  <2>3. \E m \in BOOLEAN : history' = [history EXCEPT !.mixed = m] BY <1>1, <2>1, Enters
  <2>4. history' \in [mixed : BOOLEAN] BY <1>1, <2>3
  <2>5. \A r \in Requests : Busy(r)' => /\ request'[r].op \in {"note", "delete"}
                                        /\ request'[r].op = "note" => request'[r].by \in People
    BY <1>1, <2>2 DEF Busy
  <2> QED BY <1>1, <2>1, <2>2, <2>4, <2>5 DEF NotingInv, Page
<1>4. ASSUME NEW q \in Requests, C!DeleteHighlight(q) PROVE NotingInv'
  <2>1. PICK k : k = [op |-> "delete", at |-> "second", by |-> None, read |-> None] OBVIOUS
  <2>2. /\ ~Busy(q) /\ data' = [data EXCEPT !.highlight = "deleted"]
        /\ request' = [request EXCEPT ![q] = k]
        /\ history' = [history EXCEPT !.mixed = C!Running # {}]
    BY <1>4, <2>1 DEF C!DeleteHighlight, Busy
  <2>3. PICK m \in BOOLEAN : m = (C!Running # {}) OBVIOUS
  <2>4. history' = [history EXCEPT !.mixed = m] BY <2>2, <2>3
  <2>5. history' \in [mixed : BOOLEAN] /\ history'.mixed = m BY <1>1, <2>4
  <2>6. ~m => \A r \in Requests : ~Busy(r) BY <2>3 DEF C!Running, Busy
  <2>7. /\ DOMAIN request' = Requests /\ request'[q] = k /\ k.op = "delete"
        /\ \A r \in Requests \ {q} : request'[r] = request[r]
    BY <1>1, <2>1, <2>2
  <2>8. Busy(q)' BY <2>7, IdleIs DEF Busy
  <2>9. data' \in Page BY <1>1, <2>2 DEF Page
  <2>10. \A r \in Requests : Busy(r)' => /\ request'[r].op \in {"note", "delete"}
                                         /\ request'[r].op = "note" => request'[r].by \in People
    BY <1>1, <2>7 DEF Busy
  <2>11. ~m => \A r \in Requests : Busy(r)' => r = q BY <2>6, <2>7 DEF Busy
  <2>12. ~m => Alone' BY <2>11 DEF Alone
  <2> QED BY <2>5, <2>7, <2>8, <2>9, <2>10, <2>11, <2>12 DEF NotingInv, Page
<1>5. ASSUME NEW q \in Requests, C!SaveNote(q) \/ C!DeleteNotes(q) PROVE NotingInv'
  <2>1. Busy(q) /\ C!Done(q) /\ history' = history
    BY <1>5, IdleIs DEF C!SaveNote, C!DeleteNotes, C!At, Busy
  <2>2. /\ DOMAIN request' = Requests
        /\ \A r \in Requests : Busy(r)' => r # q /\ Busy(r) /\ request'[r] = request[r]
        /\ Alone => Alone'
    BY <1>1, <2>1, Leaves
  <2>3. PICK n \in SUBSET People : /\ data' = [data EXCEPT !.notes = n]
                                   /\ request[q].op = "delete" => data.owner \notin n
    <3>1. CASE C!SaveNote(q)
      <4>1. request[q].op = "note" /\ request[q].by \in People
        BY <1>1, <2>1, <3>1 DEF C!SaveNote, C!At
      <4>2. PICK n \in SUBSET People : n = data.notes \cup {request[q].by} BY <1>1, <4>1 DEF Page
      <4> QED BY <3>1, <4>1, <4>2 DEF C!SaveNote
    <3>2. CASE C!DeleteNotes(q)
      <4>1. PICK n \in SUBSET People : n = data.notes \ {data.owner} BY <1>1 DEF Page
      <4> QED BY <3>2, <4>1 DEF C!DeleteNotes
    <3> QED BY <1>5, <3>1, <3>2
  <2>4. data' \in Page /\ data'.notes = n /\ data'.owner = data.owner
        /\ data'.highlight = data.highlight
    BY <1>1, <2>3 DEF Page
  <2>5. \A r \in Requests : Busy(r)' => /\ request'[r].op \in {"note", "delete"}
                                        /\ request'[r].op = "note" => request'[r].by \in People
    BY <1>1, <2>2
  <2>6. ASSUME data.highlight = "deleted", ~history.mixed
        PROVE  data.owner \notin n /\ Alone' /\ \A r \in Requests : ~Busy(r)'
    BY <1>1, <2>1, <2>2, <2>3, <2>6 DEF Alone
  <2> QED BY <1>1, <2>1, <2>2, <2>4, <2>5, <2>6 DEF NotingInv, Page
<1> QED BY <1>2, <1>3, <1>4, <1>5 DEF C!Noting

LEMMA StandingAre == \A op \in Decisions : C!Standing(op) \in Standings
BY DEF Decisions, C!Standing, Standings

LEMMA StandingSteps == ASSUME StandingInv, C!Moderating PROVE StandingInv'
<1>1. /\ data \in Standings /\ history \in [mixed : BOOLEAN, last : Decisions]
      /\ DOMAIN request = Requests
      /\ \A q \in Requests : Busy(q) => request[q].op \in Decisions /\ request[q].read \in Standings
      /\ ~history.mixed => /\ Alone /\ data = C!Standing(history.last)
                           /\ \A q \in Requests : Busy(q) => request[q].read = data
  BY DEF StandingInv
<1>2. ASSUME NEW q \in Requests, NEW op \in Decisions, C!Moderate(q, op) PROVE StandingInv'
  <2>1. PICK d \in Standings : d = data BY <1>1
  <2>2. C!Enter(q, "standing", op, None, d) BY <1>2, <2>1 DEF C!Moderate
  <2>3. /\ data' = data /\ DOMAIN request' = Requests
        /\ request'[q].op = op /\ request'[q].read = d
        /\ \A r \in Requests \ {q} : request'[r] = request[r]
    BY <1>1, <2>2, Enters
  <2>4. PICK m \in BOOLEAN : /\ history' = [history EXCEPT !.mixed = m]
                             /\ history.mixed => m
                             /\ ~m => \A r \in Requests : ~Busy(r)
    BY <1>1, <2>2, Enters
  <2>5. history' \in [mixed : BOOLEAN, last : Decisions] /\ history'.mixed = m
        /\ history'.last = history.last
    BY <1>1, <2>4
  <2>6. ~m => \A r \in Requests : Busy(r)' => r = q BY <2>3, <2>4 DEF Busy
  <2>7. ~m => Alone' BY <2>6 DEF Alone
  <2>8. \A r \in Requests : Busy(r)' => request'[r].op \in Decisions /\ request'[r].read \in Standings
    BY <1>1, <2>3 DEF Busy
  <2>9. ~m => data = C!Standing(history.last) BY <1>1, <2>4
  <2> QED BY <1>1, <2>1, <2>3, <2>5, <2>6, <2>7, <2>8, <2>9 DEF StandingInv
\* Alone, it sets whatever of the document is not as decided.
<1>3. ASSUME NEW q \in Requests, C!SaveStanding(q) PROVE StandingInv'
  <2>1. Busy(q) BY <1>3, IdleIs DEF C!SaveStanding, C!At, Busy
  <2>2. PICK op \in Decisions, d \in Standings : op = request[q].op /\ d = request[q].read
    BY <1>1, <2>1
  <2>3. PICK to \in Standings : to = C!Standing(op) BY StandingAre
  <2>4. /\ data' = [active |-> IF to.active = d.active THEN data.active ELSE to.active,
                    lock |-> IF to.lock = d.lock THEN data.lock ELSE to.lock]
        /\ history' = [history EXCEPT !.last = op] /\ C!Done(q)
    BY <1>3, <2>2, <2>3 DEF C!SaveStanding
  <2>5. /\ DOMAIN request' = Requests
        /\ \A r \in Requests : Busy(r)' => r # q /\ Busy(r) /\ request'[r] = request[r]
        /\ Alone => Alone'
    BY <1>1, <2>4, Leaves
  <2>6. data' \in Standings BY <1>1, <2>4 DEF Standings
  <2>7. history' \in [mixed : BOOLEAN, last : Decisions] /\ history'.mixed = history.mixed
        /\ history'.last = op
    BY <1>1, <2>4
  <2>8. ASSUME ~history.mixed PROVE data' = to /\ \A r \in Requests : ~Busy(r)'
    <3>1. d = data BY <1>1, <2>1, <2>2, <2>8
    <3>2. data' = to BY <1>1, <2>4, <3>1 DEF Standings
    <3> QED BY <1>1, <2>1, <2>5, <2>8, <3>2 DEF Alone
  <2>9. C!Standing(history.last)' = to BY <2>3, <2>7 DEF C!Standing
  <2> QED BY <1>1, <2>5, <2>6, <2>7, <2>8, <2>9 DEF StandingInv
<1> QED BY <1>2, <1>3 DEF C!Moderating, Decisions

LEMMA EverythingIs == C!Everything \in Nat \ {0}
<1>1. C!Everything = Cardinality(Pages) BY DEF C!Everything, C!Cardinality, Cardinality
<1> QED BY <1>1, CommunityAssumption, FS_CardinalityType, FS_EmptySet

LEMMA ReadingSteps ==
  ASSUME ReadingInv, NEW value \in {-1, C!Everything + 1} \cup Pages, C!UpsertProgress(value)
  PROVE  ReadingInv'
<1>1. PICK e \in Nat \ {0} : e = C!Everything BY EverythingIs
<1>2. value \in Int BY <1>1, CommunityAssumption
<1>3. /\ data \in [percentage : Nat, version : Nat, completed : BOOLEAN] /\ requests \in Nat
      /\ history \in [mixed : BOOLEAN, reached : BOOLEAN]
      /\ data.version = requests /\ (data.completed => history.reached)
  BY DEF ReadingInv, C!ReadingTrue
<1>4. PICK n \in 0..e : n = C!ComputePercentage(value) /\ (n = e => value >= e \/ e = 0)
  BY <1>1, <1>2 DEF C!ComputePercentage
<1>5. e > 0 BY <1>1
<1>6. PICK b \in BOOLEAN : b = (data.completed \/ n >= e) OBVIOUS
<1>7. PICK c \in BOOLEAN : c = (history.reached \/ value >= e) OBVIOUS
<1>8. /\ requests' = requests + 1
      /\ data' = [percentage |-> n, version |-> data.version + 1, completed |-> b]
      /\ history' = [history EXCEPT !.reached = c]
  BY <1>1, <1>4, <1>6, <1>7 DEF C!UpsertProgress
<1>9. /\ data' \in [percentage : Nat, version : Nat, completed : BOOLEAN]
      /\ data'.percentage = n /\ data'.version = data.version + 1 /\ data'.completed = b
      /\ history' \in [mixed : BOOLEAN, reached : BOOLEAN] /\ history'.reached = c
  BY <1>3, <1>4, <1>8
<1>10. b => c BY <1>3, <1>4, <1>5, <1>6, <1>7, <1>2
<1>11. C!Everything' = e BY <1>1 DEF C!Everything, C!Cardinality
<1>12. data'.version = requests' /\ requests' \in Nat BY <1>3, <1>8, <1>9
<1>13. data'.percentage \in 0..C!Everything' BY <1>4, <1>9, <1>11
<1>14. data'.percentage = C!Everything' => data'.completed BY <1>1, <1>4, <1>6, <1>9, <1>11
<1>15. data'.completed => history'.reached BY <1>9, <1>10
<1>16. C!ReadingTrue' BY <1>12, <1>13, <1>14, <1>15 DEF C!ReadingTrue
<1> QED BY <1>9, <1>12, <1>16 DEF ReadingInv

LEMMA TopKeepsTree ==
  ASSUME NEW d, NEW e, NEW c \in Categories, NEW x, NoLoop(d),
         \A y \in Categories : e[y] = IF y = c THEN x ELSE d[y],
         Top(d, c, x) \/ x \notin Categories
  PROVE  NoLoop(e)
<1>1. None \notin Categories BY CommunityAssumption
<1>2. Above(e, c) = x /\ \A y \in Categories \ {c} : Above(e, y) = Above(d, y) BY DEF Above
<1>3. x # c /\ Above(e, x) \notin Categories BY <1>1 DEF Above, Top
<1>4. \A y : y \notin Categories => Above(e, y) = None /\ Above(d, y) = None BY DEF Above
<1>5. SUFFICES ASSUME NEW y \in Categories
               PROVE  y \notin {Above(e, y), Above(e, Above(e, y)), Above(e, Above(e, Above(e, y)))}
  BY DEF NoLoop
<1>6. y \notin {Above(d, y), Above(d, Above(d, y)), Above(d, Above(d, Above(d, y)))} BY DEF NoLoop
<1> QED BY <1>1, <1>2, <1>3, <1>4, <1>6

LEMMA CategorySteps == ASSUME CategoryInv, C!Categorising PROVE CategoryInv'
<1> DEFINE Tree == [Categories -> Categories \cup {None, "absent", "gone"}]
<1>1. /\ data \in Tree /\ history \in [mixed : BOOLEAN] /\ DOMAIN request = Requests
      /\ \A q \in Requests : Busy(q) =>
           request[q].by \in Categories /\ request[q].read \in Categories \cup {None}
      /\ ~history.mixed =>
           /\ Alone /\ NoLoop(data)
           /\ \A q \in Requests : Busy(q) => Top(data, request[q].by, request[q].read)
  BY DEF CategoryInv
<1>2. ASSUME NEW c \in Categories, C!DeleteCategory(c) PROVE CategoryInv'
  <2>1. data' = [data EXCEPT ![c] = "gone"] /\ UNCHANGED <<request, history>>
    BY <1>2 DEF C!DeleteCategory
  <2>2. data' \in Tree /\ \A y \in Categories : data'[y] = IF y = c THEN "gone" ELSE data[y]
    BY <1>1, <2>1
  <2>3. PICK e \in Tree : e = data' BY <2>2
  <2>4. NoLoop(data) => NoLoop(e)
    <3>1. \A y \in Categories : e[y] = IF y = c THEN "gone" ELSE data[y] BY <2>2, <2>3
    <3> QED BY <3>1, TopKeepsTree, CommunityAssumption
  <2>5. NoLoop(data)' <=> NoLoop(e) BY <2>3 DEF NoLoop, Above
  <2>6. ASSUME NEW q \in Requests, Top(data, request[q].by, request[q].read)
        PROVE  Top(data, request[q].by, request[q].read)'
    BY <2>1, <2>2, <2>6, CommunityAssumption DEF Top
  <2> QED BY <1>1, <2>1, <2>2, <2>4, <2>5, <2>6 DEF CategoryInv, Busy, Alone
<1>3. ASSUME NEW q \in Requests, NEW c \in Categories, NEW x \in Categories \cup {None},
             NEW op, C!PlaceCategory(q, c, x, op)
      PROVE  CategoryInv'
  <2>1. C!Enter(q, "categories", op, c, x) /\ Top(data, c, x)
    BY <1>3, CommunityAssumption DEF C!PlaceCategory, C!MayParent, C!TopLevel, Top
  <2>2. /\ data' = data /\ DOMAIN request' = Requests
        /\ request'[q].by = c /\ request'[q].read = x
        /\ \A r \in Requests \ {q} : request'[r] = request[r]
    BY <1>1, <2>1, Enters
  <2>3. PICK m \in BOOLEAN : /\ history' = [history EXCEPT !.mixed = m]
                             /\ history.mixed => m
                             /\ ~m => \A r \in Requests : ~Busy(r)
    BY <1>1, <2>1, Enters
  <2>4. history' \in [mixed : BOOLEAN] /\ history'.mixed = m BY <1>1, <2>3
  <2>5. ~m => \A r \in Requests : Busy(r)' => r = q BY <2>2, <2>3 DEF Busy
  <2>6. ~m => Alone' BY <2>5 DEF Alone
  <2>7. \A r \in Requests : Busy(r)' =>
           request'[r].by \in Categories /\ request'[r].read \in Categories \cup {None}
    BY <1>1, <2>2 DEF Busy
  <2>8. NoLoop(data)' <=> NoLoop(data) BY <2>2 DEF NoLoop, Above
  <2>9. Top(data, request[q].by, request[q].read)' BY <2>1, <2>2 DEF Top
  <2> QED BY <1>1, <2>2, <2>3, <2>4, <2>5, <2>6, <2>7, <2>8, <2>9 DEF CategoryInv
<1>4. ASSUME NEW q \in Requests, C!SaveCategory(q) PROVE CategoryInv'
  <2>1. Busy(q) /\ C!Done(q) /\ history' = history BY <1>4, IdleIs DEF C!SaveCategory, C!At, Busy
  <2>2. PICK c \in Categories, x \in Categories \cup {None} : c = request[q].by /\ x = request[q].read
    BY <1>1, <2>1
  <2>3. data' = data \/ data' = [data EXCEPT ![c] = x] BY <1>4, <2>2 DEF C!SaveCategory
  <2>4. /\ DOMAIN request' = Requests
        /\ \A r \in Requests : Busy(r)' => r # q /\ Busy(r) /\ request'[r] = request[r]
        /\ Alone => Alone'
    BY <1>1, <2>1, Leaves
  <2>5. PICK e \in Tree : e = data' BY <1>1, <2>3
  <2>6. ASSUME ~history.mixed PROVE NoLoop(e) /\ \A r \in Requests : ~Busy(r)'
    <3>1. NoLoop(data) /\ Top(data, c, x) BY <1>1, <2>1, <2>2, <2>6
    <3>2. e = data \/ \A y \in Categories : e[y] = IF y = c THEN x ELSE data[y]
      BY <1>1, <2>3, <2>5
    <3>3. NoLoop(e) BY <3>1, <3>2, TopKeepsTree
    <3> QED BY <1>1, <2>1, <2>4, <2>6, <3>3 DEF Alone
  <2>7. NoLoop(data)' <=> NoLoop(e) BY <2>5 DEF NoLoop, Above
  <2> QED BY <1>1, <2>1, <2>4, <2>5, <2>6, <2>7 DEF CategoryInv
<1> QED BY <1>2, <1>3, <1>4 DEF C!Categorising

LEMMA CommunityInit == C!Init => CommunityInv
<1> SUFFICES ASSUME C!Init PROVE CommunityInv OBVIOUS
<1>1. request = [q \in Requests |-> C!Idle] /\ requests = 0 BY DEF C!Init
<1>2. DOMAIN request = Requests /\ \A q \in Requests : request[q] = C!Idle BY <1>1
<1>3. (\A q \in Requests : ~Busy(q)) /\ Alone BY <1>2 DEF Busy, Alone
<1>4. topic = "follow" => FollowInv
  <2> SUFFICES ASSUME topic = "follow" PROVE FollowInv OBVIOUS
  <2>1. data = [following |-> 0, followers |-> 0, told |-> 0] /\ history = [mixed |-> FALSE]
    BY DEF C!Init, C!Fresh
  <2>2. /\ data \in [following : Nat, followers : Nat, told : Nat] /\ history \in [mixed : BOOLEAN]
        /\ data.following = 0 /\ data.followers = 0 /\ data.told = 0
    BY <2>1
  <2> QED BY <1>2, <1>3, <2>2 DEF FollowInv
<1>5. topic \in {"bookmark", "waiting"} => EntriesInv
  <2> SUFFICES ASSUME topic \in {"bookmark", "waiting"} PROVE EntriesInv OBVIOUS
  <2>1. data = [entries |-> 0, version |-> 0] /\ history = [mixed |-> FALSE, net |-> 0]
    BY DEF C!Init
  <2>2. /\ data \in [entries : Nat, version : Nat] /\ history \in [mixed : BOOLEAN, net : Nat]
        /\ data.entries = history.net
    BY <2>1
  <2> QED BY <1>2, <1>3, <2>2 DEF EntriesInv
<1>6. topic = "poll" => PollInv
  <2> SUFFICES ASSUME topic = "poll" PROVE PollInv OBVIOUS
  <2>1. /\ data = [active |-> TRUE, votes |-> [p \in People |-> None]]
        /\ history = [mixed |-> FALSE, final |-> None, pending |-> {}]
    BY DEF C!Init
  <2>2. /\ data \in [active : BOOLEAN, votes : Votes] /\ data.active
        /\ history \in [mixed : BOOLEAN, final : Votes \cup {None},
                        pending : SUBSET (People \X (Options \cup {None}))]
        /\ history.final = None
    BY <2>1 DEF Votes
  <2>3. \A q \in Requests : request[q].op # "vote" BY <1>2, IdleIs
  <2> QED BY <1>2, <2>2, <2>3 DEF PollInv, C!PollFinal
<1>7. topic = "wallet" => WalletInv
  <2> SUFFICES ASSUME topic = "wallet" PROVE WalletInv OBVIOUS
  <2>1. data = [p \in People |-> None] /\ history = [mixed |-> FALSE] BY DEF C!Init, C!Fresh
  <2>2. /\ data \in [People -> Keys \cup {None}] /\ \A p \in People : data[p] = None
        /\ history \in [mixed : BOOLEAN]
    BY <2>1
  <2> QED BY <1>2, <1>3, <2>2 DEF WalletInv
<1>8. topic = "notes" => NotingInv
  <2> SUFFICES ASSUME topic = "notes" PROVE NotingInv OBVIOUS
  <2>1. data \in [highlight : {"there"}, notes : {{}}, owner : People] /\ history = [mixed |-> FALSE]
    BY DEF C!Init, C!Fresh
  <2>2. /\ data \in [highlight : {"there", "deleted"}, notes : SUBSET People, owner : People]
        /\ data.highlight = "there" /\ history \in [mixed : BOOLEAN]
    BY <2>1
  <2> QED BY <1>2, <1>3, <2>2 DEF NotingInv
<1>9. topic = "standing" => StandingInv
  <2> SUFFICES ASSUME topic = "standing" PROVE StandingInv OBVIOUS
  <2>1. data = C!Standing("unban") /\ history = [mixed |-> FALSE, last |-> "unban"] BY DEF C!Init
  <2>2. data \in Standings BY <2>1, StandingAre DEF Decisions
  <2>3. history \in [mixed : BOOLEAN, last : Decisions] /\ history.last = "unban"
    BY <2>1 DEF Decisions
  <2>4. data = C!Standing(history.last) BY <2>1, <2>3
  <2> QED BY <1>2, <1>3, <2>2, <2>3, <2>4 DEF StandingInv
<1>10. topic = "reading" => ReadingInv
  <2> SUFFICES ASSUME topic = "reading" PROVE ReadingInv OBVIOUS
  <2>1. /\ data = [percentage |-> 0, version |-> 0, completed |-> FALSE]
        /\ history = [mixed |-> FALSE, reached |-> FALSE]
    BY DEF C!Init
  <2>2. /\ data \in [percentage : Nat, version : Nat, completed : BOOLEAN] /\ ~data.completed
        /\ data.percentage = 0 /\ data.version = 0 /\ history \in [mixed : BOOLEAN, reached : BOOLEAN]
    BY <2>1
  <2>3. C!Everything \in Nat \ {0} BY EverythingIs
  <2>4. C!ReadingTrue BY <1>1, <2>2, <2>3 DEF C!ReadingTrue
  <2> QED BY <1>1, <2>2, <2>4 DEF ReadingInv
<1>11. topic = "categories" => CategoryInv
  <2> SUFFICES ASSUME topic = "categories" PROVE CategoryInv OBVIOUS
  <2>1. data = [c \in Categories |-> "absent"] /\ history = [mixed |-> FALSE]
    BY DEF C!Init, C!Fresh
  <2>2. /\ data \in [Categories -> Categories \cup {None, "absent", "gone"}]
        /\ history \in [mixed : BOOLEAN] /\ \A c \in Categories : data[c] = "absent"
    BY <2>1
  <2>3. NoLoop(data) BY <2>2, CommunityAssumption DEF NoLoop, Above
  <2> QED BY <1>2, <1>3, <2>2, <2>3 DEF CategoryInv
<1> QED BY <1>4, <1>5, <1>6, <1>7, <1>8, <1>9, <1>10, <1>11 DEF CommunityInv

LEMMA SameTopic == C!Next => topic' = topic
<1>1. \A q, t, op, by, read : C!Enter(q, t, op, by, read) => topic' = topic BY DEF C!Enter
<1>2. C!Following \/ C!Bookmarking \/ (\E q \in Requests : C!JoinWaitList(q) \/ C!Push(q))
      => topic' = topic
  BY <1>1 DEF C!Following, C!Announce, C!Follow, C!Unfollow, C!WriteFollowing, C!WriteFollowers,
              C!Bookmarking, C!Bookmark, C!Push, C!Replace, C!JoinWaitList, C!At
<1>3. C!Polling \/ C!Wallets => topic' = topic
  BY <1>1 DEF C!Polling, C!CastVote, C!ClosePoll, C!SaveClosed, C!VoteInPoll, C!Wallets,
              C!SaveWallet, C!WalletUnverified, C!ConnectWallet, C!DisconnectWallet, C!At
<1>4. C!Noting \/ C!Moderating => topic' = topic
  BY <1>1 DEF C!Noting, C!DeleteNote, C!SaveNote, C!DeleteHighlight, C!DeleteNotes, C!CreateNote,
              C!Moderating, C!SaveStanding, C!Moderate, C!At
<1>5. (\E value \in {-1, C!Everything + 1} \cup Pages : C!UpsertProgress(value)) \/ C!Categorising
      => topic' = topic
  BY <1>1 DEF C!UpsertProgress, C!Categorising, C!SaveCategory, C!DeleteCategory,
              C!PlaceCategory, C!At
<1> QED BY <1>2, <1>3, <1>4, <1>5 DEF C!Next

LEMMA CommunitySteps == ASSUME CommunityInv, C!Next PROVE CommunityInv'
<1>1. topic' = topic BY SameTopic
<1>2. \/ topic = "follow" /\ C!Following
      \/ topic = "bookmark" /\ C!Bookmarking
      \/ topic = "waiting" /\ \E q \in Requests : C!JoinWaitList(q) \/ C!Push(q)
      \/ topic = "poll" /\ C!Polling
      \/ topic = "wallet" /\ C!Wallets
      \/ topic = "notes" /\ C!Noting
      \/ topic = "standing" /\ C!Moderating
      \/ topic = "reading" /\ \E value \in {-1, C!Everything + 1} \cup Pages : C!UpsertProgress(value)
      \/ topic = "categories" /\ C!Categorising
  BY DEF C!Next
<1>3. topic \in {"bookmark", "waiting"} => EntriesInv BY DEF CommunityInv
<1>4. topic \in {"bookmark", "waiting"} => EntriesInv' BY <1>2, <1>3, EntriesSteps
<1>5. topic = "reading" => ReadingInv' BY <1>2, ReadingSteps DEF CommunityInv
<1> QED BY <1>1, <1>2, <1>4, <1>5, FollowSteps, PollSteps, WalletSteps, NotingSteps, StandingSteps,
           CategorySteps
        DEF CommunityInv

LEMMA CommunityIsSound == CommunityInv => C!CommunitySound
<1> SUFFICES ASSUME CommunityInv PROVE C!CommunitySound OBVIOUS
<1>1. C!Resting => \A q \in Requests : ~Busy(q) BY DEF C!Resting, C!Running, Busy
<1>2. topic = "follow" => C!FollowSound BY <1>1 DEF CommunityInv, FollowInv, C!FollowSound
<1>3. topic \in {"bookmark", "waiting"} => C!BookmarksKept
  BY DEF CommunityInv, EntriesInv, C!BookmarksKept
<1>4. topic = "poll" => C!PollFinal BY DEF CommunityInv, PollInv
<1>5. topic = "wallet" => C!WalletUnique BY DEF CommunityInv, WalletInv, C!WalletUnique
<1>6. topic = "notes" => C!NotesGo BY <1>1 DEF CommunityInv, NotingInv, C!NotesGo
<1>7. topic = "standing" => C!StandingTrue BY DEF CommunityInv, StandingInv, C!StandingTrue
<1>8. topic = "reading" => C!ReadingTrue BY DEF CommunityInv, ReadingInv
<1>9. topic = "categories" => C!CategoriesSound
  BY DEF CommunityInv, CategoryInv, NoLoop, Above, C!CategoriesSound
<1> QED BY <1>2, <1>3, <1>4, <1>5, <1>6, <1>7, <1>8, <1>9 DEF C!CommunitySound

\* Documents several requests write are what these made them, whoever they are and
\* however they interleave: of the repositories, balances, families of sessions,
\* locks, edges, reactions and notifications; of the community, all nine topics.
THEOREM RecordsStay == PlatformSpec => []RecordsKept
<1>1. PlatformInit => RecordInv /\ CommunityInv BY RecordInit, CommunityInit DEF PlatformInit
<1>2. PlatformNext \/ UNCHANGED allVars => (part = "records" /\ D!Next) \/ UNCHANGED recordVars
  BY DEF PlatformNext, LearnerNext, SharedNext, sharedVars, allVars
<1>3. PlatformNext \/ UNCHANGED allVars
      => (part = "community" /\ C!Next) \/ UNCHANGED communityVars
  BY DEF PlatformNext, LearnerNext, SharedNext, sharedVars, allVars
<1>4. RecordInv /\ UNCHANGED recordVars => RecordInv'
  <2> SUFFICES ASSUME RecordInv, UNCHANGED recordVars PROVE RecordInv' OBVIOUS
  <2>1. UNCHANGED <<subject, document, log, calling>> BY DEF recordVars
  <2> QED BY <2>1 DEF RecordInv, BalanceInv, SessionsInv, OneAlive, RotatesIn, Rotation, LiveOf, Dead,
             LockInv, EdgeInv, ReelDocInv, NotesInv, D!OneReaction, D!ReadIsMarked
<1>5. CommunityInv /\ UNCHANGED communityVars => CommunityInv'
  <2> SUFFICES ASSUME CommunityInv, UNCHANGED communityVars PROVE CommunityInv' OBVIOUS
  <2>1. UNCHANGED <<topic, data, history, request, requests>> BY DEF communityVars
  <2>2. (topic = "follow" => FollowInv') /\ (topic \in {"bookmark", "waiting"} => EntriesInv')
    BY <2>1 DEF CommunityInv, FollowInv, EntriesInv, Alone, Busy
  <2>3. (topic = "poll" => PollInv') /\ (topic = "wallet" => WalletInv')
    BY <2>1 DEF CommunityInv, PollInv, C!PollFinal, WalletInv, Alone, Busy
  <2>4. (topic = "notes" => NotingInv') /\ (topic = "standing" => StandingInv')
    BY <2>1 DEF CommunityInv, NotingInv, StandingInv, Alone, Busy, C!Standing
  <2>5. (topic = "reading" => ReadingInv') /\ (topic = "categories" => CategoryInv')
    BY <2>1 DEF CommunityInv, ReadingInv, C!ReadingTrue, C!Everything, C!Cardinality,
                CategoryInv, NoLoop, Above, Top, Alone, Busy
  <2> QED BY <2>1, <2>2, <2>3, <2>4, <2>5 DEF CommunityInv
<1>6. RecordInv /\ CommunityInv /\ [PlatformNext]_allVars => RecordInv' /\ CommunityInv'
  BY <1>2, <1>3, <1>4, <1>5, RecordSteps, CommunitySteps
<1>7. RecordInv /\ CommunityInv => RecordsKept
  BY RecordsAreKept, CommunityIsSound DEF RecordsKept
<1> QED BY <1>1, <1>6, <1>7, PTL DEF PlatformSpec

=============================================================================
