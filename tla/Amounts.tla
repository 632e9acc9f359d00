------------------------------ MODULE Amounts ------------------------------
(***************************************************************************)
(* One checkout from its price to its verification: the arithmetic of        *)
(* services/stellar/stellarService.js (decimal strings and stroops, the fee   *)
(* split, the shares of a path payment's maximum) and what                    *)
(* controllers/stellar/paymentController.js rests on it: where an item's      *)
(* price goes, the quote, the preflight, the transaction that is built, and   *)
(* the comparison of what a wallet signed, or the ledger shows, with the row. *)
(*                                                                         *)
(* A unit has Decimals digits after the point instead of seven.             *)
(***************************************************************************)
EXTENDS Naturals, Sequences, SequencesExt

CONSTANTS
    Decimals,          \* 7 in STROOPS_PER_UNIT
    Quotes,            \* prices in stroops
    Percents,          \* PLATFORM_FEE_PERCENT as configured
    SendMaxes,         \* what a path costs, or a client offers, in stroops
    Creator, Platform, \* the two wallets; they may be the same
    None

VARIABLES
    stage,     \* "asked", "refused", "built", "signed", "landed", "verified", "rejected", "reversed"
    offer,     \* the item and the configuration it is sold under
    checkout,  \* the row: amount, percent, currency and where the creator's share goes
    signed,    \* the transaction: its operations, and is its memo the row's
    holder     \* the accounts a preflight looked at

amountVars == <<stage, offer, checkout, signed, holder>>

\* The powers of ten up to a unit.
Tens[n \in 0 .. Decimals] == IF n = 0 THEN 1 ELSE 10 * Tens[n - 1]
Unit == Tens[Decimals]
BaseReserve == 2
Fee == 1

\* The asset registry: native XLM has no issuer.
Issued(code) == code \in {"USDC", "EURC"}
Supported(code) == Issued(code) \/ code = "XLM"

-----------------------------------------------------------------------------
\* Mutants: what the definitions after them become under a plausible bug.
MutFeePercent(percent) == percent
MutFromStroops(s) ==
    [whole |-> s \div Unit,
     frac |-> [i \in 1 .. Decimals |-> (s \div Tens[i]) % 10]]
-----------------------------------------------------------------------------
\* The value of the first digits, as many as there are decimals.
DigitsValue(digits) ==
    LET value[n \in 0 .. Decimals] == IF n = 0 THEN 0 ELSE 10 * value[n - 1] + digits[n]
    IN  value[Decimals]

\* toStroops: the fraction is padded and cut to the seven digits.
ToStroops(decimal) ==
    decimal.whole * Unit
    + DigitsValue([i \in 1 .. Decimals |->
          IF i <= Len(decimal.frac) THEN decimal.frac[i] ELSE 0])

\* fromStroops: trailing zeros of the fraction are dropped.
FromStroops(s) ==
    LET frac == [i \in 1 .. Decimals |-> ((s % Unit) \div Tens[Decimals - i]) % 10]
        kept == CHOOSE n \in 0 .. Decimals :
                    /\ \A i \in n + 1 .. Decimals : frac[i] = 0
                    /\ n > 0 => frac[n] # 0
    IN  [whole |-> s \div Unit, frac |-> SubSeq(frac, 1, kept)]

\* PLATFORM_FEE_PERCENT: capped at 20.
FeePercent(percent) == IF percent > 20 THEN 20 ELSE percent

\* calculateFeeSplit: no split without a fee, or when the fee rounds down to
\* nothing; else the platform's share is rounded down and the rest is the creator's.
PlatformStroops(amount, percent) == (amount * (FeePercent(percent) * 100)) \div 10000
Splits(amount, percent) == PlatformStroops(amount, percent) > 0
CreatorStroops(amount, percent) == amount - PlatformStroops(amount, percent)

\* applySlippage, and the basis points getQuote allows: 100 when none are asked for.
ApplySlippage(amount, bps) == amount + (amount * bps) \div 10000

SlippageBps(asked) ==
    LET bps == IF asked \in {None, 0} THEN 100 ELSE asked
    IN  IF bps > 500 THEN 500 ELSE IF bps < 10 THEN 10 ELSE bps

-----------------------------------------------------------------------------
\* resolvePaymentDestination: the creator's wallet, or the platform's when it collects
\* for creators without one; a platform without a wallet takes no fee either.
Priced(o) == o.price \notin {None, 0}
Resolved(o) == o.price # None /\ (o.wallet # None \/ o.collect = "on")
Destination(o) == IF o.wallet = None THEN Platform ELSE o.wallet
Percent(o) == IF o.wallet = None \/ o.collect = "unset" THEN 0 ELSE o.percent

\* The payments a row expects of its transaction.
Shares(c) ==
    IF Splits(c.amount, c.percent)
    THEN << [to |-> c.creator, amount |-> CreatorStroops(c.amount, c.percent)],
            [to |-> Platform, amount |-> PlatformStroops(c.amount, c.percent)] >>
    ELSE << [to |-> c.creator, amount |-> c.amount] >>

Operation(kind, share, code) ==
    [kind |-> kind, to |-> share.to, amount |-> share.amount, code |-> code]

\* buildPaymentTransaction: one payment for each share.
DirectOperations(c) ==
    [i \in DOMAIN Shares(c) |-> Operation("payment", Shares(c)[i], c.code)]

\* buildPathPaymentTransaction: the maximum is shared in proportion to the amounts; a
\* platform operation with nothing to spend is left out, and the SDK refuses to build
\* the creator's with nothing.
CreatorSendMax(c) == (c.sendMax * Shares(c)[1].amount) \div c.amount

PathOperations(c) ==
    LET paths == [i \in DOMAIN Shares(c) |-> Operation("path", Shares(c)[i], "USDC")]
    IN  IF c.sendMax - CreatorSendMax(c) > 0 THEN paths ELSE SubSeq(paths, 1, 1)

\* buildSep7Uri: the link asks for one payment of the whole price.
Link(c) == << Operation("payment", [to |-> c.creator, amount |-> c.amount], c.code) >>

Built(c) == IF c.sendMax = 0 THEN DirectOperations(c) ELSE PathOperations(c)

-----------------------------------------------------------------------------
\* parseAccountSummary: what an account holds of an asset.
Held(account, code) == IF Issued(code) THEN account.balance ELSE account.xlm

\* preflightPayment, for as many operations as there are shares; the reserve and the
\* fees come out of the native balance.
Required(account, operations) == (2 + account.subentries) * BaseReserve + operations * Fee

Preflight(account, c) ==
    /\ Supported(c.code)
    /\ account.exists /\ account.payee
    /\ Held(account, c.code) >= c.amount
    /\ account.xlm >= Required(account, Len(Shares(c)))
    /\ Issued(c.code) => account.payeeTrusts

\* getPaymentPreflight: a payee who cannot take the asset is paid by a gift instead.
Advice(o, account, c) ==
    IF (o.wallet = None /\ o.collect = "off") \/ (Issued(c.code) /\ ~account.payeeTrusts)
    THEN "gift" ELSE IF Preflight(account, c) THEN "pay" ELSE "wait"

\* What the network takes of an account.
Accepted(account, c, operations) ==
    /\ account.exists /\ account.payee
    /\ IF Issued(c.code)
       THEN /\ account.balance >= c.amount /\ account.payeeTrusts
            /\ account.xlm >= Required(account, operations)
       ELSE account.xlm >= Required(account, operations) + c.amount

-----------------------------------------------------------------------------
Accounts(amount) ==
    [exists : BOOLEAN, payee : BOOLEAN, payeeTrusts : BOOLEAN,
     balance : {amount - 1, amount}, xlm : 4 .. 8, subentries : {0, 1}]

Unseen == [exists |-> FALSE, payee |-> FALSE, payeeTrusts |-> FALSE,
           balance |-> 0, xlm |-> 0, subentries |-> 0]
NoCheckout == [amount |-> 1, percent |-> 0, code |-> None, creator |-> Creator, sendMax |-> 0]
Unsigned == [memo |-> FALSE, ops |-> <<>>]

Init ==
    /\ stage = "asked"
    /\ offer \in [price : Quotes \cup {0, None}, code : {"USDC", "EURC", "XLM", "other"},
                  wallet : {None, Creator, Platform}, collect : {"off", "unset", "on"},
                  percent : Percents, sendMax : {0}]
    /\ checkout = NoCheckout /\ signed = Unsigned /\ holder = Unseen

\* getQuote: the cheapest path and the slippage asked for; only items priced in USDC.
GetQuote ==
    /\ stage = "asked" /\ offer.sendMax = 0
    /\ Priced(offer) /\ offer.code = "USDC"
    /\ \E cost \in SendMaxes, asked \in {None, 10000} :
           offer' = [offer EXCEPT !.sendMax = ApplySlippage(cost, SlippageBps(asked))]
    /\ UNCHANGED <<stage, checkout, signed, holder>>

Checkout(sendMax) ==
    [amount |-> offer.price, percent |-> Percent(offer), code |-> offer.code,
     creator |-> Destination(offer), sendMax |-> sendMax]

\* initializePayment without a payable item.
Refuse ==
    /\ stage = "asked"
    /\ ~(Resolved(offer) /\ Priced(offer) /\ Supported(offer.code))
    /\ stage' = "refused"
    /\ UNCHANGED <<offer, checkout, signed, holder>>

\* initializePayment in the item's own currency: a payment that would bounce is not built.
InitializeDirect ==
    /\ stage = "asked"
    /\ Resolved(offer) /\ Priced(offer) /\ Supported(offer.code)
    /\ \E account \in Accounts(offer.price) :
           IF Preflight(account, Checkout(0))
           THEN /\ stage' = "built" /\ checkout' = Checkout(0) /\ holder' = account
                /\ signed' = [memo |-> TRUE, ops |-> Built(Checkout(0))]
           ELSE stage' = "refused" /\ UNCHANGED <<checkout, holder, signed>>
    /\ UNCHANGED offer

\* initializePayment with a sendMax, the quote's or one of the client's.
InitializePath ==
    /\ stage = "asked" /\ offer.code = "USDC"
    /\ Resolved(offer) /\ Priced(offer)
    /\ \E max \in IF offer.sendMax = 0 THEN SendMaxes ELSE {offer.sendMax} :
           IF CreatorSendMax(Checkout(max)) > 0
           THEN /\ stage' = "built" /\ checkout' = Checkout(max)
                /\ signed' = [memo |-> TRUE, ops |-> Built(Checkout(max))]
           ELSE stage' = "refused" /\ UNCHANGED <<checkout, signed>>
    /\ UNCHANGED <<offer, holder>>

\* createDonationIntent: a positive amount of at most seven decimals, in USDC, to the
\* fund's wallet; no preflight and no fee.
InitializeDonation ==
    /\ stage = "asked" /\ Priced(offer) /\ offer.code = "USDC"
    /\ offer.wallet = Platform /\ offer.sendMax = 0 /\ offer.collect # "unset"
    /\ LET donation == [Checkout(0) EXCEPT !.percent = 0]
       IN  checkout' = donation /\ signed' = [memo |-> TRUE, ops |-> Built(donation)]
    /\ stage' = "built"
    /\ UNCHANGED <<offer, holder>>

\* The wallet signs what it was given, follows the link, or signs one or two payments of
\* its choice.
Sign ==
    /\ stage = "built"
    /\ LET amounts == {Shares(checkout)[i].amount : i \in DOMAIN Shares(checkout)}
           ops(codes) == [kind : {"payment"}, to : {Creator, Platform},
                          amount : amounts \cup {checkout.amount}, code : codes]
       IN  signed' \in {signed, [signed EXCEPT !.memo = FALSE],
                          [memo |-> TRUE, ops |-> Link(checkout)]} \cup
               [memo : {TRUE}, ops : [1 .. 1 -> ops({checkout.code, "USDC"})]
                                     \cup [1 .. 2 -> ops({checkout.code})]]
    /\ stage' = "signed" /\ holder' = Unseen
    /\ UNCHANGED <<offer, checkout>>

\* validateSignedPaymentXdr: the memo, and for every share a payment operation of that
\* amount of USDC, whatever the row's currency.
Validated(c) ==
    /\ signed.memo
    /\ \A i \in DOMAIN Shares(c) : \E j \in DOMAIN signed.ops :
           signed.ops[j] = Operation("payment", Shares(c)[i], "USDC")

SubmitPayment ==
    /\ stage = "signed"
    /\ stage' = IF Validated(checkout) THEN "landed" ELSE "rejected"
    /\ UNCHANGED <<offer, checkout, signed, holder>>

\* validateInnerTransaction: a sponsored transaction is, operation for operation, the
\* payments of the row in its currency; another leaves the row pending.
Whitelisted(c) == signed.memo /\ signed.ops = DirectOperations(c)

SubmitSponsored ==
    /\ stage = "signed"
    /\ stage' = IF Whitelisted(checkout) THEN "landed" ELSE "built"
    /\ UNCHANGED <<offer, checkout, signed, holder>>

\* verifyPaymentOperations: for every share an operation that delivers it in the row's
\* currency.
Matches(c) ==
    \A i \in DOMAIN Shares(c) : \E j \in DOMAIN signed.ops :
        \E kind \in {"payment", "path"} : signed.ops[j] = Operation(kind, Shares(c)[i], c.code)

Verify ==
    /\ stage = "landed"
    /\ stage' = IF Matches(checkout) THEN "verified" ELSE "rejected"
    /\ UNCHANGED <<offer, checkout, signed, holder>>

\* buildReversePaymentTransaction: the price, of the row's currency, back to the buyer.
BuildReverse ==
    /\ stage = "verified" /\ Supported(checkout.code)
    /\ stage' = "reversed"
    /\ holder' = [Unseen EXCEPT !.balance = checkout.amount]
    /\ UNCHANGED <<offer, checkout, signed>>

Next ==
    \/ GetQuote \/ Refuse \/ InitializeDirect \/ InitializePath \/ InitializeDonation
    \/ Sign \/ SubmitPayment \/ SubmitSponsored \/ Verify \/ BuildReverse

Spec == Init /\ [][Next]_amountVars

-----------------------------------------------------------------------------
\* toStroops, fromStroops: an amount survives being written as a string.
RoundTrips == ToStroops(FromStroops(checkout.amount)) = checkout.amount

Total(amounts) == FoldLeft(LAMBDA n, amount : n + amount, 0, amounts)

\* calculateFeeSplit: the shares are positive and add up to the amount.
SplitExact ==
    /\ \A i \in DOMAIN Shares(checkout) : Shares(checkout)[i].amount > 0
    /\ Total([i \in DOMAIN Shares(checkout) |-> Shares(checkout)[i].amount]) = checkout.amount

\* buildPathPaymentTransaction: a transaction has as many operations as its row
\* expects payments, whatever the sender's maximum rounds to.
PathComplete == stage = "built" => Len(Built(checkout)) = Len(Shares(checkout))

\* getQuote: the margin is never negative and never more than five percent.
SlippageBounded ==
    offer.sendMax > 0 => \E cost \in SendMaxes :
        cost <= offer.sendMax /\ offer.sendMax * 10000 <= cost * 10500

\* verifyPaymentOperations: what is verified has paid each wallet all the row
\* expects for it, although one operation could match two expected payments; it
\* cannot, because the fee's cap keeps the two shares apart.
Received(wallet, operations) ==
    Total([i \in DOMAIN operations |->
              IF operations[i].to = wallet /\ operations[i].code = checkout.code
              THEN operations[i].amount ELSE 0])

VerifiedIsPaid ==
    stage \in {"verified", "reversed"} =>
        /\ \A w \in {Creator, Platform} :
               Received(w, signed.ops) >= Received(w, DirectOperations(checkout))
        /\ stage = "reversed" =>
               holder.balance <= Received(Creator, signed.ops) + Received(Platform, signed.ops)

\* preflightPayment: a payment of an issued asset that is built after a preflight is one
\* the network takes, and its buyer was not told to send a gift.
PreflightSound ==
    stage = "built" /\ holder # Unseen /\ Issued(checkout.code) =>
        /\ Accepted(holder, checkout, Len(signed.ops))
        /\ Advice(offer, holder, checkout) = "pay"

\* validateSignedPaymentXdr: the direct payment the server built in USDC passes when the
\* wallet signs it as it is.
Rejected(c) == stage = "rejected" /\ signed.memo /\ signed.ops = Built(c)

BuiltIsAccepted == Rejected(checkout) => checkout.code # "USDC" \/ checkout.sendMax > 0

AmountsSound ==
    /\ RoundTrips /\ SplitExact /\ PathComplete /\ SlippageBounded
    /\ VerifiedIsPaid /\ PreflightSound /\ BuiltIsAccepted

\* Not kept, see README:
\* the same of native XLM
PreflightNative ==
    stage = "built" /\ holder # Unseen => Accepted(holder, checkout, Len(signed.ops))
\* a wallet that follows the SEP-7 link pays what the row expects
LinkIsExpected ==
    stage = "built" /\ checkout.sendMax = 0 => Link(checkout) = DirectOperations(checkout)
=============================================================================
