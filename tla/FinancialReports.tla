-------------------------- MODULE FinancialReports --------------------------
(***************************************************************************)
(* What is told about the money: the reports of reportsService.js, the      *)
(* statistics of TransactionRepository, RefundRepository, analyticsService  *)
(* and revenue-service, and the exports of exportService.js.                *)
(*                                                                         *)
(* A report asks the database one question after the other, and payments    *)
(* are confirmed and refunded between them.  The answer to an aggregation is *)
(* kept as the set of documents it counted: their amounts and types never    *)
(* change.  A day is the smallest time; `Shape` is what a transaction was    *)
(* created as.                                                             *)
(***************************************************************************)
EXTENDS Integers, SequencesExt

CONSTANTS
    Docs,             \* transactions
    Shape,            \* of each: type, itemType, currency, settlement, amount, fee, sponsored,
                      \* buyer, creator and title
    Users,
    MonthDays,        \* the length of each month
    Start, Finish,    \* the days of a behaviour
    Asked,            \* reports: period, year and number, 0 when not given
    MonthsCompared,   \* the months query of a comparison
    LinesPerPage,     \* of a PDF page (68 in the code)
    CellWidth,        \* of a column of it
    None

VARIABLES
    date,       \* the current day
    tx,         \* Transaction documents: status, createdAt, confirmedAt
                \* and the confirmedAt a request has set and not saved yet, 0 when none
    entry,      \* the day of the sale's LedgerEntry, 0 before
    refundDoc,  \* Refund documents: status, createdAt
    reading,    \* the report that is being generated
    moved       \* documents written since it began

reportVars == <<date, tx, entry, refundDoc, reading, moved>>

Statuses == {"pending", "submitted", "retrying", "confirmed", "failed", "expired",
             "refunded", "disputed"}

-----------------------------------------------------------------------------
(* The calendar: months are counted from year 0, as Date normalises them *)

DaysBefore ==
    [k \in 0 .. 48 |-> (k \div 12) * SumFunction(MonthDays)
                        + SumFunctionOnSet(MonthDays, 1 .. (k % 12))]
MonthOf(day) == CHOOSE k \in 0 .. 47 : day \in DaysBefore[k] + 1 .. DaysBefore[k + 1]

\* Mutant: the period ends at midnight before its last day.
MutSpanOf(first, months) ==
    [from |-> DaysBefore[first] + 1, to |-> DaysBefore[first + months] - 1]

\* From the first of a month to the end of the last day of another.
SpanOf(first, months) ==
    [from |-> DaysBefore[first] + 1, to |-> DaysBefore[first + months]]

\* year and number are 0 when they are not given.
PeriodDates(period, year, number, now) ==
    LET month == MonthOf(now) % 12
        january == 12 * (IF year = 0 THEN MonthOf(now) \div 12 ELSE year)
        quarter == IF number = 0 THEN month \div 3 + 1 ELSE number
    IN CASE period = "monthly" ->
              SpanOf(january + (IF number = 0 THEN month ELSE number - 1), 1)
         [] period = "quarterly" -> SpanOf(january + 3 * (quarter - 1), 3)
         [] period = "yearly" -> SpanOf(january, 12)

\* Mutant: the first quarter is compared with the last of its own year.
MutPrevious(period, now) ==
    LET before == MonthOf(now) - 1
        quarter == (MonthOf(now) % 12) \div 3 + 1
    IN CASE period = "monthly" -> PeriodDates(period, before \div 12, (before % 12) + 1, now)
         [] period = "quarterly" ->
              PeriodDates(period, 0, IF quarter = 1 THEN 4 ELSE quarter - 1, now)
         [] period = "yearly" -> PeriodDates(period, 0, 0, now)

\* What getReportSummary compares the current period with; a year with itself.
Previous(period, now) ==
    LET before == MonthOf(now) - 1
        quarter == (MonthOf(now) % 12) \div 3 + 1
        year == MonthOf(now) \div 12
    IN CASE period = "monthly" -> PeriodDates(period, before \div 12, (before % 12) + 1, now)
         [] period = "quarterly" ->
              PeriodDates(period, IF quarter = 1 THEN year - 1 ELSE year,
                          IF quarter = 1 THEN 4 ELSE quarter - 1, now)
         [] period = "yearly" -> PeriodDates(period, 0, 0, now)

\* generateMonthlyComparison: the month i before the month of now.
MonthBack(i, now) ==
    LET month == MonthOf(now) - i
    IN PeriodDates("monthly", month \div 12, (month % 12) + 1, now)

-----------------------------------------------------------------------------
(* The questions of a report *)

Days(span) == span.from .. span.to

Confirmed(span) == {d \in Docs : tx[d].status = "confirmed" /\ tx[d].confirmed \in Days(span)}

\* Mutant: donations are items as well.
MutPurchased(span) == Confirmed(span)

Purchased(span) == {d \in Confirmed(span) : Shape[d].type = "purchase"}

WithFee(span) == {d \in Confirmed(span) : Shape[d].fee # None}

Sponsored(span) == {d \in Confirmed(span) : Shape[d].sponsored}

RefundsOf(span) ==
    {d \in Docs : refundDoc[d].status # "none" /\ refundDoc[d].created \in Days(span)}

RefundsPaid(span) == {d \in RefundsOf(span) : refundDoc[d].status = "confirmed"}

Sales(span) == {d \in Docs : entry[d] \in Days(span)}

Ask(question, span) ==
    CASE question \in {"type", "currency", "settlement"} -> Confirmed(span)
      [] question = "itemType" -> Purchased(span)
      [] question = "fees" -> WithFee(span)
      [] question = "sponsored" -> Sponsored(span)
      [] question = "refunds" -> RefundsOf(span)
      [] question = "refunded" -> RefundsPaid(span)
      [] question \in {"sales", "educators"} -> Sales(span)

\* aggregateRevenue, aggregateRefunds and aggregatePayouts ask side by side, each one
\* question at a time.  A report is followed through two of the questions of one of them.
Pairs == {<<"type", q>> : q \in {"itemType", "fees", "sponsored", "currency", "settlement"}}
         \cup {<<"refunds", "refunded">>, <<"sales", "educators">>}

\* The documents the second question is about, of those that the first one counted.
Asks(question, d) ==
    CASE question = "itemType" -> Shape[d].type = "purchase"
      [] question = "fees" -> Shape[d].fee # None
      [] question = "sponsored" -> Shape[d].sponsored
      [] question = "refunded" -> refundDoc[d].status = "confirmed"
      [] question \in {"currency", "settlement", "educators"} -> TRUE

-----------------------------------------------------------------------------
(* Groups, sums and statistics *)

Volume(set) == MapThenSumSet(LAMBDA d : Shape[d].amount, set)

Groups(set, Key(_)) == [k \in {Key(d) : d \in set} |-> {d \in set : Key(d) = k}]

Type(d) == Shape[d].type
ItemType(d) == Shape[d].itemType
Currency(d) == Shape[d].currency
Settlement(d) == Shape[d].settlement
Seller(d) == Shape[d].creator
ConfirmedOn(d) == tx[d].confirmed
CreatedOn(d) == tx[d].created
Status(d) == tx[d].status

Volumes(groups) == SumFunction([k \in DOMAIN groups |-> Volume(groups[k])])
Counts(groups) == SumFunction([k \in DOMAIN groups |-> Cardinality(groups[k])])

\* What the creator and the platform get of a transaction.
\* Mutant: nothing without a fee split.
MutNet(d) == IF Shape[d].fee = None THEN 0 ELSE Shape[d].amount - Shape[d].fee

Net(d) == IF Shape[d].fee = None THEN Shape[d].amount ELSE Shape[d].amount - Shape[d].fee

Fees(set) == MapThenSumSet(LAMBDA d : Shape[d].fee, {d \in set : Shape[d].fee # None})

Metrics(revenue, refunded) ==
    LET of(type) == {d \in revenue : Shape[d].type = type} IN
    [gross     |-> Volume(of("purchase")) + Volume(of("donation")),
     net       |-> Volume(of("purchase")) + Volume(of("donation")) - Volume(refunded),
     purchases |-> Cardinality(of("purchase")),
     donations |-> Cardinality(of("donation")),
     fees      |-> Fees(revenue),
     creators  |-> MapThenSumSet(Net, {d \in revenue : Shape[d].fee # None})]

DailyRevenue(span) == Groups(Confirmed(span), ConfirmedOn)

\* Mutant: the comparison is not turned round before the trend is taken.
MutTrend(months) == [latest |-> months[Len(months)], before |-> months[Len(months) - 1]]

\* calculateTrend is given what reports.reverse() left: the month reported on first is
\* the last.
Trend(months) ==
    LET reports == Reverse(months)
    IN [latest |-> reports[Len(reports)], before |-> reports[Len(reports) - 1]]

CreatorEarnings(user, span) ==
    Groups({d \in Confirmed(span) : Shape[d].creator = user}, ItemType)

-----------------------------------------------------------------------------
(* TransactionRepository, RefundRepository, analyticsService, revenue-service *)

FindByUser(user, with) == {d \in Docs : Shape[d].buyer = user /\ tx[d].status \in with}
FindByCreator(user, with) == {d \in Docs : Shape[d].creator = user /\ tx[d].status \in with}
FindByStatus(with, types) == {d \in Docs : tx[d].status \in with /\ Shape[d].type \in types}
FindByItem(itemType, with) ==
    {d \in Docs : Shape[d].itemType = itemType /\ tx[d].status \in with}
FindPending == {d \in Docs : tx[d].status \in {"pending", "submitted", "retrying"}}
FindFailed(since) == {d \in Docs : tx[d].status = "failed" /\ tx[d].created >= since}

\* Mutant: the last day is left out.
MutFindByDateRange(span, with) ==
    {d \in Docs : tx[d].created \in span.from .. span.to - 1 /\ tx[d].status \in with}

FindByDateRange(span, with) ==
    {d \in Docs : tx[d].created \in Days(span) /\ tx[d].status \in with}

VolumeStats(span, with) == Volume(FindByDateRange(span, with))
VolumeByCurrency(span, with) == Groups(FindByDateRange(span, with), Currency)
VolumeByType(span, with) == Groups(FindByDateRange(span, with), Type)
DailyVolume(span, with) == Groups(FindByDateRange(span, with), CreatedOn)
CountByStatus(span) == Groups(FindByDateRange(span, Statuses), Status)

\* analyticsService.
BuildMatchStage(span, with) ==
    {d \in Docs : tx[d].status \in with /\ span.from <= tx[d].created /\ tx[d].created <= span.to}
SummaryAnalytics(span, with) == Groups(BuildMatchStage(span, with), Currency)
TimeSeriesAnalytics(span, with) ==
    Groups(BuildMatchStage(span, with), LAMBDA d : <<MonthOf(CreatedOn(d)), Currency(d)>>)

\* getEducatorRevenueAnalytics: what its list of items, its series and its totals count.
EducatorSales(user, span) ==
    {d \in FindByCreator(user, {"confirmed"}) :
       Shape[d].type = "purchase" /\ tx[d].created \in Days(span)}
EducatorItems(user, span) == Groups(EducatorSales(user, span), ItemType)
EducatorSeries(user, span) ==
    Groups(EducatorSales(user, span), LAMBDA d : MonthOf(CreatedOn(d)))

RefundStatus(d) == refundDoc[d].status
RefundStatistics(span) == Groups(RefundsOf(span), RefundStatus)
RefundsByItemType(span) ==
    Groups(RefundsOf(span), LAMBDA d : <<Shape[d].itemType, RefundStatus(d)>>)
FindActiveRefunds == {d \in Docs : RefundStatus(d) \in {"requested", "approved", "submitted"}}
FindRefundsByStatus(with) == {d \in Docs : RefundStatus(d) \in with}

\* _applyOptions: the page of a list.
PageOf(list, page, limit) ==
    LET skip == ((IF page < 1 THEN 1 ELSE page) - 1) * limit
    IN SubSeq(list, skip + 1, IF skip + limit < Len(list) THEN skip + limit ELSE Len(list))

-----------------------------------------------------------------------------
(* exportService: a text is a sequence of characters; "a" stands for any that is
   not special, "nl" for a line break, "quote" for a double quote *)

\* parseFilters: the span and the statuses, or None; fetchUserTransactions, newest first.
ParseFilters(span, with) ==
    IF span.from > span.to \/ ~(with \subseteq Statuses) THEN None
    ELSE [span |-> span, with |-> with]

FetchUserTransactions(user, filters) ==
    SetToSortSeq({d \in FindByDateRange(filters.span, filters.with) :
                    user \in {Shape[d].buyer, Shape[d].creator}},
                 LAMBDA d, e : tx[d].created > tx[e].created)

ExportDirection(user, d) == IF Shape[d].buyer = user THEN "outgoing" ELSE "incoming"

ComputeSummary(rows) ==
    LET set == ToSet(rows)
        confirmed == {d \in set : tx[d].status = "confirmed"}
    IN [count |-> Len(rows), byStatus |-> Groups(set, Status),
        confirmedByCurrency |-> Groups(confirmed, Currency),
        totalByCurrency |-> Groups(set, Currency)]

Special == {",", "quote", "nl"}
Doubled(text) ==
    FlattenSeq([i \in DOMAIN text |->
                  IF text[i] = "quote" THEN <<"quote", "quote">> ELSE <<text[i]>>])
Guarded(text) == IF text # <<>> /\ text[1] = "=" THEN <<"apostrophe">> \o text ELSE text

\* Mutant: a quote inside a quoted cell is not doubled.
MutCsvEscape(text) ==
    IF ToSet(Guarded(text)) \cap Special = {} THEN Guarded(text)
    ELSE <<"quote">> \o Guarded(text) \o <<"quote">>

CsvEscape(text) ==
    IF ToSet(Guarded(text)) \cap Special = {} THEN Guarded(text)
    ELSE <<"quote">> \o Doubled(Guarded(text)) \o <<"quote">>

Row(user, d) == <<Shape[d].title, <<tx[d].status>>, <<ExportDirection(user, d)>>>>

Joined(parts, separator) ==
    FoldLeft(LAMBDA acc, part : IF acc = None THEN part ELSE acc \o <<separator>> \o part,
             None, parts)

BuildCsv(user, rows) ==
    Joined([i \in DOMAIN rows |->
              Joined([j \in 1 .. 3 |-> CsvEscape(Row(user, rows[i])[j])], ",")], "nl")

\* fitCell and pdfEscape.
FitCell(text, width) ==
    LET line == [i \in DOMAIN text |-> IF text[i] = "nl" THEN " " ELSE text[i]]
    IN [i \in 1 .. width |-> CASE Len(line) > width /\ i = width -> "~"
                               [] i > Len(line) -> " "
                               [] OTHER -> line[i]]

PdfEscape(text) ==
    FlattenSeq([i \in DOMAIN text |->
                  IF text[i] \in {"(", ")", "backslash"} THEN <<"backslash", text[i]>>
                  ELSE <<text[i]>>])

ReportLines(user, rows) ==
    [i \in DOMAIN rows |-> PdfEscape(FitCell(Shape[rows[i]].title, CellWidth))]
      \o <<<<"SUMMARY">>>>

\* renderPdf: the objects of a document by number.
RenderPdf(lines) ==
    LET pages == (Len(lines) + LinesPerPage - 1) \div LinesPerPage
        page(p) == PageOf(lines, p + 1, LinesPerPage)
    IN [n \in 1 .. 3 + 2 * pages |->
          CASE n = 1 -> [kind |-> "catalog", refs |-> {2}]
            [] n = 2 -> [kind |-> "pages", refs |-> {4 + 2 * p : p \in 0 .. pages - 1}]
            [] n = 3 -> [kind |-> "font", refs |-> {}]
            [] n > 3 /\ n % 2 = 0 -> [kind |-> "page", refs |-> {3, n + 1}]
            [] n > 3 /\ n % 2 = 1 -> [kind |-> "content", text |-> page((n - 5) \div 2)]]

-----------------------------------------------------------------------------
(* Payments and refunds *)

NoReport == [kind |-> "none", now |-> 0, pair |-> None, spans |-> <<>>, seen |-> <<>>]

Init ==
    /\ date = Start
    /\ tx = [d \in Docs |-> [status |-> "none", created |-> 0, confirmed |-> 0]]
    /\ entry = [d \in Docs |-> 0]
    /\ refundDoc = [d \in Docs |-> [status |-> "none", created |-> 0]]
    /\ reading = NoReport
    /\ moved = {}

Wrote(d) == moved' = IF reading = NoReport THEN {} ELSE moved \cup {d}

NextDay == /\ date < Finish
           /\ date' = date + 1
           /\ UNCHANGED <<tx, entry, refundDoc, reading, moved>>

Create(d) ==
    /\ tx[d].status = "none"
    /\ tx' = [tx EXCEPT ![d] = [status |-> "pending", created |-> date, confirmed |-> 0]]
    /\ Wrote(d)
    /\ UNCHANGED <<date, entry, refundDoc, reading>>

\* confirmedAt is taken before the document is saved: that may be the day before.
Confirm(d, day) ==
    /\ tx[d].status = "pending" /\ day >= tx[d].created
    /\ tx' = [tx EXCEPT ![d].status = "confirmed", ![d].confirmed = day]
    /\ Wrote(d)
    /\ UNCHANGED <<date, entry, refundDoc, reading>>

Fail(d) ==
    /\ tx[d].status = "pending"
    /\ tx' = [tx EXCEPT ![d].status = "failed"]
    /\ Wrote(d)
    /\ UNCHANGED <<date, entry, refundDoc, reading>>

RecordSale(d) ==
    /\ tx[d].status = "confirmed" /\ Shape[d].type = "purchase" /\ entry[d] = 0
    /\ entry' = [entry EXCEPT ![d] = date]
    /\ Wrote(d)
    /\ UNCHANGED <<date, tx, refundDoc, reading>>

RequestRefund(d) ==
    /\ tx[d].status = "confirmed" /\ Shape[d].type = "purchase" /\ refundDoc[d].status = "none"
    /\ refundDoc' = [refundDoc EXCEPT ![d] = [status |-> "requested", created |-> date]]
    /\ Wrote(d)
    /\ UNCHANGED <<date, tx, entry, reading>>

\* The refund is confirmed, and then its transaction is marked.
ConfirmRefund(d) ==
    /\ refundDoc[d].status = "requested"
    /\ refundDoc' = [refundDoc EXCEPT ![d].status = "confirmed"]
    /\ Wrote(d)
    /\ UNCHANGED <<date, tx, entry, reading>>

MarkRefunded(d) ==
    /\ refundDoc[d].status = "confirmed" /\ tx[d].status = "confirmed"
    /\ tx' = [tx EXCEPT ![d].status = "refunded"]
    /\ Wrote(d)
    /\ UNCHANGED <<date, entry, refundDoc, reading>>

-----------------------------------------------------------------------------
(* Reports *)

Valid(ask) ==
    /\ ask.period = "monthly" => ask.number \in 0 .. 12
    /\ ask.period = "quarterly" => ask.number \in 0 .. 4
    /\ ask.period = "yearly" => ask.number = 0

\* generateFinancialReport, for one report, a summary (two) or a comparison.
Open(kind, pair, span) ==
    /\ reading = NoReport
    /\ reading' = [kind |-> kind, now |-> IF kind = "comparison" THEN date ELSE 0,
                   pair |-> pair, spans |-> <<span>>, seen |-> <<>>]
    /\ moved' = {}
    /\ UNCHANGED <<date, tx, entry, refundDoc>>

GetFinancialReport(ask, pair) ==
    Valid(ask) /\ Open("report", pair, PeriodDates(ask.period, ask.year, ask.number, date))

GetReportSummary(period) == Open(period, <<"type", "fees">>, PeriodDates(period, 0, 0, date))

GetMonthlyComparison == Open("comparison", <<"type", "sponsored">>, MonthBack(0, date))

Answered == Len(reading.seen) = 2

AskNext ==
    /\ reading # NoReport /\ ~Answered
    /\ LET question == reading.pair[Len(reading.seen) + 1] IN
       reading' = [reading EXCEPT !.seen = Append(@, Ask(question, Last(reading.spans)))]
    /\ UNCHANGED <<date, tx, entry, refundDoc, moved>>

OnTo(span) ==
    /\ reading' = [reading EXCEPT !.spans = Append(@, span), !.seen = <<>>]
    /\ moved' = {}
    /\ UNCHANGED <<date, tx, entry, refundDoc>>

\* getReportSummary takes a date of its own for its second report.
NextReport ==
    /\ Answered /\ Len(reading.spans) = 1
    /\ reading.kind \in {"monthly", "quarterly", "yearly"}
    /\ OnTo(Previous(reading.kind, date))

\* Mutant: each month is counted back from the date it is asked on.
MutNextMonth ==
    /\ Answered /\ Len(reading.spans) < MonthsCompared
    /\ reading.kind = "comparison"
    /\ OnTo(MonthBack(Len(reading.spans), date))

\* A comparison keeps the date it began with.
NextMonth ==
    /\ Answered /\ Len(reading.spans) < MonthsCompared
    /\ reading.kind = "comparison"
    /\ OnTo(MonthBack(Len(reading.spans), reading.now))

ReportsMade == CASE reading.kind = "report" -> 1
                 [] reading.kind = "comparison" -> MonthsCompared
                 [] OTHER -> 2

Answer ==
    /\ Answered /\ Len(reading.spans) = ReportsMade
    /\ reading' = NoReport
    /\ moved' = {}
    /\ UNCHANGED <<date, tx, entry, refundDoc>>

Next ==
    \/ NextDay
    \/ \E d \in Docs : \/ Create(d) \/ Confirm(d, date - 1) \/ Confirm(d, date) \/ Fail(d)
                       \/ RecordSale(d) \/ RequestRefund(d) \/ ConfirmRefund(d)
                       \/ MarkRefunded(d)
    \/ \E ask \in Asked, pair \in Pairs : GetFinancialReport(ask, pair)
    \/ \E period \in {"monthly", "quarterly", "yearly"} : GetReportSummary(period)
    \/ GetMonthlyComparison
    \/ AskNext \/ NextReport \/ NextMonth \/ Answer

-----------------------------------------------------------------------------
(* Properties *)

Years == MonthOf(Start) \div 12 .. MonthOf(Finish) \div 12
Today == {PeriodDates(p, 0, 0, date) : p \in {"monthly", "quarterly", "yearly"}}

\* The months of a year, and its quarters, cover every day of it once; the default period
\* contains the day it is asked on, and the month or quarter compared with ends the day
\* before it.
PeriodsTile ==
    /\ \A y \in Years, p \in {<<"monthly", 12>>, <<"quarterly", 4>>} :
         LET year == PeriodDates("yearly", y, 0, Start)
             part == [n \in 1 .. p[2] |-> PeriodDates(p[1], y, n, Start)]
         IN /\ part[1].from = year.from /\ part[p[2]].to = year.to
            /\ \A n \in 2 .. p[2] : part[n].from = part[n - 1].to + 1
    /\ \A now \in Start .. Finish, p \in {"monthly", "quarterly"} :
         /\ now \in Days(PeriodDates(p, 0, 0, now))
         /\ Previous(p, now).to + 1 = PeriodDates(p, 0, 0, now).from

\* A document nobody wrote while the report was being made is counted by both questions or
\* by neither, each time as its type, fee or status says.
QuestionsAgree ==
    Answered =>
       {d \in reading.seen[1] \ moved : Asks(reading.pair[2], d)} = reading.seen[2] \ moved

\* The months of a comparison follow one another back from the month it began in, however
\* long it takes, and the trend compares the latest two.
ComparisonInOrder ==
    reading.kind = "comparison" =>
       /\ reading.now \in Days(reading.spans[1])
       /\ \A i \in 2 .. Len(reading.spans) : reading.spans[i].to + 1 = reading.spans[i - 1].from
       /\ Len(reading.spans) >= 2 =>
            Trend(reading.spans) = [latest |-> reading.spans[1], before |-> reading.spans[2]]

\* Whatever an amount is broken down by, the parts add up to the whole.
PartsAddUp ==
    \A span \in Today :
       LET confirmed == Confirmed(span)
           metrics == Metrics(confirmed, RefundsPaid(span))
       IN /\ metrics.gross = Volume(confirmed)
          /\ metrics.purchases + metrics.donations = Cardinality(confirmed)
          /\ metrics.fees + metrics.creators = Volume(WithFee(span))
          /\ Volumes(DailyRevenue(span)) = metrics.gross
          /\ MapThenSumSet(LAMBDA u : SumFunction([k \in DOMAIN CreatorEarnings(u, span) |->
                               MapThenSumSet(Net, CreatorEarnings(u, span)[k])]),
                           {Seller(d) : d \in confirmed}) + metrics.fees = metrics.gross
          /\ {Volumes(VolumeByCurrency(span, {"confirmed"})),
              Volumes(VolumeByType(span, {"confirmed"})), Volumes(DailyVolume(span, {"confirmed"})),
               Volumes(SummaryAnalytics(span, {"confirmed"})),
              Volumes(TimeSeriesAnalytics(span, {"confirmed"}))} = {VolumeStats(span, {"confirmed"})}
          /\ \A u \in Users : Volumes(EducatorItems(u, span)) = Volumes(EducatorSeries(u, span))
          /\ Counts(CountByStatus(span)) = Cardinality(FindByDateRange(span, Statuses))
          /\ Counts(RefundStatistics(span)) = Counts(RefundsByItemType(span))

\* A payment is listed under its buyer, its creator, its item and its status, and is work
\* for the reconciler exactly until it is settled.
FindersAgree ==
    \A d \in Docs : tx[d].status # "none" =>
       LET with == {tx[d].status} IN
       /\ d \in FindByUser(Shape[d].buyer, with) \cap FindByCreator(Shape[d].creator, with)
       /\ d \in FindByStatus(with, {Shape[d].type}) \cap FindByItem(Shape[d].itemType, with)
       /\ d \in FindPending <=> tx[d].status = "pending"
       /\ d \in FindFailed(Start) <=> tx[d].status = "failed"
       /\ d \in FindActiveRefunds => d \in FindRefundsByStatus({"requested"})

\* Reading a quoted or bare cell back, as RFC 4180 has it.
ReadCsv(text) ==
    LET step(r, c) ==
          CASE r.mode = "quoted" /\ c = "quote" -> [r EXCEPT !.mode = "quote"]
            [] r.mode = "quoted" -> [r EXCEPT !.cell = Append(@, c)]
            [] r.mode = "quote" /\ c = "quote" ->
                 [r EXCEPT !.mode = "quoted", !.cell = Append(@, c)]
            [] c = "," -> [r EXCEPT !.row = Append(@, r.cell), !.cell = <<>>, !.mode = "start"]
            [] c = "nl" -> [r EXCEPT !.rows = Append(@, Append(r.row, r.cell)), !.row = <<>>,
                                     !.cell = <<>>, !.mode = "start"]
            [] r.mode = "start" /\ c = "quote" -> [r EXCEPT !.mode = "quoted"]
            [] OTHER -> [r EXCEPT !.cell = Append(@, c), !.mode = "bare"]
        end == FoldLeft(step, [rows |-> <<>>, row |-> <<>>, cell |-> <<>>, mode |-> "start"],
                        Append(text, "nl"))
    IN end.rows

\* An export lists each payment of a user once, newest first; its totals are those of the
\* rows; a reader of the CSV gets back the rows, with formulas disarmed; the PDF shows
\* every line, each page has its own content, and no object is missing.
ExportsReadBack ==
    \A user \in Users :
       LET filters == ParseFilters([from |-> Start, to |-> date], Statuses)
           rows == FetchUserTransactions(user, filters)
           summary == ComputeSummary(rows)
           lines == ReportLines(user, rows)
           pdf == RenderPdf(lines)
           pages == SetToSortSeq(pdf[2].refs, LAMBDA m, n : m < n)
       IN /\ ToSet(rows) = FindByUser(user, Statuses) \cup FindByCreator(user, Statuses)
          /\ Counts(summary.byStatus) = summary.count
          /\ Volumes(summary.confirmedByCurrency) <= Volumes(summary.totalByCurrency)
          /\ rows # <<>> =>
               ReadCsv(BuildCsv(user, rows)) =
                 [i \in DOMAIN rows |-> [j \in 1 .. 3 |-> Guarded(Row(user, rows[i])[j])]]
          /\ FlattenSeq([p \in DOMAIN pages |->
                           pdf[CHOOSE n \in pdf[pages[p]].refs : n # 3].text]) = lines
          /\ UNION {pdf[n].refs : n \in {m \in DOMAIN pdf : pdf[m].kind # "content"}}
               = DOMAIN pdf \ {1}

\* The last four are about the documents alone: they are looked at with no report open.
ReportsTrue ==
    /\ QuestionsAgree
    /\ ComparisonInOrder
    /\ reading = NoReport => PeriodsTile /\ PartsAddUp /\ FindersAgree /\ ExportsReadBack
=============================================================================
