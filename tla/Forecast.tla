------------------------------ MODULE Forecast ------------------------------
(***************************************************************************)
(* The data behind a sales forecast: SalesDataExtractionService turns the  *)
(* sales of one branch into one row a day, SalesFeatureEngineeringService  *)
(* turns rows into features, and AiIntelligenceService.salesForecast turns *)
(* rows into the request for the model.  The assistant's SalesTool reads   *)
(* the same sales for the days a question names.                           *)
(*                                                                         *)
(* Time is counted in half hours since midnight UTC of a Monday, and the   *)
(* clock of Colombo is eleven of them ahead.  Days are days of Colombo     *)
(* since that Monday, weekdays count from 0 (Monday) to 6 (Sunday), money  *)
(* is in cents.  Branches never mix (rows are grouped by branch before     *)
(* anything is computed), so the module follows one.                       *)
(***************************************************************************)
EXTENDS Integers, FiniteSets, FiniteSetsExt, Functions

CONSTANTS
    SaleTimes,      \* the half hours at which a sale may have been made
    Totals,         \* what a sale may come to
    DiscountRules,  \* the active rules: [from, to] in half hours
    Horizons,       \* the horizons asked for
    Now             \* the half hour at which somebody asks

ASSUME ForecastAssumption ==
    /\ Now \in Nat
    /\ SaleTimes \subseteq 0 .. Now
    /\ Totals \subseteq Nat
    /\ DiscountRules \subseteq [from : Nat, to : Nat]
    /\ Horizons \subseteq {1, 7, 14, 30}

VARIABLES
    sold,           \* the valid sales: the time of each to its total
    since,          \* the time from which the dataset was asked for
    days,           \* the rows buildDataset made, by day
    features,       \* the rows generateFeatures made of them, by day
    forecast,       \* the last request to the model, or why there is none
    answer            \* the last answer of SalesTool: its label and the total

forecastVars == <<sold, since, days, features, forecast, answer>>

-----------------------------------------------------------------------------
\* The clock.
HalfHours == 48
Ahead530 == 11
UtcDay(t) == t \div HalfHours
ColomboDay(t) == (t + Ahead530) \div HalfHours
Midnight(d) == d * HalfHours - Ahead530          \* T00:00:00+05:30
DayEnd(d) == Midnight(d + 1) - 1                 \* T23:59:59.999+05:30

Today == ColomboDay(Now)

\* new Date of a date without a time.
DateOnly(d) == d * HalfHours

\* getUTCDay of a Date, counted from Monday.
UtcWeekday(t) == UtcDay(t) % 7

-----------------------------------------------------------------------------
\* SalesDataExtractionService: aggregate by day, then fill the days between
\* the first sale and the last.  The weekday of a row is read with getUTCDay
\* from the midnight of Colombo.
RevenueOf(s, d) == SumFunctionOnSet(s, {t \in DOMAIN s : ColomboDay(t) = d})

Row(s, d) ==
    LET dayOfWeek == UtcWeekday(Midnight(d))
        traded == \E t \in DOMAIN s : ColomboDay(t) = d
    IN  [revenue |-> RevenueOf(s, d),
         weekday |-> dayOfWeek,
         weekend |-> dayOfWeek >= 5,
         operating |-> traded \/ dayOfWeek # 6]

Calendar(s) ==
    LET traded == {ColomboDay(t) : t \in DOMAIN s}
    IN  [d \in Min(traded) .. Max(traded) |-> Row(s, d)]

\* extractRawSales with a startDate, then the calendar of what it returned.
Dataset(s, start) ==
    LET recorded == [t \in {u \in DOMAIN s : u >= start} |-> s[t]]
    IN  IF DOMAIN recorded = {} THEN <<>> ELSE Calendar(recorded)

-----------------------------------------------------------------------------
\* SalesFeatureEngineeringService.  revenues is indexed from 0, the first
\* day; a feature the history is too short for is null (no amount is negative).
null == -1

RoundedQuotient(a, b) == (2 * a + b) \div (2 * b)

\* The days a trailing window of w days before day i holds; UpToToday would
\* hold day i itself.
UpToToday(i, w) == [first |-> i - w + 1, last |-> i]
Trailing(i, w) == [first |-> i - w, last |-> i - 1]

SumOver(amounts, window) == SumFunctionOnSet(amounts, window.first .. window.last)

Lag(revenues, i, w) == IF i >= w THEN revenues[i - w] ELSE null

TrailingMean(revenues, i, w) ==
    IF i < w THEN null ELSE RoundedQuotient(SumOver(revenues, Trailing(i, w)), w)

\* The sample variance; the code returns its square root.
TrailingVariance(revenues, i, w) ==
    IF i < w THEN null
    ELSE LET mean == TrailingMean(revenues, i, w)
             squares == [k \in DOMAIN revenues |-> (revenues[k] - mean) * (revenues[k] - mean)]
         IN  RoundedQuotient(SumOver(squares, Trailing(i, w)), w - 1)

\* The last seven days against the seven before, in ten thousandths.
WeeklyMomentum(revenues, i) ==
    IF i < 14 THEN null
    ELSE LET recent == SumOver(revenues, Trailing(i, 7))
             prior == SumOver(revenues, Trailing(i - 7, 7))
         IN  RoundedQuotient((recent + 100) * 10000, prior + 100)

ExpandingMean(revenues, i) ==
    IF i = 0 THEN null ELSE RoundedQuotient(SumOver(revenues, Trailing(i, i)), i)

FeaturesOf(revenues, i) ==
    [lags |-> [w \in {1, 7, 14, 28} |-> Lag(revenues, i, w)],
     means |-> [w \in {7, 14, 28} |-> TrailingMean(revenues, i, w)],
     variances |-> [w \in {7, 28} |-> TrailingVariance(revenues, i, w)],
     momentum |-> WeeklyMomentum(revenues, i),
     average |-> ExpandingMean(revenues, i),
     age |-> i,
     sufficient |-> i >= 28]

\* The revenues of the rows, counted from the first day.
Revenues(rows) ==
    LET first == Min(DOMAIN rows)
    IN  [i \in 0 .. Cardinality(DOMAIN rows) - 1 |-> rows[first + i].revenue]

-----------------------------------------------------------------------------
\* AiIntelligenceService.salesForecast: at most the last ninety rows, and one
\* point for each day after the last row.  A coming Sunday is open when a row
\* of weekday 6 sold something.
Recent(rows) ==
    LET last == Max(DOMAIN rows) IN {d \in DOMAIN rows : d > last - 90}

OperatesOnSunday(rows) ==
    \E d \in DOMAIN rows : rows[d].weekday = 6 /\ rows[d].revenue > 0

FuturePoint(rows, d) ==
    [day |-> d,
     operating |-> IF UtcWeekday(Midnight(d) + 24) = 6 THEN OperatesOnSunday(rows) ELSE TRUE,
     discounts |-> Cardinality({r \in DiscountRules :
                                    r.from <= DayEnd(d) /\ r.to >= Midnight(d)})]

FutureCalendar(rows, horizon) ==
    LET last == Max(DOMAIN rows)
    IN  [h \in 0 .. horizon - 1 |-> FuturePoint(rows, last + 1 + h)]

-----------------------------------------------------------------------------
\* The orchestrator's extractDateHints names days of Colombo, and
\* resolveDateRange makes times of them; without a hint the last thirty days.
Hints == {"today", "yesterday", "thisWeek", "none"}

DateRange(hint) ==
    CASE hint = "today" -> [start |-> DateOnly(Today), end |-> DateOnly(Today)]
      [] hint = "yesterday" -> [start |-> DateOnly(Today - 1), end |-> DateOnly(Today - 1)]
      [] hint = "thisWeek" -> [start |-> DateOnly(Today - 7), end |-> DateOnly(Today)]
      [] hint = "none" -> [start |-> Now - 30 * HalfHours, end |-> Now]

NothingTold == [hint |-> "none", first |-> 0, last |-> 0, total |-> 0]

-----------------------------------------------------------------------------
\* Sales are stored before anyone asks; a branch without any has no rows.  No
\* question leaves anything behind for the next.
ForecastInit ==
    /\ \E times \in SUBSET SaleTimes : sold \in [times -> Totals]
    /\ since = 0
    /\ days = <<>>
    /\ features = <<>>
    /\ forecast = [is |-> "none"]
    /\ answer = NothingTold

\* buildDataset over all the sales of the branch.
BuildDataset ==
    /\ since' = 0
    /\ days' = Dataset(sold, since')
    /\ features' = <<>>
    /\ forecast' = [is |-> "none"]
    /\ answer' = NothingTold
    /\ UNCHANGED sold

\* generateFeatures.
GenerateFeatures ==
    /\ days # <<>>
    /\ LET revenues == Revenues(days)
           first == Min(DOMAIN days)
       IN  features' = [d \in DOMAIN days |-> FeaturesOf(revenues, d - first)]
    /\ UNCHANGED <<sold, since, days, forecast, answer>>

\* salesForecast, which asks for the dataset of the last hundred days.
SalesForecast(horizon) ==
    /\ since' = Max({0, Midnight(Today - 100)})
    /\ days' = Dataset(sold, since')
    /\ features' = <<>>
    /\ forecast' =
           IF days' # <<>> /\ \E d \in Recent(days') : days'[d].revenue > 0
           THEN [is |-> "asked",
                 recent |-> Recent(days'),
                 future |-> FutureCalendar(days', horizon)]
           ELSE [is |-> "insufficient"]
    /\ answer' = NothingTold
    /\ UNCHANGED sold

\* SalesTool, operation summary: the total of the range, under its label.
TellSales(hint) ==
    /\ LET range == DateRange(hint)
       IN  answer' = [hint |-> hint,
                    first |-> ColomboDay(range.start),
                    last |-> ColomboDay(range.end),
                    total |-> SumFunctionOnSet(sold,
                                  {t \in DOMAIN sold : range.start <= t /\ t <= range.end})]
    /\ since' = 0
    /\ days' = <<>>
    /\ features' = <<>>
    /\ forecast' = [is |-> "none"]
    /\ UNCHANGED sold

ForecastNext ==
    \/ BuildDataset
    \/ GenerateFeatures
    \/ \E horizon \in Horizons : SalesForecast(horizon)
    \/ \E hint \in Hints : TellSales(hint)

ForecastSpec == ForecastInit /\ [][ForecastNext]_forecastVars

-----------------------------------------------------------------------------
ForecastTypeOK ==
    /\ DOMAIN sold \subseteq SaleTimes
    /\ \A d \in DOMAIN days : days[d].weekday \in 0 .. 6 /\ days[d].revenue \in Nat
    /\ features = <<>> \/ DOMAIN features = DOMAIN days

\* What goes to the model is what was sold: every sale asked for is in the
\* row of its day by the clock of Colombo and in no other, and the days to
\* forecast follow the last row without a gap (buildBranchDailyCalendar,
\* salesForecast).
DatasetIsComplete ==
    LET asked == {t \in DOMAIN sold : t >= since}
        Sum(times) == SumFunctionOnSet(sold, times)
    IN  /\ \A d \in DOMAIN days :
               days[d].revenue = Sum({t \in asked : t \in Midnight(d) .. DayEnd(d)})
        /\ days # <<>> =>
               SumFunction([d \in DOMAIN days |-> days[d].revenue]) = Sum(asked)
        /\ forecast.is = "asked" =>
               LET coming == {forecast.future[h].day : h \in DOMAIN forecast.future}
               IN  /\ Cardinality(forecast.recent) <= 90
                   /\ forecast.recent \cap coming = {}
                   /\ forecast.recent \cup coming = Min(forecast.recent) .. Max(coming)

\* The service's own guarantee of zero leakage (generateFeatures): the
\* features of a day are the same whatever was sold on that day and later,
\* and a feature whose window reaches before the first day is null.
NoLookAhead ==
    LET known == Revenues(days)
        first == Min(DOMAIN days)
    IN  \A d \in DOMAIN features :
        LET i == d - first
            other == [k \in DOMAIN known |-> IF k < i THEN known[k] ELSE known[k] + 777]
        IN  /\ FeaturesOf(other, i) = features[d]
            /\ \A w \in {7, 14, 28} : features[d].means[w] = null <=> i < w

\* A forecast rests on what was sold, all of it, and on nothing that is yet to
\* be sold.
ForecastsFromThePast == DatasetIsComplete /\ NoLookAhead

\* "Days of week and weekend indicators are properly computed in Colombo local
\* time" (sales-data-extraction.service.ts): the weekday of every row is the
\* weekday of its day in Colombo.
WeekdayInColombo ==
    \A d \in DOMAIN days : days[d].weekday = d % 7

\* The label under which SalesTool reports, "<first day> to <last day>"
\* (resolveDateRange): for a question about named days, the total is that of
\* all the sales of the days of the label.
LabelCoversSales ==
    answer.hint # "none" =>
        answer.total = SumFunctionOnSet(sold,
                         {t \in DOMAIN sold : ColomboDay(t) \in answer.first .. answer.last})
=============================================================================
