----------------------------- MODULE TrendStats -----------------------------
(***************************************************************************)
(* The views of the daily classification statistics: the trend of a rule,  *)
(* of a classification and of all of them, what each rule contributes to   *)
(* the current period, and the overview of the rules over a window.        *)
(*                                                                         *)
(* The rows are those the daily task stores: on a day it ran, one per rule *)
(* that was active then and owner (instance or AD domain) with accounts,   *)
(* matched or not, and one per classification and owner.  A filter by      *)
(* database type, instance or account scope is the set of owners it keeps. *)
(* An average is a sum with the days it is divided by.                     *)
(***************************************************************************)
EXTENDS PeriodCalendar, Sequences

CONSTANTS StatRules, StatOwners, Classes,
          TrendPeriods,     \* bound: the periods a view asks for
          ClassOf(_),       \* the classification of a rule
          ActiveOn(_),      \* the rules the run of a date stored rows for
          ActiveClass(_),   \* whether a classification is active
          Matched(_, _, _), \* the accounts of an owner a rule matched on a date
          CollectedOn(_),     \* the size rows of a date
          AggregatedOn(_, _)  \* the aggregations of a type whose period begins on a date

RulesOf(c) == {r \in StatRules : ClassOf(r) = c}

\* The accounts each row counted, row by row.
MatchTable == [r \in StatRules |-> [o \in StatOwners |-> [n \in 0 .. LastDate + 100 |-> Matched(r, o, n)]]]

\* Day by day, from one date to another.
SumBetween(daily, start, end) ==
  LET from[n \in start .. end + 1] ==
        IF n > end THEN 0 ELSE (IF n \in DOMAIN daily THEN daily[n] ELSE 0) + from[n + 1]
  IN  from[start]

StatDays(rules, start, end) == {n \in start .. end : ActiveOn(n) \intersect rules # {}}

----------------------------------------------------------------------------
(* AccountClassificationDailyStatsReadRepository                           *)

_apply_rule_scope_filter(account_scope, instance_id, everyone) ==
  IF account_scope # {} THEN account_scope
  ELSE IF instance_id # {} THEN instance_id ELSE everyone

matched_accounts_count(r, n, owners) ==
  MapThenSumSet(LAMBDA o : Cardinality(MatchTable[r][o][n]), owners)

matched_accounts_distinct_count(c, n, owners) ==
  MapThenSumSet(LAMBDA o : Cardinality(UNION {MatchTable[r][o][n] : r \in RulesOf(c) \intersect ActiveOn(n)}), owners)

fetch_rule_daily_totals(r, start, end, owners) ==
  [n \in StatDays({r}, start, end) |-> matched_accounts_count(r, n, owners)]

fetch_classification_daily_totals(c, start, end, owners) ==
  [n \in StatDays(RulesOf(c), start, end) |-> matched_accounts_distinct_count(c, n, owners)]

fetch_all_classifications_daily_totals(start, end, owners) ==
  [c \in {d \in Classes : StatDays(RulesOf(d), start, end) # {}} |->
     fetch_classification_daily_totals(c, start, end, owners)]

\* Only rules with a row in the range have a total.
fetch_rule_totals_by_rule_id(c, start, end, owners) ==
  [r \in {q \in RulesOf(c) : StatDays({q}, start, end) # {}} |->
     SumBetween(fetch_rule_daily_totals(r, start, end, owners), start, end)]

fetch_rule_coverage_days_by_rule_id(r, start, end) == Cardinality(StatDays({r}, start, end))
fetch_rule_stat_dates(c, start, end) == StatDays(RulesOf(c), start, end)

----------------------------------------------------------------------------
(* AccountClassificationDailyStatsReadService                              *)

_normalize_periods(n) == IF n < 1 THEN 1 ELSE IF n > 365 THEN 365 ELSE n

\* The current period and those before it, the oldest first; below they are
\* the buckets of a view, and now is the current one.
_build_period_buckets(p, raw) ==
  LET periods == _normalize_periods(raw)
      back[i \in 0 .. periods - 1] ==
        IF i = 0 THEN get_current_period(p, today)
        ELSE get_previous_period(p, back[i - 1][1], back[i - 1][2])
  IN  [i \in 1 .. periods |-> back[periods - i]]

FirstOf(buckets) == buckets[1][1]
LastOf(buckets)  == buckets[Len(buckets)][2]

\* Mutant of _rollup_to_buckets: the last day of a period is left out.
_rollup_to_open_buckets(buckets, daily) ==
  [i \in 1 .. Len(buckets) |->
     LET days == {n \in DOMAIN daily : buckets[i][1] <= n /\ n < buckets[i][2]}
     IN  [value_sum     |-> SumBetween(daily, buckets[i][1], buckets[i][2] - 1),
          coverage_days |-> Cardinality(days),
          expected_days |-> buckets[i][2] - buckets[i][1] + 1]]

_rollup_to_buckets(buckets, daily) ==
  [i \in 1 .. Len(buckets) |->
     LET days == {n \in DOMAIN daily : buckets[i][1] <= n /\ n <= buckets[i][2]}
     IN  [value_sum     |-> SumBetween(daily, buckets[i][1], buckets[i][2]),
          coverage_days |-> Cardinality(days),
          expected_days |-> buckets[i][2] - buckets[i][1] + 1]]

get_rule_trend(r, buckets, owners) ==
  _rollup_to_buckets(buckets, fetch_rule_daily_totals(r, FirstOf(buckets), LastOf(buckets), owners))

get_classification_trend(c, buckets, owners) ==
  _rollup_to_buckets(buckets, fetch_classification_daily_totals(c, FirstOf(buckets), LastOf(buckets), owners))

\* A classification without rows has a series of empty points.
get_all_classifications_trends(buckets, owners) ==
  LET totals == fetch_all_classifications_daily_totals(FirstOf(buckets), LastOf(buckets), owners)
  IN  [c \in {d \in Classes : ActiveClass(d)} |->
         _rollup_to_buckets(buckets, IF c \in DOMAIN totals THEN totals[c] ELSE <<>>)]

\* Every rule of the current period; all are divided by the days on which
\* any rule of the classification was counted.
Contributions(c, now, owners) ==
  LET totals == fetch_rule_totals_by_rule_id(c, now[1], now[2], owners)
  IN  [r \in DOMAIN totals |->
         [value_sum     |-> totals[r],
          coverage_days |-> Cardinality(fetch_rule_stat_dates(c, now[1], now[2]))]]

\* The rules shown are limit of those with the largest sums.
get_rule_contributions(all, limit) ==
      { shown \in SUBSET DOMAIN all :
          /\ Cardinality(shown) = IF Cardinality(DOMAIN all) < limit THEN Cardinality(DOMAIN all) ELSE limit
          /\ \A r \in shown : \A q \in DOMAIN all \ shown : all[q].value_sum <= all[r].value_sum }

\* Every rule of the classification, counted or not; each is divided by the
\* days on which it was counted itself.
list_rules_overview(c, buckets, now, owners) ==
  LET totals == fetch_rule_totals_by_rule_id(c, FirstOf(buckets), LastOf(buckets), owners)
      latest == fetch_rule_totals_by_rule_id(c, now[1], now[2], owners)
  IN  [r \in RulesOf(c) |->
         [window_value_sum     |-> IF r \in DOMAIN totals THEN totals[r] ELSE 0,
          latest_value_sum     |-> IF r \in DOMAIN latest THEN latest[r] ELSE 0,
          latest_coverage_days |-> fetch_rule_coverage_days_by_rule_id(r, now[1], now[2])]]

----------------------------------------------------------------------------
(* PartitionReadService.build_core_metrics: the numbers of rows, in a      *)
(* calendar of its own                                                     *)

QuarterStart(n) == Date(Year(MonthIndex(n)), ((MonthOf(MonthIndex(n)) - 1) \div 3) * 3 + 1, 1)
_add_months(n, m) == FirstDay(MonthIndex(n) + m)

\* The begin of the first and of the last period, and the last day counted
_resolve_period_window(p, periods) ==
  LET week    == today - weekday(today)
      month   == FirstDay(MonthIndex(today))
      quarter == QuarterStart(today)
  IN  CASE p = "daily"     -> [start |-> today - (periods - 1), last |-> today, stats_end |-> today]
        [] p = "weekly"    -> [start |-> week - 7 * (periods - 1), last |-> week, stats_end |-> week + 6]
        [] p = "monthly"   -> [start |-> _add_months(month, 1 - periods), last |-> month, stats_end |-> _add_months(month, 1) - 1]
        [] p = "quarterly" -> [start |-> _add_months(quarter, 3 - 3 * periods), last |-> quarter,
                               stats_end |-> _add_months(quarter, 3) - 1]

\* The begin of the period a date is counted in
KeyDate(p, n) ==
  CASE p = "daily" -> n [] p = "weekly" -> n - weekday(n)
    [] p = "monthly" -> FirstDay(MonthIndex(n)) [] p = "quarterly" -> QuarterStart(n)

\* fetch_core_metric_counts: only dates with rows are in a map
CollectedIn(window)     == [n \in {d \in window.start .. window.stats_end : CollectedOn(d) > 0} |-> CollectedOn(n)]
AggregatedIn(p, window) == [n \in {d \in window.start .. window.last : AggregatedOn(p, d) > 0} |-> AggregatedOn(p, n)]

\* _rollup_period_metrics: a period's rows are divided by its days with rows
\* of either kind.
_rollup_period_metrics(p, window) ==
  LET stats == CollectedIn(window)
      aggs  == AggregatedIn(p, window)
      days  == DOMAIN stats \union DOMAIN aggs
      of(k) == {n \in days : KeyDate(p, n) = k}
  IN  [k \in {KeyDate(p, n) : n \in days} |->
         [rows         |-> MapThenSumSet(LAMBDA n : stats[n], of(k) \intersect DOMAIN stats),
          days         |-> Cardinality(of(k)),
          aggregations |-> MapThenSumSet(LAMBDA n : aggs[n], of(k) \intersect DOMAIN aggs)]]

\* _compose_chart_payload: a point per period, labelled with its last day
_compose_chart_payload(p, periods, window) ==
  LET metrics == _rollup_period_metrics(p, window)
      step(n) == CASE p = "daily" -> n + 1 [] p = "weekly" -> n + 7
                   [] p = "monthly" -> _add_months(n, 1) [] p = "quarterly" -> _add_months(n, 3)
      cursor[i \in 1 .. periods] == IF i = 1 THEN window.start ELSE step(cursor[i - 1])
      empty   == [rows |-> 0, days |-> 0, aggregations |-> 0]
  IN  [i \in 1 .. periods |->
         [start |-> cursor[i], label |-> step(cursor[i]) - 1,
          point |-> IF cursor[i] \in DOMAIN metrics THEN metrics[cursor[i]] ELSE empty]]

----------------------------------------------------------------------------
(* Properties                                                              *)

SumOf(points)    == MapThenSumSet(LAMBDA i : points[i].value_sum, DOMAIN points)
NewestOf(points) == points[Len(points)]

\* The views agree on a rule: its trend's points add up to the overview's sum
\* of the window (of quarters they may miss days, never count one twice), its
\* newest point is the latest sum of the overview and of the contributions,
\* and the average the contributions show is never above the overview's, the
\* days of the classification being at least those of the rule.
RuleViewsAgree(p, buckets, now, owners, trend) ==
  \A c \in Classes :
    LET overview == list_rules_overview(c, buckets, now, owners)
        shares   == Contributions(c, now, owners)
    IN  \A r \in RulesOf(c) :
          LET newest == NewestOf(trend[r])
          IN  /\ SumOf(trend[r]) <= overview[r].window_value_sum
              /\ p # "quarterly" => SumOf(trend[r]) = overview[r].window_value_sum
              /\ newest.value_sum = overview[r].latest_value_sum
              /\ newest.coverage_days = overview[r].latest_coverage_days
              /\ (r \in DOMAIN shares) = (newest.coverage_days > 0)
              /\ r \in DOMAIN shares =>
                   /\ shares[r].value_sum = overview[r].latest_value_sum
                   /\ shares[r].coverage_days >= overview[r].latest_coverage_days

\* A classification counts no account more often than its rules together, and
\* at least as many as any one of them; the view of all classifications has
\* the trend of each.
ClassificationViewsAgree(buckets, owners, trend) ==
  LET all == get_all_classifications_trends(buckets, owners)
  IN  \A c \in Classes :
        LET points == get_classification_trend(c, buckets, owners)
        IN  /\ ActiveClass(c) => all[c] = points
            /\ \A i \in DOMAIN points :
                 /\ points[i].coverage_days <= points[i].expected_days
                 /\ points[i].value_sum <= MapThenSumSet(LAMBDA r : trend[r][i].value_sum, RulesOf(c))
                 /\ \A r \in RulesOf(c) : trend[r][i].value_sum <= points[i].value_sum

\* The rules a limit leaves out of all contributions contribute no more than those shown.
LargestAreShown(all) ==
  DOMAIN all # {} =>
    \E shown \in get_rule_contributions(all, 1) :
      \A r \in shown, q \in DOMAIN all : all[q].value_sum <= all[r].value_sum

\* The chart of the partitions page covers the periods of the calendar, up
\* to the current one, and shows every row and every aggregation of them once.
ChartCovers(p, buckets, window, chart) ==
  /\ \A i \in DOMAIN chart : /\ chart[i].start = buckets[i][1]
                              /\ <<chart[i].start, chart[i].label>> = get_current_period(p, chart[i].label)
  /\ chart[TrendPeriods].start = window.last /\ chart[TrendPeriods].label = window.stats_end
  /\ MapThenSumSet(LAMBDA i : chart[i].point.rows, DOMAIN chart) =
        SumBetween(CollectedIn(window), window.start, window.stats_end)
  /\ MapThenSumSet(LAMBDA i : chart[i].point.aggregations, DOMAIN chart) =
        SumBetween(AggregatedIn(p, window), window.start, window.last)
ChartCoversPeriods(p, buckets, window) ==
  ChartCovers(p, buckets, window, _compose_chart_payload(p, TrendPeriods, window))

\* An average is over the days something was collected on; it is not: the
\* day an aggregated period begins on counts although nothing was collected.
AverageIsOfCollectedDays(p) ==
  LET window  == _resolve_period_window(p, TrendPeriods)
      metrics == _rollup_period_metrics(p, window)
  IN  \A k \in DOMAIN metrics :
        metrics[k].days = Cardinality({n \in DOMAIN CollectedIn(window) : KeyDate(p, n) = k})

\* All views of the statistics tell the same numbers on every day, and the
\* owners' trends add up to the trend without a filter.
OwnersAddUp(trend) ==
  \A r \in StatRules : \A i \in DOMAIN trend[{}][r] :
    trend[{}][r][i].value_sum = MapThenSumSet(LAMBDA o : trend[{o}][r][i].value_sum, StatOwners)

ViewsAgree(p, buckets, now, owners) ==
  /\ \A scope \in DOMAIN owners :
       LET trend == [r \in StatRules |-> get_rule_trend(r, buckets, owners[scope])]
       IN  /\ RuleViewsAgree(p, buckets, now, owners[scope], trend)
           /\ ClassificationViewsAgree(buckets, owners[scope], trend)
  /\ OwnersAddUp([scope \in DOMAIN owners |->
                     [r \in StatRules |-> get_rule_trend(r, buckets, owners[scope])]])
  /\ \A c \in Classes : LargestAreShown(Contributions(c, now, StatOwners))

TrendsAddUp ==
  LET scopes == {{}} \union {{o} : o \in StatOwners}
      owners == [scope \in scopes |-> _apply_rule_scope_filter(scope, {}, StatOwners)]
  IN  \A p \in PeriodTypes :
        /\ ViewsAgree(p, _build_period_buckets(p, TrendPeriods), get_current_period(p, today), owners)
        /\ ChartCoversPeriods(p, _build_period_buckets(p, TrendPeriods), _resolve_period_window(p, TrendPeriods))
=============================================================================
