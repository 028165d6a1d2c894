--------------------------- MODULE PeriodCalendar ---------------------------
(***************************************************************************)
(* The calendar of the capacity data: the last, the current and the        *)
(* previous day, week, month and quarter an aggregate or a comparison is   *)
(* made of, and the months whose partitions exist.                         *)
(*                                                                         *)
(* A date is a number of days and a month is a number of months, so that   *)
(* timedelta is addition and replace(day=1) is the first day of a month.   *)
(***************************************************************************)
EXTENDS Integers, FiniteSets, FiniteSetsExt

CONSTANTS BaseYear,    \* the year that begins on date 0
          BaseWeekday, \* weekday() of date 0; Monday is 0
          FirstDate, LastDate,  \* the dates of a behaviour
          Retentions,  \* the retention_months a clean-up may be given
          Ahead        \* bound: months ahead a partition is created for

\* The dates are counted from a year before all those that are computed (a
\* timedelta that leads out of the calendar is an error).
ASSUME CalendarAssumption == /\ BaseYear \in Nat /\ BaseWeekday \in 0 .. 6
                             /\ LastDate \in Nat /\ FirstDate \in 367 .. LastDate
                             /\ Retentions \subseteq Nat \ {0} /\ Ahead \in Nat
                             /\ \A r \in Retentions : 31 * r < FirstDate

VARIABLES today,     \* the date in China
          utc,       \* the date in UTC, the same or the day before
          partitions \* the months the four tables have partitions for

calendarVars == <<today, utc, partitions>>

----------------------------------------------------------------------------
(* Dates                                                                   *)

Leap(y) == y % 4 = 0 /\ (y % 100 # 0 \/ y % 400 = 0)

\* monthrange
MonthDays(y, m) == IF m = 2 THEN (IF Leap(y) THEN 29 ELSE 28)
                   ELSE IF m \in {4, 6, 9, 11} THEN 30 ELSE 31

Index(y, m)   == (y - BaseYear) * 12 + m - 1
Year(k)       == BaseYear + k \div 12
MonthOf(k)    == (k % 12) + 1
LengthOf(k)   == MonthDays(Year(k), MonthOf(k))

\* The days before a year and, in it, before a month.
YearStart(y)  == 365 * y + (y - 1) \div 4 - (y - 1) \div 100 + (y - 1) \div 400
MonthStart    == <<0, 31, 59, 90, 120, 151, 181, 212, 243, 273, 304, 334>>
LeapDay(y, m) == IF m > 2 /\ Leap(y) THEN 1 ELSE 0

FirstDay(k)   == YearStart(Year(k)) - YearStart(BaseYear) + MonthStart[MonthOf(k)] + LeapDay(Year(k), MonthOf(k))
Date(y, m, d) == FirstDay(Index(y, m)) + d - 1

\* The month a date lies in.
MonthIndex(n) == CHOOSE k \in n \div 31 .. n \div 28 : FirstDay(k) <= n /\ n < FirstDay(k) + LengthOf(k)
weekday(n) == (n + BaseWeekday) % 7

----------------------------------------------------------------------------
(* PeriodCalculator: a period is its first and its last date               *)

PeriodTypes == {"daily", "weekly", "monthly", "quarterly"}

Quarter(k) == (MonthOf(k) - 1) \div 3 + 1

get_current_period(p, n) ==
  LET k == MonthIndex(n)
      y == Year(k)
      q == ((MonthOf(k) - 1) \div 3) * 3 + 1
  IN  CASE p = "daily"     -> <<n, n>>
        [] p = "weekly"    -> <<n - weekday(n), n - weekday(n) + 6>>
        [] p = "monthly"   -> <<Date(y, MonthOf(k), 1), Date(y, MonthOf(k), LengthOf(k))>>
        [] p = "quarterly" -> <<Date(y, q, 1), Date(y, q + 2, MonthDays(y, q + 2))>>

get_last_period_same_week(p, n) ==
  IF p = "weekly" THEN <<n - 7, n - 1>> ELSE get_current_period(p, get_current_period(p, n)[1] - 1)

get_last_period(p, n) ==
  LET k == MonthIndex(n)
      y == Year(k)
      m == MonthOf(k)
      q == (Quarter(k) - 2) * 3 + 1
  IN  CASE p = "daily"   -> <<n - 1, n - 1>>
        [] p = "weekly"  -> LET start == n - (weekday(n) + 7) IN <<start, start + 6>>
        [] p = "monthly" ->
             IF m = 1 THEN <<Date(y - 1, 12, 1), Date(y - 1, 12, 31)>>
             ELSE <<Date(y, m - 1, 1), Date(y, m - 1, MonthDays(y, m - 1))>>
        [] p = "quarterly" ->
             IF Quarter(k) = 1 THEN <<Date(y - 1, 10, 1), Date(y - 1, 12, 31)>>
             ELSE <<Date(y, q, 1), Date(y, q + 2, MonthDays(y, q + 2))>>

\* The period an aggregate's growth is measured against.
get_previous_period(p, start, end) ==
  LET k == MonthIndex(start)
      y == Year(k)
      m == MonthOf(k)
      q == (Quarter(k) - 2) * 3 + 1
  IN  CASE p = "daily" /\ start = end -> <<start - 1, start - 1>>
        [] (p = "daily" /\ start # end) \/ p = "weekly" -> <<start - 1 - (end - start), start - 1>>
        [] p = "monthly" ->
             IF m = 1 THEN <<Date(y - 1, 12, 1), Date(y - 1, 12, 31)>>
             ELSE <<Date(y, m - 1, 1), Date(y, m, 1) - 1>>
        [] p = "quarterly" ->
             IF Quarter(k) = 1 THEN <<Date(y - 1, 10, 1), Date(y - 1, 12, 31)>>
             ELSE <<Date(y, q, 1), Date(y, q + 2, 1) - 1>>

----------------------------------------------------------------------------
(* Partitions                                                              *)

CalendarInit == /\ today = FirstDate /\ utc = today
                /\ partitions = {MonthIndex(today)}

\* Midnight comes to China first.
Midnight    == today < LastDate /\ utc = today /\ today' = today + 1 /\ UNCHANGED <<utc, partitions>>
UtcMidnight == utc < today /\ utc' = today /\ UNCHANGED <<today, partitions>>

\* The payload's date must not lie before the current month.
create_partition ==
  /\ \E k \in MonthIndex(today) .. MonthIndex(today) + Ahead :
       k \notin partitions /\ partitions' = partitions \union {k}
  /\ UNCHANGED <<today, utc>>

cutoff_30(r) == MonthIndex(utc - 30 * r)

\* The month of the cut-off date; UTC's date is the one used.
cutoff(r) == MonthIndex(utc - 31 * r)

cleanup(r) == { k \in partitions : k >= cutoff(r) }

cleanup_old_partitions ==
  /\ \E r \in Retentions : partitions' = cleanup(r) /\ partitions' # partitions
  /\ UNCHANGED <<today, utc>>

\* _get_partition_status: by UTC's month
partition_status(k) ==
  CASE k = MonthIndex(utc) -> "current" [] k < MonthIndex(utc) -> "past" [] OTHER -> "future"

\* _resolve_missing_partitions: UTC's month and the next one have to exist;
\* only one of the four tables is looked at, they share the months.
missing_partitions == {MonthIndex(utc), MonthIndex(utc) + 1} \ partitions
partition_health   == IF missing_partitions = {} THEN "healthy" ELSE "warning"

PartitionTables == {"stats", "aggregations", "instance_stats", "instance_aggregations"}

\* get_partition_info: every month of every table
partition_info == PartitionTables \X partitions

\* list_partitions sorted by date; ties may come in any order, and a page
\* after the last is the last.
partition_rows(table, status) ==
  {row \in partition_info : (table # "" => row[1] = table) /\ (status # "" => partition_status(row[2]) = status)}
partition_page(table, status, page, limit) ==
  LET rows  == partition_rows(table, status)
      pages == IF rows = {} THEN 1 ELSE (Cardinality(rows) + limit - 1) \div limit
      nth   == IF page > pages THEN pages ELSE IF page < 1 THEN 1 ELSE page
      Before(row) == Cardinality({other \in rows : other[2] < row[2]})
  IN  [total |-> Cardinality(rows), pages |-> pages, page |-> nth,
       \* the rows that are on this page, or may be where its border falls into a month
       items |-> {row \in rows : /\ Before(row) < nth * limit
                                 /\ Before(row) + Cardinality({o \in rows : o[2] = row[2]}) > (nth - 1) * limit}]

CalendarNext == Midnight \/ UtcMidnight \/ create_partition \/ cleanup_old_partitions

CalendarSpec == CalendarInit /\ [][CalendarNext]_calendarVars

----------------------------------------------------------------------------
(* Properties                                                              *)

\* For every type, the current period of a date holds it, and the last one ends
\* on the day before it begins: no day is aggregated in two periods or in none,
\* across months, years and a leap day.
PeriodsAdjoin(n) ==
  \A p \in PeriodTypes :
    LET last == get_last_period(p, n)
        now  == get_current_period(p, n)
    IN  /\ now[1] <= n /\ n <= now[2]
        /\ last[1] <= last[2] /\ last[2] + 1 = now[1]
        /\ last = get_current_period(p, last[2])

Compares(p, n) ==
  LET now == get_current_period(p, n)
  IN  get_previous_period(p, now[1], now[2]) = get_last_period(p, n)

\* A day, week or month is compared with the whole day, week or month before
\* it (get_previous_period).
ComparedWithLast(n) == \A p \in {"daily", "weekly", "monthly"} : Compares(p, n)

\* Periods follow each other: they adjoin, and each is compared with the one
\* before.
RegularDates  == {n \in FirstDate .. LastDate : PeriodsAdjoin(n) /\ ComparedWithLast(n)}
PeriodsFollow == today \in RegularDates

\* "The range of the period before": a quarter is compared with the whole
\* quarter before it (get_previous_period).
QuarterComparedWithLast == Compares("quarterly", today)

\* A clean-up never drops a partition of the current month or of the
\* retention_months before it, and leaves at most one older one, and one more
\* for every 52 months, although it counts 31 days to the month and reads the
\* date in another time zone.
RetentionKept ==
  \A r \in Retentions :
    /\ \A k \in partitions : k >= MonthIndex(today) - r => k \in cleanup(r)
    /\ \A k \in cleanup(r) : k >= MonthIndex(today) - r - 1 - (r + 4) \div 52

\* What is told of the partitions can be relied on, although it is told by
\* UTC's date: "healthy" means that the rows of today, and of the day after
\* when the dates agree, have a partition; what is missing can be created
\* then; a clean-up takes only what is shown as past; the list's pages show
\* every partition.
PartitionsTold ==
  /\ partition_health = "healthy" => MonthIndex(today) \in partitions
  /\ partition_health = "healthy" /\ utc = today => MonthIndex(today + 1) \in partitions
  /\ utc = today => \A k \in missing_partitions : k >= MonthIndex(today)
  /\ \A r \in Retentions, k \in partitions : k \notin cleanup(r) => partition_status(k) = "past"
  /\ LET page(n) == partition_page("stats", "past", n, 2)
     IN  UNION {page(n).items : n \in 1 .. page(1).pages} = partition_rows("stats", "past")

\* Periods follow each other, a clean-up keeps the partitions it promises to
\* keep, and what is told of them is so.
CalendarHolds == PeriodsFollow /\ RetentionKept /\ PartitionsTold
=============================================================================
