------------------------------- MODULE Calendar -------------------------------
(***************************************************************************)
(* The calendar arithmetic of the backend, day by day: the monthly cycle   *)
(* in which free boosts are counted, the ISO week that names a weekly mail,*)
(* the months of the chart of activations.  Source: products.service.ts,   *)
(* email.cron.ts, users.service.ts.                                        *)
(***************************************************************************)
EXTENDS Integers

CONSTANTS
  Anchors,    \* the days a plan may have started on
  NoAnchor,   \* a user without a planStartedAt
  FirstDay,
  LastDay     \* the days the clock walks through

VARIABLES anchor, today

vars == <<anchor, today>>

-----------------------------------------------------------------------------
(***************************************************************************)
(* Days are counted from 1 January 2020, a Wednesday.                      *)
(***************************************************************************)
Years == 2020..2032
Leap(y) == y % 4 = 0  \* there is no century year among them
YearStart(y) == 365 * (y - 2020) + (y - 2017) \div 4
DaysIn(y, m) == IF m = 2 THEN (IF Leap(y) THEN 29 ELSE 28)
                ELSE IF m \in {4, 6, 9, 11} THEN 30 ELSE 31
MonthStart(y, m) ==
  YearStart(y) + <<0, 31, 59, 90, 120, 151, 181, 212, 243, 273, 304, 334>>[m]
               + (IF m > 2 /\ Leap(y) THEN 1 ELSE 0)

YearOf(day) == CHOOSE y \in Years : YearStart(y) <= day /\ day < YearStart(y + 1)

Civil(day) ==
  LET y == YearOf(day)
      m == CHOOSE m \in 1..12 : MonthStart(y, m) <= day /\ day < MonthStart(y, m) + DaysIn(y, m)
  IN  [y |-> y, m |-> m, d |-> day - MonthStart(y, m) + 1]

Day(t) == MonthStart(t.y, t.m) + t.d - 1

-----------------------------------------------------------------------------
\* A day that the month does not have runs into the next one.
setUTCMonth(day, months) ==
  LET t == Civil(day)
      n == t.m - 1 + months
  IN  Day([y |-> t.y + n \div 12, m |-> (n % 12) + 1, d |-> t.d])

\* Mutant: the day is not clamped.
addUtcMonths_Overflow(day, months) == setUTCMonth(day, months)

addUtcMonths(day, months) ==
  LET t == Civil(day)
      n == t.m - 1 + months
      y == t.y + n \div 12
      m == (n % 12) + 1
  IN  Day([y |-> y, m |-> m, d |-> IF t.d <= DaysIn(y, m) THEN t.d ELSE DaysIn(y, m)])

\* A cycle starts where the one before ended, so once a short month has
\* clamped it, it keeps the earlier day.
currentBoostCycle(planStartedAt, now) ==
  LET start[i \in 0..36] == IF i = 0 THEN planStartedAt ELSE addUtcMonths(start[i - 1], 1)
      first == IF planStartedAt = NoAnchor \/ planStartedAt > now
               THEN Day([Civil(now) EXCEPT !.d = 1])
               ELSE start[CHOOSE i \in 0..35 : start[i] <= now /\ now < start[i + 1]]
  IN  [startsAt |-> first, endsAt |-> addUtcMonths(first, 1)]

\* 1 is Monday.
Weekday(day) == ((day + 2) % 7) + 1

isoWeekKey(day) ==
  LET target == day + 4 - Weekday(day)
      year == YearOf(target)
  IN  [year |-> year, week |-> (target - YearStart(year)) \div 7 + 1]

MonthKey(day) == [y |-> Civil(day).y, m |-> Civil(day).m]

\* The months a chart of activations has a bar for, and the day it begins.
chartMonths(now, monthsBack) ==
  LET first == Day([Civil(now) EXCEPT !.d = 1])
      since == setUTCMonth(first, 1 - monthsBack)
  IN  [since |-> since, keys |-> [i \in 1..monthsBack |->
         MonthKey(setUTCMonth(since, i - 1))]]

-----------------------------------------------------------------------------
TypeOK ==
  /\ anchor \in Anchors \cup {NoAnchor}
  /\ today \in FirstDay..LastDay

Init == anchor \in Anchors \cup {NoAnchor} /\ today = FirstDay

Tomorrow ==
  /\ today < LastDay
  /\ today' = today + 1
  /\ UNCHANGED anchor

Next == Tomorrow

Spec == Init /\ [][Next]_vars

-----------------------------------------------------------------------------
Following(k) == IF k.m = 12 THEN [y |-> k.y + 1, m |-> 1] ELSE [k EXCEPT !.m = @ + 1]

\* Every day is in one cycle of the boost quota: the cycle of today holds
\* today, and tomorrow is in it or in one that starts where it ends; so no
\* payment is counted twice or never.  And every calendar month begins one
\* cycle, short months included (currentBoostCycle).  The cycle changes
\* without that only once, when the plan starts.
CyclesTile ==
  LET c == currentBoostCycle(anchor, today)
      d == currentBoostCycle(anchor, today + 1)
  IN  /\ c.startsAt <= today /\ today < c.endsAt
      /\ c.endsAt - c.startsAt \in 28..31
      /\ today + 1 # anchor =>
           \/ d = c
           \/ d.startsAt = c.endsAt /\ MonthKey(d.startsAt) = Following(MonthKey(c.startsAt))

\* A weekly mail has one key per week, Monday to Sunday, across the turn of
\* the year too, and 4 January is in week 1 of its year (isoWeekKey).
WeekKeysFollow ==
  LET k == isoWeekKey(today)
      n == isoWeekKey(today + 1)
  IN  /\ IF Weekday(today) # 7 THEN n = k
         ELSE \/ n = [k EXCEPT !.week = @ + 1] /\ n.week <= 53
              \/ k.week >= 52 /\ n = [year |-> k.year + 1, week |-> 1]
      /\ today = Day([y |-> YearOf(today), m |-> 1, d |-> 4]) =>
           k = [year |-> YearOf(today), week |-> 1]

\* The chart of the last months has one bar a month without a gap, from the
\* month it begins with, on its first day, to this one: an activation it
\* reads falls into exactly one of them, on the 31st too (planStats).
ChartHasNoGaps ==
  \A n \in {1, 6, 12} :
    LET chart == chartMonths(today, n)
    IN  /\ Civil(chart.since).d = 1
        /\ chart.keys[1] = MonthKey(chart.since)
        /\ chart.keys[n] = MonthKey(today)
        /\ \A i \in 1..(n - 1) : chart.keys[i + 1] = Following(chart.keys[i])

=============================================================================
