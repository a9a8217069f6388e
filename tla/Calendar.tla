------------------------------- MODULE Calendar -------------------------------
(***************************************************************************)
(* Dates and months as app/services/monthly_capacity_report.py computes    *)
(* with them.  A date is <<year, month, day>>, a month <<year, month>>     *)
(* (the code's "YYYY-MM" keys and its dates of a first day); both end with *)
(* the year 9999, as Python's do.                                          *)
(***************************************************************************)
EXTENDS Integers

LastYear == 9999

Months == (1..LastYear) \X (1..12)

IsLeap(y) == y % 4 = 0 /\ (y % 100 # 0 \/ y % 400 = 0)

\* calendar.monthrange
LastDay(m) ==
  CASE m[2] = 2              -> IF IsLeap(m[1]) THEN 29 ELSE 28
    [] m[2] \in {4, 6, 9, 11} -> 30
    [] OTHER                 -> 31

IsDate(d) == /\ <<d[1], d[2]>> \in Months
             /\ d[3] \in 1..LastDay(<<d[1], d[2]>>)

MonthOf(d) == <<d[1], d[2]>>

OnOrBefore(d, e) ==
  \/ d[1] < e[1]
  \/ d[1] = e[1] /\ d[2] < e[2]
  \/ d[1] = e[1] /\ d[2] = e[2] /\ d[3] <= e[3]

Within(d, first, last) == OnOrBefore(first, d) /\ OnOrBefore(d, last)

\* The months since the month before January of the year 0.
Absolute(m) == 12 * m[1] + m[2] - 1

\* _add_months; the constructor of date rejects years after the last.
AddMonths(m, k) == <<(Absolute(m) + k) \div 12, ((Absolute(m) + k) % 12) + 1>>

\* A slip: no year is a leap year.
LastOfCommon(m) == <<m[1], m[2], IF m[2] = 2 THEN 28 ELSE LastDay(m)>>

\* _month_window
FirstOf(m) == <<m[1], m[2], 1>>
LastOf(m)  == <<m[1], m[2], LastDay(m)>>

\* The months of a report, and the dates between which it loads.
Window(anchor, n)    == [k \in 1..n |-> AddMonths(anchor, k - 1)]
InWindow(d, anchor, n) ==
  Within(d, FirstOf(anchor), LastOf(AddMonths(anchor, n - 1)))
===============================================================================
