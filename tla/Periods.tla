-------------------------------- MODULE Periods --------------------------------
(***************************************************************************)
(* Words for days and periods, resolved by backend/ledger_core/periods.py. *)
(*                                                                         *)
(* A day is a number, and day 0 is a Monday.  A period is the inclusive    *)
(* range [from, to]; Beginning is the open start of the ledger.            *)
(***************************************************************************)
EXTENDS Integers, FiniteSetsExt

CONSTANTS
    MonthStarts,  \* the first days of the months, past the last day used included
    Beginning     \* from = None

Weekday(d) == d % 7
WeekMonday(d) == d - Weekday(d)

Keywords == {"since_last", "this_week", "last_week", "today", "yesterday", "this_month", "explicit"}

FirstOfMonth(d) == Max({m \in MonthStarts : m <= d})
LastOfMonth(d) == Min({m \in MonthStarts : m > d}) - 1

\* Mutant of SinceLast: the day of the settlement is in the next period too.
SinceLastDay(today, last) == [from |-> last, to |-> today]

\* The days after the last settlement, or the whole ledger.
SinceLast(today, last) ==
    [from |-> IF last = Beginning THEN Beginning ELSE last + 1, to |-> today]

Week(monday) == [from |-> monday, to |-> monday + 6]

\* resolve_period for a keyword; explicit is for dates given without one.
ResolvePeriod(keyword, today, last) ==
    CASE keyword = "this_week"  -> Week(WeekMonday(today))
      [] keyword = "last_week"  -> Week(WeekMonday(today) - 7)
      [] keyword = "today"      -> [from |-> today, to |-> today]
      [] keyword = "yesterday"  -> [from |-> today - 1, to |-> today - 1]
      [] keyword = "this_month" -> [from |-> FirstOfMonth(today), to |-> LastOfMonth(today)]
      [] OTHER                  -> SinceLast(today, last)

In(d, period) == d <= period.to /\ (period.from = Beginning \/ d >= period.from)
=============================================================================
