------------------------------ MODULE Calendar ------------------------------
(***************************************************************************)
(* The slots of a recurrence template: advance_schedule of                 *)
(* app/services/task_recurrence.py, which goes from one slot to the next   *)
(* on the local clock of Lisbon.                                           *)
(*                                                                         *)
(* An instant is a number of hours, of the UTC clock or of the local one;  *)
(* 24 * n is the midnight at which the day with the ordinal n begins, and  *)
(* 1 is the ordinal of the first day of the year 1 (datetime.toordinal).   *)
(***************************************************************************)
EXTENDS Integers, Sequences

CONSTANTS
  Firsts,   \* first slots of templates, UTC
  Every,    \* values of the column interval
  Steps     \* bound on the slots in a row

ASSUME CalendarAssumption ==
  Firsts \subseteq Nat \ {0} /\ Every \subseteq Nat \ {0} /\ Steps \in Nat

-----------------------------------------------------------------------------
(* Dates.                                                                  *)

Leap(y) == y % 4 = 0 /\ (y % 100 # 0 \/ y % 400 = 0)

MonthDays(y, m) ==
  IF m = 2 THEN (IF Leap(y) THEN 29 ELSE 28) ELSE IF m \in {4, 6, 9, 11} THEN 30 ELSE 31

DaysBeforeYear(y) == 365 * (y - 1) + (y - 1) \div 4 - (y - 1) \div 100 + (y - 1) \div 400

DaysBeforeMonth(y, m) ==
  <<0, 31, 59, 90, 120, 151, 181, 212, 243, 273, 304, 334>>[m]
    + (IF m > 2 /\ Leap(y) THEN 1 ELSE 0)

Ordinal(y, m, d) == DaysBeforeYear(y) + DaysBeforeMonth(y, m) + d

Year(day) ==
  CHOOSE y \in ((day - 1) \div 366 + 1) .. (day \div 365 + 1) :
    day - DaysBeforeYear(y) \in 1 .. (IF Leap(y) THEN 366 ELSE 365)

Month(day) ==
  LET y == Year(day) IN
  CHOOSE m \in 1 .. 12 : day - Ordinal(y, m, 0) \in 1 .. MonthDays(y, m)

DayOfMonth(day) == day - Ordinal(Year(day), Month(day), 0)

-----------------------------------------------------------------------------
(* The clock of Lisbon: one hour ahead of UTC from 01:00 UTC of the last   *)
(* Sunday of March to 01:00 UTC of the last Sunday of October.             *)

(* The ordinals of Sundays are the multiples of 7.                         *)
LastSunday(y, m) == LET last == Ordinal(y, m, MonthDays(y, m)) IN last - (last % 7)

SpringChange(y) == 24 * LastSunday(y, 3) + 1
AutumnChange(y) == 24 * LastSunday(y, 10) + 1

Summer(utc) ==
  LET y == Year(utc \div 24) IN SpringChange(y) <= utc /\ utc < AutumnChange(y)

Local(utc) == IF Summer(utc) THEN utc + 1 ELSE utc

(* 1 in the second of the two hours that the local clock shows alike.      *)
Fold(utc) == IF utc = AutumnChange(Year(utc \div 24)) THEN 1 ELSE 0

(* A local hour that comes twice is the first one unless fold says so.  An *)
(* hour that the change in spring skips is read with the offset before it, *)
(* or with the one after it if fold is set.                                *)
ToUtc(local, fold) ==
  LET y == Year(local \div 24) IN
  IF local = AutumnChange(y) THEN (IF fold = 1 THEN local ELSE local - 1)
  ELSE IF local = SpringChange(y) THEN (IF fold = 1 THEN local - 1 ELSE local)
  ELSE IF SpringChange(y) < local /\ local < AutumnChange(y) THEN local - 1
  ELSE local

-----------------------------------------------------------------------------
(* advance_schedule.                                                       *)

Frequencies == {"daily", "weekly", "monthly"}

(* Adding a timedelta moves the local clock and forgets the fold.          *)
AdvanceDays(utc, days) == ToUtc(Local(utc) + 24 * days, 0)

Clamped(y, m, d) == IF d > MonthDays(y, m) THEN MonthDays(y, m) ELSE d

TargetYear(y, target) == y + target \div 12

(* Replacing year, month and day keeps hour and fold.                      *)
AdvanceMonths(utc, n) ==
  LET day == Local(utc) \div 24
      target == Month(day) - 1 + n
      y == TargetYear(Year(day), target)
      m == (target % 12) + 1
  IN ToUtc(24 * Ordinal(y, m, Clamped(y, m, DayOfMonth(day))) + (Local(utc) % 24), Fold(utc))

AdvanceSchedule(utc, frequency, n) ==
  IF frequency = "daily" THEN AdvanceDays(utc, n)
  ELSE IF frequency = "weekly" THEN AdvanceDays(utc, 7 * n)
  ELSE AdvanceMonths(utc, n)

-----------------------------------------------------------------------------
(* Properties, of the slots that follow each other from a first one.       *)

Slots(first, frequency, n) ==
  LET slots[k \in 0 .. Steps] ==
        IF k = 0 THEN <<first>>
        ELSE LET before == slots[k - 1] IN
             Append(before, AdvanceSchedule(before[k], frequency, n))
  IN slots[Steps]

(* Every slot is later than the one before it, at every change of the      *)
(* clock, the month and the year: otherwise a run would never work off a   *)
(* template that is due (the loop of _generate_due_recurring_tasks).       *)
SlotsAdvance ==
  \A first \in Firsts, frequency \in Frequencies, n \in Every :
    LET slot == Slots(first, frequency, n) IN
    \A k \in 1 .. Steps : slot[k + 1] > slot[k]

(* The months are counted on from the first slot's.                        *)
MonthCount(day) == 12 * Year(day) + Month(day)
DaysInMonthCount(c) == MonthDays((c - 1) \div 12, ((c - 1) % 12) + 1)

DayAfter(day, frequency, n, k) ==
  LET c == MonthCount(day)
      shortest == CHOOSE d \in {DayOfMonth(day)} \cup {DaysInMonthCount(c + n * j) : j \in 0 .. k} :
                    /\ d <= DayOfMonth(day)
                    /\ \A j \in 0 .. k : d <= DaysInMonthCount(c + n * j)
  IN
  CASE frequency = "daily" -> day + n * k
    [] frequency = "weekly" -> day + 7 * n * k
    [] frequency = "monthly" ->
         Ordinal((c + n * k - 1) \div 12, ((c + n * k - 1) % 12) + 1, shortest)

SkippedHour(slot) == slot = SpringChange(Year(slot \div 24))

(* Nothing drifts: however many slots follow, a template stays on its day  *)
(* of the week or of the month, or on the last day of the shortest month   *)
(* it has met, and on its local hour, through summer time and leap years;  *)
(* only a slot at one o'clock moves, to two, for good, when it meets the   *)
(* day that has no such hour (advance_schedule).  The exception is a       *)
(* monthly step from the repeated hour straight to that day, which the     *)
(* instance has not: it keeps the fold and lands at midnight.              *)
SlotsKeepDayAndHour ==
  \A first \in Firsts, frequency \in Frequencies, n \in Every :
    LET slot == Slots(first, frequency, n) IN
    \A k \in 0 .. Steps :
      /\ Local(slot[k + 1]) \div 24 = DayAfter(Local(first) \div 24, frequency, n, k)
      /\ Local(slot[k + 1]) % 24 =
           IF Local(first) % 24 = 1 /\ \E j \in 1 .. k : SkippedHour(slot[j + 1])
           THEN 2 ELSE Local(first) % 24

=============================================================================
