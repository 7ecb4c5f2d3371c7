--------------------------- MODULE CalendarProofs ---------------------------
(***************************************************************************)
(* The next slot of a template is later than its slot, on every date and   *)
(* at every hour: what TaskRecurrence assumes when it numbers the slots.   *)
(***************************************************************************)
EXTENDS Calendar, TLAPS

IsDate(y, m, d) == y \in Nat \ {0} /\ m \in 1 .. 12 /\ d \in 1 .. MonthDays(y, m)

(* Months last 28 to 31 days and follow each other in the year.            *)
LEMMA MonthLengths ==
  ASSUME NEW y \in Nat \ {0}, NEW m \in 1 .. 12
  PROVE  /\ MonthDays(y, m) \in 28 .. 31
         /\ DaysBeforeMonth(y, m) \in 0 .. 335
         /\ DaysBeforeMonth(y, m) + MonthDays(y, m) <= (IF Leap(y) THEN 366 ELSE 365)
         /\ m < 12 => DaysBeforeMonth(y, m) + MonthDays(y, m) = DaysBeforeMonth(y, m + 1)
  <1>1. \/ m = 1 \/ m = 2 \/ m = 3 \/ m = 4 \/ m = 5 \/ m = 6
        \/ m = 7 \/ m = 8 \/ m = 9 \/ m = 10 \/ m = 11 \/ m = 12
    OBVIOUS
  <1>2. CASE Leap(y)
    BY <1>1, <1>2 DEF MonthDays, DaysBeforeMonth
  <1>3. CASE ~Leap(y)
    BY <1>1, <1>3 DEF MonthDays, DaysBeforeMonth
  <1> QED
    BY <1>2, <1>3

LEMMA MonthsAscend ==
  ASSUME NEW y \in Nat \ {0}, NEW m \in 1 .. 12, NEW k \in 1 .. 12, m < k
  PROVE  DaysBeforeMonth(y, m) + MonthDays(y, m) <= DaysBeforeMonth(y, k)
  <1>1. \A i, j \in 1 .. 12 : i < j => DaysBeforeMonth(y, i) + MonthDays(y, i) <= DaysBeforeMonth(y, j)
    <2>1. CASE Leap(y)
      BY <2>1 DEF MonthDays, DaysBeforeMonth
    <2>2. CASE ~Leap(y)
      BY <2>2 DEF MonthDays, DaysBeforeMonth
    <2> QED
      BY <2>1, <2>2
  <1> QED
    BY <1>1

LEMMA YearLengths ==
  ASSUME NEW y \in Nat \ {0}
  PROVE  /\ DaysBeforeYear(y) \in Nat
         /\ DaysBeforeYear(y + 1) = DaysBeforeYear(y) + (IF Leap(y) THEN 366 ELSE 365)
  BY DEF DaysBeforeYear, Leap

LEMMA YearsAscend ==
  ASSUME NEW y \in Nat \ {0}, NEW z \in Nat \ {0}, y < z
  PROVE  DaysBeforeYear(y) + (IF Leap(y) THEN 366 ELSE 365) <= DaysBeforeYear(z)
  <1>1. DaysBeforeYear(y + 1) <= DaysBeforeYear(z)
    BY DEF DaysBeforeYear
  <1> QED
    BY <1>1, YearLengths DEF DaysBeforeYear

LEMMA CountsTyped ==
  ASSUME NEW y \in Nat \ {0}, NEW m \in 1 .. 12
  PROVE  DaysBeforeYear(y) \in Nat /\ DaysBeforeMonth(y, m) \in Nat /\ MonthDays(y, m) \in Nat
  <1>1. DaysBeforeYear(y) \in Nat
    BY YearLengths
  <1>2. DaysBeforeMonth(y, m) \in 0 .. 335 /\ MonthDays(y, m) \in 28 .. 31
    BY MonthLengths
  <1> QED
    BY <1>1, <1>2

(* A date of a later month comes at least one day later.                   *)
LEMMA OrdinalsAscend ==
  ASSUME NEW y, NEW m, NEW d, IsDate(y, m, d), NEW z, NEW k, NEW e, IsDate(z, k, e),
         y < z \/ (y = z /\ m < k)
  PROVE  Ordinal(y, m, d) < Ordinal(z, k, e)
  <1> DEFINE length == IF Leap(y) THEN 366 ELSE 365
  <1>1. /\ y \in Nat \ {0} /\ z \in Nat \ {0} /\ m \in 1 .. 12 /\ k \in 1 .. 12
        /\ d \in 1 .. MonthDays(y, m) /\ e \in 1 .. MonthDays(z, k)
    BY DEF IsDate
  <1>2. /\ DaysBeforeYear(y) \in Nat /\ DaysBeforeYear(z) \in Nat
        /\ DaysBeforeMonth(y, m) \in Nat /\ DaysBeforeMonth(z, k) \in Nat
        /\ MonthDays(y, m) \in Nat /\ MonthDays(z, k) \in Nat
    BY <1>1, CountsTyped
  <1>3. CASE y < z
    <2>1. DaysBeforeYear(y) + length <= DaysBeforeYear(z)
      BY <1>1, <1>3, YearsAscend
    <2>2. DaysBeforeMonth(y, m) + MonthDays(y, m) <= length
      BY <1>1, MonthLengths
    <2> QED
      BY <1>1, <1>2, <2>1, <2>2 DEF Ordinal
  <1>4. CASE y = z /\ m < k
    <2>1. DaysBeforeMonth(y, m) + MonthDays(y, m) <= DaysBeforeMonth(y, k)
      BY <1>1, <1>4, MonthsAscend
    <2> QED
      BY <1>1, <1>2, <1>4, <2>1 DEF Ordinal
  <1> QED
    BY <1>3, <1>4

(* Year, Month and DayOfMonth find the date that an ordinal stands for.    *)
LEMMA DateFound ==
  ASSUME NEW y, NEW m, NEW d, IsDate(y, m, d)
  PROVE  /\ Year(Ordinal(y, m, d)) = y
         /\ Month(Ordinal(y, m, d)) = m
         /\ DayOfMonth(Ordinal(y, m, d)) = d
  <1> DEFINE day == Ordinal(y, m, d)
             Length(x) == IF Leap(x) THEN 366 ELSE 365
  <1>1. /\ y \in Nat \ {0} /\ m \in 1 .. 12 /\ d \in 1 .. MonthDays(y, m)
    BY DEF IsDate
  <1>2. /\ DaysBeforeYear(y) \in Nat /\ DaysBeforeMonth(y, m) \in Nat
        /\ MonthDays(y, m) \in Nat
        /\ DaysBeforeMonth(y, m) + MonthDays(y, m) <= Length(y)
    BY <1>1, CountsTyped, MonthLengths
  <1>3. day \in Nat \ {0} /\ day - DaysBeforeYear(y) \in 1 .. Length(y)
    BY <1>1, <1>2 DEF Ordinal
  <1>4. y \in ((day - 1) \div 366 + 1) .. (day \div 365 + 1)
    BY <1>1, <1>3 DEF DaysBeforeYear, Leap
  <1>5. Year(day) = y
    <2>1. ASSUME NEW z \in ((day - 1) \div 366 + 1) .. (day \div 365 + 1),
                 day - DaysBeforeYear(z) \in 1 .. Length(z)
          PROVE  z = y
      <3>1. z \in Nat \ {0}
        BY <1>3
      <3>2. CASE z < y
        BY <1>1, <1>3, <2>1, <3>1, <3>2, YearsAscend, YearLengths
      <3>3. CASE y < z
        BY <1>1, <1>3, <2>1, <3>1, <3>3, YearsAscend, YearLengths
      <3> QED
        BY <3>1, <3>2, <3>3, <1>1
    <2> QED
      BY <1>3, <1>4, <2>1 DEF Year
  <1>6. day - Ordinal(y, m, 0) = d
    BY <1>1, <1>2 DEF Ordinal
  <1>7. Month(day) = m
    <2>1. ASSUME NEW k \in 1 .. 12, day - Ordinal(y, k, 0) \in 1 .. MonthDays(y, k)
          PROVE  k = m
      <3>1. DaysBeforeYear(y) \in Nat /\ DaysBeforeMonth(y, k) \in Nat /\ MonthDays(y, k) \in Nat
        BY <1>1, CountsTyped
      <3>2. CASE k < m
        BY <1>1, <1>2, <2>1, <3>1, <3>2, MonthsAscend DEF Ordinal
      <3>3. CASE m < k
        BY <1>1, <1>2, <2>1, <3>1, <3>3, MonthsAscend DEF Ordinal
      <3> QED
        BY <3>2, <3>3, <1>1
    <2> QED
      BY <1>1, <1>5, <1>6, <2>1 DEF Month
  <1> QED
    BY <1>5, <1>6, <1>7 DEF DayOfMonth

(* The two clocks are at most an hour apart, whichever way they are read.  *)
LEMMA OffsetToUtc ==
  ASSUME NEW local \in Int, NEW fold
  PROVE  ToUtc(local, fold) \in {local, local - 1}
  BY DEF ToUtc

LEMMA OffsetToLocal ==
  ASSUME NEW utc \in Int
  PROVE  Local(utc) \in {utc, utc + 1}
  BY DEF Local

(* A daily or a weekly template moves on by its days, up to one hour.      *)
THEOREM DaysAdvance ==
  ASSUME NEW utc \in Nat, NEW n \in Nat \ {0}
  PROVE  /\ AdvanceSchedule(utc, "daily", n) > utc
         /\ AdvanceSchedule(utc, "weekly", n) > utc
  <1>1. \A days \in Nat \ {0} : AdvanceDays(utc, days) > utc
    <2> TAKE days \in Nat \ {0}
    <2>1. Local(utc) \in Int /\ Local(utc) >= utc
      BY OffsetToLocal
    <2>2. PICK local \in Int : local = Local(utc) + 24 * days
      BY <2>1
    <2>3. ToUtc(local, 0) \in {local, local - 1}
      BY OffsetToUtc
    <2>4. AdvanceDays(utc, days) = ToUtc(local, 0)
      BY <2>2 DEF AdvanceDays
    <2> QED
      BY <2>1, <2>2, <2>3, <2>4
  <1> QED
    BY <1>1 DEF AdvanceSchedule

(* A monthly template moves on, whatever the date on the local clock and   *)
(* the number of months: the year is carried and the day exists.           *)
THEOREM MonthsAdvance ==
  ASSUME NEW y, NEW m, NEW d, IsDate(y, m, d), NEW hour \in 0 .. 23,
         NEW utc \in Nat, Local(utc) = 24 * Ordinal(y, m, d) + hour,
         NEW n \in Nat \ {0}
  PROVE  AdvanceSchedule(utc, "monthly", n) > utc
  <1> DEFINE target == m - 1 + n
             z == y + target \div 12
             k == (target % 12) + 1
             e == Clamped(z, k, d)
  <1>1. y \in Nat \ {0} /\ m \in 1 .. 12 /\ d \in Nat \ {0}
    BY MonthLengths DEF IsDate
  <1>2. z \in Nat \ {0} /\ k \in 1 .. 12 /\ (y < z \/ (y = z /\ m < k))
    BY <1>1
  <1>3. IsDate(z, k, e)
    <2>1. MonthDays(z, k) \in 28 .. 31
      BY <1>2, MonthLengths
    <2> QED
      BY <1>1, <1>2, <2>1 DEF IsDate, Clamped
  <1>4. Ordinal(y, m, d) < Ordinal(z, k, e)
    BY <1>2, <1>3, OrdinalsAscend
  <1>5. Ordinal(y, m, d) \in Nat /\ Ordinal(z, k, e) \in Nat
    <2>1. e \in Nat
      BY <1>3, CountsTyped DEF IsDate
    <2>2. /\ DaysBeforeYear(y) \in Nat /\ DaysBeforeMonth(y, m) \in Nat
          /\ DaysBeforeYear(z) \in Nat /\ DaysBeforeMonth(z, k) \in Nat
      BY <1>1, <1>2, CountsTyped
    <2> QED
      BY <1>1, <2>1, <2>2 DEF Ordinal
  <1>6. Local(utc) \div 24 = Ordinal(y, m, d) /\ Local(utc) % 24 = hour
    BY <1>5
  <1>7. AdvanceMonths(utc, n) = ToUtc(24 * Ordinal(z, k, e) + hour, Fold(utc))
    BY <1>6, DateFound DEF AdvanceMonths, TargetYear
  <1>8. PICK local \in Int : local = 24 * Ordinal(z, k, e) + hour
    BY <1>5
  <1>9. AdvanceMonths(utc, n) \in {local, local - 1}
    BY <1>7, <1>8, OffsetToUtc
  <1>10. utc <= 24 * Ordinal(y, m, d) + hour
    BY OffsetToLocal
  <1> QED
    BY <1>4, <1>5, <1>8, <1>9, <1>10 DEF AdvanceSchedule

=============================================================================
