-------------------------- MODULE MCTaskRecurrence --------------------------
(***************************************************************************)
(* Finite instances of TaskRecurrence, which numbers the slots, and of     *)
(* Calendar, which shows that they can be numbered.                        *)
(***************************************************************************)
EXTENDS TaskRecurrence, Calendar, TLC

(* The instants UTC at which templates start: the ends of months, and the  *)
(* days around the changes of the clock and of a leap year.                *)
Begin ==
  {24 * Ordinal(y, m, d) + h :
     y \in {2023, 2024}, m \in {1, 3, 10, 12}, d \in 25 .. 31, h \in {0, 1, 23}}
  \cup {24 * Ordinal(2024, 2, 29) + h : h \in {0, 1, 23}}

ASSUME CalendarIsRegular == SlotsAdvance /\ SlotsKeepDayAndHour

=============================================================================
