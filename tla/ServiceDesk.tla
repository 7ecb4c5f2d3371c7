---------------------------- MODULE ServiceDesk ----------------------------
(***************************************************************************)
(* The service-level clock of an item of work, shared by tasks and e-mail  *)
(* threads (app/services/service_desk.py): deadlines for the first answer  *)
(* and for the resolution, moved on by the time the item was paused.       *)
(*                                                                         *)
(* An item is a record that has at least the fields                        *)
(*   firstDue, due   the two deadlines, None when none is configured       *)
(*   responded       first_response_at is set                              *)
(*   resolved        resolved_at is set                                    *)
(*   paused          sla_paused_at, None when the clock runs               *)
(*   total           sla_total_paused_seconds                              *)
(*   pauses          sla_pause_on_waiting                                  *)
(***************************************************************************)
EXTENDS Integers

CONSTANT None

Later(deadline, elapsed) == IF deadline = None THEN None ELSE deadline + elapsed

(* Mutant: only the deadline of the resolution moves.                      *)
ShiftedResolutionOnly(item, elapsed) ==
  [item EXCEPT !.due = IF item.resolved THEN @ ELSE Later(@, elapsed)]

(* _shift_deadlines: what is done already keeps its deadline.              *)
Shifted(item, elapsed) ==
  [item EXCEPT !.firstDue = IF item.responded THEN @ ELSE Later(@, elapsed),
               !.due = IF item.resolved THEN @ ELSE Later(@, elapsed)]

Paused(item, now) ==
  IF item.pauses /\ item.paused = None THEN [item EXCEPT !.paused = now] ELSE item

Resumed(item, now) ==
  IF item.paused = None THEN item
  ELSE LET elapsed == now - item.paused IN
       [Shifted(item, elapsed) EXCEPT !.total = @ + elapsed, !.paused = None]

Responded(item) == [item EXCEPT !.responded = TRUE]

MarkedResolved(item, now) ==
  [Responded(Resumed(item, now)) EXCEPT !.resolved = TRUE]

(* A resolved item that goes on starts with the whole time again.          *)
Restarted(item, now, minutes) ==
  [item EXCEPT !.resolved = FALSE, !.paused = None, !.due = Later(minutes, now)]

=============================================================================
