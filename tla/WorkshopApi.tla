----------------------------- MODULE WorkshopApi -----------------------------
(***************************************************************************)
(* The REST API of the workshop (app/api/routes/workshop.py), and the      *)
(* composition of the three surfaces that write a process: the API, the    *)
(* clean pages (WorkshopPhases) and the captures of its photographs        *)
(* (PhotoCapture).                                                         *)
(*                                                                         *)
(* The API asks neither for the current phase nor whether the process is   *)
(* over; it finds the row of its phase or answers 404.                     *)
(***************************************************************************)
EXTENDS WorkshopPhases

(* _mark_phase *)
MayMark(p, status) == status = "completed" => Blockers(p) = {}

(* One request on the row of a phase.                                      *)
On(v, p) == v.rows[p] # None /\ UNCHANGED <<reopenings, late>>

(* A request on a process that is over changes it all the same.            *)
ApiWrite(v, new) ==
  /\ Write(v, new, {})
  /\ strayed' = (strayed \/ v.process.status \in Over)

Marks(v, p, status, rs) ==
  /\ MayMark(p, status)
  /\ rows' = Row(v, rs, p, status)
  /\ IF status = "completed" THEN Completes(p, FALSE) ELSE CompletesNone

Outcomes == {"completed", "pending_review"}

(* confirm_reception *)
ConfirmReception(v) ==
  /\ On(v, "administrative_reception")
  /\ \E next \in {"history_check", "technical_phase", "diagnosis_decision"},
        outcome \in Outcomes :
       /\ ApiWrite(v, [v.process EXCEPT !.status = "pending_review", !.current = next])
       /\ Marks(v, "administrative_reception", outcome,
                Starts(rows, next, {"not_started"}, "pending"))
  /\ UNCHANGED <<reports, critical>>

(* confirm_history_check *)
ConfirmHistoryCheck(v) ==
  /\ On(v, "history_check")
  /\ ApiWrite(v, [v.process EXCEPT !.current = "technical_phase"])
  /\ \E outcome \in Outcomes :
       Marks(v, "history_check", outcome,
             Starts(rows, "technical_phase", {"not_started"}, "pending"))
  /\ UNCHANGED <<reports, critical>>

(* add_technical_report *)
AddTechnicalReport(v) ==
  \E p \in {"technical_phase", "internal_repair_execution"} :
    /\ On(v, p) /\ Len(reports) < MaxReports
    /\ reports' = Append(reports, [live |-> TRUE, complete |-> FALSE])
    /\ rows' = Row(v, rows, p, "pending_validation")
    /\ ApiWrite(v, [v.process EXCEPT !.current = p])
    /\ CompletesNone
    /\ UNCHANGED critical

(* validate_technical_report: a maintenance plan that does not match the   *)
(* request raises an alert of high severity.                               *)
ValidateTechnicalReport(v, i) ==
  /\ \E complete, mismatch \in BOOLEAN :
       /\ reports' = [reports EXCEPT ![i] = [live |-> TRUE, complete |-> complete]]
       /\ critical' = (critical \/ (complete /\ mismatch))
  /\ CompletesNone
  /\ UNCHANGED <<process, rows, reopenings, late, stale, strayed>>

(* void_technical_report *)
VoidTechnicalReport(v, i) ==
  /\ reports[i].live
  /\ reports' = [reports EXCEPT ![i].live = FALSE]
  /\ CompletesNone
  /\ UNCHANGED <<process, rows, critical, reopenings, late, stale, strayed>>

(* upsert_technical_check, create_technical_incident: _ensure_phase makes  *)
(* the row if there is none.                                               *)
Inspect(v) ==
  /\ HasRow(v, "technical_inspection")
  /\ \E status \in {"in_progress", "with_incidents"}, severe \in BOOLEAN :
       /\ severe => status = "with_incidents"
       /\ rows' = Row(v, rows, "technical_inspection", status)
       /\ critical' = (critical \/ severe)
  /\ ApiWrite(v, [v.process EXCEPT !.current = "technical_inspection"])
  /\ CompletesNone
  /\ UNCHANGED <<reports, reopenings, late>>

(* confirm_diagnosis_decision *)
ConfirmDecision(v) ==
  /\ On(v, "diagnosis_decision")
  /\ \E next \in {"budget_approval", "internal_repair_execution"}, immobile \in BOOLEAN :
       /\ critical' = (critical \/ immobile)
       /\ Marks(v, "diagnosis_decision", "completed",
                Starts(rows, next, {"not_started", "pending_definition"}, "pending"))
       /\ ApiWrite(v, [v.process EXCEPT !.current = next])
  /\ UNCHANGED reports

(* update_budget_approval *)
UpdateBudget(v) ==
  /\ On(v, "budget_approval")
  /\ \E outcome \in Outcomes,
        next \in {"internal_repair_execution", "diagnosis_decision", "budget_approval"} :
       /\ Marks(v, "budget_approval", outcome,
                IF next = "internal_repair_execution"
                THEN Starts(rows, next, {"not_started"}, "pending") ELSE rows)
       /\ ApiWrite(v, [v.process EXCEPT !.current = next])
  /\ UNCHANGED <<reports, critical>>

(* update_internal_repair *)
UpdateRepair(v) ==
  /\ On(v, "internal_repair_execution")
  /\ \E outcome \in Outcomes :
       Marks(v, "internal_repair_execution", outcome,
             Starts(rows, "final_closure", {"not_started"}, "pending"))
  /\ ApiWrite(v, [v.process EXCEPT !.current = "final_closure"])
  /\ UNCHANGED <<reports, critical>>

(* add_workshop_process_service *)
AddService(v) ==
  /\ ~v.process.closed
  /\ Write(v, [v.process EXCEPT !.status = "open"], {})
  /\ CompletesNone
  /\ UNCHANGED <<rows, reports, critical, reopenings, late, strayed>>

(* close_workshop_process *)
CloseApi(v) ==
  /\ On(v, "final_closure")
  /\ \E result \in {"completed", "completed_with_pending_items"} :
       /\ critical => result = "completed_with_pending_items"
       /\ ApiWrite(v, [v.process EXCEPT !.status = result, !.current = "final_closure",
                                        !.closed = TRUE])
       /\ Marks(v, "final_closure", result, rows)
  /\ UNCHANGED <<reports, critical>>

ApiRequest(v) ==
  \/ ConfirmReception(v) \/ ConfirmHistoryCheck(v)
  \/ AddTechnicalReport(v)
  \/ \E i \in DOMAIN reports : ValidateTechnicalReport(v, i) \/ VoidTechnicalReport(v, i)
  \/ Inspect(v) \/ ConfirmDecision(v) \/ UpdateBudget(v) \/ UpdateRepair(v)
  \/ AddService(v) \/ CloseApi(v)

-----------------------------------------------------------------------------
(* The surfaces together.                                                  *)

UntouchedProcess ==
  UNCHANGED <<process, rows, reports, critical, reopenings, late, evidence, bypassed,
              stale, strayed>>

(* A capture for a phase needs the row of the phase.                       *)
NewSession ==
  \E p \in Places, config \in Configs : rows[p] # None /\ CreateSession(p, config)

Serve(v) ==
  /\ left > 0 /\ left' = left - 1
  /\ UNCHANGED template
  /\ \/ (CleanRequest(v) \/ ApiRequest(v)) /\ UNCHANGED photoVars
     \/ PhotoRequest(v) /\ UntouchedProcess
     \/ NewSession /\ UntouchedProcess

Prompt ==
  /\ Serve(Seen)
  /\ UNCHANGED view
  /\ IF \E r \in Slow : view[r] # None
     THEN overtaking < MaxOvertaking /\ overtaking' = overtaking + 1
     ELSE UNCHANGED overtaking

Overtaken(r) ==
  /\ view[r] # None
  /\ Serve(view[r])
  /\ view' = [view EXCEPT ![r] = None]
  /\ UNCHANGED overtaking

Next == Prompt \/ \E r \in Slow : Load(r) \/ Overtaken(r)

Spec == Init /\ [][Next]_vars

-----------------------------------------------------------------------------
(* Properties.                                                             *)

(* Every column keeps its type.                                            *)
TypeOK ==
  /\ PhotoTypes
  /\ process.status \in ProcessStatuses
  /\ process.current \in Phases /\ process.closed \in BOOLEAN
  /\ \A p \in Phases : rows[p] \in RowStatuses \cup {None}
  /\ rows[process.current] = None => process.current \in StepKeys /\ strayed
  /\ late \subseteq StepKeys /\ bypassed \subseteq Phases

(* Behind every phase that was completed by advancing it or through the    *)
(* API stand the photographs it required then: whatever was stored,        *)
(* removed, reviewed or repeated since, and whichever requests overlapped, *)
(* a capture that was to be reviewed is approved with every photograph it  *)
(* holds (required_photo_blockers, photo_session_ready).  One that was not *)
(* may be rejected afterwards and filled again; it is never back where it  *)
(* was before its first photograph.  A phase completed from its last       *)
(* substep asked for none.                                                 *)
EvidenceBehindPhases ==
  /\ ApprovedIsReviewed
  /\ ~hasty => \A p \in Phases \ bypassed :
       rows[p] = "completed" => \A s \in evidence[p] :
         /\ captures[s].config.review => captures[s].status = "approved"
         /\ captures[s].status # "pending"

(* A process with a time of closure is over by its status; one that is     *)
(* closed or cancelled has a time of closure.  One that the API completed  *)
(* may lack it in one way only: it was cancelled when it was complete, and *)
(* reopening gave back the status but not the time, so that it is over and *)
(* open at once (clean_workshop_reopen_process).  And one that the clean   *)
(* pages closed has done all its phases, however it was cancelled,         *)
(* reopened, returned to the repair or given further phases before         *)
(* (clean_workshop_next_phase_key).                                        *)
OutcomeAgrees ==
  ~stale /\ ~strayed =>
    /\ process.closed => process.status \in Over
    /\ process.status \in Over /\ ~process.closed =>
         process.status \notin ReadOnly /\ process.meta.prior = process.status
    /\ process.status = "closed" =>
         \A i \in DOMAIN Steps(process) :
           rows[Steps(process)[i]] = "completed" \/ Steps(process)[i] \in late

=============================================================================
