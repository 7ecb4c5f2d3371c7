--------------------------- MODULE WorkshopPhases ---------------------------
(***************************************************************************)
(* A workshop process and its phases on the two surfaces that write them:  *)
(* the clean pages (app/web/router.py) and, in WorkshopApi, the REST API   *)
(* (app/api/routes/workshop.py).                                           *)
(*                                                                         *)
(* A process made on the clean pages follows the phases of its template;   *)
(* one made through the API has none, and the clean pages take it through  *)
(* all of theirs.  A request loads the process and the row of its phase    *)
(* when it starts, waits for the files of its form, and writes the columns *)
(* that differ from what it loaded; other rows it reads when it acts.      *)
(*                                                                         *)
(* What a form says is "open" (something is missing), "closed" or          *)
(* "reserved" (closed with a reserve and its reason).                      *)
(***************************************************************************)
EXTENDS PhotoCapture

CONSTANTS
  Slow,           \* requests that may be overtaken by others
  None,
  Templates,      \* templates: sequences of phases
  Optional,       \* phases that are added to processes
  CleanRequests,  \* bound on requests about a process with a template
  ApiRequests,    \* bound on requests about a process of the API
  MaxOvertaking,  \* bound on the requests that overtake a slow one
  MaxReports,     \* bound on technical reports
  MaxReopenings   \* bound on reopenings

(* CLEAN_WORKSHOP_STEP_DEFS *)
StepDefs == <<"entrada", "validacao", "diagnostico", "inspecao", "auditoria", "reparacao", "fecho">>
StepKeys == {StepDefs[i] : i \in DOMAIN StepDefs}

(* WORKSHOP_PHASE_TEMPLATE *)
ApiPhases == {"administrative_reception", "history_check", "technical_phase",
  "technical_inspection", "diagnosis_decision", "budget_approval",
  "internal_repair_execution", "final_closure"}

Phases == StepKeys \cup ApiPhases

Over == {"closed", "cancelled", "completed", "completed_with_pending_items"}
ReadOnly == {"closed", "cancelled"}
ProcessStatuses == Over \cup {"scheduled", "open", "pending_review"}

RowStatuses == {"not_started", "pending_definition", "pending", "pending_review",
  "pending_validation", "in_progress", "with_incidents", "completed",
  "completed_with_pending_items"}

ASSUME WorkshopAssumption ==
  /\ CleanRequests \in Nat /\ ApiRequests \in Nat
  /\ MaxOvertaking \in Nat /\ MaxReports \in Nat /\ MaxReopenings \in Nat
  /\ None \notin Phases \cup RowStatuses \cup ProcessStatuses
  /\ Places \subseteq Phases
  /\ Optional \subseteq StepKeys \ {"entrada", "fecho"}
  /\ \A template \in Templates :
       /\ template \in Seq(StepKeys)
       /\ Len(template) > 2 /\ template[1] = "entrada" /\ template[2] = "validacao"
       /\ template[Len(template)] = "fecho"
       /\ \A i, j \in DOMAIN template : template[i] = template[j] => i = j

VARIABLES
  template,   \* the snapshot of the template, <<>> for a process of the API
  process,    \* status, current phase, closed; metadata: phases added, and
              \* the status before the cancellation
  rows,       \* phase -> status of its row, None without a row
  reports,    \* technical reports: live, complete
  critical,   \* an alert of high or critical severity is open
  view,       \* slow request -> the rows as it loaded them, None before
  overtaking, \* requests since, counted for MaxOvertaking
  left,       \* requests that are left of the bound
  (* History.                                                               *)
  reopenings, \* counted for MaxReopenings
  late,       \* phases added where the process does not come by any more
  evidence,   \* phase -> captures it required when it was last completed
  bypassed,   \* phases last completed from their last substep
  stale,      \* a request acted on a process or row that had changed
  strayed     \* a process was sent past phases not done, out of its
              \* template, or changed through the API although it was over

workshopVars == <<template, process, rows, reports, critical, view, overtaking,
                  left, reopenings, late, evidence, bypassed, stale, strayed>>
vars == <<photoVars, workshopVars>>

Seen == [process |-> process, rows |-> rows, captures |-> captures]

Init ==
  /\ \/ /\ template \in Templates
        /\ process = [status |-> "open", current |-> "entrada", closed |-> FALSE,
                      meta |-> [added |-> <<>>, prior |-> None]]
        /\ rows = [p \in Phases |->
             IF p = "entrada" THEN "pending_review"
             ELSE IF \E i \in DOMAIN template : template[i] = p THEN "not_started" ELSE None]
        /\ left = CleanRequests
     \/ /\ template = <<>> /\ left = ApiRequests
        /\ \E status \in {"scheduled", "open"} :
             process = [status |-> status, current |-> "administrative_reception",
                        closed |-> FALSE, meta |-> [added |-> <<>>, prior |-> None]]
        /\ rows = [p \in Phases |->
             IF p \notin ApiPhases THEN None
             ELSE IF p = "administrative_reception" THEN "pending"
             ELSE IF p = "budget_approval" THEN "pending_definition" ELSE "not_started"]
  /\ captures = <<>> /\ shots = <<>> /\ hasty = FALSE
  /\ reports = <<>> /\ critical = FALSE
  /\ view = [r \in Slow |-> None] /\ overtaking = 0
  /\ reopenings = 0 /\ late = {} /\ evidence = [p \in Phases |-> {}] /\ bypassed = {}
  /\ stale = FALSE /\ strayed = FALSE

-----------------------------------------------------------------------------
(* The order of the phases.                                                *)

Place(steps, p) == CHOOSE i \in DOMAIN steps : steps[i] = p
IsStep(steps, p) == \E i \in DOMAIN steps : steps[i] = p

(* The phases of the template, those that were added before the closure;   *)
(* without a template all of them.                                         *)
Steps(proc) ==
  IF template = <<>> THEN StepDefs
  ELSE SubSeq(template, 1, Len(template) - 1) \o proc.meta.added \o <<"fecho">>

(* Mutant: the step after the next one.                                    *)
NextPhaseSkipping(steps, p) ==
  IF IsStep(steps, p) /\ Place(steps, p) + 2 <= Len(steps)
  THEN steps[Place(steps, p) + 2] ELSE None

NextPhase(steps, p) ==
  IF IsStep(steps, p) /\ Place(steps, p) < Len(steps)
  THEN steps[Place(steps, p) + 1] ELSE None

(* Nothing before p is left to do.                                         *)
Reached(proc, p) ==
  LET steps == Steps(proc) IN
  /\ IsStep(steps, p)
  /\ \A i \in 1 .. Place(steps, p) - 1 : rows[steps[i]] = "completed" \/ steps[i] \in late

-----------------------------------------------------------------------------
(* Requests.                                                               *)

Load(r) ==
  /\ view[r] = None /\ overtaking = 0 /\ left > 1
  /\ view' = [view EXCEPT ![r] = Seen]
  /\ UNCHANGED <<photoVars, template, process, rows, reports, critical, overtaking,
                 left, reopenings, late, evidence, bypassed, stale, strayed>>

(* The columns of the process that are written: those that differ, and the *)
(* metadata when it got the present time.                                  *)
Write(v, new, stamped) ==
  /\ process' = [f \in DOMAIN process |->
       IF new[f] # v.process[f] \/ f \in stamped THEN new[f] ELSE process[f]]
  /\ stale' = (stale \/ v.process # process \/ v.rows # rows)

(* Two requests that both make the row of a phase are not modelled.        *)
Row(v, rs, p, status) ==
  [rs EXCEPT ![p] = IF v.rows[p] = status THEN @ ELSE status]

Starts(rs, p, from, status) == IF rs[p] \in from THEN [rs EXCEPT ![p] = status] ELSE rs

HasRow(v, p) == v.rows[p] = None => rows[p] = None

Completes(p, bypasses) ==
  /\ evidence' = [evidence EXCEPT ![p] = Required(p)]
  /\ bypassed' = IF bypasses THEN bypassed \cup {p} ELSE bypassed \ {p}

CompletesNone == UNCHANGED <<evidence, bypassed>>

CleanWritable(v) == v.process.status \notin ReadOnly

(* ---- the clean pages ---- *)

(* Without the kilometres, or with photographs missing, an entry is saved  *)
(* and not advanced; either way its form may leave the metadata as it was. *)
EntrySave(v) ==
  LET saved == [v.process EXCEPT !.current = "entrada"] IN
  /\ CleanWritable(v) /\ v.process.current = "entrada" /\ HasRow(v, "entrada")
  /\ \/ /\ rows' = Row(v, rows, "entrada", "in_progress")
        /\ \E stamped \in {{}, {"meta"}} : Write(v, saved, stamped)
        /\ CompletesNone
     \/ /\ Blockers("entrada") = {}
        /\ rows' = Starts(Row(v, rows, "entrada", "completed"),
                          "validacao", {"not_started"}, "pending_review")
        /\ \E stamped \in {{}, {"meta"}} :
             Write(v, [saved EXCEPT !.current = "validacao"], stamped)
        /\ Completes("entrada", FALSE)
  /\ UNCHANGED <<reports, critical, reopenings, late, strayed>>

PendingReports == {i \in DOMAIN reports : reports[i].live /\ ~reports[i].complete}

(* clean_workshop_phase_advance_error *)
AdvanceError(p, form) ==
  \/ form = "open"
  \/ p = "diagnostico" /\ PendingReports # {} /\ form # "reserved"

Forms == {"open", "closed", "reserved"}

(* The row of the phase is completed and the process goes on, or is closed *)
(* when there is no next phase.                                            *)
Advanced(v, p, bypasses) ==
  LET next == NextPhase(Steps(v.process), p)
      done == Row(v, rows, p, "completed") IN
  /\ Completes(p, bypasses)
  /\ IF next = None
     THEN /\ rows' = done
          /\ Write(v, [v.process EXCEPT !.status = "closed", !.closed = TRUE], {})
     ELSE /\ rows' = Starts(done, next, {"not_started"}, "pending_review")
          /\ Write(v, [v.process EXCEPT !.current = next], {})

Kept(v, p) ==
  /\ rows' = Row(v, rows, p, "in_progress")
  /\ Write(v, v.process, {})
  /\ CompletesNone

ThisPhase(v, p) ==
  /\ CleanWritable(v) /\ v.process.current = p /\ p # "entrada" /\ p \in StepKeys
  /\ HasRow(v, p)
  /\ UNCHANGED <<reports, critical, reopenings, late>>

(* Saved, or not advanced for what is missing.                             *)
SavePhase(v, p) == ThisPhase(v, p) /\ Kept(v, p) /\ UNCHANGED strayed

AdvancePhase(v, p) ==
  /\ ThisPhase(v, p)
  /\ Blockers(p) = {}
  /\ \E form \in Forms : ~AdvanceError(p, form)
  /\ Advanced(v, p, FALSE)
  /\ UNCHANGED strayed

(* The last substep completes the phase as well, and asks for no           *)
(* photographs.                                                            *)
AdvanceLastSubstep(v, p) ==
  /\ ThisPhase(v, p)
  /\ \E form \in Forms : ~AdvanceError(p, form)
  /\ Advanced(v, p, TRUE)
  /\ UNCHANGED strayed

ReturnToRepair(v) ==
  /\ ThisPhase(v, "fecho")
  /\ rows' = Starts(Row(v, rows, "fecho", "in_progress"),
                    "reparacao", RowStatuses, "in_progress")
  /\ Write(v, [v.process EXCEPT !.current = "reparacao"], {})
  /\ CompletesNone
  /\ strayed' = (strayed \/ ~Reached(v.process, "reparacao"))

AddOptionalPhase(v, p) ==
  /\ CleanWritable(v)
  /\ p \in Optional /\ rows[p] = None
  /\ rows' = [rows EXCEPT ![p] = "not_started"]
  /\ Write(v, [v.process EXCEPT !.meta.added = Append(@, p)], {"meta"})
  /\ late' = IF process.current = "fecho" THEN late \cup {p} ELSE late
  /\ CompletesNone
  /\ UNCHANGED <<reports, critical, reopenings, strayed>>

(* A report, and its validation, send the process to the diagnosis.        *)
SentToDiagnosis(v) ==
  /\ Write(v, [v.process EXCEPT !.current = "diagnostico"], {})
  /\ strayed' = (strayed \/ ~Reached(v.process, "diagnostico"))
  /\ CompletesNone
  /\ UNCHANGED <<critical, reopenings, late>>

UploadReport(v) ==
  /\ CleanWritable(v) /\ Len(reports) < MaxReports
  /\ rows' = Starts(rows, "diagnostico", {"not_started"}, "pending_review")
  /\ \E old \in 0 .. Len(reports) :
       reports' = Append([i \in DOMAIN reports |->
                            [reports[i] EXCEPT !.live = @ /\ i # old]],
                         [live |-> TRUE, complete |-> FALSE])
  /\ SentToDiagnosis(v)

(* A report that was voided comes back when it is validated.               *)
ValidateReport(v, i) ==
  /\ CleanWritable(v)
  /\ \E complete \in BOOLEAN :
       reports' = [reports EXCEPT ![i] = [live |-> TRUE, complete |-> complete]]
  /\ SentToDiagnosis(v)
  /\ UNCHANGED rows

VoidReport(v, i) ==
  /\ CleanWritable(v) /\ reports[i].live
  /\ reports' = [reports EXCEPT ![i].live = FALSE]
  /\ Write(v, v.process, {})
  /\ CompletesNone
  /\ UNCHANGED <<rows, critical, reopenings, late, strayed>>

(* Tasks of the process are cancelled with it or kept (TaskDesk).          *)
CancelProcess(v) ==
  /\ CleanWritable(v)
  /\ Write(v, [v.process EXCEPT !.status = "cancelled", !.closed = TRUE,
                                !.meta.prior = v.process.status], {"meta"})
  /\ critical' = FALSE
  /\ CompletesNone
  /\ UNCHANGED <<rows, reports, reopenings, late, strayed>>

(* Mutant: a cancellation is trusted to have noted the status.             *)
StatusBackUnguarded(proc) ==
  IF proc.status = "closed" THEN "open" ELSE proc.meta.prior

(* The status before the cancellation, which an overtaken entry may have   *)
(* erased with the metadata.                                               *)
StatusBack(proc) ==
  IF proc.status = "closed" \/ proc.meta.prior = None THEN "open" ELSE proc.meta.prior

Restored(proc) == [proc EXCEPT !.status = StatusBack(proc), !.closed = FALSE]

ReopenProcess(v) ==
  /\ reopenings < MaxReopenings /\ reopenings' = reopenings + 1
  /\ ~CleanWritable(v)
  /\ Write(v, Restored(v.process), {"meta"})
  /\ CompletesNone
  /\ UNCHANGED <<rows, reports, critical, late, strayed>>

CleanRequest(v) ==
  \/ EntrySave(v)
  \/ \E p \in StepKeys :
       SavePhase(v, p) \/ AdvancePhase(v, p) \/ AdvanceLastSubstep(v, p) \/ AddOptionalPhase(v, p)
  \/ ReturnToRepair(v)
  \/ UploadReport(v)
  \/ \E i \in DOMAIN reports : ValidateReport(v, i) \/ VoidReport(v, i)
  \/ CancelProcess(v) \/ ReopenProcess(v)

=============================================================================
