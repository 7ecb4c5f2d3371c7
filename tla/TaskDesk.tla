------------------------------ MODULE TaskDesk ------------------------------
(***************************************************************************)
(* The life of a task: its status, its service-level clock, requests for   *)
(* support and for decisions, its executor, the successors of a recurring  *)
(* task and the other tasks of its case.  Four surfaces change a task: the *)
(* clean task centre and the legacy board (app/web/router.py), the REST    *)
(* API (app/api/routes/tasks.py) and the cancellation of a workshop        *)
(* process.                                                                *)
(*                                                                         *)
(* A request loads the task without a lock, decides by what it loaded, and *)
(* writes the columns it changed.  A request is therefore one step on what *)
(* it saw: a prompt request sees the rows as they are, a slow one holds    *)
(* its view while others commit.  Requests for decisions and for a related *)
(* case lock the task first, so they always see it as it is.               *)
(*                                                                         *)
(* What a user may do, required photographs (PhotoCapture) and the rest of *)
(* a form may refuse a request; a refused request changes nothing.         *)
(***************************************************************************)
EXTENDS Naturals, Sequences, FiniteSets, ServiceDesk

CONSTANTS
  Slow,          \* requests that may be overtaken by others
  Users, Team,   \* executors
  Targets,       \* statuses that requests ask for
  FirstMinutes,  \* sla_first_response_minutes
  Minutes,       \* sla_resolution_minutes
  Horizon,       \* bound on the clock
  MaxCommits,    \* bound on the committed requests
  MaxQuestions,  \* bound on requests for support, and for decisions
  MaxRelated     \* bound on the successors, and on the other tasks of the case

ASSUME DeskAssumption ==
  /\ FirstMinutes \in Nat /\ Minutes \in Nat /\ Horizon \in Nat
  /\ MaxCommits \in Nat /\ MaxQuestions \in Nat /\ MaxRelated \in Nat
  /\ None \notin Nat /\ None \notin Users /\ Team \notin Users /\ None # Team

Final == {"closed", "cancelled", "no_action_needed"}
Archived == Final \cup {"resolved"}      \* as the API sees it

Statuses ==
  Archived \cup {"planned", "new", "in_execution", "delegated", "waiting",
    "support_requested", "waiting_decision", "execution_done", "ready_validation"}

ASSUME TargetsAssumption == Targets \subseteq Statuses

Asking == {"support_requested", "waiting_decision"}

VARIABLES
  clock,
  task,        \* the row of the task
  helps,       \* its requests for support: previous status, status
  decisions,   \* its requests for decisions: previous status, status
  successors,  \* tasks made when it was concluded: open or not
  companions,  \* None, or the other tasks of its case: open or not
  view,        \* slow request -> the rows as it loaded them, None before
  commits,     \* committed requests, counted for MaxCommits
  (* History.                                                               *)
  worked,      \* time since the clock of the resolution was last started
  waited,      \* time spent waiting
  stale,       \* a request decided by rows that were no longer current
  strayed,     \* a request went around the life cycle of the questions,
               \* or dropped a wait without ending it
  taken        \* the task was cancelled with its workshop process

history == <<worked, waited, stale, strayed, taken>>
vars == <<clock, task, helps, decisions, successors, companions, view, commits, history>>

Seen == [task |-> task, helps |-> helps, successors |-> successors,
         companions |-> companions]

Init ==
  /\ clock = 0
  /\ \E status \in {"planned", "new"}, pauses \in BOOLEAN :
       task = [status |-> status, closed |-> FALSE, ctx |-> None,
               firstDue |-> Later(FirstMinutes, 0), due |-> Later(Minutes, 0),
               responded |-> FALSE, resolved |-> FALSE,
               paused |-> None, total |-> 0, pauses |-> pauses,
               user |-> None, team |-> None, state |-> "waiting_assignment",
               claimed |-> None]
  /\ helps = <<>> /\ decisions = <<>> /\ successors = <<>> /\ companions = None
  /\ view = [r \in Slow |-> None]
  /\ commits = 0
  /\ worked = 0 /\ waited = 0 /\ stale = FALSE /\ strayed = FALSE /\ taken = FALSE

-----------------------------------------------------------------------------
(* Requests and time.                                                      *)

(* MaxCommits leaves room for the request and for one that overtakes it.   *)
Load(r) ==
  /\ view[r] = None /\ commits + 2 <= MaxCommits
  /\ view' = [view EXCEPT ![r] = Seen]
  /\ UNCHANGED <<clock, task, helps, decisions, successors, companions, commits, history>>

(* The columns that are written: those that differ from what was loaded,   *)
(* and those that get the present time.                                    *)
Written(v, new, stamped) ==
  [f \in DOMAIN task |-> IF new[f] # v.task[f] \/ f \in stamped THEN new[f] ELSE task[f]]

Commit(v, new, stamped) ==
  /\ commits < MaxCommits
  /\ commits' = commits + 1
  /\ task' = Written(v, new, stamped)
  /\ worked' = IF "due" \in stamped THEN 0 ELSE worked
  /\ stale' = (stale \/ v # Seen)
  /\ UNCHANGED <<clock, waited>>

(* The status that a question interrupts.                                  *)
IsOpenHelp(help) == help.status \in {"pending", "accepted"}
IsOpenDecision(decision) == decision.status \in {"pending", "information_requested"}

OpenHelps == {i \in DOMAIN helps : IsOpenHelp(helps[i])}
OpenDecisions == {i \in DOMAIN decisions : IsOpenDecision(decisions[i])}

Interrupted ==
  LET deciding(status) == IF status = "waiting_decision"
                          THEN {decisions[i].prev : i \in OpenDecisions} ELSE {status}
  IN IF task.status = "support_requested"
     THEN UNION {deciding(helps[i].prev) : i \in OpenHelps}
     ELSE deciding(task.status)

Tick ==
  LET waits == task.pauses /\ Interrupted = {"waiting"} IN
  /\ clock < Horizon
  /\ clock' = clock + 1
  /\ waited' = IF waits THEN waited + 1 ELSE waited
  /\ worked' = IF waits THEN worked ELSE worked + 1
  /\ UNCHANGED <<task, helps, decisions, successors, companions, view, commits>>
  /\ UNCHANGED <<stale, strayed, taken>>

(* A status written over a question, or a question's status without one.   *)
Bypasses(v, new) ==
  v.task.status # new.status /\ {v.task.status, new.status} \cap Asking # {}

-----------------------------------------------------------------------------
(* Steps that several requests share.                                      *)

Reclocked(prior, item) ==
  IF item.status = "waiting" /\ prior # "waiting" THEN Paused(item, clock)
  ELSE IF item.status # "waiting" /\ prior = "waiting" THEN Resumed(item, clock)
  ELSE item

Closed(item) == [MarkedResolved(item, clock) EXCEPT !.closed = TRUE]

(* Mutant: a task is concluded without its marks of resolution.            *)
SettledUnmarked(prior, item) ==
  IF item.status \in Final THEN [item EXCEPT !.closed = TRUE]
  ELSE [item EXCEPT !.closed = FALSE]

(* The end of a transition and of an answer to a request for support.      *)
Settled(prior, item) ==
  LET opened == [item EXCEPT !.closed = FALSE] IN
  IF item.status \in Final THEN Closed(item)
  ELSE IF item.status = "resolved" THEN MarkedResolved(opened, clock)
  ELSE IF prior = "resolved" /\ item.resolved THEN Restarted(opened, clock, Minutes)
  ELSE opened

Restarts(prior, item) ==
  prior = "resolved" /\ item.resolved /\ item.status \notin Archived

Future == clock + 1 .. Horizon + 1
StillAhead(until) == until # None /\ until > clock

(* validate_task_waiting_context, with the instants a form offers.         *)
Contexts(status, offered) ==
  IF status = "waiting" THEN {until \in offered : StillAhead(until)} ELSE {None}

Executors ==
  {[user |-> u, team |-> None, claim |-> FALSE] : u \in Users \cup {None}}
    \cup {[user |-> None, team |-> Team, claim |-> c] : c \in BOOLEAN}

(* Mutant: the columns of the executor are swapped.                        *)
AssignedSwapped(item, e) == [item EXCEPT !.user = e.team, !.team = e.user, !.claimed = None]

Assigned(item, e) ==
  [item EXCEPT !.user = e.user, !.team = e.team, !.claimed = None,
     !.state = IF e.user # None THEN "assigned_user"
               ELSE IF e.team # None /\ e.claim THEN "team_unclaimed"
               ELSE IF e.team # None THEN "assigned_team" ELSE "waiting_assignment"]

(* A form that names an executor assigns only when it is another one.      *)
AssignedIfOther(item, e) ==
  IF item.user = e.user /\ item.team = e.team THEN item ELSE Assigned(item, e)

(* A request to the API may name none.                                     *)
AssignedIfNamed(item, e) == IF e = None THEN item ELSE Assigned(item, e)

-----------------------------------------------------------------------------
(* The clean task centre.                                                  *)

(* TASK_STATUS_TRANSITIONS: the statuses not named have no way out.        *)
Transitions(status) ==
  CASE status = "planned" -> {"new", "cancelled"}
    [] status \in {"new", "delegated"} -> {"in_execution", "waiting", "resolved", "cancelled"}
    [] status = "in_execution" -> {"waiting", "resolved", "cancelled"}
    [] status = "waiting" -> {"in_execution", "resolved", "cancelled"}
    [] status = "execution_done" -> {"ready_validation", "in_execution"}
    [] status = "ready_validation" -> {"resolved", "in_execution"}
    [] status = "resolved" -> {"closed", "in_execution"}
    [] OTHER -> {}

Transition(v) ==
  \E status \in Transitions(v.task.status) :
    \E until \in Contexts(status, Future) :
      LET prior == v.task.status
          moved == [v.task EXCEPT !.status = status,
                      !.ctx = IF status = "waiting" \/ prior = "waiting" THEN until ELSE @]
          clocked == Reclocked(prior, moved)
      IN
      /\ Commit(v, Settled(prior, clocked), IF Restarts(prior, clocked) THEN {"due"} ELSE {})
      /\ UNCHANGED <<helps, decisions, successors, companions, strayed>>

(* The edited status is the one that was loaded, never the one submitted.  *)
EditFields(v) ==
  \E e \in Executors :
    LET item == AssignedIfOther(v.task, e) IN
    /\ Commit(v, IF item.status \in Final THEN Closed(item) ELSE [item EXCEPT !.closed = FALSE], {})
    /\ UNCHANGED <<helps, decisions, successors, companions, strayed>>

CloseClean(v) ==
  LET new == Closed([v.task EXCEPT !.status = "closed"]) IN
  /\ Commit(v, new, {"closed"})
  /\ strayed' = (strayed \/ Bypasses(v, new))
  /\ UNCHANGED <<helps, decisions, successors, companions>>

Reopen(v) ==
  LET new == [Restarted(v.task, clock, Minutes) EXCEPT !.status = "new", !.closed = FALSE] IN
  /\ Commit(v, new, {"due"})
  /\ strayed' = (strayed \/ Bypasses(v, new) \/ v.task.status = "waiting" \/ v.task.paused # None)
  /\ UNCHANGED <<helps, decisions, successors, companions>>

(* A comment, by either surface, is a first answer.                        *)
Comment(v) ==
  /\ Commit(v, Responded(v.task), {})
  /\ UNCHANGED <<helps, decisions, successors, companions, strayed>>

Claim(v) ==
  \E u \in Users :
    /\ v.task.state = "team_unclaimed" /\ v.task.team # None
    /\ Commit(v, [v.task EXCEPT !.user = u, !.claimed = u, !.state = "assigned_user"], {})
    /\ UNCHANGED <<helps, decisions, successors, companions, strayed>>

-----------------------------------------------------------------------------
(* Support and decisions.                                                  *)

(* The query for a duplicate, and the unique index behind it.              *)
NoActiveHelp == OpenHelps = {}

(* The index refuses also a late answer that would open an ended request   *)
(* again beside another.                                                   *)
OnlyActiveHelp(i) == OpenHelps \subseteq {i}

RequestSupport(v) ==
  /\ v.task.status \notin Final \cup {"support_requested"} /\ ~v.task.closed
  /\ NoActiveHelp
  /\ Len(helps) < MaxQuestions
  /\ helps' = Append(helps, [prev |-> v.task.status, status |-> "pending"])
  /\ Commit(v, [v.task EXCEPT !.status = "support_requested"], {})
  /\ UNCHANGED <<decisions, successors, companions, strayed>>

Answerable(v, i) == IsOpenHelp(v.helps[i]) /\ v.task.status = "support_requested"

AcceptSupport(v) ==
  \E i \in DOMAIN v.helps :
    /\ Answerable(v, i) /\ v.helps[i].status = "pending" /\ OnlyActiveHelp(i)
    /\ helps' = [helps EXCEPT ![i].status = "accepted"]
    /\ Commit(v, v.task, {})
    /\ UNCHANGED <<decisions, successors, companions, strayed>>

(* Complete or cancel: back to the interrupted status or on from it.       *)
EndSupport(v) ==
  \E i \in DOMAIN v.helps, answer \in {"completed", "cancelled"} :
    LET prior == v.helps[i].prev IN
    \E status \in {prior} \cup Transitions(prior) :
      \E until \in Contexts(status, {v.task.ctx}) :
        LET clocked == Reclocked(prior, [v.task EXCEPT !.status = status, !.ctx = until]) IN
        /\ Answerable(v, i)
        /\ helps' = [helps EXCEPT ![i].status = answer]
        /\ Commit(v, Settled(prior, clocked), IF Restarts(prior, clocked) THEN {"due"} ELSE {})
        /\ UNCHANGED <<decisions, successors, companions, strayed>>

(* The task is locked before anything is read of it.                       *)
RequestDecision ==
  /\ OpenDecisions = {}
  /\ task.status \notin Final \cup Asking
  /\ Len(decisions) < MaxQuestions
  /\ decisions' = Append(decisions, [prev |-> task.status, status |-> "pending"])
  /\ Commit(Seen, [task EXCEPT !.status = "waiting_decision"], {})
  /\ UNCHANGED <<helps, successors, companions, strayed>>

AskForInformation ==
  \E i \in OpenDecisions :
    /\ task.status = "waiting_decision"
    /\ decisions' = [decisions EXCEPT ![i].status = "information_requested"]
    /\ Commit(Seen, task, {})
    /\ UNCHANGED <<helps, successors, companions, strayed>>

(* Mutant: a decision leaves the status to the requester.                  *)
DecidedInPlace(item) == item

(* Whatever the decision interrupted, work goes on.                        *)
Decided(item) == [item EXCEPT !.status = "in_execution"]

ResolveDecision ==
  \E i \in OpenDecisions, answer \in {"approved", "rejected"} :
    /\ task.status = "waiting_decision"
    /\ decisions' = [decisions EXCEPT ![i].status = answer]
    /\ Commit(Seen, Decided(task), {})
    /\ strayed' = (strayed \/ decisions[i].prev = "waiting")
    /\ UNCHANGED <<helps, successors, companions>>

-----------------------------------------------------------------------------
(* The REST API.                                                           *)

UpdateApi(v) ==
  \E target \in Targets \cup {None}, e \in Executors \cup {None} :
    LET prior == v.task.status
        given == target # None
        status == IF given THEN target ELSE prior
    IN
    \E until \in Contexts(status, Future \cup {v.task.ctx}) :
      LET moved == [v.task EXCEPT !.status = status, !.ctx = until]
          clocked == Reclocked(prior, AssignedIfNamed(moved, e))
          restarts == given /\ status \notin Archived /\ clocked.resolved /\ prior \in Archived
          new == IF status \in Archived THEN Closed(clocked)
                 ELSE IF restarts THEN [Restarted(clocked, clock, Minutes) EXCEPT !.closed = FALSE]
                 ELSE IF given THEN [clocked EXCEPT !.closed = FALSE]
                 ELSE clocked
      IN
      /\ Commit(v, new, IF restarts THEN {"due"} ELSE {})
      /\ strayed' = (strayed \/ Bypasses(v, new) \/ (restarts /\ status = "waiting"))
      /\ UNCHANGED <<helps, decisions, successors, companions>>

AssignApi(v) ==
  \E e \in Executors :
    /\ Commit(v, Assigned(v.task, e), {})
    /\ UNCHANGED <<helps, decisions, successors, companions, strayed>>

CloseApi(v) ==
  \E status \in Archived :
    LET new == Closed([v.task EXCEPT !.status = status]) IN
    /\ Commit(v, new, {})
    /\ strayed' = (strayed \/ Bypasses(v, new))
    /\ UNCHANGED <<helps, decisions, successors, companions>>

-----------------------------------------------------------------------------
(* The legacy board, recurring tasks, cases and the workshop.              *)

(* create_next_recurring_task: recurrence_next_on never changes once it is *)
(* set, so all successors are planned for the same date.                   *)
HasOpenSuccessor(v) == \E i \in DOMAIN v.successors : v.successors[i]

Succeed(v) ==
  IF HasOpenSuccessor(v) THEN UNCHANGED successors
  ELSE /\ Len(successors) < MaxRelated
       /\ successors' = Append(successors, TRUE)

UpdateLegacy(v) ==
  \E status \in (Targets \ {"resolved"}) \cup {v.task.status}, e \in Executors :
    \E until \in Contexts(status, Future \cup {v.task.ctx}) :
      LET prior == v.task.status
          item == AssignedIfOther([v.task EXCEPT !.status = status, !.ctx = until], e)
          clocked == Reclocked(prior, item)
          restarts == status \notin Final /\ prior \in Final
          new == IF status \in Final THEN Closed(clocked)
                 ELSE IF restarts THEN [Restarted(clocked, clock, Minutes) EXCEPT !.closed = FALSE]
                 ELSE [clocked EXCEPT !.closed = FALSE]
      IN
      /\ ~e.claim
      /\ IF status \in Final THEN Succeed(v) ELSE UNCHANGED successors
      /\ Commit(v, new, IF restarts THEN {"due"} ELSE {})
      /\ strayed' = (strayed \/ Bypasses(v, new) \/ (restarts /\ status = "waiting"))
      /\ UNCHANGED <<helps, decisions, companions>>

CloseLegacy(v) ==
  LET new == Closed([v.task EXCEPT !.status = "closed"]) IN
  /\ ~v.task.closed
  /\ Succeed(v)
  /\ Commit(v, new, {"closed"})
  /\ strayed' = (strayed \/ Bypasses(v, new))
  /\ UNCHANGED <<helps, decisions, companions>>

(* A successor is concluded, and may be reopened, like any task.           *)
SuccessorMoves ==
  \E i \in DOMAIN successors :
    /\ successors' = [successors EXCEPT ![i] = ~@]
    /\ Commit(Seen, task, {})
    /\ UNCHANGED <<helps, decisions, companions, strayed>>

(* create_related_case locks the task and loads it again.                  *)
RelateCase ==
  /\ companions = None
  /\ companions' = <<TRUE>>
  /\ Commit(Seen, task, {})
  /\ UNCHANGED <<helps, decisions, successors, strayed>>

Unfinished(item) == item.status \notin Archived /\ ~item.closed

(* calculated_case_state: neither empty nor completed.                     *)
CaseIsActive(item, others) == Unfinished(item) \/ \E i \in DOMAIN others : others[i]

(* The form of a case loads its tasks, finds the case active, and keeps    *)
(* the one that it copies.  add_task_to_case locks the tasks and asks once *)
(* more, but the session answers for that one as it was loaded.            *)
AddToCase(v) ==
  /\ None \notin {v.companions, companions}
  /\ CaseIsActive(v.task, v.companions) /\ CaseIsActive(v.task, companions)
  /\ Len(companions) < MaxRelated
  /\ companions' = Append(companions, TRUE)
  /\ Commit(v, v.task, {})
  /\ UNCHANGED <<helps, decisions, successors, strayed>>

(* So are the other tasks of the case.                                     *)
CompanionMoves ==
  /\ companions # None
  /\ \E i \in DOMAIN companions : companions' = [companions EXCEPT ![i] = ~@]
  /\ Commit(Seen, task, {})
  /\ UNCHANGED <<helps, decisions, successors, strayed>>

(* The tasks of a cancelled workshop process are cancelled with it.        *)
CancelWithProcess(v) ==
  LET new == [v.task EXCEPT !.status = "cancelled", !.closed = TRUE] IN
  /\ ~v.task.closed /\ v.task.status \notin Final
  /\ Commit(v, new, {"closed"})
  /\ strayed' = (strayed \/ Bypasses(v, new) \/ v.task.paused # None)
  /\ taken' = TRUE
  /\ UNCHANGED <<helps, decisions, successors, companions>>

-----------------------------------------------------------------------------
Handle(v) ==
  \/ Transition(v) \/ EditFields(v) \/ CloseClean(v) \/ Reopen(v) \/ Comment(v) \/ Claim(v)
  \/ RequestSupport(v) \/ AcceptSupport(v) \/ EndSupport(v)
  \/ UpdateApi(v) \/ AssignApi(v) \/ CloseApi(v)
  \/ UpdateLegacy(v) \/ CloseLegacy(v) \/ AddToCase(v)

Serve(v) == (Handle(v) /\ UNCHANGED taken) \/ CancelWithProcess(v)

Prompt == Serve(Seen) /\ UNCHANGED view

Overtaken(r) == view[r] # None /\ Serve(view[r]) /\ view' = [view EXCEPT ![r] = None]

LocksTask ==
  /\ \/ RequestDecision \/ AskForInformation \/ ResolveDecision
     \/ RelateCase \/ SuccessorMoves \/ CompanionMoves
  /\ UNCHANGED <<view, taken>>

Next ==
  \/ Tick
  \/ Prompt
  \/ LocksTask
  \/ \E r \in Slow : Load(r) \/ Overtaken(r)

Spec == Init /\ [][Next]_vars

-----------------------------------------------------------------------------
(* Properties.                                                             *)

OptionalInstant(x) == x = None \/ x \in Nat

(* Every column keeps its type.                                            *)
TypeOK ==
  /\ clock \in 0 .. Horizon /\ commits \in 0 .. MaxCommits
  /\ task.status \in Statuses /\ task.total \in Nat
  /\ \A f \in {"closed", "responded", "resolved", "pauses"} : task[f] \in BOOLEAN
  /\ \A f \in {"firstDue", "due", "paused", "ctx"} : OptionalInstant(task[f])
  /\ task.user \in Users \cup {None} /\ task.claimed \in Users \cup {None}
  /\ task.team \in {Team, None}
  /\ \A i \in DOMAIN helps : helps[i].prev \in Statuses \ {"support_requested"}
  /\ \A i \in DOMAIN decisions : decisions[i].prev \in Statuses \ Asking

(* What is left of the two service levels is what was allotted less the    *)
(* time the task was not waiting: pauses, interruptions of a wait for      *)
(* support, resolution and reopening neither give nor take any time        *)
(* (pause_task_sla, resume_task_sla, _shift_deadlines).                    *)
SlaCountsWorkedTime ==
  ~stale /\ ~strayed =>
    LET running == IF task.paused = None THEN 0 ELSE clock - task.paused IN
    /\ task.total + running = waited
    /\ ~task.responded => task.firstDue = Later(FirstMinutes, task.total)
    /\ ~task.resolved => task.due + running + worked = clock + Minutes

(* At most one request for support and one for a decision is open, however *)
(* requests overlap; and as long as no surface writes over them, the       *)
(* status of the task is the one that lets the open question be answered.  *)
QuestionsMatch ==
  /\ Cardinality(OpenHelps) <= 1 /\ Cardinality(OpenDecisions) <= 1
  /\ ~stale /\ ~strayed =>
       /\ (task.status = "support_requested") <=> (OpenHelps # {})
       /\ OpenDecisions # {} <=>
            \/ task.status = "waiting_decision"
            \/ \E i \in OpenHelps : helps[i].prev = "waiting_decision"

(* A task that is over, 'resolved' included, is stamped as over: answered, *)
(* resolved and with its clock stopped, unless a workshop process took it  *)
(* along without a stamp.  But the surfaces differ on what is over.  Final *)
(* are the statuses that all of them close; a task that is 'resolved' has  *)
(* a time of closure from the API and loses it on the pages; and a decision*)
(* asked of such a task leaves it in execution with its time of closure.   *)
FinishedIsStamped ==
  /\ task.status \in Archived /\ ~(task.status = "cancelled" /\ taken) =>
       task.resolved /\ task.responded /\ task.paused = None
  /\ task.status \in Final => task.closed
  /\ task.closed =>
       task.status \in Archived \/ \E i \in DOMAIN decisions : decisions[i].prev = "resolved"

(* Who claimed the task is its executor, and only a team's unclaimed task  *)
(* is free to be claimed.                                                  *)
ExecutorIsOne ==
  /\ task.claimed # None => task.user = task.claimed /\ task.state = "assigned_user"
  /\ task.state = "team_unclaimed" => task.team # None /\ task.user = None
  /\ (task.state = "assigned_user") <=> (task.user # None)

(* Four surfaces conclude, reopen and assign the same task with code of    *)
(* their own.  Whichever of them changed it before, a concluded task has   *)
(* every mark that another looks for, a reopened one has no time of        *)
(* closure left, and the columns of the executor agree.                    *)
SurfacesAgree == ~stale => FinishedIsStamped /\ ExecutorIsOne

(* A task is added only to a case that is active, one of whose tasks is    *)
(* unfinished: _resolve_case_add_task_access promises it, and              *)
(* add_task_to_case asks again under the lock of the tasks.                *)
JoinsActiveCase ==
  [][None \notin {companions, companions'} /\ Len(companions') > Len(companions) =>
       CaseIsActive(task, companions)]_vars

=============================================================================
