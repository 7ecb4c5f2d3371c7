--------------------------- MODULE TaskRecurrence ---------------------------
(***************************************************************************)
(* Tasks generated from recurrence templates                               *)
(* (app/services/task_recurrence.py and the template forms of              *)
(* app/web/router.py) on PostgreSQL.                                       *)
(*                                                                         *)
(* A run selects the templates that are due FOR UPDATE SKIP LOCKED, makes  *)
(* the task of one slot at a time, and commits once at the end; a crash    *)
(* before that undoes all of it.  Web requests, the templates page and the *)
(* scheduled command run in processes of their own, so the process-wide    *)
(* _generation_lock never makes one of these runs wait for another.        *)
(*                                                                         *)
(* Instants are numbered: an interval is a distance between two slots.     *)
(***************************************************************************)
EXTENDS Integers, FiniteSets

CONSTANTS
  Runs,         \* processes that generate
  Scheduled,    \* the one that the scheduler starts again and again
  Editors,      \* requests of the template forms
  NumTemplates, \* bound on the number of templates; their ids order them
  Intervals,    \* distances between the slots of a template
  Limits,       \* values of max_occurrences
  Horizon,      \* bound on the clock
  MaxEdits,     \* bound on the saved forms
  MaxCrashes,   \* bound on the crashes of runs
  None

ASSUME ParametersAssumption ==
  /\ Scheduled \in Runs
  /\ NumTemplates \in Nat /\ Horizon \in Nat /\ MaxEdits \in Nat /\ MaxCrashes \in Nat
  /\ Intervals \subseteq Nat \ {0} /\ Limits \subseteq Nat \ {0}
  /\ None \notin Nat

Templates == 1 .. NumTemplates
Keys == Templates \X Nat       \* of an occurrence: template_id, scheduled_for

VARIABLES
  clock,        \* the current instant
  enabled,      \* template -> enabled
  nextRun,      \* template -> next_run_at, None before it is created
  interval,     \* template -> interval
  occurrences,  \* keys in task_recurrence_occurrences
  tasks,        \* <<key, n>>: the n-th task made for the key
  run,          \* run -> what its open transaction selected and made
  form,         \* editor -> the template as its session loaded it
  edits,        \* saved forms, counted for MaxEdits
  crashes       \* crashes, counted for MaxCrashes

rows == <<enabled, nextRun, interval, occurrences, tasks>>
vars == <<clock, enabled, nextRun, interval, occurrences, tasks, run, form, edits, crashes>>

Init ==
  /\ clock = 0
  /\ enabled = [t \in Templates |-> FALSE]
  /\ nextRun = [t \in Templates |-> None]
  /\ interval = [t \in Templates |-> None]
  /\ occurrences = {}
  /\ tasks = {}
  /\ run = [r \in Runs |-> None]
  /\ form = [e \in Editors |-> None]
  /\ edits = 0
  /\ crashes = 0

Tick ==
  /\ clock < Horizon
  /\ clock' = clock + 1
  /\ UNCHANGED <<rows, run, form, edits, crashes>>

-----------------------------------------------------------------------------
(* Locks and order.                                                        *)

Holds(r, t) == run[r] # None /\ t \in DOMAIN run[r].next

(* Mutant: the templates are selected without FOR UPDATE.                  *)
NeverLocked(t) == FALSE

Locked(t) == \E r \in Runs : Holds(r, t)

(* ORDER BY next_run_at, id                                                *)
Before(f, t, u) == f[t] < f[u] \/ (f[t] = f[u] /\ t < u)

(* Mutant: a slot is made one instant before it is due.                    *)
IsDueSoon(slot, now) == slot <= now + 1

IsDue(slot, now) == slot <= now

DueTemplates ==
  {t \in Templates : nextRun[t] # None /\ enabled[t] /\ IsDue(nextRun[t], clock)}

-----------------------------------------------------------------------------
(* A run.                                                                  *)

Start(r) ==
  \E limit \in Limits :
    LET free == {t \in DueTemplates : ~Locked(t)}
        selected ==
          {t \in free : Cardinality({u \in free : Before(nextRun, u, t)}) < limit}
    IN
    /\ run[r] = None
    /\ selected # {}
    /\ run' = [run EXCEPT ![r] =
         [now |-> clock, left |-> limit, made |-> {},
          at |-> [t \in selected |-> nextRun[t]],
          every |-> [t \in selected |-> interval[t]],
          next |-> [t \in selected |-> nextRun[t]]]]
    /\ UNCHANGED <<clock, rows, form, edits, crashes>>

(* What is left of the loops over the selected templates.                  *)
Pending(g) == {t \in DOMAIN g.next : g.left > 0 /\ IsDue(g.next[t], g.now)}

(* Mutant: an occurrence that exists gets a task all the same.             *)
ReservedAnyway(key, made) == TRUE

Reserved(key, made) == key \notin occurrences \cup made

(* Mutant: a slot that was reserved before is not left behind.             *)
AdvancedIfNew(slot, every, new) == IF new THEN slot + every ELSE slot

(* Mutant: the next slot is chosen twice as far.                           *)
AdvancedTwice(slot, every, new) == slot + 2 * every

(* advance_schedule; the slot is left whether or not it was new.           *)
Advanced(slot, every, new) == slot + every

(* One turn of the inner loop.  The insert waits for a run that inserted   *)
(* the same key and did not commit.                                        *)
Generate(r) ==
  /\ run[r] # None
  /\ \E t \in Pending(run[r]) :
       LET g == run[r]
           key == <<t, g.next[t]>>
           new == Reserved(key, g.made)
       IN
       /\ \A u \in Pending(g) \ {t} : Before(g.at, t, u)
       /\ new => \A q \in Runs \ {r} : run[q] # None => key \notin run[q].made
       /\ run' = [run EXCEPT ![r] =
            [now |-> g.now, left |-> g.left - 1,
             made |-> IF new THEN g.made \cup {key} ELSE g.made,
             at |-> g.at, every |-> g.every,
             next |-> [g.next EXCEPT ![t] = Advanced(@, g.every[t], new)]]]
       /\ UNCHANGED <<clock, rows, form, edits, crashes>>

TasksOf(key) == {task \in tasks : task[1] = key}

Commit(r) ==
  /\ run[r] # None
  /\ Pending(run[r]) = {}
  /\ occurrences' = occurrences \cup run[r].made
  /\ tasks' = tasks \cup {<<key, Cardinality(TasksOf(key)) + 1>> : key \in run[r].made}
  /\ nextRun' = [t \in Templates |-> IF Holds(r, t) THEN run[r].next[t] ELSE nextRun[t]]
  /\ run' = [run EXCEPT ![r] = None]
  /\ UNCHANGED <<clock, enabled, interval, form, edits, crashes>>

Crash(r) ==
  /\ run[r] # None
  /\ crashes < MaxCrashes
  /\ run' = [run EXCEPT ![r] = None]
  /\ crashes' = crashes + 1
  /\ UNCHANGED <<clock, rows, form, edits>>

-----------------------------------------------------------------------------
(* The forms.  A form is loaded without a lock; when it is saved, the      *)
(* session writes the columns whose value differs from the loaded one.     *)

CreateTemplate ==
  \E t \in Templates, slot \in 0 .. Horizon, every \in Intervals :
    /\ nextRun[t] = None
    /\ \A u \in Templates : u < t => nextRun[u] # None
    /\ enabled' = [enabled EXCEPT ![t] = TRUE]
    /\ nextRun' = [nextRun EXCEPT ![t] = slot]
    /\ interval' = [interval EXCEPT ![t] = every]
    /\ UNCHANGED <<clock, occurrences, tasks, run, form, edits, crashes>>

LoadForm(e) ==
  \E t \in Templates :
    /\ form[e] = None
    /\ nextRun[t] # None
    /\ form' = [form EXCEPT ![e] = [template |-> t, enabled |-> enabled[t],
                                    next |-> nextRun[t], every |-> interval[t]]]
    /\ UNCHANGED <<clock, rows, run, edits, crashes>>

Saved(e) ==
  /\ form[e] # None
  /\ ~Locked(form[e].template)
  /\ edits < MaxEdits
  /\ edits' = edits + 1
  /\ form' = [form EXCEPT ![e] = None]
  /\ UNCHANGED <<clock, occurrences, tasks, run, crashes>>

(* Mutant: a field that was not changed is stored as empty.                *)
ColumnOrNothing(new, old, current) == IF new # old THEN new ELSE None

Column(new, old, current) == IF new # old THEN new ELSE current

SaveUpdate(e) ==
  \E slot \in 0 .. Horizon, every \in Intervals :
    LET f == form[e] IN
    /\ Saved(e)
    /\ nextRun' = [nextRun EXCEPT ![f.template] = Column(slot, f.next, @)]
    /\ interval' = [interval EXCEPT ![f.template] = Column(every, f.every, @)]
    /\ UNCHANGED enabled

SaveToggle(e) ==
  LET f == form[e] IN
  /\ Saved(e)
  /\ enabled' = [enabled EXCEPT ![f.template] = ~f.enabled]
  /\ UNCHANGED <<nextRun, interval>>

Next ==
  \/ Tick
  \/ CreateTemplate
  \/ \E r \in Runs : Start(r) \/ Generate(r) \/ Commit(r) \/ Crash(r)
  \/ \E e \in Editors : LoadForm(e) \/ SaveUpdate(e) \/ SaveToggle(e)

(* The scheduler starts its command again and again, and a run that does   *)
(* not crash goes on to its commit.  Nothing makes the other processes     *)
(* run, and nobody has to edit a template.                                 *)
Fairness ==
  /\ WF_vars(Start(Scheduled))
  /\ \A r \in Runs : WF_vars(Generate(r)) /\ WF_vars(Commit(r))

Spec == Init /\ [][Next]_vars /\ Fairness

-----------------------------------------------------------------------------
(* Properties.                                                             *)

RunOK(r) ==
  LET g == run[r] IN
  g # None =>
    /\ g.now \in 0 .. clock /\ g.left \in Nat
    /\ DOMAIN g.next \subseteq Templates
    /\ DOMAIN g.at = DOMAIN g.next /\ DOMAIN g.every = DOMAIN g.next
    /\ \A t \in DOMAIN g.next :
         g.at[t] \in Nat /\ g.next[t] \in Nat /\ g.every[t] \in Nat \ {0}
    /\ g.made \subseteq (DOMAIN g.next) \X Nat

FormOK(e) ==
  form[e] # None =>
    /\ form[e].template \in Templates /\ nextRun[form[e].template] # None
    /\ form[e].enabled \in BOOLEAN /\ form[e].next \in Nat /\ form[e].every \in Intervals

(* Every row and every open transaction has the type of its columns, and   *)
(* a template is never left without its next slot or its interval.         *)
TypeOK ==
  /\ clock \in 0 .. Horizon /\ edits \in 0 .. MaxEdits /\ crashes \in 0 .. MaxCrashes
  /\ enabled \in [Templates -> BOOLEAN]
  /\ nextRun \in [Templates -> Nat \cup {None}]
  /\ interval \in [Templates -> Intervals \cup {None}]
  /\ \A t \in Templates : nextRun[t] # None <=> interval[t] # None
  /\ \A t \in Templates : enabled[t] => nextRun[t] # None
  /\ occurrences \subseteq Keys
  /\ DOMAIN run = Runs /\ \A r \in Runs : RunOK(r)
  /\ DOMAIN form = Editors /\ \A e \in Editors : FormOK(e)

(* What a run holds is as it was selected and is held by no other run, and *)
(* what it made is due and was not made before: a form or another run      *)
(* cannot come between the selection and the commit (SKIP LOCKED).         *)
RunsAreCurrent ==
  \A r \in Runs : run[r] # None =>
    /\ \A t \in DOMAIN run[r].next :
         /\ enabled[t] /\ nextRun[t] = run[r].at[t] /\ interval[t] = run[r].every[t]
         /\ \A q \in Runs \ {r} : ~Holds(q, t)
    /\ \A key \in run[r].made : key \notin occurrences /\ key[2] <= run[r].now

(* Restarts, overlapping runs and templates set back to a slot they left   *)
(* never produce an occurrence twice, and an occurrence has its task       *)
(* (docs/TASK_RECURRENCE_OPERATIONS.md).                                   *)
OneTaskPerSlot == tasks = {<<key, 1>> : key \in occurrences}

(* No task is made before its slot.                                        *)
NothingEarly == \A key \in occurrences : key[2] <= clock

(* A task is made only of a template that is enabled when the task appears,*)
(* although the run read the template long before (FOR UPDATE).            *)
GeneratesOnlyEnabled ==
  [][\A key \in occurrences' \ occurrences : enabled[key[1]]]_vars

(* A run leaves no slot behind: every slot that a template moves past      *)
(* without an edit has its occurrence.                                     *)
LeavesNoSlot ==
  [][edits' = edits =>
       \A t \in Templates : nextRun[t] # None /\ nextRun'[t] # nextRun[t] =>
         \A slot \in nextRun[t] .. nextRun'[t] - 1 :
           (slot - nextRun[t]) % interval[t] = 0 => <<t, slot>> \in occurrences']_vars

(* An enabled template does not stay due: its backlog is worked off, also  *)
(* when an edit sets it back to slots that were made before, when other    *)
(* templates take the whole limit, and after crashes.                      *)
CatchesUp == \A t \in Templates : t \in DueTemplates ~> t \notin DueTemplates

=============================================================================
