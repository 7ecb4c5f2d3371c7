----------------------- MODULE TaskRecurrenceProofs -----------------------
(***************************************************************************)
(* Proofs about TaskRecurrence, for every number of runs, editors and      *)
(* templates, every limit and every length of time.                        *)
(***************************************************************************)
EXTENDS TaskRecurrence, FiniteSetTheorems, TLAPS

(* What a commit keeps rests on what the open runs hold and made.          *)
IndInv == TypeOK /\ RunsAreCurrent /\ OneTaskPerSlot /\ NothingEarly

-----------------------------------------------------------------------------
(* The steps.                                                              *)

(* Nothing is made yet and nothing is held.                                *)
LEMMA InitIndInv == Init => IndInv
  BY ParametersAssumption
     DEF Init, IndInv, TypeOK, RunsAreCurrent, OneTaskPerSlot, NothingEarly, RunOK, FormOK,
         Keys, Templates

(* Time makes what was due no less due.                                    *)
LEMMA TickKeeps == ASSUME IndInv, Tick PROVE IndInv'
  BY ParametersAssumption
     DEF Tick, rows, IndInv, TypeOK, RunsAreCurrent, OneTaskPerSlot, NothingEarly, RunOK,
         FormOK, Keys, Templates, Holds

(* A run selects templates that no other run holds.                        *)
LEMMA StartKeeps == ASSUME IndInv, NEW r \in Runs, Start(r) PROVE IndInv'
  <1>1. PICK limit \in Limits, selected \in SUBSET DueTemplates :
          /\ run' = [run EXCEPT ![r] =
               [now |-> clock, left |-> limit, made |-> {},
                at |-> [t \in selected |-> nextRun[t]],
                every |-> [t \in selected |-> interval[t]],
                next |-> [t \in selected |-> nextRun[t]]]]
          /\ \A t \in selected : ~Locked(t)
          /\ run[r] = None
    BY DEF Start
  <1>2. UNCHANGED <<clock, rows, form, edits, crashes>>
    BY DEF Start
  <1>3. \A t \in selected :
          /\ t \in Templates /\ enabled[t] /\ ~Locked(t)
          /\ nextRun[t] \in Nat /\ interval[t] \in Nat \ {0}
    BY <1>1, ParametersAssumption DEF DueTemplates, IndInv, TypeOK
  <1>4. TypeOK'
    <2>1. RunOK(r)'
      BY <1>1, <1>2, <1>3, ParametersAssumption DEF IndInv, TypeOK, RunOK, rows
    <2>2. \A q \in Runs \ {r} : RunOK(q)'
      BY <1>1, <1>2 DEF IndInv, TypeOK, RunOK, rows
    <2> QED
      BY <1>1, <1>2, <2>1, <2>2 DEF IndInv, TypeOK, FormOK, rows
  <1>5. RunsAreCurrent'
    <2>1. \A q \in Runs, t \in Templates :
            Holds(q, t)' => IF q = r THEN t \in selected /\ ~Locked(t) ELSE Holds(q, t)
      BY <1>1 DEF Holds, IndInv, TypeOK
    <2>2. \A q \in Runs \ {r} : run'[q] = run[q]
      BY <1>1 DEF IndInv, TypeOK
    <2>3. /\ run'[r].made = {} /\ DOMAIN run'[r].next = selected
          /\ \A t \in selected : run'[r].at[t] = nextRun[t] /\ run'[r].every[t] = interval[t]
      BY <1>1 DEF IndInv, TypeOK
    <2>4. \A q \in Runs, t \in Templates : Holds(q, t) => Locked(t)
      BY DEF Locked
    <2>5. \A q \in Runs : run[q] # None => DOMAIN run[q].next \subseteq Templates
      BY DEF IndInv, TypeOK, RunOK
    <2> SUFFICES ASSUME NEW q \in Runs, run'[q] # None
                 PROVE  /\ \A t \in DOMAIN run'[q].next :
                             /\ enabled[t] /\ nextRun[t] = run'[q].at[t]
                             /\ interval[t] = run'[q].every[t]
                             /\ \A p \in Runs \ {q} : ~Holds(p, t)'
                        /\ \A key \in run'[q].made :
                             key \notin occurrences /\ key[2] <= run'[q].now
      BY <1>2 DEF RunsAreCurrent, rows
    <2>6. CASE q = r
      BY <1>3, <2>1, <2>3, <2>4, <2>6
    <2>7. CASE q # r
      <3>1. run[q] # None /\ run'[q] = run[q]
        BY <2>2, <2>7
      <3>2. \A t \in DOMAIN run[q].next : Holds(q, t) /\ Locked(t) /\ t \in Templates
        BY <2>4, <2>5, <3>1 DEF Holds
      <3> QED
        BY <2>1, <3>1, <3>2 DEF IndInv, RunsAreCurrent
    <2> QED
      BY <2>6, <2>7
  <1> QED
    BY <1>2, <1>4, <1>5 DEF IndInv, OneTaskPerSlot, NothingEarly, rows

(* One turn of the loop adds at most one due key that was not made before. *)
LEMMA GenerateKeeps == ASSUME IndInv, NEW r \in Runs, Generate(r) PROVE IndInv'
  <1> DEFINE g == run[r]
  <1>1. PICK t \in Pending(g) :
          LET key == <<t, g.next[t]>>
              new == Reserved(key, g.made)
          IN  run' = [run EXCEPT ![r] =
                [now |-> g.now, left |-> g.left - 1,
                 made |-> IF new THEN g.made \cup {key} ELSE g.made,
                 at |-> g.at, every |-> g.every,
                 next |-> [g.next EXCEPT ![t] = Advanced(@, g.every[t], new)]]]
    BY DEF Generate
  <1>2. UNCHANGED <<clock, rows, form, edits, crashes>> /\ run[r] # None
    BY DEF Generate
  <1>3. t \in DOMAIN g.next /\ g.left > 0 /\ g.next[t] <= g.now
    BY DEF Pending, IsDue
  <1>4. RunOK(r)
    BY DEF IndInv, TypeOK
  <1>5. /\ run'[r].now = g.now /\ run'[r].left = g.left - 1
        /\ run'[r].at = g.at /\ run'[r].every = g.every
        /\ run'[r].next = [g.next EXCEPT ![t] = g.next[t] + g.every[t]]
        /\ \/ run'[r].made = g.made
           \/ /\ run'[r].made = g.made \cup {<<t, g.next[t]>>}
              /\ <<t, g.next[t]>> \notin occurrences
    BY <1>1, <1>3 DEF IndInv, TypeOK, Advanced, Reserved
  <1>6. DOMAIN run'[r].next = DOMAIN g.next
    BY <1>5
  <1>7. \A q \in Runs \ {r} : run'[q] = run[q]
    BY <1>1 DEF IndInv, TypeOK
  <1>8. DOMAIN run' = Runs
    BY <1>1 DEF IndInv, TypeOK
  <1>9. RunOK(r)'
    <2>1. \A u \in DOMAIN g.next : run'[r].next[u] \in Nat
      BY <1>2, <1>3, <1>4, <1>5 DEF RunOK
    <2> QED
      BY <1>2, <1>3, <1>4, <1>5, <1>6, <2>1 DEF RunOK
  <1>10. TypeOK'
    <2>1. \A q \in Runs \ {r} : RunOK(q)'
      BY <1>2, <1>7 DEF IndInv, TypeOK, RunOK
    <2> QED
      BY <1>2, <1>8, <1>9, <2>1 DEF IndInv, TypeOK, FormOK, rows
  <1>11. RunsAreCurrent'
    <2>1. \A q \in Runs : \A u : Holds(q, u)' => Holds(q, u)
      BY <1>2, <1>6, <1>7 DEF Holds
    <2>2. \A q \in Runs : run'[q] # None => run[q] # None
      BY <1>2, <1>7
    <2>3. \A key \in run'[r].made : key \notin occurrences /\ key[2] <= run'[r].now
      BY <1>2, <1>3, <1>5 DEF IndInv, RunsAreCurrent
    <2>4. \A u \in DOMAIN run'[r].next :
            /\ enabled[u] /\ nextRun[u] = run'[r].at[u] /\ interval[u] = run'[r].every[u]
            /\ \A q \in Runs \ {r} : ~Holds(q, u)
      BY <1>2, <1>5, <1>6 DEF IndInv, RunsAreCurrent
    <2> QED
      BY <1>2, <1>7, <2>1, <2>2, <2>3, <2>4 DEF IndInv, RunsAreCurrent, rows
  <1> QED
    BY <1>2, <1>10, <1>11 DEF IndInv, OneTaskPerSlot, NothingEarly, rows

(* A committed run makes the first task of each of its keys.               *)
LEMMA FirstTasks ==
  ASSUME IndInv, NEW r \in Runs, run[r] # None
  PROVE  \A key \in run[r].made : Cardinality(TasksOf(key)) = 0
  <1> SUFFICES ASSUME NEW key \in run[r].made
               PROVE  TasksOf(key) = {}
    BY FS_EmptySet
  <1>1. key \notin occurrences
    BY DEF IndInv, RunsAreCurrent
  <1>2. \A task \in tasks : task[1] \in occurrences
    BY DEF IndInv, OneTaskPerSlot
  <1> QED
    BY <1>1, <1>2 DEF TasksOf

(* A commit moves only the templates that no other run holds.              *)
LEMMA CommitKeeps == ASSUME IndInv, NEW r \in Runs, Commit(r) PROVE IndInv'
  <1> DEFINE g == run[r]
  <1>1. /\ g # None
        /\ occurrences' = occurrences \cup g.made
        /\ nextRun' = [t \in Templates |-> IF Holds(r, t) THEN g.next[t] ELSE nextRun[t]]
        /\ run' = [run EXCEPT ![r] = None]
        /\ UNCHANGED <<clock, enabled, interval, form, edits, crashes>>
    BY DEF Commit
  <1>2. RunOK(r)
    BY DEF IndInv, TypeOK
  <1>3. DOMAIN run' = Runs /\ run'[r] = None /\ \A q \in Runs \ {r} : run'[q] = run[q]
    BY <1>1 DEF IndInv, TypeOK
  <1>4. \A t \in Templates :
          /\ Holds(r, t) => nextRun[t] # None /\ nextRun'[t] \in Nat
          /\ ~Holds(r, t) => nextRun'[t] = nextRun[t]
    <2> SUFFICES ASSUME NEW t \in Templates
                 PROVE  /\ Holds(r, t) => nextRun[t] # None /\ nextRun'[t] \in Nat
                        /\ ~Holds(r, t) => nextRun'[t] = nextRun[t]
      OBVIOUS
    <2>1. ASSUME Holds(r, t) PROVE nextRun[t] # None /\ nextRun'[t] \in Nat
      <3>1. t \in DOMAIN g.next
        BY <2>1 DEF Holds
      <3>2. enabled[t] /\ g.next[t] \in Nat
        BY <1>1, <1>2, <3>1 DEF IndInv, RunsAreCurrent, RunOK
      <3> QED
        BY <1>1, <2>1, <3>2 DEF IndInv, TypeOK
    <2> QED
      BY <1>1, <2>1
  <1>5. TypeOK'
    <2>1. nextRun' \in [Templates -> Nat \cup {None}]
      BY <1>1, <1>4 DEF IndInv, TypeOK
    <2>2. \A t \in Templates : nextRun'[t] # None <=> nextRun[t] # None
      BY <1>4, ParametersAssumption
    <2>3. occurrences' \subseteq Keys
      BY <1>1, <1>2 DEF IndInv, TypeOK, RunOK, Keys
    <2>4. \A q \in Runs : RunOK(q)'
      BY <1>1, <1>3 DEF IndInv, TypeOK, RunOK
    <2>5. \A e \in Editors : FormOK(e)'
      BY <1>1, <2>2 DEF IndInv, TypeOK, FormOK
    <2> QED
      BY <1>1, <1>3, <2>1, <2>2, <2>3, <2>4, <2>5 DEF IndInv, TypeOK
  <1>6. RunsAreCurrent'
    <2> SUFFICES ASSUME NEW q \in Runs, run'[q] # None
                 PROVE  /\ \A t \in DOMAIN run'[q].next :
                             /\ enabled'[t] /\ nextRun'[t] = run'[q].at[t]
                             /\ interval'[t] = run'[q].every[t]
                             /\ \A p \in Runs \ {q} : ~Holds(p, t)'
                        /\ \A key \in run'[q].made :
                             key \notin occurrences' /\ key[2] <= run'[q].now
      BY DEF RunsAreCurrent
    <2>1. q # r /\ run'[q] = run[q] /\ run[q] # None
      BY <1>3
    <2>2. RunOK(q)
      BY DEF IndInv, TypeOK
    <2>3. \A t \in DOMAIN run[q].next : t \in Templates /\ ~Holds(r, t)
      BY <2>1, <2>2 DEF IndInv, RunsAreCurrent, RunOK
    <2>4. \A p \in Runs : \A t : Holds(p, t)' => Holds(p, t)
      BY <1>3 DEF Holds
    <2>5. \A key \in run[q].made : key \notin g.made
      <3>1. \A key \in run[q].made : key[1] \in DOMAIN run[q].next
        BY <2>1, <2>2 DEF RunOK
      <3>2. \A key \in g.made : key[1] \in DOMAIN g.next
        BY <1>1, <1>2 DEF RunOK
      <3> QED
        BY <1>1, <2>3, <3>1, <3>2 DEF Holds
    <2> QED
      BY <1>1, <1>4, <2>1, <2>3, <2>4, <2>5 DEF IndInv, RunsAreCurrent
  <1>7. OneTaskPerSlot'
    <2>1. tasks' = tasks \cup {<<key, 1>> : key \in g.made}
      BY <1>1, FirstTasks DEF Commit
    <2> QED
      BY <1>1, <2>1 DEF IndInv, OneTaskPerSlot
  <1>8. NothingEarly'
    <2>1. \A key \in g.made : key[2] <= clock
      <3>1. \A key \in g.made : key[2] \in Nat /\ key[2] <= g.now
        BY <1>1, <1>2 DEF IndInv, RunsAreCurrent, RunOK
      <3>2. g.now <= clock /\ g.now \in Nat /\ clock \in Nat
        BY <1>1, <1>2, ParametersAssumption DEF RunOK, IndInv, TypeOK
      <3> QED
        BY <3>1, <3>2
    <2> QED
      BY <1>1, <2>1 DEF IndInv, NothingEarly
  <1> QED
    BY <1>5, <1>6, <1>7, <1>8 DEF IndInv

(* A crash releases what the run held.                                     *)
LEMMA CrashKeeps == ASSUME IndInv, NEW r \in Runs, Crash(r) PROVE IndInv'
  <1>1. /\ run' = [run EXCEPT ![r] = None]
        /\ crashes < MaxCrashes /\ crashes' = crashes + 1
        /\ UNCHANGED <<clock, rows, form, edits>>
    BY DEF Crash
  <1>2. DOMAIN run' = Runs /\ run'[r] = None /\ \A q \in Runs \ {r} : run'[q] = run[q]
    BY <1>1 DEF IndInv, TypeOK
  <1>3. TypeOK'
    <2>1. crashes' \in 0 .. MaxCrashes
      BY <1>1, ParametersAssumption DEF IndInv, TypeOK
    <2>2. \A q \in Runs : RunOK(q)'
      BY <1>1, <1>2 DEF IndInv, TypeOK, RunOK
    <2> QED
      BY <1>1, <1>2, <2>1, <2>2 DEF IndInv, TypeOK, FormOK, rows
  <1>4. RunsAreCurrent'
    <2>1. \A p \in Runs : \A t : Holds(p, t)' => Holds(p, t)
      BY <1>2 DEF Holds
    <2> QED
      BY <1>1, <1>2, <2>1 DEF IndInv, RunsAreCurrent, rows
  <1> QED
    BY <1>1, <1>3, <1>4 DEF IndInv, OneTaskPerSlot, NothingEarly, rows

(* A created template is held by nobody: what a run holds is enabled.      *)
LEMMA CreateTemplateKeeps == ASSUME IndInv, CreateTemplate PROVE IndInv'
  <1>1. PICK t \in Templates, slot \in 0 .. Horizon, every \in Intervals :
          /\ nextRun[t] = None
          /\ enabled' = [enabled EXCEPT ![t] = TRUE]
          /\ nextRun' = [nextRun EXCEPT ![t] = slot]
          /\ interval' = [interval EXCEPT ![t] = every]
    BY DEF CreateTemplate
  <1>2. UNCHANGED <<clock, occurrences, tasks, run, form, edits, crashes>>
    BY DEF CreateTemplate
  <1>3. slot \in Nat /\ every \in Nat \ {0} /\ slot # None /\ every # None
    BY ParametersAssumption
  <1>4. TypeOK'
    BY <1>1, <1>2, <1>3 DEF IndInv, TypeOK, RunOK, FormOK
  <1>5. \A r \in Runs : ~Holds(r, t)
    BY <1>1 DEF Holds, IndInv, RunsAreCurrent, TypeOK
  <1>6. RunsAreCurrent'
    <2>1. \A r \in Runs : run[r] # None =>
            \A u \in DOMAIN run[r].next :
              /\ enabled'[u] = enabled[u] /\ nextRun'[u] = nextRun[u]
              /\ interval'[u] = interval[u]
      <3>1. \A u \in Templates \ {t} :
              /\ enabled'[u] = enabled[u] /\ nextRun'[u] = nextRun[u]
              /\ interval'[u] = interval[u]
        BY <1>1 DEF IndInv, TypeOK
      <3>2. \A r \in Runs : run[r] # None => DOMAIN run[r].next \subseteq Templates \ {t}
        BY <1>5 DEF Holds, IndInv, TypeOK, RunOK
      <3> QED
        BY <3>1, <3>2
    <2>2. \A p, u : Holds(p, u)' <=> Holds(p, u)
      BY <1>2 DEF Holds
    <2> QED
      BY <1>2, <2>1, <2>2 DEF IndInv, RunsAreCurrent
  <1> QED
    BY <1>2, <1>4, <1>6 DEF IndInv, OneTaskPerSlot, NothingEarly

LEMMA LoadFormKeeps == ASSUME IndInv, NEW e \in Editors, LoadForm(e) PROVE IndInv'
  <1>1. PICK t \in Templates :
          /\ nextRun[t] # None
          /\ form' = [form EXCEPT ![e] = [template |-> t, enabled |-> enabled[t],
                                          next |-> nextRun[t], every |-> interval[t]]]
    BY DEF LoadForm
  <1>2. UNCHANGED <<clock, rows, run, edits, crashes>>
    BY DEF LoadForm
  <1>3. enabled[t] \in BOOLEAN /\ nextRun[t] \in Nat /\ interval[t] \in Intervals
    BY <1>1 DEF IndInv, TypeOK
  <1>4. \A d \in Editors : FormOK(d)'
    BY <1>1, <1>2, <1>3 DEF IndInv, TypeOK, FormOK, rows
  <1>5. TypeOK'
    BY <1>1, <1>2, <1>4 DEF IndInv, TypeOK, RunOK, rows
  <1> QED
    BY <1>2, <1>5 DEF IndInv, RunsAreCurrent, OneTaskPerSlot, NothingEarly, Holds, rows

(* A saved form changes a template that no run holds.                      *)
LEMMA SavedKeeps ==
  ASSUME IndInv, NEW e \in Editors, SaveUpdate(e) \/ SaveToggle(e)
  PROVE  IndInv'
  <1> DEFINE t == form[e].template
  <1>1. Saved(e)
    BY DEF SaveUpdate, SaveToggle
  <1>2. FormOK(e) /\ form[e] # None /\ t \in Templates /\ nextRun[t] # None
    BY <1>1 DEF Saved, IndInv, TypeOK, FormOK
  <1>3. /\ edits' = edits + 1 /\ edits < MaxEdits
        /\ form' = [form EXCEPT ![e] = None]
        /\ UNCHANGED <<clock, occurrences, tasks, run, crashes>>
    BY <1>1 DEF Saved
  <1>4. /\ enabled' \in [Templates -> BOOLEAN]
        /\ nextRun' \in [Templates -> Nat \cup {None}]
        /\ interval' \in [Templates -> Intervals \cup {None}]
        /\ nextRun'[t] # None /\ interval'[t] # None
        /\ \A u \in Templates \ {t} :
             enabled'[u] = enabled[u] /\ nextRun'[u] = nextRun[u] /\ interval'[u] = interval[u]
    <2>1. CASE SaveUpdate(e)
      <3>1. PICK slot \in 0 .. Horizon, every \in Intervals :
              /\ nextRun' = [nextRun EXCEPT ![t] = Column(slot, form[e].next, @)]
              /\ interval' = [interval EXCEPT ![t] = Column(every, form[e].every, @)]
              /\ UNCHANGED enabled
        BY <2>1 DEF SaveUpdate
      <3>2. /\ Column(slot, form[e].next, nextRun[t]) \in Nat
            /\ Column(every, form[e].every, interval[t]) \in Intervals
        BY <1>2, ParametersAssumption DEF Column, IndInv, TypeOK
      <3> QED
        BY <1>2, <3>1, <3>2, ParametersAssumption DEF IndInv, TypeOK
    <2>2. CASE SaveToggle(e)
      <3>1. enabled' = [enabled EXCEPT ![t] = ~form[e].enabled] /\ UNCHANGED <<nextRun, interval>>
        BY <2>2 DEF SaveToggle
      <3> QED
        BY <1>2, <3>1 DEF IndInv, TypeOK
    <2> QED
      BY <2>1, <2>2
  <1>5. TypeOK'
    <2>1. edits' \in 0 .. MaxEdits
      BY <1>3, ParametersAssumption DEF IndInv, TypeOK
    <2>2. \A u \in Templates : nextRun'[u] # None <=> nextRun[u] # None
      BY <1>2, <1>4
    <2>3. /\ \A u \in Templates : nextRun'[u] # None <=> interval'[u] # None
          /\ \A u \in Templates : enabled'[u] => nextRun'[u] # None
      BY <1>2, <1>4 DEF IndInv, TypeOK
    <2>4. \A d \in Editors : FormOK(d)'
      BY <1>3, <2>2 DEF IndInv, TypeOK, FormOK
    <2> QED
      BY <1>3, <1>4, <2>1, <2>3, <2>4 DEF IndInv, TypeOK, RunOK
  <1>6. RunsAreCurrent'
    <2>1. \A r \in Runs : ~Holds(r, t)
      BY <1>1 DEF Saved, Locked
    <2>2. \A r \in Runs : run[r] # None =>
            \A u \in DOMAIN run[r].next :
              /\ enabled'[u] = enabled[u] /\ nextRun'[u] = nextRun[u]
              /\ interval'[u] = interval[u]
      BY <1>4, <2>1 DEF Holds, IndInv, TypeOK, RunOK
    <2>3. \A p, u : Holds(p, u)' <=> Holds(p, u)
      BY <1>3 DEF Holds
    <2> QED
      BY <1>3, <2>2, <2>3 DEF IndInv, RunsAreCurrent
  <1> QED
    BY <1>3, <1>5, <1>6 DEF IndInv, OneTaskPerSlot, NothingEarly

-----------------------------------------------------------------------------
(* The theorems.                                                           *)

(* Every reachable state satisfies the inductive invariant.                *)
THEOREM Inductive == Spec => []IndInv
  <1>1. IndInv /\ [Next]_vars => IndInv'
    <2> SUFFICES ASSUME IndInv, [Next]_vars PROVE IndInv'
      OBVIOUS
    <2>1. CASE UNCHANGED vars
      BY <2>1 DEF vars, IndInv, TypeOK, RunOK, FormOK, RunsAreCurrent, OneTaskPerSlot,
                  NothingEarly, Holds
    <2> QED
      BY <2>1, TickKeeps, CreateTemplateKeeps, StartKeeps, GenerateKeeps, CommitKeeps,
         CrashKeeps, LoadFormKeeps, SavedKeeps DEF Next
  <1> QED
    BY <1>1, InitIndInv, PTL DEF Spec

(* The rows and the open transactions keep their types.                    *)
THEOREM TypesKept == Spec => []TypeOK
  BY Inductive, PTL DEF IndInv

(* Between its selection and its commit a run is alone with its templates. *)
THEOREM RunsStayCurrent == Spec => []RunsAreCurrent
  BY Inductive, PTL DEF IndInv

(* However many runs overlap, crash and repeat, and wherever the forms set *)
(* a template, each occurrence has one task.                               *)
THEOREM OccurrencesAreUnique == Spec => []OneTaskPerSlot
  BY Inductive, PTL DEF IndInv

(* No task appears before its slot.                                        *)
THEOREM NeverEarly == Spec => []NothingEarly
  BY Inductive, PTL DEF IndInv

(* A template that was disabled meanwhile gets no task.                    *)
THEOREM OnlyEnabledGenerate == Spec => GeneratesOnlyEnabled
  <1>1. ASSUME IndInv, [Next]_vars
        PROVE  [\A key \in occurrences' \ occurrences : enabled[key[1]]]_vars
    <2>1. ASSUME NEW r \in Runs, Commit(r)
          PROVE  \A key \in occurrences' \ occurrences : enabled[key[1]]
      <3>1. run[r] # None /\ occurrences' = occurrences \cup run[r].made /\ RunOK(r)
        BY <1>1, <2>1 DEF Commit, IndInv, TypeOK
      <3>2. \A key \in run[r].made : key[1] \in DOMAIN run[r].next
        BY <3>1 DEF RunOK
      <3> QED
        BY <1>1, <3>1, <3>2 DEF IndInv, RunsAreCurrent
    <2>2. CASE \E r \in Runs : Commit(r)
      BY <2>1, <2>2
    <2>3. CASE ~(\E r \in Runs : Commit(r)) /\ Next
      <3>1. occurrences' = occurrences
        BY <2>3 DEF Next, Tick, CreateTemplate, Start, Generate, Crash, LoadForm, SaveUpdate,
                    SaveToggle, Saved, rows
      <3> QED
        BY <3>1
    <2> QED
      BY <1>1, <2>2, <2>3
  <1> QED
    BY <1>1, Inductive, PTL DEF Spec, GeneratesOnlyEnabled

-----------------------------------------------------------------------------
(* Slots that are left.                                                    *)

(* Between two neighbours of the grid of an interval there is nothing.     *)
LEMMA Grid ==
  ASSUME NEW a \in Nat, NEW e \in Nat \ {0}, a % e = 0
  PROVE  /\ (a + e) % e = 0
         /\ \A b \in a .. a + e - 1 : b % e = 0 => b = a
  <1> DEFINE k == a \div e
  <1>1. k \in Int /\ a = e * k
    <2>1. a = e * (a \div e) + (a % e) /\ a \div e \in Int
      OBVIOUS
    <2> QED BY <2>1
  <1> HIDE DEF k
  <1>2. (a + e) % e = 0
    <2>1. a + e = e * (k + 1) /\ k + 1 \in Int
      BY <1>1
    <2>2. (e * (k + 1)) % e = 0
      <3>0. PICK j \in Int : j = k + 1
        BY <1>1
      <3>1. (e * j) % e = 0
        OBVIOUS
      <3> QED BY <3>0, <3>1
    <2> QED BY <2>1, <2>2
  <1>3. ASSUME NEW b \in a .. a + e - 1, b % e = 0
        PROVE  b = a
    <2> DEFINE j == b \div e
    <2>1. j \in Int /\ b = e * j
      <3>0. b \in Nat
        OBVIOUS
      <3>1. b = e * (b \div e) + (b % e) /\ b \div e \in Int
        BY <3>0
      <3> QED BY <1>3, <3>1
    <2> HIDE DEF j
    <2>2. e * k <= e * j /\ e * j < e * k + e
      BY <1>1, <2>1
    <2>3. j = k
      BY <1>1, <2>1, <2>2
    <2> QED BY <1>1, <2>1, <2>3
  <1> QED BY <1>2, <1>3

(* A run has moved each template by whole intervals, and every slot it     *)
(* left behind was made, by itself or before.                              *)
Filled(g, past) ==
  \A t \in DOMAIN g.next :
    /\ g.at[t] <= g.next[t] /\ (g.next[t] - g.at[t]) % g.every[t] = 0
    /\ \A slot \in g.at[t] .. g.next[t] - 1 :
         (slot - g.at[t]) % g.every[t] = 0 => <<t, slot>> \in past \cup g.made

NoGaps == \A r \in Runs : run[r] # None => Filled(run[r], occurrences)

LEMMA StartFills ==
  ASSUME IndInv, NoGaps, NEW r \in Runs, Start(r)
  PROVE  NoGaps'
  <1>1. PICK limit \in Limits, selected \in SUBSET DueTemplates :
          run' = [run EXCEPT ![r] =
               [now |-> clock, left |-> limit, made |-> {},
                at |-> [t \in selected |-> nextRun[t]],
                every |-> [t \in selected |-> interval[t]],
                next |-> [t \in selected |-> nextRun[t]]]]
    BY DEF Start
  <1>2. UNCHANGED occurrences
    BY DEF Start, rows
  <1>3. \A t \in selected : nextRun[t] \in Nat /\ interval[t] \in Nat \ {0}
    BY <1>1, ParametersAssumption DEF DueTemplates, IndInv, TypeOK
  <1>4. Filled(run'[r], occurrences)
    <2>1. /\ DOMAIN run'[r].next = selected
          /\ \A t \in selected : /\ run'[r].next[t] = nextRun[t] /\ run'[r].at[t] = nextRun[t]
                                 /\ run'[r].every[t] = interval[t]
      BY <1>1 DEF IndInv, TypeOK
    <2>2. \A n \in Nat, e \in Nat \ {0} : n - n = 0 /\ 0 % e = 0 /\ n <= n /\ n .. n - 1 = {}
      OBVIOUS
    <2> QED BY <1>3, <2>1, <2>2 DEF Filled
  <1> QED BY <1>1, <1>2, <1>4 DEF NoGaps, IndInv, TypeOK

LEMMA GenerateFills ==
  ASSUME IndInv, NoGaps, NEW r \in Runs, Generate(r)
  PROVE  NoGaps'
  <1> DEFINE g == run[r]
             h == run'[r]
  <1>1. PICK t \in Pending(g) :
          LET key == <<t, g.next[t]>>
              new == Reserved(key, g.made)
          IN  run' = [run EXCEPT ![r] =
                [now |-> g.now, left |-> g.left - 1,
                 made |-> IF new THEN g.made \cup {key} ELSE g.made,
                 at |-> g.at, every |-> g.every,
                 next |-> [g.next EXCEPT ![t] = Advanced(@, g.every[t], new)]]]
    BY DEF Generate
  <1>2. UNCHANGED occurrences /\ g # None
    BY DEF Generate, rows
  <1>3. t \in DOMAIN g.next /\ RunOK(r) /\ Filled(g, occurrences)
    BY <1>2 DEF Pending, IndInv, TypeOK, NoGaps
  <1>4. /\ h.at = g.at /\ h.every = g.every
        /\ h.next = [g.next EXCEPT ![t] = g.next[t] + g.every[t]]
        /\ occurrences \cup g.made \subseteq occurrences \cup h.made
        /\ <<t, g.next[t]>> \in occurrences \cup h.made
        /\ \A q \in Runs \ {r} : run'[q] = run[q]
    BY <1>1, <1>3 DEF IndInv, TypeOK, Advanced, Reserved
  <1>5. Filled(h, occurrences)
    <2> SUFFICES ASSUME NEW u \in DOMAIN g.next
                 PROVE  /\ g.at[u] <= h.next[u] /\ (h.next[u] - g.at[u]) % g.every[u] = 0
                        /\ \A slot \in g.at[u] .. h.next[u] - 1 :
                             (slot - g.at[u]) % g.every[u] = 0 =>
                               <<u, slot>> \in occurrences \cup h.made
      BY <1>4 DEF Filled
    <2>1. /\ g.at[u] \in Nat /\ g.next[u] \in Nat /\ g.every[u] \in Nat \ {0}
          /\ g.at[u] <= g.next[u] /\ (g.next[u] - g.at[u]) % g.every[u] = 0
          /\ \A slot \in g.at[u] .. g.next[u] - 1 :
               (slot - g.at[u]) % g.every[u] = 0 => <<u, slot>> \in occurrences \cup h.made
      BY <1>2, <1>3, <1>4 DEF RunOK, Filled
    <2>2. CASE u # t
      <3>1. h.next[u] = g.next[u]
        BY <1>3, <1>4, <2>2
      <3> QED BY <2>1, <3>1
    <2>3. CASE u = t
      <3>1. h.next[u] = g.next[u] + g.every[u] /\ <<u, g.next[u]>> \in occurrences \cup h.made
        BY <1>3, <1>4, <2>3
      <3> DEFINE o == g.at[u]
                 n == g.next[u]
                 e == g.every[u]
                 m == h.next[u]
                 Made(slot) == <<u, slot>> \in occurrences \cup h.made
      <3>2. /\ o \in Nat /\ n \in Nat /\ e \in Nat \ {0} /\ m = n + e
            /\ o <= n /\ (n - o) % e = 0 /\ Made(n)
            /\ \A slot \in o .. n - 1 : (slot - o) % e = 0 => Made(slot)
        BY <2>1, <3>1
      <3>3. SUFFICES /\ o <= m /\ (m - o) % e = 0
                     /\ \A slot \in o .. m - 1 : (slot - o) % e = 0 => Made(slot)
        OBVIOUS
      <3> HIDE DEF o, n, e, m, Made
      <3>4. n - o \in Nat /\ m - o = (n - o) + e
        BY <3>2
      <3>5. /\ ((n - o) + e) % e = 0
            /\ \A b \in n - o .. (n - o) + e - 1 : b % e = 0 => b = n - o
        BY <3>2, <3>4, Grid
      <3>6. ASSUME NEW slot \in o .. m - 1, (slot - o) % e = 0
            PROVE  Made(slot)
        <4>1. CASE slot < n
          <5>1. slot \in o .. n - 1
            BY <3>2, <4>1
          <5> QED BY <3>2, <3>6, <5>1
        <4>2. CASE ~(slot < n)
          <5>1. slot - o \in n - o .. (n - o) + e - 1
            BY <3>2, <4>2
          <5>2. slot - o = n - o
            BY <3>5, <3>6, <5>1
          <5>3. slot = n
            BY <3>2, <5>2
          <5> QED BY <3>2, <5>3
        <4> QED BY <4>1, <4>2
      <3> QED BY <3>2, <3>4, <3>5, <3>6
    <2> QED BY <2>2, <2>3
  <1> QED BY <1>2, <1>4, <1>5 DEF NoGaps

(* What has an occurrence keeps it, and the other steps move no run.       *)
LEMMA OthersFill ==
  ASSUME IndInv, NoGaps, occurrences \subseteq occurrences',
         \A r \in Runs : run'[r] # None => run'[r] = run[r]
  PROVE  NoGaps'
  <1>1. \A g : Filled(g, occurrences) => Filled(g, occurrences')
    BY DEF Filled
  <1> QED BY <1>1 DEF NoGaps

LEMMA GapsStep ==
  ASSUME IndInv, NoGaps, [Next]_vars
  PROVE  NoGaps'
  <1>1. ASSUME NEW r \in Runs, Commit(r) \/ Crash(r) PROVE NoGaps'
    <2>1. occurrences \subseteq occurrences' /\ run' = [run EXCEPT ![r] = None]
      BY <1>1 DEF Commit, Crash, rows
    <2> QED BY <2>1, OthersFill DEF IndInv, TypeOK
  <1>2. CASE \/ UNCHANGED vars \/ Tick \/ CreateTemplate
             \/ \E e \in Editors : LoadForm(e) \/ SaveUpdate(e) \/ SaveToggle(e)
    <2>1. UNCHANGED <<occurrences, run>>
      BY <1>2 DEF vars, Tick, CreateTemplate, LoadForm, SaveUpdate, SaveToggle, Saved, rows
    <2> QED BY <2>1, OthersFill
  <1> QED BY <1>1, <1>2, StartFills, GenerateFills DEF Next

(* No run leaves a slot behind, whatever crashed or overlapped before.     *)
LEMMA GapsNever == Spec => []NoGaps
  <1>1. Init => NoGaps
    BY DEF Init, NoGaps
  <1> QED BY <1>1, GapsStep, Inductive, PTL DEF Spec

LEMMA StepLeavesNoSlot ==
  ASSUME IndInv, NoGaps, Next, edits' = edits,
         NEW t \in Templates, nextRun[t] # None, nextRun'[t] # nextRun[t],
         NEW slot \in nextRun[t] .. nextRun'[t] - 1, (slot - nextRun[t]) % interval[t] = 0
  PROVE  <<t, slot>> \in occurrences'
  <1>1. ASSUME NEW r \in Runs, Commit(r) PROVE <<t, slot>> \in occurrences'
    <2>1. /\ run[r] # None /\ occurrences' = occurrences \cup run[r].made
          /\ nextRun' = [u \in Templates |-> IF Holds(r, u) THEN run[r].next[u] ELSE nextRun[u]]
      BY <1>1 DEF Commit
    <2>2. Holds(r, t) /\ nextRun'[t] = run[r].next[t]
      BY <2>1
    <2>3. /\ t \in DOMAIN run[r].next /\ nextRun[t] = run[r].at[t]
          /\ interval[t] = run[r].every[t]
      BY <2>1, <2>2 DEF Holds, IndInv, RunsAreCurrent
    <2> QED BY <2>1, <2>2, <2>3 DEF NoGaps, Filled
  <1>2. CASE CreateTemplate
    BY <1>2 DEF CreateTemplate, IndInv, TypeOK
  <1>3. CASE \E e \in Editors : SaveUpdate(e) \/ SaveToggle(e)
    BY <1>3 DEF SaveUpdate, SaveToggle, Saved, IndInv, TypeOK
  <1>4. CASE \/ Tick \/ \E r \in Runs : Start(r) \/ Generate(r) \/ Crash(r)
             \/ \E e \in Editors : LoadForm(e)
    BY <1>4 DEF Tick, Start, Generate, Crash, LoadForm, rows
  <1> QED BY <1>1, <1>2, <1>3, <1>4 DEF Next

(* Every slot that a template moves past without an edit has its           *)
(* occurrence, for every interval: a run that overlaps another, repeats    *)
(* slots made before or follows a crash skips none (advance_schedule).     *)
THEOREM NoSlotIsLeft == Spec => LeavesNoSlot
  <1>1. IndInv /\ NoGaps /\ [Next]_vars =>
          [edits' = edits =>
             \A t \in Templates : nextRun[t] # None /\ nextRun'[t] # nextRun[t] =>
               \A slot \in nextRun[t] .. nextRun'[t] - 1 :
                 (slot - nextRun[t]) % interval[t] = 0 => <<t, slot>> \in occurrences']_vars
    BY StepLeavesNoSlot
  <1> QED BY <1>1, Inductive, GapsNever, PTL DEF Spec, LeavesNoSlot

=============================================================================
