--------------------------- MODULE WorkshopProofs ---------------------------
(***************************************************************************)
(* Theorems about WorkshopApi, with PhotoCapture and WorkshopPhases, for   *)
(* every set of requests, templates, optional phases, photographs and      *)
(* configurations of captures, and every bound.                            *)
(*                                                                         *)
(* The inductive invariant has six parts: the types, the rows that exist,  *)
(* where the process is and what the requests under way have loaded, the   *)
(* photographs behind the phases, the phases that were added, and their    *)
(* order while nobody acted on what had changed and the process was not    *)
(* sent astray.                                                            *)
(***************************************************************************)
EXTENDS WorkshopApi, TLAPS

(* The shapes of the columns.                                              *)
Metas == [added : Seq(StepKeys), prior : ProcessStatuses \cup {None}]
Processes == [status : ProcessStatuses, current : Phases, closed : BOOLEAN, meta : Metas]
RowSets == [Phases -> RowStatuses \cup {None}]
Reports == [live : BOOLEAN, complete : BOOLEAN]
CaptureRows == [at : Places, config : Configs, status : CaptureStatuses]
Captures == Seq(CaptureRows)
ShotStatuses == CaptureStatuses \cup {"none", "removed"}
ShotRows == [Photos -> ShotStatuses]

PhotoShapes ==
  /\ captures \in Captures
  /\ shots \in Seq(ShotRows)
  /\ Len(shots) = Len(captures)
  /\ hasty \in BOOLEAN

Shapes ==
  /\ template = <<>> \/ template \in Templates
  /\ process \in Processes
  /\ rows \in RowSets
  /\ reports \in Seq(Reports)
  /\ late \subseteq Optional /\ bypassed \subseteq Phases
  /\ stale \in BOOLEAN /\ strayed \in BOOLEAN

(* The rows that exist whatever was done: those a process is made with.    *)
(* A process with a template has none of the API but that of the           *)
(* inspection, which the API makes itself.                                 *)
RowsMade ==
  IF template = <<>>
  THEN \A p \in ApiPhases : rows[p] # None
  ELSE /\ \A i \in DOMAIN template : rows[template[i]] # None
       /\ \A p \in ApiPhases \ {"technical_inspection"} : rows[p] = None

(* A process as it was loaded, or as it is: its added phases have rows,    *)
(* and so has its current one, unless it was sent astray; one of the API   *)
(* that was not is in a phase of the API.                                  *)
Placed(proc) ==
  /\ \A i \in DOMAIN proc.meta.added : rows[proc.meta.added[i]] # None
  /\ template = <<>> /\ ~strayed => proc.current \in ApiPhases
  /\ rows[proc.current] = None => proc.current \in StepKeys /\ strayed

(* What a request loaded is of the right types, and its rows exist still.  *)
Known(v) ==
  /\ v.process \in Processes /\ v.rows \in RowSets /\ v.captures \in Captures
  /\ \A p \in Phases : v.rows[p] # None => rows[p] # None
  /\ Placed(v.process)

ViewsKnown ==
  /\ DOMAIN view = Slow
  /\ \A r \in Slow : view[r] = None \/ Known(view[r])

EntryUnmade == template = <<>> /\ ~strayed => rows["entrada"] = None

(* What stood behind a phase when it was completed.                        *)
Stands(s) ==
  /\ captures[s].config.review => captures[s].status = "approved"
  /\ captures[s].status # "pending"

Evidence ==
  /\ evidence \in [Phases -> SUBSET DOMAIN captures]
  /\ ~hasty => \A p \in Phases \ bypassed :
       rows[p] = "completed" => \A s \in evidence[p] : Stands(s)

(* The phases that were added are optional ones, are not in the template,  *)
(* and none was added twice.                                               *)
AddedOnce ==
  ~stale /\ template # <<>> =>
    \A i \in DOMAIN process.meta.added :
      /\ process.meta.added[i] \in Optional
      /\ \A j \in DOMAIN template : template[j] # process.meta.added[i]
      /\ \A j \in DOMAIN process.meta.added :
           process.meta.added[j] = process.meta.added[i] => i = j

(* Status and time of closure agree, or the status was given back by a     *)
(* reopening; no cancellation notes that the process was closed by the     *)
(* clean pages, where it cannot be cancelled.                              *)
Ended(proc) ==
  /\ proc.closed => proc.status \in Over
  /\ proc.status \in Over /\ ~proc.closed =>
       proc.status \notin ReadOnly /\ proc.meta.prior = proc.status
  /\ proc.meta.prior \notin ReadOnly

InOrder ==
  ~stale /\ ~strayed =>
    /\ Ended(process)
    /\ process.current \in StepKeys => template # <<>> /\ Reached(process, process.current)
    /\ process.status = "closed" =>
         \A i \in DOMAIN Steps(process) :
           rows[Steps(process)[i]] = "completed" \/ Steps(process)[i] \in late

IndInv ==
  /\ PhotoShapes /\ Shapes
  /\ RowsMade /\ Placed(process) /\ ViewsKnown
  /\ EntryUnmade
  /\ ApprovedIsReviewed /\ Evidence
  /\ AddedOnce /\ InOrder

-----------------------------------------------------------------------------
(* What the writes do.                                                     *)

LEMMA PhaseFacts ==
  /\ StepKeys = {"entrada", "validacao", "diagnostico", "inspecao", "auditoria",
                 "reparacao", "fecho"}
  /\ StepKeys \subseteq Phases /\ ApiPhases \subseteq Phases
  /\ StepKeys \cap ApiPhases = {}
  /\ None \notin Phases /\ None \notin RowStatuses /\ None \notin ProcessStatuses
  <1>1. DOMAIN StepDefs = 1 .. 7
    BY DEF StepDefs
  <1>2. StepKeys = {StepDefs[1], StepDefs[2], StepDefs[3], StepDefs[4], StepDefs[5],
                    StepDefs[6], StepDefs[7]}
    BY <1>1 DEF StepKeys
  <1>3. StepKeys = {"entrada", "validacao", "diagnostico", "inspecao", "auditoria",
                    "reparacao", "fecho"}
    BY <1>2 DEF StepDefs
  <1> QED BY <1>3, WorkshopAssumption DEF Phases, ApiPhases

(* A write of the process takes each column from what is written or leaves *)
(* it; written by a request that saw the process as it is, it is what is   *)
(* written.                                                                *)
LEMMA WriteTypes ==
  ASSUME NEW v, v.process \in Processes, process \in Processes,
         NEW new, new \in Processes, NEW stamped, Write(v, new, stamped),
         stale \in BOOLEAN
  PROVE  /\ process' \in Processes
         /\ process'.current \in {new.current, process.current}
         /\ process'.meta \in {new.meta, process.meta}
         /\ stale' \in BOOLEAN
         /\ stale => stale'
         /\ ~stale' => process' = new /\ v.process = process /\ v.rows = rows
  <1>1. DOMAIN process = {"status", "current", "closed", "meta"}
    BY DEF Processes
  <1>2. process' = [f \in {"status", "current", "closed", "meta"} |->
          IF new[f] # v.process[f] \/ f \in stamped THEN new[f] ELSE process[f]]
    BY <1>1 DEF Write
  <1>3. /\ process'.status \in {new.status, process.status}
        /\ process'.current \in {new.current, process.current}
        /\ process'.closed \in {new.closed, process.closed}
        /\ process'.meta \in {new.meta, process.meta}
    BY <1>2
  <1>4. process' = [status |-> process'.status, current |-> process'.current,
                    closed |-> process'.closed, meta |-> process'.meta]
    BY <1>2
  <1>5. process' \in Processes
    BY <1>3, <1>4 DEF Processes
  <1>6. stale' = (stale \/ v.process # process \/ v.rows # rows)
    BY DEF Write
  <1>7. ASSUME ~stale' PROVE process' = new /\ v.process = process /\ v.rows = rows
    <2>1. v.process = process /\ v.rows = rows
      BY <1>6, <1>7
    <2>2. process' = [f \in {"status", "current", "closed", "meta"} |-> new[f]]
      BY <1>2, <2>1
    <2>3. new = [f \in {"status", "current", "closed", "meta"} |-> new[f]]
      BY DEF Processes
    <2> QED BY <2>1, <2>2, <2>3
  <1> QED BY <1>3, <1>5, <1>6, <1>7

(* Rows that may differ from those there are in the phases of S only, of   *)
(* which none is lost, and which are newly completed in C only.            *)
Changes(S, C, rs) ==
  /\ rs \in RowSets
  /\ \A p \in Phases \ S : rs[p] = rows[p]
  /\ \A p \in Phases : rows[p] # None => rs[p] # None
  /\ \A p \in Phases \ C : rs[p] = "completed" => rows[p] = "completed"

LEMMA ChangesNothing ==
  ASSUME rows \in RowSets, NEW S, NEW C
  PROVE  Changes(S, C, rows)
  BY DEF Changes

LEMMA RowChanges ==
  ASSUME rows \in RowSets, NEW v, Known(v), NEW S, NEW C, NEW rs, Changes(S, C, rs),
         NEW p, p \in Phases, p \in S, NEW status, status \in RowStatuses,
         status = "completed" => p \in C
  PROVE  /\ Changes(S, C, Row(v, rs, p, status))
         /\ Row(v, rs, p, status)[p] # None
         /\ \A q \in Phases \ {p} : Row(v, rs, p, status)[q] = rs[q]
         /\ v.rows = rows /\ rs[p] = rows[p] => Row(v, rs, p, status)[p] = status
  <1>1. rs \in RowSets /\ None \notin RowStatuses
    BY PhaseFacts DEF Changes
  <1> DEFINE x == IF v.rows[p] = status THEN rs[p] ELSE status
  <1>2. Row(v, rs, p, status) = [rs EXCEPT ![p] = x]
    BY <1>1 DEF Row, RowSets
  <1>3. x \in RowStatuses \cup {None}
    BY <1>1 DEF RowSets
  <1>4. x # None
    BY <1>1 DEF Known, Changes
  <1>5. x = "completed" /\ p \notin C => rows[p] = "completed"
    BY DEF Changes
  <1>6. v.rows = rows /\ rs[p] = rows[p] => x = status
    OBVIOUS
  <1> HIDE DEF x
  <1>7. [rs EXCEPT ![p] = x] \in RowSets
    BY <1>1, <1>3 DEF RowSets
  <1>8. Changes(S, C, [rs EXCEPT ![p] = x])
    BY <1>1, <1>4, <1>5, <1>7 DEF Changes, RowSets
  <1> QED BY <1>1, <1>2, <1>4, <1>6, <1>8 DEF RowSets

LEMMA StartsChanges ==
  ASSUME rows \in RowSets, NEW S, NEW C, NEW rs, Changes(S, C, rs),
         NEW p, p \in Phases, p \in S, NEW from,
         NEW status, status \in RowStatuses, status # "completed"
  PROVE  /\ Changes(S, C, Starts(rs, p, from, status))
         /\ \A q \in Phases \ {p} : Starts(rs, p, from, status)[q] = rs[q]
         /\ rs[p] # None => Starts(rs, p, from, status)[p] # None
  <1>1. rs \in RowSets /\ None \notin RowStatuses
    BY PhaseFacts DEF Changes
  <1>2. CASE rs[p] \in from
    <2>1. Starts(rs, p, from, status) = [rs EXCEPT ![p] = status]
      BY <1>2 DEF Starts
    <2>2. [rs EXCEPT ![p] = status] \in RowSets
      BY <1>1 DEF RowSets
    <2>3. Changes(S, C, [rs EXCEPT ![p] = status])
      BY <1>1, <2>2 DEF Changes, RowSets
    <2> QED BY <1>1, <2>1, <2>3 DEF RowSets
  <1>3. CASE rs[p] \notin from
    BY <1>3 DEF Starts
  <1> QED BY <1>2, <1>3

-----------------------------------------------------------------------------
(* What every request on a process keeps, whatever it does to the order of *)
(* the phases.                                                             *)

(* A capture that is ready stands behind its phase.                        *)
LEMMA ReadyStands ==
  ASSUME NEW p, NEW s, Blockers(p) = {}, s \in Required(p)
  PROVE  Stands(s)
  BY DEF Blockers, Ready, Stands

(* The photographs of the phases a request completes are ready, unless it  *)
(* came from the last substep.                                             *)
CompletesOnly(C) ==
  \/ C = {} /\ CompletesNone
  \/ \E p \in Phases, bypasses \in BOOLEAN :
       C = {p} /\ Completes(p, bypasses) /\ (~bypasses => Blockers(p) = {})

LEMMA EvidenceKept ==
  ASSUME Evidence, rows \in RowSets, bypassed \subseteq Phases,
         NEW C, NEW S, Changes(S, C, rows'), UNCHANGED photoVars,
         CompletesOnly(C)
  PROVE  Evidence' /\ bypassed' \subseteq Phases
  <1>1. /\ captures' = captures /\ hasty' = hasty
        /\ \A s : Stands(s)' <=> Stands(s)
    BY DEF photoVars, Stands
  <1>2. CASE C = {} /\ CompletesNone
    BY <1>1, <1>2 DEF Evidence, CompletesNone, Changes
  <1>3. ASSUME NEW p \in Phases, NEW bypasses \in BOOLEAN,
               C = {p}, Completes(p, bypasses), ~bypasses => Blockers(p) = {}
        PROVE  Evidence' /\ bypassed' \subseteq Phases
    <2>1. /\ evidence' = [evidence EXCEPT ![p] = Required(p)]
          /\ bypassed' = IF bypasses THEN bypassed \cup {p} ELSE bypassed \ {p}
      BY <1>3 DEF Completes
    <2>2. Required(p) \subseteq DOMAIN captures
      BY DEF Required
    <2>3. evidence' \in [Phases -> SUBSET DOMAIN captures']
      BY <1>1, <2>1, <2>2 DEF Evidence
    <2>4. ASSUME ~hasty, NEW q \in Phases \ bypassed', rows'[q] = "completed",
                 NEW s \in evidence'[q]
          PROVE  Stands(s)
      <3>1. CASE q = p
        <4>1. ~bypasses
          BY <2>1, <2>4, <3>1
        <4>2. evidence'[q] = Required(p)
          BY <2>1, <3>1 DEF Evidence
        <4> QED BY <1>3, <2>4, <4>1, <4>2, ReadyStands
      <3>2. CASE q # p
        <4>1. evidence'[q] = evidence[q] /\ q \notin bypassed
          BY <2>1, <2>4, <3>2 DEF Evidence
        <4>2. rows[q] = "completed"
          BY <1>3, <2>4, <3>2 DEF Changes
        <4> QED BY <2>4, <4>1, <4>2 DEF Evidence
      <3> QED BY <3>1, <3>2
    <2>5. bypassed' \subseteq Phases
      BY <2>1
    <2> QED BY <1>1, <2>3, <2>4, <2>5 DEF Evidence
  <1> QED BY <1>2, <1>3 DEF CompletesOnly

(* Rows are not lost, nor is it forgotten that the process was astray.     *)
Grows ==
  /\ template' = template
  /\ \A p \in Phases : rows[p] # None => rows'[p] # None
  /\ strayed => strayed'

Base ==
  /\ Grows /\ Shapes' /\ RowsMade' /\ Placed(process)' /\ EntryUnmade' /\ Evidence'
  /\ stale => stale'

LEMMA PlacedStays ==
  ASSUME NEW proc, proc \in Processes, Placed(proc), Grows, strayed \in BOOLEAN
  PROVE  Placed(proc)'
  <1>1. proc.current \in Phases /\ \A i \in DOMAIN proc.meta.added : proc.meta.added[i] \in Phases
    BY PhaseFacts DEF Processes, Metas
  <1> QED BY <1>1 DEF Placed, Grows

LEMMA KnownStays ==
  ASSUME NEW v, Known(v), Grows, strayed \in BOOLEAN
  PROVE  Known(v)'
  BY PlacedStays DEF Known, Grows

(* A process whose columns are of either of two that are placed is placed. *)
LEMMA PlacedEither ==
  ASSUME NEW new, NEW old, Placed(new)', Placed(old)', NEW w,
         w.current \in {new.current, old.current}, w.meta \in {new.meta, old.meta}
  PROVE  Placed(w)'
  BY DEF Placed

(* A write of the process, with the rows of the phases of S, of which      *)
(* those of C are completed.                                               *)
Moves(v, new, stamped, S, C) ==
  /\ Known(v) /\ new \in Processes
  /\ Write(v, new, stamped)
  /\ Changes(S, C, rows')
  /\ template = <<>> \/ S \subseteq StepKeys \cup {"technical_inspection"}
  /\ template # <<>> \/ strayed' \/ "entrada" \notin S
  /\ CompletesOnly(C)

(* What else the columns become.                                           *)
Fits ==
  /\ template' = template
  /\ strayed' \in BOOLEAN
  /\ strayed => strayed'
  /\ reports' \in Seq(Reports)
  /\ late' \subseteq Optional
  /\ UNCHANGED photoVars

LEMMA StepBase ==
  ASSUME IndInv, Fits, NEW v, NEW new, NEW stamped, NEW S, NEW C,
         Moves(v, new, stamped, S, C), Placed(new)'
  PROVE  Base
  <1> USE DEF Moves, Fits
  <1>1. /\ v.process \in Processes /\ process \in Processes /\ stale \in BOOLEAN
        /\ rows \in RowSets /\ bypassed \subseteq Phases /\ strayed \in BOOLEAN
    BY DEF IndInv, Known, Shapes
  <1>2. /\ process' \in Processes
        /\ process'.current \in {new.current, process.current}
        /\ process'.meta \in {new.meta, process.meta}
        /\ stale' \in BOOLEAN
        /\ stale => stale'
    BY <1>1, WriteTypes
  <1>3. Grows
    BY DEF Grows, Changes
  <1>4. Evidence' /\ bypassed' \subseteq Phases
    BY <1>1, EvidenceKept DEF IndInv
  <1>5. Placed(process)'
    <2>1. PICK old : old = process
      OBVIOUS
    <2>2. Placed(old)'
      BY <1>1, <1>3, <2>1, PlacedStays DEF IndInv
    <2>3. PICK w : w = process'
      OBVIOUS
    <2>4. Placed(w)'
      BY <1>2, <2>1, <2>2, <2>3, PlacedEither
    <2> QED BY <2>3, <2>4 DEF Placed
  <1>6. RowsMade'
    <2>1. \A p \in Phases \ S : rows'[p] = rows[p]
      BY DEF Changes
    <2>2. CASE template = <<>>
      BY <1>3, <2>2, PhaseFacts DEF IndInv, RowsMade, Grows
    <2>3. CASE template # <<>>
      <3>1. template \in Templates
        BY <2>3 DEF IndInv, Shapes
      <3>2. \A i \in DOMAIN template : template[i] \in Phases
        BY <3>1, WorkshopAssumption, PhaseFacts
      <3>3. \A p \in ApiPhases \ {"technical_inspection"} : p \in Phases \ S
        BY <2>3, PhaseFacts
      <3> QED BY <1>3, <2>1, <2>3, <3>2, <3>3 DEF IndInv, RowsMade, Grows
    <2> QED BY <2>2, <2>3
  <1>7. EntryUnmade'
    <2>1. "entrada" \in Phases
      BY PhaseFacts
    <2>2. "entrada" \in S \/ rows'["entrada"] = rows["entrada"]
      BY <2>1 DEF Changes
    <2>3. template = <<>> /\ ~strayed => rows["entrada"] = None
      BY DEF IndInv, EntryUnmade
    <2> QED BY <2>2, <2>3 DEF EntryUnmade
  <1>8. Shapes'
    <2>1. template = <<>> \/ template \in Templates
      BY DEF IndInv, Shapes
    <2>2. rows' \in RowSets
      BY DEF Changes
    <2> QED BY <1>2, <1>4, <2>1, <2>2 DEF Shapes
  <1> QED BY <1>2, <1>3, <1>4, <1>5, <1>6, <1>7, <1>8 DEF Base

-----------------------------------------------------------------------------
(* The order of the phases.                                                *)

StepsOf(t, added) == SubSeq(t, 1, Len(t) - 1) \o added \o <<"fecho">>

LEMMA Joined ==
  ASSUME NEW X, NEW a, a \in Seq(X), NEW b, b \in Seq(X)
  PROVE  /\ a \o b \in Seq(X) /\ Len(a \o b) = Len(a) + Len(b)
         /\ \A i \in 1 .. Len(a) : (a \o b)[i] = a[i]
         /\ \A i \in 1 .. Len(b) : (a \o b)[Len(a) + i] = b[i]
  <1>1. a \o b \in Seq(X) /\ Len(a \o b) = Len(a) + Len(b)
    OBVIOUS
  <1>2. ASSUME NEW i \in 1 .. Len(a) PROVE (a \o b)[i] = a[i]
    OBVIOUS
  <1>3. ASSUME NEW i \in 1 .. Len(b) PROVE (a \o b)[Len(a) + i] = b[i]
    <2>1. Len(a) \in Nat /\ Len(b) \in Nat
      OBVIOUS
    <2>2. Len(a) + i \in 1 .. Len(a) + Len(b) /\ ~(Len(a) + i <= Len(a))
      BY <2>1
    <2>3. Len(a) + i - Len(a) = i
      BY <2>1
    <2> QED BY <2>1, <2>2, <2>3
  <1> QED BY <1>1, <1>2, <1>3

LEMMA StepsFacts ==
  ASSUME NEW t, t \in Templates, NEW added, added \in Seq(StepKeys)
  PROVE  /\ StepsOf(t, added) \in Seq(StepKeys)
         /\ Len(t) \in Nat /\ Len(t) > 2 /\ Len(added) \in Nat
         /\ Len(StepsOf(t, added)) = Len(t) + Len(added)
         /\ \A i \in 1 .. Len(t) - 1 : StepsOf(t, added)[i] = t[i]
         /\ \A i \in 1 .. Len(added) : StepsOf(t, added)[Len(t) - 1 + i] = added[i]
         /\ StepsOf(t, added)[Len(t) + Len(added)] = "fecho"
  <1>1. t \in Seq(StepKeys) /\ Len(t) \in Nat /\ Len(t) > 2 /\ Len(added) \in Nat
    BY WorkshopAssumption
  <1>2. "fecho" \in StepKeys
    BY PhaseFacts
  <1> DEFINE head == SubSeq(t, 1, Len(t) - 1)
  <1>3. /\ head \in Seq(StepKeys) /\ Len(head) = Len(t) - 1
        /\ \A i \in 1 .. Len(t) - 1 : head[i] = t[i]
    BY <1>1
  <1> HIDE DEF head
  <1> DEFINE front == head \o added
  <1>4. /\ front \in Seq(StepKeys) /\ Len(front) = Len(t) - 1 + Len(added)
        /\ \A i \in 1 .. Len(t) - 1 : front[i] = t[i]
        /\ \A i \in 1 .. Len(added) : front[Len(t) - 1 + i] = added[i]
    <2>1. /\ head \o added \in Seq(StepKeys) /\ Len(head \o added) = Len(head) + Len(added)
          /\ \A i \in 1 .. Len(head) : (head \o added)[i] = head[i]
          /\ \A i \in 1 .. Len(added) : (head \o added)[Len(head) + i] = added[i]
      <3>1. head \in Seq(StepKeys)
        BY <1>3
      <3> QED BY ONLY <3>1, added \in Seq(StepKeys), Joined
    <2> QED BY <1>3, <2>1
  <1> HIDE DEF front
  <1>5. StepsOf(t, added) = front \o <<"fecho">>
    BY DEF StepsOf, front, head
  <1>6. /\ front \o <<"fecho">> \in Seq(StepKeys)
        /\ Len(front \o <<"fecho">>) = Len(t) + Len(added)
        /\ \A i \in 1 .. Len(t) - 1 : (front \o <<"fecho">>)[i] = t[i]
        /\ \A i \in 1 .. Len(added) : (front \o <<"fecho">>)[Len(t) - 1 + i] = added[i]
        /\ (front \o <<"fecho">>)[Len(t) + Len(added)] = "fecho"
    BY <1>1, <1>2, <1>4
  <1> QED BY <1>1, <1>5, <1>6

(* Phases that were added once, and are not in the template.               *)
Fresh(t, added) ==
  \A i \in DOMAIN added :
    /\ added[i] \in Optional
    /\ \A j \in DOMAIN t : t[j] # added[i]
    /\ \A j \in DOMAIN added : added[j] = added[i] => i = j

Distinct(steps) == \A i, j \in 1 .. Len(steps) : steps[i] = steps[j] => i = j

LEMMA StepsDistinct ==
  ASSUME NEW t, t \in Templates, NEW added, added \in Seq(StepKeys), Fresh(t, added)
  PROVE  Distinct(StepsOf(t, added))
  <1> DEFINE steps == StepsOf(t, added)
             n == Len(t)
             m == Len(added)
  <1>1. /\ n \in Nat /\ n > 2 /\ m \in Nat /\ Len(steps) = n + m
        /\ \A i \in 1 .. n - 1 : steps[i] = t[i]
        /\ \A i \in 1 .. m : steps[n - 1 + i] = added[i]
        /\ steps[n + m] = "fecho"
    BY StepsFacts
  <1>2. /\ t[n] = "fecho" /\ DOMAIN t = 1 .. n
        /\ \A i, j \in 1 .. n : t[i] = t[j] => i = j
    BY WorkshopAssumption
  <1>3. /\ DOMAIN added = 1 .. m
        /\ \A i \in 1 .. m : added[i] # "fecho" /\ \A j \in 1 .. n : t[j] # added[i]
        /\ \A i, j \in 1 .. m : added[i] = added[j] => i = j
    BY <1>2, WorkshopAssumption DEF Fresh
  <1> HIDE DEF steps, n, m
  <1>4. \A i \in 1 .. n + m :
          \/ i \in 1 .. n - 1 /\ steps[i] = t[i]
          \/ i - (n - 1) \in 1 .. m /\ steps[i] = added[i - (n - 1)]
          \/ i = n + m /\ steps[i] = "fecho"
    <2> TAKE i \in 1 .. n + m
    <2>1. i \in 1 .. n - 1 \/ i - (n - 1) \in 1 .. m \/ i = n + m
      BY <1>1
    <2>2. i - (n - 1) \in 1 .. m => steps[n - 1 + (i - (n - 1))] = added[i - (n - 1)]
      BY <1>1
    <2>3. n - 1 + (i - (n - 1)) = i
      BY <1>1
    <2> QED BY <1>1, <2>1, <2>2, <2>3
  <1>5. ASSUME NEW i \in 1 .. n + m, NEW j \in 1 .. n + m, steps[i] = steps[j]
        PROVE  i = j
    <2>1. CASE i \in 1 .. n - 1 /\ steps[i] = t[i]
      <3>1. i \in 1 .. n /\ i # n /\ n \in 1 .. n
        BY <1>1, <2>1
      <3>2. CASE j \in 1 .. n - 1 /\ steps[j] = t[j]
        <4>1. j \in 1 .. n
          BY <1>1, <3>2
        <4> QED BY <1>2, <1>5, <2>1, <3>1, <3>2, <4>1
      <3>3. CASE j - (n - 1) \in 1 .. m /\ steps[j] = added[j - (n - 1)]
        BY <1>3, <1>5, <2>1, <3>1, <3>3
      <3>4. CASE j = n + m /\ steps[j] = "fecho"
        BY <1>2, <1>5, <2>1, <3>1, <3>4
      <3> QED BY <1>4, <3>2, <3>3, <3>4
    <2>2. CASE i - (n - 1) \in 1 .. m /\ steps[i] = added[i - (n - 1)]
      <3>2. CASE j \in 1 .. n - 1 /\ steps[j] = t[j]
        <4>1. j \in 1 .. n
          BY <1>1, <3>2
        <4> QED BY <1>3, <1>5, <2>2, <3>2, <4>1
      <3>3. CASE j - (n - 1) \in 1 .. m /\ steps[j] = added[j - (n - 1)]
        <4>1. i - (n - 1) = j - (n - 1)
          BY <1>3, <1>5, <2>2, <3>3
        <4> QED BY <1>1, <4>1
      <3>4. CASE j = n + m /\ steps[j] = "fecho"
        BY <1>3, <1>5, <2>2, <3>4
      <3> QED BY <1>4, <3>2, <3>3, <3>4
    <2>3. CASE i = n + m /\ steps[i] = "fecho"
      <3>2. CASE j \in 1 .. n - 1 /\ steps[j] = t[j]
        <4>1. j \in 1 .. n /\ j # n /\ n \in 1 .. n
          BY <1>1, <3>2
        <4> QED BY <1>2, <1>5, <2>3, <3>2, <4>1
      <3>3. CASE j - (n - 1) \in 1 .. m /\ steps[j] = added[j - (n - 1)]
        BY <1>3, <1>5, <2>3, <3>3
      <3>4. CASE j = n + m /\ steps[j] = "fecho"
        BY <2>3, <3>4
      <3> QED BY <1>4, <3>2, <3>3, <3>4
    <2> QED BY <1>4, <2>1, <2>2, <2>3
  <1> QED BY <1>1, <1>5 DEF Distinct, steps

(* In distinct steps the place of a step is where it is.                   *)
LEMMA PlaceOf ==
  ASSUME NEW steps, steps \in Seq(StepKeys), Distinct(steps), NEW i, i \in 1 .. Len(steps)
  PROVE  /\ IsStep(steps, steps[i]) /\ Place(steps, steps[i]) = i
  <1>1. DOMAIN steps = 1 .. Len(steps)
    OBVIOUS
  <1> QED BY <1>1 DEF IsStep, Place, Distinct

(* Reached, and all phases done, of given steps and rows.                  *)
DoneIn(p, rs, lt) == rs[p] = "completed" \/ p \in lt

ReachedIn(steps, p, rs, lt) ==
  /\ IsStep(steps, p)
  /\ \A i \in 1 .. Place(steps, p) - 1 : DoneIn(steps[i], rs, lt)

AllIn(steps, rs, lt) == \A i \in DOMAIN steps : DoneIn(steps[i], rs, lt)

(* Where a phase that is reached stands.                                   *)
LEMMA ReachedAt ==
  ASSUME NEW steps, steps \in Seq(StepKeys), Distinct(steps), NEW p, NEW rs, NEW lt
  PROVE  ReachedIn(steps, p, rs, lt) <=>
           \E k \in 1 .. Len(steps) :
             /\ steps[k] = p /\ Place(steps, p) = k
             /\ \A i \in 1 .. k - 1 : DoneIn(steps[i], rs, lt)
  <1>1. DOMAIN steps = 1 .. Len(steps)
    OBVIOUS
  <1>2. ASSUME ReachedIn(steps, p, rs, lt)
        PROVE  \E k \in 1 .. Len(steps) :
                 /\ steps[k] = p /\ Place(steps, p) = k
                 /\ \A i \in 1 .. k - 1 : DoneIn(steps[i], rs, lt)
    <2>1. PICK k \in 1 .. Len(steps) : steps[k] = p
      BY <1>1, <1>2 DEF ReachedIn, IsStep
    <2>2. Place(steps, p) = k
      BY <2>1, PlaceOf
    <2> QED BY <1>2, <2>1, <2>2 DEF ReachedIn
  <1>3. ASSUME NEW k \in 1 .. Len(steps), steps[k] = p, Place(steps, p) = k,
               \A i \in 1 .. k - 1 : DoneIn(steps[i], rs, lt)
        PROVE  ReachedIn(steps, p, rs, lt)
    BY <1>1, <1>3 DEF ReachedIn, IsStep
  <1> QED BY <1>2, <1>3

(* What is done of every phase but a few.                                  *)
Keeps(rs, lt, rs2, lt2, but) ==
  \A p \in StepKeys \ but : DoneIn(p, rs, lt) => DoneIn(p, rs2, lt2)

LEMMA StillReached ==
  ASSUME NEW steps, steps \in Seq(StepKeys), Distinct(steps),
         NEW p, NEW rs, NEW lt, ReachedIn(steps, p, rs, lt), NEW rs2, NEW lt2,
         Keeps(rs, lt, rs2, lt2, {p, steps[Len(steps)]})
  PROVE  ReachedIn(steps, p, rs2, lt2)
  <1>1. PICK k \in 1 .. Len(steps) :
          /\ steps[k] = p /\ Place(steps, p) = k
          /\ \A i \in 1 .. k - 1 : DoneIn(steps[i], rs, lt)
    BY ReachedAt
  <1>2. ASSUME NEW i \in 1 .. k - 1 PROVE DoneIn(steps[i], rs2, lt2)
    <2>1. Len(steps) \in Nat /\ i \in 1 .. Len(steps) /\ i # k /\ i # Len(steps)
      BY <1>1
    <2>2. Len(steps) \in 1 .. Len(steps)
      BY <1>1, <2>1
    <2>3. steps[i] \in StepKeys
      BY <2>1
    <2>4. steps[i] # p /\ steps[i] # steps[Len(steps)]
      BY <1>1, <2>1, <2>2 DEF Distinct
    <2> QED BY <1>1, <2>3, <2>4 DEF Keeps
  <1> QED BY <1>1, <1>2, ReachedAt

(* The phase is done, and the next one is reached.                         *)
LEMMA NextReached ==
  ASSUME NEW steps, steps \in Seq(StepKeys), Distinct(steps),
         NEW p, NEW rs, NEW lt, ReachedIn(steps, p, rs, lt),
         NextPhase(steps, p) # None,
         NEW rs2, NEW lt2, Keeps(rs, lt, rs2, lt2, {p, NextPhase(steps, p)}),
         DoneIn(p, rs2, lt2)
  PROVE  /\ NextPhase(steps, p) \in StepKeys /\ NextPhase(steps, p) # p
         /\ ReachedIn(steps, NextPhase(steps, p), rs2, lt2)
  <1>1. PICK k \in 1 .. Len(steps) :
          /\ steps[k] = p /\ Place(steps, p) = k
          /\ \A i \in 1 .. k - 1 : DoneIn(steps[i], rs, lt)
    BY ReachedAt
  <1>2. /\ k < Len(steps) /\ Len(steps) \in Nat
        /\ NextPhase(steps, p) = steps[k + 1]
    BY <1>1 DEF NextPhase
  <1>3. k + 1 \in 1 .. Len(steps) /\ k + 1 - 1 = k
    BY <1>2
  <1>4. Place(steps, steps[k + 1]) = k + 1 /\ steps[k + 1] \in StepKeys
    BY <1>3, PlaceOf
  <1>5. ASSUME NEW i \in 1 .. k PROVE DoneIn(steps[i], rs2, lt2)
    <2>1. CASE i = k
      BY <1>1, <2>1
    <2>2. CASE i # k
      <3>1. i \in 1 .. k - 1 /\ i \in 1 .. Len(steps) /\ i # k + 1
        BY <1>2, <2>2
      <3>2. steps[i] # p /\ steps[i] # steps[k + 1] /\ steps[i] \in StepKeys
        BY <1>1, <1>3, <2>2, <3>1 DEF Distinct
      <3> QED BY <1>1, <1>2, <3>1, <3>2 DEF Keeps
    <2> QED BY <2>1, <2>2
  <1>6. steps[k + 1] # p
    <2>1. k + 1 # k
      OBVIOUS
    <2> QED BY <1>1, <1>3, <2>1 DEF Distinct
  <1>7. \A i \in 1 .. (k + 1) - 1 : DoneIn(steps[i], rs2, lt2)
    BY <1>3, <1>5
  <1> QED BY <1>2, <1>3, <1>4, <1>6, <1>7, ReachedAt

(* Nothing comes after it: all is done.                                    *)
LEMMA LastDone ==
  ASSUME NEW steps, steps \in Seq(StepKeys), Distinct(steps),
         NEW p, NEW rs, NEW lt, ReachedIn(steps, p, rs, lt),
         NextPhase(steps, p) = None,
         NEW rs2, NEW lt2, Keeps(rs, lt, rs2, lt2, {p}), DoneIn(p, rs2, lt2)
  PROVE  AllIn(steps, rs2, lt2)
  <1>1. PICK k \in 1 .. Len(steps) :
          /\ steps[k] = p /\ Place(steps, p) = k
          /\ \A i \in 1 .. k - 1 : DoneIn(steps[i], rs, lt)
    BY ReachedAt
  <1>2. IsStep(steps, p)
    BY <1>1, PlaceOf
  <1>3. k = Len(steps) /\ Len(steps) \in Nat
    <2>1. Len(steps) \in Nat /\ k <= Len(steps)
      BY <1>1
    <2>2. CASE k < Len(steps)
      <3>1. k + 1 \in 1 .. Len(steps)
        BY <2>1, <2>2
      <3>2. steps[k + 1] \in StepKeys
        BY <3>1
      <3>3. NextPhase(steps, p) = steps[k + 1]
        BY <1>1, <1>2, <2>2 DEF NextPhase
      <3> QED BY <3>2, <3>3, PhaseFacts
    <2> QED BY <2>1, <2>2
  <1>4. ASSUME NEW i \in 1 .. Len(steps) PROVE DoneIn(steps[i], rs2, lt2)
    <2>1. CASE i = k
      BY <1>1, <2>1
    <2>2. CASE i # k
      <3>1. i \in 1 .. k - 1
        BY <1>3, <2>2
      <3>2. steps[i] # p /\ steps[i] \in StepKeys
        BY <1>1, <2>2 DEF Distinct
      <3> QED BY <1>1, <3>1, <3>2 DEF Keeps
    <2> QED BY <2>1, <2>2
  <1>5. DOMAIN steps = 1 .. Len(steps)
    OBVIOUS
  <1> QED BY <1>4, <1>5 DEF AllIn

(* A phase that was added before the closure is behind no phase but the    *)
(* closure.                                                                *)
LEMMA AddedBehind ==
  ASSUME NEW t, t \in Templates, NEW added, added \in Seq(StepKeys), Fresh(t, added),
         NEW q, q \in StepKeys, Fresh(t, Append(added, q)),
         NEW p, NEW rs, NEW lt, ReachedIn(StepsOf(t, added), p, rs, lt),
         NEW rs2, NEW lt2, Keeps(rs, lt, rs2, lt2, {q}),
         p = "fecho" => DoneIn(q, rs2, lt2)
  PROVE  ReachedIn(StepsOf(t, Append(added, q)), p, rs2, lt2)
  <1> DEFINE steps == StepsOf(t, added)
             more == Append(added, q)
             steps2 == StepsOf(t, more)
             n == Len(t) + Len(added)
  <1>1. /\ more \in Seq(StepKeys) /\ Len(more) = Len(added) + 1
        /\ \A i \in 1 .. Len(added) : more[i] = added[i]
        /\ more[Len(added) + 1] = q
    OBVIOUS
  <1>2. /\ steps \in Seq(StepKeys)
        /\ Len(t) \in Nat /\ Len(t) > 2 /\ Len(added) \in Nat
        /\ Len(steps) = n
        /\ \A i \in 1 .. Len(t) - 1 : steps[i] = t[i]
        /\ \A i \in 1 .. Len(added) : steps[Len(t) - 1 + i] = added[i]
        /\ steps[n] = "fecho"
    BY StepsFacts
  <1> HIDE DEF more
  <1>3. /\ steps2 \in Seq(StepKeys) /\ Len(steps2) = Len(t) + Len(more)
        /\ \A i \in 1 .. Len(t) - 1 : steps2[i] = t[i]
        /\ \A i \in 1 .. Len(more) : steps2[Len(t) - 1 + i] = more[i]
        /\ steps2[Len(t) + Len(more)] = "fecho"
    <2>1. more \in Seq(StepKeys)
      BY <1>1
    <2> QED BY ONLY <2>1, t \in Templates, StepsFacts
  <1>4. Distinct(steps) /\ Distinct(steps2)
    <2>1. Distinct(steps2)
      BY <1>1, StepsDistinct DEF more
    <2> QED BY <2>1, StepsDistinct
  <1> HIDE DEF steps, steps2
  <1>5. ASSUME NEW i \in 1 .. n - 1 PROVE steps2[i] = steps[i] /\ steps[i] # q
    <2>1. i \in 1 .. Len(t) - 1 \/ i - (Len(t) - 1) \in 1 .. Len(added)
      BY <1>2
    <2>2. CASE i \in 1 .. Len(t) - 1
      <3>1. steps2[i] = t[i] /\ steps[i] = t[i]
        BY <1>2, <1>3, <2>2
      <3>2. i \in DOMAIN t /\ Len(added) + 1 \in DOMAIN more
        BY <1>1, <1>2, <2>2, WorkshopAssumption
      <3> QED BY <1>1, <3>1, <3>2 DEF Fresh, more
    <2>3. CASE i - (Len(t) - 1) \in 1 .. Len(added)
      <3> DEFINE j == i - (Len(t) - 1)
      <3>1. Len(t) - 1 + j = i /\ j \in 1 .. Len(added) /\ j \in 1 .. Len(more)
        BY <1>1, <1>2, <2>3
      <3> HIDE DEF j
      <3>2. steps2[i] = added[j] /\ steps[i] = added[j] /\ more[j] = added[j]
        BY <1>1, <1>2, <1>3, <3>1
      <3>3. j \in DOMAIN more /\ Len(added) + 1 \in DOMAIN more /\ j # Len(added) + 1
        BY <1>1, <1>2, <3>1
      <3> QED BY <1>1, <3>2, <3>3 DEF Fresh, more
    <2> QED BY <2>1, <2>2, <2>3
  <1>6. steps2[n] = q /\ steps2[n + 1] = "fecho" /\ Len(steps2) = n + 1 /\ n \in Nat /\ n > 2
    <2>1. Len(t) - 1 + (Len(added) + 1) = n /\ Len(t) + (Len(added) + 1) = n + 1
      BY <1>2
    <2>2. Len(added) + 1 \in 1 .. Len(more) /\ Len(more) = Len(added) + 1
      BY <1>1, <1>2
    <2>3. steps2[Len(t) - 1 + (Len(added) + 1)] = more[Len(added) + 1]
      BY <1>3, <2>2
    <2>4. steps2[n] = q
      BY <1>1, <2>1, <2>3
    <2>5. Len(steps2) = Len(t) + (Len(added) + 1) /\ steps2[Len(t) + (Len(added) + 1)] = "fecho"
      BY <1>3, <2>2
    <2>6. n \in Nat /\ n > 2
      BY <1>2
    <2> QED BY <2>1, <2>4, <2>5, <2>6
  <1> HIDE DEF n
  <1>7. PICK k \in 1 .. n :
          /\ steps[k] = p /\ Place(steps, p) = k
          /\ \A i \in 1 .. k - 1 : DoneIn(steps[i], rs, lt)
    <2>1. ReachedIn(steps, p, rs, lt)
      BY DEF steps
    <2> QED BY <1>2, <1>4, <2>1, ReachedAt
  <1>8. ASSUME NEW i \in 1 .. k - 1 PROVE DoneIn(steps2[i], rs2, lt2)
    <2>1. i \in 1 .. n - 1 /\ i \in 1 .. Len(steps)
      BY <1>2, <1>6, <1>7 DEF n
    <2>2. steps2[i] = steps[i] /\ steps[i] # q
      BY <1>5, <2>1
    <2>3. steps[i] \in StepKeys
      BY <1>2, <2>1
    <2> QED BY <1>7, <2>2, <2>3 DEF Keeps
  <1>9. CASE k < n
    <2>1. k \in 1 .. n - 1 /\ k \in 1 .. Len(steps2)
      BY <1>6, <1>7, <1>9
    <2>2. steps2[k] = p
      BY <1>5, <1>7, <2>1
    <2>3. Place(steps2, p) = k
      BY <1>3, <1>4, <2>1, <2>2, PlaceOf
    <2>4. ReachedIn(steps2, p, rs2, lt2)
      BY <1>3, <1>4, <1>8, <2>1, <2>2, <2>3, ReachedAt
    <2> QED BY <2>4 DEF steps2, more
  <1>10. CASE k = n
    <2>1. p = "fecho"
      BY <1>2, <1>7, <1>10
    <2>2. n + 1 \in 1 .. Len(steps2) /\ (n + 1) - 1 = n
      BY <1>6
    <2>3. Place(steps2, p) = n + 1 /\ steps2[n + 1] = p
      BY <1>3, <1>4, <1>6, <2>1, <2>2, PlaceOf
    <2>4. ASSUME NEW i \in 1 .. n PROVE DoneIn(steps2[i], rs2, lt2)
      <3>1. i = n \/ i \in 1 .. k - 1
        BY <1>6, <1>10
      <3> QED BY <1>6, <1>8, <2>1, <3>1
    <2>5. \A i \in 1 .. (n + 1) - 1 : DoneIn(steps2[i], rs2, lt2)
      BY <2>2, <2>4
    <2>6. ReachedIn(steps2, p, rs2, lt2)
      BY <1>3, <1>4, <2>2, <2>3, <2>5, ReachedAt
    <2> QED BY <2>6 DEF steps2, more
  <1> QED BY <1>6, <1>7, <1>9, <1>10

-----------------------------------------------------------------------------
(* What the invariant says of the steps of the process as it is, and what  *)
(* a write must show of it.                                                *)

Orderly(steps, proc, rs, lt) ==
  /\ Ended(proc)
  /\ proc.current \in StepKeys => ReachedIn(steps, proc.current, rs, lt)
  /\ proc.status = "closed" => AllIn(steps, rs, lt)

LEMMA StepsNow ==
  ASSUME IndInv, ~stale, template # <<>>
  PROVE  /\ template \in Templates /\ process.meta.added \in Seq(StepKeys)
         /\ Fresh(template, process.meta.added)
         /\ Steps(process) = StepsOf(template, process.meta.added)
         /\ Steps(process) \in Seq(StepKeys) /\ Distinct(Steps(process))
         /\ Steps(process)[1] = "entrada" /\ Steps(process)[2] = "validacao"
         /\ Steps(process)[Len(Steps(process))] = "fecho"
         /\ Len(Steps(process)) \in Nat /\ Len(Steps(process)) > 2
  <1>1. template \in Templates /\ process \in Processes
    BY DEF IndInv, Shapes
  <1>2. process.meta.added \in Seq(StepKeys)
    BY <1>1 DEF Processes, Metas
  <1>3. Fresh(template, process.meta.added)
    BY DEF IndInv, AddedOnce, Fresh
  <1>4. Steps(process) = StepsOf(template, process.meta.added)
    BY DEF Steps, StepsOf
  <1> DEFINE added == process.meta.added
  <1>a. added \in Seq(StepKeys) /\ Fresh(template, added)
    BY <1>2, <1>3
  <1> HIDE DEF added
  <1>5. /\ StepsOf(template, added) \in Seq(StepKeys)
        /\ Len(template) \in Nat /\ Len(template) > 2 /\ Len(added) \in Nat
        /\ Len(StepsOf(template, added)) = Len(template) + Len(added)
        /\ \A i \in 1 .. Len(template) - 1 : StepsOf(template, added)[i] = template[i]
        /\ StepsOf(template, added)[Len(template) + Len(added)] = "fecho"
    BY ONLY <1>1, <1>a, StepsFacts
  <1>6. Distinct(StepsOf(template, added))
    BY <1>1, <1>a, StepsDistinct
  <1>7. template[1] = "entrada" /\ template[2] = "validacao"
    BY <1>1, WorkshopAssumption
  <1>8. 1 \in 1 .. Len(template) - 1 /\ 2 \in 1 .. Len(template) - 1
    BY <1>5
  <1>9. /\ StepsOf(template, added)[1] = "entrada" /\ StepsOf(template, added)[2] = "validacao"
        /\ StepsOf(template, added)[Len(StepsOf(template, added))] = "fecho"
        /\ Len(StepsOf(template, added)) \in Nat /\ Len(StepsOf(template, added)) > 2
    BY <1>5, <1>7, <1>8
  <1> QED BY <1>1, <1>2, <1>3, <1>4, <1>5, <1>6, <1>9 DEF added

LEMMA OrderNow ==
  ASSUME IndInv, ~stale, ~strayed
  PROVE  /\ Orderly(Steps(process), process, rows, late)
         /\ process.current \in StepKeys => template # <<>>
  BY DEF IndInv, InOrder, Orderly, Reached, ReachedIn, AllIn, DoneIn

LEMMA OrderNext ==
  ASSUME ~stale' /\ ~strayed' =>
           /\ Orderly(Steps(process)', process', rows', late')
           /\ process'.current \in StepKeys => template' # <<>>
  PROVE  InOrder'
  BY DEF InOrder, Orderly, Reached, ReachedIn, AllIn, DoneIn

(* The write of a request that saw the process as it is.                   *)
InStep(new) ==
  /\ Orderly(Steps(process), new, rows', late')
  /\ new.current \in StepKeys => template # <<>>

Good == Base /\ AddedOnce' /\ InOrder'

LEMMA StepGood ==
  ASSUME IndInv, Fits, NEW v, NEW new, NEW stamped, NEW S, NEW C,
         Moves(v, new, stamped, S, C), Placed(new)',
         new.meta.added = v.process.meta.added,
         ~stale /\ ~strayed /\ ~strayed' /\ v.process = process /\ v.rows = rows
           => InStep(new)
  PROVE  Good
  <1>1. Base
    BY StepBase
  <1>2. v.process \in Processes /\ process \in Processes /\ stale \in BOOLEAN
    BY DEF IndInv, Shapes, Moves, Known
  <1>3. /\ stale => stale'
        /\ ~stale' => process' = new /\ v.process = process /\ v.rows = rows
    BY <1>2, WriteTypes DEF Moves
  <1>4. template' = template /\ (strayed => strayed')
    BY DEF Fits
  <1>5. AddedOnce'
    <2>1. ASSUME ~stale', template' # <<>> PROVE AddedOnce'
      <3>1. process'.meta.added = process.meta.added /\ ~stale
        BY <1>3, <2>1
      <3> QED BY <1>4, <2>1, <3>1 DEF IndInv, AddedOnce
    <2> QED BY <2>1 DEF AddedOnce
  <1>6. ASSUME ~stale', ~strayed'
        PROVE  /\ Orderly(Steps(process)', process', rows', late')
               /\ process'.current \in StepKeys => template' # <<>>
    <2>1. InStep(new) /\ process' = new
      BY <1>3, <1>4, <1>6
    <2>2. Steps(process)' = Steps(process)
      BY <1>3, <1>4, <1>6 DEF Steps
    <2> QED BY <1>4, <2>1, <2>2 DEF InStep
  <1> QED BY <1>1, <1>5, <1>6, OrderNext DEF Good

(* Where a write leaves the process.                                       *)
LEMMA PlacedNew ==
  ASSUME IndInv, Fits, NEW v, Known(v), NEW S, NEW C, Changes(S, C, rows'), NEW new,
         new.meta.added = v.process.meta.added,
         \/ new.current = v.process.current
         \/ /\ template = <<>> /\ ~strayed' => new.current \in ApiPhases
            /\ rows'[new.current] = None => new.current \in StepKeys /\ strayed'
  PROVE  Placed(new)'
  <1>1. Grows /\ strayed \in BOOLEAN
    BY DEF Fits, Changes, Grows, IndInv, Shapes
  <1>2. Placed(v.process)'
    BY <1>1, PlacedStays DEF Known
  <1> QED BY <1>1, <1>2 DEF Placed, Grows

(* The next phase, by the steps a request sees, has a row.                 *)
LEMMA StepsHaveRows ==
  ASSUME IndInv, NEW v, Known(v)
  PROVE  /\ Steps(v.process) \in Seq(StepKeys)
         /\ template # <<>> =>
              \A i \in DOMAIN Steps(v.process) : rows[Steps(v.process)[i]] # None
  <1>1. CASE template = <<>>
    <2>1. StepDefs \in Seq(StepKeys)
      <3>1. DOMAIN StepDefs = 1 .. 7 /\ \A i \in 1 .. 7 : StepDefs[i] \in StepKeys
        BY DEF StepDefs, StepKeys
      <3> QED BY PhaseFacts DEF StepDefs
    <2> QED BY <1>1, <2>1 DEF Steps
  <1>2. CASE template # <<>>
    <2> DEFINE added == v.process.meta.added
               steps == StepsOf(template, added)
    <2>1. template \in Templates
      BY <1>2 DEF IndInv, Shapes
    <2>2. added \in Seq(StepKeys) /\ \A i \in DOMAIN added : rows[added[i]] # None
      BY DEF Known, Processes, Metas, Placed
    <2>3. Steps(v.process) = steps
      BY <1>2 DEF Steps, StepsOf
    <2>4. /\ steps \in Seq(StepKeys)
          /\ Len(template) \in Nat /\ Len(template) > 2 /\ Len(added) \in Nat
          /\ Len(steps) = Len(template) + Len(added)
          /\ \A i \in 1 .. Len(template) - 1 : steps[i] = template[i]
          /\ \A i \in 1 .. Len(added) : steps[Len(template) - 1 + i] = added[i]
          /\ steps[Len(template) + Len(added)] = "fecho"
      BY <2>1, <2>2, StepsFacts
    <2>5. /\ \A i \in 1 .. Len(template) : rows[template[i]] # None
          /\ template[Len(template)] = "fecho"
      BY <1>2, <2>1, WorkshopAssumption DEF IndInv, RowsMade
    <2> HIDE DEF added, steps
    <2>6. ASSUME NEW i \in 1 .. Len(template) + Len(added) PROVE rows[steps[i]] # None
      <3>1. CASE i \in 1 .. Len(template) - 1
        BY <2>4, <2>5, <3>1
      <3>2. CASE i - (Len(template) - 1) \in 1 .. Len(added)
        <4> DEFINE j == i - (Len(template) - 1)
        <4>1. Len(template) - 1 + j = i /\ j \in 1 .. Len(added)
          BY <2>4, <3>2
        <4> HIDE DEF j
        <4>2. steps[Len(template) - 1 + j] = added[j]
          BY <2>4, <4>1
        <4>3. j \in DOMAIN added
          BY <2>2, <4>1
        <4>4. rows[added[j]] # None
          BY <2>2, <4>3
        <4> QED BY <4>1, <4>2, <4>4
      <3>3. CASE i = Len(template) + Len(added)
        <4>1. Len(template) \in 1 .. Len(template)
          BY <2>4
        <4> QED BY <2>4, <2>5, <3>3, <4>1
      <3>4. \/ i \in 1 .. Len(template) - 1 \/ i - (Len(template) - 1) \in 1 .. Len(added)
            \/ i = Len(template) + Len(added)
        <4>1. Len(template) \in Nat /\ Len(template) > 2 /\ Len(added) \in Nat
          BY <2>4
        <4> QED BY <4>1
      <3> QED BY <3>1, <3>2, <3>3, <3>4
    <2>7. DOMAIN steps = 1 .. Len(template) + Len(added)
      BY <2>4
    <2> QED BY <2>3, <2>4, <2>6, <2>7
  <1> QED BY <1>1, <1>2

LEMMA NextHasRow ==
  ASSUME IndInv, NEW v, Known(v), NEW p, NextPhase(Steps(v.process), p) # None
  PROVE  /\ NextPhase(Steps(v.process), p) \in StepKeys
         /\ template # <<>> => rows[NextPhase(Steps(v.process), p)] # None
  <1> DEFINE steps == Steps(v.process)
  <1>1. /\ steps \in Seq(StepKeys)
        /\ template # <<>> => \A i \in DOMAIN steps : rows[steps[i]] # None
    BY StepsHaveRows
  <1> HIDE DEF steps
  <1>2. /\ IsStep(steps, p) /\ Place(steps, p) + 1 <= Len(steps)
        /\ NextPhase(steps, p) = steps[Place(steps, p) + 1]
    <2>1. /\ IsStep(steps, p) /\ Place(steps, p) < Len(steps)
          /\ NextPhase(steps, p) = steps[Place(steps, p) + 1]
      BY DEF NextPhase, steps
    <2>2. Place(steps, p) \in 1 .. Len(steps)
      BY <1>1, <2>1 DEF IsStep, Place
    <2> QED BY <1>1, <2>1, <2>2
  <1>3. Place(steps, p) + 1 \in DOMAIN steps
    <2>1. Place(steps, p) \in 1 .. Len(steps) /\ DOMAIN steps = 1 .. Len(steps)
      BY <1>1, <1>2 DEF IsStep, Place
    <2> QED BY <1>2, <2>1
  <1>4. steps[Place(steps, p) + 1] \in StepKeys
    BY <1>1, <1>3
  <1> QED BY <1>1, <1>2, <1>3, <1>4 DEF steps

(* What a request does not touch stays done.                               *)
LEMMA KeepsRest ==
  ASSUME NEW S, NEW C, Changes(S, C, rows'), NEW but, S \subseteq but, late \subseteq late'
  PROVE  Keeps(rows, late, rows', late', but)
  BY PhaseFacts DEF Keeps, Changes, DoneIn

(* A write that leaves the process open, in a phase that was reached.      *)
LEMMA InStepAt ==
  ASSUME IndInv, ~stale, ~strayed, NEW new,
         Ended(new), new.status # "closed",
         new.current \in StepKeys =>
           /\ template # <<>>
           /\ ReachedIn(Steps(process), new.current, rows, late)
           /\ Keeps(rows, late, rows', late', {new.current, "fecho"})
  PROVE  InStep(new)
  <1>1. ASSUME new.current \in StepKeys
        PROVE  ReachedIn(Steps(process), new.current, rows', late')
    <2>1. /\ Steps(process) \in Seq(StepKeys) /\ Distinct(Steps(process))
          /\ Steps(process)[Len(Steps(process))] = "fecho"
      BY <1>1, StepsNow
    <2> QED BY <1>1, <2>1, StillReached
  <1> QED BY <1>1 DEF InStep, Orderly

(* A process of the API is in no phase of the clean pages, unless it was   *)
(* sent there.                                                             *)
LEMMA CleanPhase ==
  ASSUME IndInv, NEW v, Known(v), v.process.current \in StepKeys
  PROVE  template # <<>> \/ strayed
  BY PhaseFacts DEF Known, Placed

-----------------------------------------------------------------------------
(* The clean pages, request by request.                                    *)

LEMMA EntrySaveGood ==
  ASSUME IndInv, Fits, NEW v, Known(v), EntrySave(v)
  PROVE  Good
  <1> DEFINE saved == [v.process EXCEPT !.current = "entrada"]
  <1>1. /\ v.process \in Processes /\ v.process.current = "entrada"
        /\ rows \in RowSets /\ v.process.status # "closed"
    BY DEF EntrySave, Known, IndInv, Shapes, CleanWritable, ReadOnly
  <1>2. /\ "entrada" \in StepKeys /\ "entrada" \in Phases /\ "validacao" \in StepKeys
        /\ "validacao" \in Phases
    BY PhaseFacts
  <1>3. saved = v.process
    BY <1>1 DEF Processes
  <1>4. template # <<>> \/ strayed'
    BY <1>1, <1>2, CleanPhase DEF Fits
  <1>5. late' = late
    BY DEF EntrySave
  <1>6. Changes({"entrada", "validacao"}, {}, rows) /\ Changes({"entrada", "validacao"}, {"entrada"}, rows)
    BY <1>1, ChangesNothing
  <1>7. ASSUME rows' = Row(v, rows, "entrada", "in_progress"),
               NEW stamped, Write(v, v.process, stamped), CompletesNone
        PROVE  Good
    <2>1. Changes({"entrada", "validacao"}, {}, rows')
      BY <1>1, <1>2, <1>6, <1>7, RowChanges DEF RowStatuses
    <2>2. Moves(v, v.process, stamped, {"entrada", "validacao"}, {})
      BY <1>1, <1>2, <1>4, <1>7, <2>1 DEF Moves, CompletesOnly
    <2>3. Placed(v.process)'
      BY <2>1, PlacedNew
    <2>4. ASSUME ~stale, ~strayed, v.process = process PROVE InStep(v.process)
      <3>1. /\ Orderly(Steps(process), process, rows, late)
            /\ process.current \in StepKeys => template # <<>>
        BY <2>4, OrderNow
      <3>2. \A i \in 1 .. 0 : DoneIn(Steps(process)[i], rows', late')
        OBVIOUS
      <3>3. ReachedIn(Steps(process), "entrada", rows', late')
        <4>1. /\ Steps(process) \in Seq(StepKeys) /\ Distinct(Steps(process))
              /\ Steps(process)[1] = "entrada" /\ 1 \in 1 .. Len(Steps(process))
          BY <1>1, <1>2, <2>4, <3>1, StepsNow
        <4>2. Place(Steps(process), "entrada") = 1
          BY <4>1, PlaceOf
        <4> QED BY <3>2, <4>1, <4>2, ReachedAt
      <3> QED BY <1>1, <1>2, <2>4, <3>1, <3>3 DEF InStep, Orderly
    <2> QED BY <2>2, <2>3, <2>4, StepGood
  <1>8. ASSUME Blockers("entrada") = {},
               rows' = Starts(Row(v, rows, "entrada", "completed"),
                              "validacao", {"not_started"}, "pending_review"),
               NEW stamped, Write(v, [saved EXCEPT !.current = "validacao"], stamped),
               Completes("entrada", FALSE)
        PROVE  Good
    <2>1. PICK new : new = [v.process EXCEPT !.current = "validacao"]
      OBVIOUS
    <2>2. /\ new \in Processes /\ new.current = "validacao" /\ new.meta = v.process.meta
          /\ new.status = v.process.status /\ new.closed = v.process.closed
      BY <1>1, <1>2, <2>1 DEF Processes
    <2>3. Write(v, new, stamped)
      BY <1>3, <1>8, <2>1
    <2>4. PICK rs : rs = Row(v, rows, "entrada", "completed")
      OBVIOUS
    <2>5. /\ Changes({"entrada", "validacao"}, {"entrada"}, rs)
          /\ v.rows = rows => rs["entrada"] = "completed"
      BY <1>1, <1>2, <1>6, <2>4, RowChanges DEF RowStatuses
    <2>6. /\ Changes({"entrada", "validacao"}, {"entrada"}, rows')
          /\ rows'["entrada"] = rs["entrada"]
      <3>1. "pending_review" \in RowStatuses
        BY DEF RowStatuses
      <3> QED BY <1>1, <1>2, <1>8, <2>4, <2>5, <3>1, StartsChanges
    <2>7. Moves(v, new, stamped, {"entrada", "validacao"}, {"entrada"})
      BY <1>2, <1>4, <1>8, <2>2, <2>3, <2>6 DEF Moves, CompletesOnly
    <2>8. Placed(new)'
      <3>1. template # <<>> => rows'["validacao"] # None
        <4>1. ASSUME template # <<>> PROVE rows["validacao"] # None
          <5>1. template \in Templates
            BY <4>1 DEF IndInv, Shapes
          <5>2. template[2] = "validacao" /\ 2 \in DOMAIN template
            BY <5>1, WorkshopAssumption
          <5> QED BY <4>1, <5>2 DEF IndInv, RowsMade
        <4> QED BY <1>2, <2>6, <4>1 DEF Changes
      <3> QED BY <1>2, <1>4, <2>2, <2>6, <3>1, PlacedNew
    <2>9. ASSUME ~stale, ~strayed, v.process = process, v.rows = rows PROVE InStep(new)
      <3>1. /\ Orderly(Steps(process), process, rows, late)
            /\ template # <<>>
        BY <1>1, <1>2, <2>9, OrderNow
      <3>2. /\ Steps(process) \in Seq(StepKeys) /\ Distinct(Steps(process))
            /\ Steps(process)[1] = "entrada" /\ Steps(process)[2] = "validacao"
            /\ Len(Steps(process)) \in Nat /\ Len(Steps(process)) > 2
        BY <2>9, <3>1, StepsNow
      <3>3. Place(Steps(process), "entrada") = 1 /\ IsStep(Steps(process), "entrada")
        BY <3>2, PlaceOf
      <3>4. NextPhase(Steps(process), "entrada") = "validacao"
        BY <3>2, <3>3 DEF NextPhase
      <3>5. ReachedIn(Steps(process), "entrada", rows, late)
        BY <1>1, <1>2, <2>9, <3>1 DEF Orderly
      <3>6. Keeps(rows, late, rows', late', {"entrada", "validacao"})
        BY <1>5, <2>6, KeepsRest
      <3>7. DoneIn("entrada", rows', late') /\ "validacao" # None
        BY <1>2, <2>5, <2>6, <2>9, PhaseFacts DEF DoneIn
      <3>8. ReachedIn(Steps(process), "validacao", rows', late')
        BY <3>2, <3>4, <3>5, <3>6, <3>7, NextReached
      <3> QED BY <1>1, <2>2, <2>9, <3>1, <3>8 DEF InStep, Orderly, Ended
    <2> QED BY <2>2, <2>7, <2>8, <2>9, StepGood
  <1> QED BY <1>3, <1>7, <1>8 DEF EntrySave

(* A phase saved and not advanced.                                         *)
LEMMA SavePhaseGood ==
  ASSUME IndInv, Fits, NEW v, Known(v), NEW p \in StepKeys, SavePhase(v, p)
  PROVE  Good
  <1>1. /\ v.process \in Processes /\ v.process.current = p /\ p # "entrada"
        /\ rows \in RowSets /\ v.process.status # "closed" /\ p \in Phases
        /\ rows' = Row(v, rows, p, "in_progress") /\ Write(v, v.process, {})
        /\ CompletesNone /\ late' = late
    BY PhaseFacts DEF SavePhase, ThisPhase, Kept, Known, IndInv, Shapes, CleanWritable, ReadOnly
  <1>2. "in_progress" \in RowStatuses
    BY DEF RowStatuses
  <1>3. Changes({p}, {}, rows')
    <2>1. Changes({p}, {}, rows)
      BY <1>1, ChangesNothing
    <2> QED BY <1>1, <1>2, <2>1, RowChanges
  <1>4. Moves(v, v.process, {}, {p}, {})
    BY <1>1, <1>3 DEF Moves, CompletesOnly
  <1>5. Placed(v.process)'
    BY <1>3, PlacedNew
  <1>6. ASSUME ~stale, ~strayed, v.process = process PROVE InStep(v.process)
    <2>1. /\ Orderly(Steps(process), process, rows, late)
          /\ process.current \in StepKeys => template # <<>>
      BY <1>6, OrderNow
    <2>2. Keeps(rows, late, rows', late', {p, "fecho"})
      BY <1>1, <1>3, KeepsRest
    <2> QED BY <1>1, <1>6, <2>1, <2>2, InStepAt DEF Orderly
  <1> QED BY <1>4, <1>5, <1>6, StepGood

(* A phase completed: by advancing it, or from its last substep.           *)
LEMMA AdvancedGood ==
  ASSUME IndInv, Fits, NEW v, Known(v), NEW p \in StepKeys, ThisPhase(v, p),
         NEW bypasses \in BOOLEAN, ~bypasses => Blockers(p) = {}, Advanced(v, p, bypasses)
  PROVE  Good
  <1> DEFINE next == NextPhase(Steps(v.process), p)
  <1>1. /\ v.process \in Processes /\ v.process.current = p /\ p # "entrada"
        /\ rows \in RowSets /\ v.process.status # "closed" /\ p \in Phases
        /\ late' = late /\ Completes(p, bypasses)
        /\ v.process.status \in ProcessStatuses
    BY PhaseFacts DEF ThisPhase, Advanced, Known, IndInv, Shapes, CleanWritable, ReadOnly, Processes
  <1>2. template # <<>> \/ strayed'
    BY <1>1, CleanPhase DEF Fits
  <1>3. PICK done : done = Row(v, rows, p, "completed")
    OBVIOUS
  <1>4. ASSUME NEW S, p \in S
        PROVE  /\ Changes(S, {p}, done)
               /\ v.rows = rows => done[p] = "completed"
    <2>1. Changes(S, {p}, rows) /\ "completed" \in RowStatuses
      BY <1>1, ChangesNothing DEF RowStatuses
    <2> QED BY <1>1, <1>3, <1>4, <2>1, RowChanges
  <1>5. CASE next = None
    <2>1. PICK new : new = [v.process EXCEPT !.status = "closed", !.closed = TRUE]
      OBVIOUS
    <2>2. /\ new \in Processes /\ new.current = p /\ new.meta = v.process.meta
          /\ new.status = "closed" /\ new.closed = TRUE
      BY <1>1, <2>1 DEF Processes, ProcessStatuses, Over
    <2>3. Write(v, new, {}) /\ rows' = done
      BY <1>3, <1>5, <2>1 DEF Advanced
    <2>4. Changes({p}, {p}, rows') /\ (v.rows = rows => rows'[p] = "completed")
      BY <1>4, <2>3
    <2>5. Moves(v, new, {}, {p}, {p})
      BY <1>1, <2>2, <2>3, <2>4 DEF Moves, CompletesOnly
    <2>6. Placed(new)'
      BY <1>1, <2>2, <2>4, PlacedNew
    <2>7. ASSUME ~stale, ~strayed, v.process = process, v.rows = rows PROVE InStep(new)
      <3>1. /\ Orderly(Steps(process), process, rows, late)
            /\ template # <<>>
        BY <1>1, <2>7, OrderNow
      <3>2. /\ Steps(process) \in Seq(StepKeys) /\ Distinct(Steps(process))
            /\ Steps(process)[Len(Steps(process))] = "fecho"
        BY <2>7, <3>1, StepsNow
      <3>3. ReachedIn(Steps(process), p, rows, late)
        BY <1>1, <2>7, <3>1 DEF Orderly
      <3>4. Keeps(rows, late, rows', late', {p}) /\ Keeps(rows, late, rows', late', {p, "fecho"})
        BY <1>1, <2>4, KeepsRest
      <3>5. DoneIn(p, rows', late')
        BY <2>4, <2>7 DEF DoneIn
      <3>6. AllIn(Steps(process), rows', late')
        BY <1>5, <2>7, <3>2, <3>3, <3>4, <3>5, LastDone
      <3>7. ReachedIn(Steps(process), p, rows', late')
        BY <3>2, <3>3, <3>4, StillReached
      <3> QED BY <2>2, <2>7, <3>1, <3>6, <3>7 DEF InStep, Orderly, Ended, Over
    <2> QED BY <2>2, <2>5, <2>6, <2>7, StepGood
  <1>6. CASE next # None
    <2>1. next \in StepKeys /\ next \in Phases /\ (template # <<>> => rows[next] # None)
      BY <1>6, NextHasRow, PhaseFacts
    <2> HIDE DEF next
    <2>2. PICK new : new = [v.process EXCEPT !.current = next]
      OBVIOUS
    <2>3. /\ new \in Processes /\ new.current = next /\ new.meta = v.process.meta
          /\ new.status = v.process.status /\ new.closed = v.process.closed
      BY <1>1, <2>1, <2>2 DEF Processes
    <2>4. Write(v, new, {}) /\ rows' = Starts(done, next, {"not_started"}, "pending_review")
      BY <1>3, <1>6, <2>2 DEF Advanced, next
    <2>5. /\ Changes({p, next}, {p}, rows')
          /\ next # p /\ v.rows = rows => rows'[p] = "completed"
      <3>1. "pending_review" \in RowStatuses
        BY DEF RowStatuses
      <3>2. Changes({p, next}, {p}, done) /\ (v.rows = rows => done[p] = "completed")
        BY <1>4
      <3> QED BY <1>1, <2>1, <2>4, <3>1, <3>2, StartsChanges
    <2>6. Moves(v, new, {}, {p, next}, {p})
      BY <1>1, <1>2, <2>1, <2>3, <2>4, <2>5 DEF Moves, CompletesOnly
    <2>7. Placed(new)'
      <3>1. rows'[next] = None => template = <<>>
        BY <2>1, <2>5 DEF Changes
      <3> QED BY <1>2, <2>1, <2>3, <2>5, <3>1, PlacedNew
    <2>8. ASSUME ~stale, ~strayed, v.process = process, v.rows = rows PROVE InStep(new)
      <3>1. /\ Orderly(Steps(process), process, rows, late)
            /\ template # <<>>
        BY <1>1, <2>8, OrderNow
      <3>2. /\ Steps(process) \in Seq(StepKeys) /\ Distinct(Steps(process))
        BY <2>8, <3>1, StepsNow
      <3>3. ReachedIn(Steps(process), p, rows, late)
        BY <1>1, <2>8, <3>1 DEF Orderly
      <3>4. Keeps(rows, late, rows', late', {p, next})
        BY <1>1, <2>5, KeepsRest
      <3>5. NextPhase(Steps(process), p) = next
        BY <2>8 DEF next
      <3>6. next # p
        <4>1. PICK k \in 1 .. Len(Steps(process)) :
                Steps(process)[k] = p /\ Place(Steps(process), p) = k
          BY <3>2, <3>3, ReachedAt
        <4>2. k < Len(Steps(process)) /\ next = Steps(process)[k + 1]
          BY <1>6, <3>5, <4>1 DEF NextPhase
        <4>3. k + 1 \in 1 .. Len(Steps(process)) /\ k + 1 # k
          BY <3>2, <4>1, <4>2
        <4> QED BY <3>2, <4>1, <4>2, <4>3 DEF Distinct
      <3>7. DoneIn(p, rows', late')
        BY <2>5, <2>8, <3>6 DEF DoneIn
      <3>8. ReachedIn(Steps(process), next, rows', late')
        BY <1>6, <3>2, <3>3, <3>4, <3>5, <3>7, NextReached
      <3> QED BY <1>1, <2>3, <2>8, <3>1, <3>8 DEF InStep, Orderly, Ended
    <2> QED BY <2>3, <2>6, <2>7, <2>8, StepGood
  <1> QED BY <1>5, <1>6

(* Back to the repair, which is astray unless it was reached.              *)
LEMMA ReturnToRepairGood ==
  ASSUME IndInv, Fits, NEW v, Known(v), ReturnToRepair(v)
  PROVE  Good
  <1>1. /\ v.process \in Processes /\ v.process.current = "fecho"
        /\ rows \in RowSets /\ v.process.status # "closed"
        /\ late' = late /\ CompletesNone
        /\ strayed' = (strayed \/ ~Reached(v.process, "reparacao"))
    BY DEF ReturnToRepair, ThisPhase, Known, IndInv, Shapes, CleanWritable, ReadOnly
  <1>2. /\ "fecho" \in StepKeys /\ "fecho" \in Phases
        /\ "reparacao" \in StepKeys /\ "reparacao" \in Phases
    BY PhaseFacts
  <1>3. template # <<>> \/ strayed'
    BY <1>1, <1>2, CleanPhase DEF Fits
  <1>4. PICK new : new = [v.process EXCEPT !.current = "reparacao"]
    OBVIOUS
  <1>5. /\ new \in Processes /\ new.current = "reparacao" /\ new.meta = v.process.meta
        /\ new.status = v.process.status /\ new.closed = v.process.closed
        /\ Write(v, new, {})
    BY <1>1, <1>2, <1>4 DEF Processes, ReturnToRepair
  <1>6. Changes({"fecho", "reparacao"}, {}, rows')
    <2>1. "in_progress" \in RowStatuses
      BY DEF RowStatuses
    <2>2. PICK rs : rs = Row(v, rows, "fecho", "in_progress")
      OBVIOUS
    <2>3. Changes({"fecho", "reparacao"}, {}, rows)
      BY <1>1, ChangesNothing
    <2>4. Changes({"fecho", "reparacao"}, {}, rs)
      BY <1>1, <1>2, <2>1, <2>2, <2>3, RowChanges
    <2>5. rows' = Starts(rs, "reparacao", RowStatuses, "in_progress")
      BY <2>2 DEF ReturnToRepair
    <2> QED BY <1>1, <1>2, <2>1, <2>4, <2>5, StartsChanges
  <1>7. Moves(v, new, {}, {"fecho", "reparacao"}, {})
    BY <1>1, <1>2, <1>5, <1>6 DEF Moves, CompletesOnly
  <1>8. Placed(new)'
    <2>1. ASSUME ~strayed' PROVE rows["reparacao"] # None
      <3>1. IsStep(Steps(v.process), "reparacao") /\ template # <<>>
        BY <1>1, <1>3, <2>1 DEF Reached
      <3> QED BY <3>1, StepsHaveRows DEF IsStep
    <2>2. rows'["reparacao"] = None => strayed'
      BY <1>2, <1>6, <2>1 DEF Changes
    <2> QED BY <1>2, <1>3, <1>5, <1>6, <2>2, PlacedNew
  <1>9. ASSUME ~stale, ~strayed, ~strayed', v.process = process PROVE InStep(new)
    <2>1. /\ Orderly(Steps(process), process, rows, late)
          /\ template # <<>>
      BY <1>1, <1>2, <1>9, OrderNow
    <2>2. ReachedIn(Steps(process), "reparacao", rows, late)
      BY <1>1, <1>9 DEF Reached, ReachedIn, DoneIn
    <2>3. Keeps(rows, late, rows', late', {"reparacao", "fecho"})
      BY <1>1, <1>6, KeepsRest
    <2> QED BY <1>1, <1>5, <1>9, <2>1, <2>2, <2>3, InStepAt DEF Orderly, Ended
  <1> QED BY <1>5, <1>7, <1>8, <1>9, StepGood

(* A further phase, before the closure.                                    *)
LEMMA AddOptionalPhaseGood ==
  ASSUME IndInv, Fits, NEW v, Known(v), NEW q \in StepKeys, AddOptionalPhase(v, q)
  PROVE  Good
  <1>1. /\ v.process \in Processes /\ v.process.status # "closed"
        /\ rows \in RowSets /\ q \in Optional /\ rows[q] = None /\ q \in Phases
        /\ rows' = [rows EXCEPT ![q] = "not_started"] /\ CompletesNone
        /\ late' = IF process.current = "fecho" THEN late \cup {q} ELSE late
        /\ strayed' = strayed /\ template' = template
        /\ process \in Processes /\ stale \in BOOLEAN
    BY PhaseFacts DEF AddOptionalPhase, Known, IndInv, Shapes, CleanWritable, ReadOnly, Fits
  <1>2. q # "entrada" /\ q # "fecho"
    BY <1>1, WorkshopAssumption
  <1>3. "not_started" \in RowStatuses /\ None # "not_started"
    BY PhaseFacts DEF RowStatuses
  <1>4. rows' \in RowSets
    BY <1>1, <1>3 DEF RowSets
  <1>5. rows'[q] # None /\ Changes({q}, {}, rows')
    BY <1>1, <1>3, <1>4 DEF Changes, RowSets
  <1>6. PICK new : new = [v.process EXCEPT !.meta.added = Append(@, q)]
    OBVIOUS
  <1>7. v.process.meta.added \in Seq(StepKeys) /\ v.process.meta \in Metas
    BY <1>1 DEF Processes, Metas
  <1>8. PICK more : more = Append(v.process.meta.added, q)
    OBVIOUS
  <1>9. /\ more \in Seq(StepKeys) /\ Len(more) = Len(v.process.meta.added) + 1
        /\ DOMAIN more = 1 .. Len(more) /\ Len(v.process.meta.added) \in Nat
        /\ \A i \in 1 .. Len(v.process.meta.added) : more[i] = v.process.meta.added[i]
        /\ more[Len(v.process.meta.added) + 1] = q
    BY <1>7, <1>8
  <1>10. PICK meta : meta = [v.process.meta EXCEPT !.added = more]
    OBVIOUS
  <1>11. meta \in Metas /\ meta.added = more /\ meta.prior = v.process.meta.prior
    BY <1>7, <1>9, <1>10 DEF Metas
  <1>12. new = [v.process EXCEPT !.meta = meta]
    BY <1>1, <1>6, <1>7, <1>8, <1>10 DEF Processes, Metas
  <1>13. /\ new \in Processes /\ new.current = v.process.current /\ new.meta.added = more
         /\ new.status = v.process.status /\ new.closed = v.process.closed
         /\ new.meta.prior = v.process.meta.prior
    BY <1>1, <1>11, <1>12 DEF Processes
  <1>14. Write(v, new, {"meta"})
    BY <1>6 DEF AddOptionalPhase
  <1>15. Moves(v, new, {"meta"}, {q}, {})
    BY <1>1, <1>2, <1>5, <1>13, <1>14 DEF Moves, CompletesOnly
  <1>16. Placed(new)'
    <2>1. Grows /\ strayed \in BOOLEAN
      BY <1>1, <1>5 DEF Changes, Grows, IndInv, Shapes
    <2>2. Placed(v.process)'
      BY <1>1, <2>1, PlacedStays DEF Known
    <2>3. ASSUME NEW i \in DOMAIN more PROVE rows'[more[i]] # None
      <3>1. i = Len(v.process.meta.added) + 1 \/ i \in 1 .. Len(v.process.meta.added)
        BY <1>9
      <3>2. DOMAIN v.process.meta.added = 1 .. Len(v.process.meta.added)
        BY <1>7
      <3> QED BY <1>5, <1>9, <2>2, <3>1, <3>2 DEF Placed
    <2> QED BY <1>13, <2>2, <2>3 DEF Placed
  <1>17. Base
    BY <1>15, <1>16, StepBase
  <1>18. /\ stale => stale'
         /\ ~stale' => process' = new /\ v.process = process /\ v.rows = rows
    BY <1>1, <1>13, <1>14, WriteTypes
  <1>19. ASSUME ~stale', template # <<>>
         PROVE  Fresh(template, more)
    <2>1. ~stale /\ v.process = process
      BY <1>18, <1>19
    <2>2. /\ Fresh(template, v.process.meta.added) /\ template \in Templates
          /\ DOMAIN v.process.meta.added = 1 .. Len(v.process.meta.added)
      BY <1>7, <1>19, <2>1, StepsNow
    <2>3. \A j \in DOMAIN template : template[j] # q
      BY <1>1, <1>19 DEF IndInv, RowsMade
    <2>4. \A i \in 1 .. Len(v.process.meta.added) : v.process.meta.added[i] # q
      BY <1>1, <2>2 DEF Known, Placed
    <2>5. ASSUME NEW i \in DOMAIN more
          PROVE  /\ more[i] \in Optional
                 /\ \A j \in DOMAIN template : template[j] # more[i]
                 /\ \A j \in DOMAIN more : more[j] = more[i] => i = j
      <3> DEFINE n == Len(v.process.meta.added)
      <3>1. i = n + 1 \/ i \in 1 .. n
        BY <1>9
      <3>2. ASSUME NEW j \in DOMAIN more PROVE j = n + 1 \/ j \in 1 .. n
        BY <1>9
      <3> HIDE DEF n
      <3>3. /\ \A k \in 1 .. n : more[k] = v.process.meta.added[k] /\ more[k] # q
            /\ more[n + 1] = q
        BY <1>9, <2>4 DEF n
      <3>4. CASE i = n + 1
        BY <1>1, <2>3, <3>2, <3>3, <3>4
      <3>5. CASE i \in 1 .. n
        <4>1. /\ more[i] \in Optional
              /\ \A j \in DOMAIN template : template[j] # more[i]
              /\ \A j \in 1 .. n : more[j] = more[i] => i = j
          BY <2>2, <3>3, <3>5 DEF Fresh, n
        <4> QED BY <3>2, <3>3, <3>5, <4>1
      <3> QED BY <3>1, <3>4, <3>5
    <2> QED BY <2>5 DEF Fresh
  <1>20. AddedOnce'
    BY <1>1, <1>13, <1>18, <1>19 DEF AddedOnce, Fresh
  <1>21. ASSUME ~stale', ~strayed'
         PROVE  /\ Orderly(Steps(process)', process', rows', late')
                /\ process'.current \in StepKeys => template' # <<>>
    <2>1. ~stale /\ ~strayed /\ v.process = process /\ process' = new
      BY <1>1, <1>18, <1>21
    <2>2. /\ Orderly(Steps(process), process, rows, late)
          /\ process.current \in StepKeys => template # <<>>
      BY <2>1, OrderNow
    <2>3. ASSUME process.current \in StepKeys
          PROVE  ReachedIn(Steps(process)', process.current, rows', late')
      <3>1. template # <<>>
        BY <2>2, <2>3
      <3>2. /\ template \in Templates /\ process.meta.added \in Seq(StepKeys)
            /\ Fresh(template, process.meta.added)
            /\ Steps(process) = StepsOf(template, process.meta.added)
        BY <2>1, <3>1, StepsNow
      <3>3. Fresh(template, Append(process.meta.added, q))
        BY <1>8, <1>19, <1>21, <2>1, <3>1
      <3>4. late \subseteq late' /\ (process.current = "fecho" => q \in late')
        BY <1>1
      <3>5. Keeps(rows, late, rows', late', {q})
        BY <1>5, <3>4, KeepsRest
      <3>6. process.current = "fecho" => DoneIn(q, rows', late')
        BY <3>4 DEF DoneIn
      <3>7. ReachedIn(StepsOf(template, process.meta.added), process.current, rows, late)
        BY <2>2, <2>3, <3>2 DEF Orderly
      <3>8. ReachedIn(StepsOf(template, Append(process.meta.added, q)), process.current, rows', late')
        BY <3>2, <3>3, <3>5, <3>6, <3>7, AddedBehind
      <3>9. Steps(process)' = StepsOf(template, Append(process.meta.added, q))
        BY <1>1, <1>8, <1>13, <2>1, <3>1 DEF Steps, StepsOf
      <3> QED BY <3>8, <3>9
    <2> QED BY <1>1, <1>13, <2>1, <2>2, <2>3 DEF Orderly, Ended
  <1> QED BY <1>17, <1>20, <1>21, OrderNext DEF Good

(* A process of the API has not reached the diagnosis: it has no entry.    *)
LEMMA DiagnosisReached ==
  ASSUME IndInv, NEW v, Known(v), ~strayed, Reached(v.process, "diagnostico")
  PROVE  template # <<>> /\ rows["diagnostico"] # None
  <1>1. template # <<>>
    <2>1. SUFFICES ASSUME template = <<>> PROVE FALSE
      OBVIOUS
    <2>2. Steps(v.process) = StepDefs
      BY <2>1 DEF Steps
    <2>3. /\ StepDefs[1] = "entrada" /\ StepDefs[3] = "diagnostico" /\ DOMAIN StepDefs = 1 .. 7
          /\ \A i \in 1 .. 7 : StepDefs[i] = "diagnostico" => i = 3
      BY DEF StepDefs
    <2>4. Place(StepDefs, "diagnostico") = 3
      BY <2>3 DEF Place
    <2>5. rows["entrada"] = "completed" \/ "entrada" \in late
      BY <2>2, <2>3, <2>4 DEF Reached
    <2>6. rows["entrada"] = None /\ late \subseteq Optional
      BY <2>1 DEF IndInv, EntryUnmade, Shapes
    <2> QED BY <2>5, <2>6, WorkshopAssumption, PhaseFacts DEF RowStatuses
  <1>2. IsStep(Steps(v.process), "diagnostico")
    BY DEF Reached
  <1> QED BY <1>1, <1>2, StepsHaveRows DEF IsStep

(* Any report sends the process to the diagnosis.                          *)
LEMMA SentToDiagnosisGood ==
  ASSUME IndInv, Fits, NEW v, Known(v), CleanWritable(v), SentToDiagnosis(v),
         Changes({"diagnostico"}, {}, rows')
  PROVE  Good
  <1>1. /\ v.process \in Processes /\ v.process.status # "closed"
        /\ late' = late /\ CompletesNone
        /\ strayed' = (strayed \/ ~Reached(v.process, "diagnostico"))
        /\ "diagnostico" \in StepKeys /\ "diagnostico" \in Phases
    BY PhaseFacts DEF SentToDiagnosis, Known, CleanWritable, ReadOnly
  <1>2. PICK new : new = [v.process EXCEPT !.current = "diagnostico"]
    OBVIOUS
  <1>3. /\ new \in Processes /\ new.current = "diagnostico" /\ new.meta = v.process.meta
        /\ new.status = v.process.status /\ new.closed = v.process.closed
        /\ Write(v, new, {})
    BY <1>1, <1>2 DEF Processes, SentToDiagnosis
  <1>4. Moves(v, new, {}, {"diagnostico"}, {})
    BY <1>1, <1>3 DEF Moves, CompletesOnly
  <1>5. ~strayed' => template # <<>> /\ rows["diagnostico"] # None
    BY <1>1, DiagnosisReached
  <1>6. Placed(new)'
    <2>1. rows'["diagnostico"] = None => strayed'
      BY <1>1, <1>5 DEF Changes
    <2> QED BY <1>1, <1>3, <1>5, <2>1, PlacedNew DEF Fits
  <1>7. ASSUME ~stale, ~strayed, ~strayed', v.process = process PROVE InStep(new)
    <2>1. Orderly(Steps(process), process, rows, late)
      BY <1>7, OrderNow
    <2>2. ReachedIn(Steps(process), "diagnostico", rows, late)
      BY <1>1, <1>7 DEF Reached, ReachedIn, DoneIn
    <2>3. Keeps(rows, late, rows', late', {"diagnostico", "fecho"})
      BY <1>1, KeepsRest
    <2> QED BY <1>1, <1>3, <1>5, <1>7, <2>1, <2>2, <2>3, InStepAt DEF Orderly, Ended
  <1> QED BY <1>3, <1>4, <1>6, <1>7, StepGood

LEMMA UploadReportGood ==
  ASSUME IndInv, Fits, NEW v, Known(v), UploadReport(v)
  PROVE  Good
  <1>1. Changes({"diagnostico"}, {}, rows')
    <2>1. rows \in RowSets
      BY DEF IndInv, Shapes
    <2>2. Changes({"diagnostico"}, {}, rows) /\ "pending_review" \in RowStatuses
          /\ "diagnostico" \in Phases
      BY <2>1, ChangesNothing, PhaseFacts DEF RowStatuses
    <2>3. rows' = Starts(rows, "diagnostico", {"not_started"}, "pending_review")
      BY DEF UploadReport
    <2> QED BY <2>1, <2>2, <2>3, StartsChanges
  <1> QED BY <1>1, SentToDiagnosisGood DEF UploadReport

LEMMA ValidateReportGood ==
  ASSUME IndInv, Fits, NEW v, Known(v), NEW i, ValidateReport(v, i)
  PROVE  Good
  <1>1. Changes({"diagnostico"}, {}, rows')
    BY ChangesNothing DEF ValidateReport, IndInv, Shapes
  <1> QED BY <1>1, SentToDiagnosisGood DEF ValidateReport

(* A write that leaves the phases alone: only the status, and whether the  *)
(* process is over, may change.                                            *)
LEMMA StatusGood ==
  ASSUME IndInv, Fits, NEW v, Known(v), rows' = rows, late' = late, CompletesNone,
         NEW new, new \in Processes, NEW stamped, Write(v, new, stamped),
         new.current = v.process.current, new.meta.added = v.process.meta.added,
         ~strayed' /\ v.process = process /\ Ended(process)
           => new.status # "closed" /\ Ended(new)
  PROVE  Good
  <1>1. Changes({}, {}, rows')
    BY ChangesNothing DEF IndInv, Shapes
  <1>2. Moves(v, new, stamped, {}, {})
    BY <1>1 DEF Moves, CompletesOnly
  <1>3. Placed(new)'
    BY <1>1, PlacedNew
  <1>4. ASSUME ~stale, ~strayed, ~strayed', v.process = process PROVE InStep(new)
    <2>1. /\ Orderly(Steps(process), process, rows, late)
          /\ process.current \in StepKeys => template # <<>>
      BY <1>4, OrderNow
    <2>2. Keeps(rows, late, rows', late', {new.current, "fecho"})
      BY <1>1, KeepsRest
    <2> QED BY <1>4, <2>1, <2>2, InStepAt DEF Orderly
  <1> QED BY <1>2, <1>3, <1>4, StepGood

LEMMA VoidReportGood ==
  ASSUME IndInv, Fits, NEW v, Known(v), NEW i, VoidReport(v, i)
  PROVE  Good
  BY StatusGood DEF VoidReport, Known, CleanWritable, ReadOnly

LEMMA CancelProcessGood ==
  ASSUME IndInv, Fits, NEW v, Known(v), CancelProcess(v)
  PROVE  Good
  <1>1. v.process \in Processes /\ v.process.status \in ProcessStatuses /\ v.process.meta \in Metas
    BY DEF Known, Processes
  <1>2. PICK meta : meta = [v.process.meta EXCEPT !.prior = v.process.status]
    OBVIOUS
  <1>3. meta \in Metas /\ meta.added = v.process.meta.added /\ meta.prior = v.process.status
    BY <1>1, <1>2 DEF Metas
  <1>4. PICK new : new = [v.process EXCEPT !.status = "cancelled", !.closed = TRUE,
                                           !.meta.prior = v.process.status]
    OBVIOUS
  <1>5. new = [v.process EXCEPT !.status = "cancelled", !.closed = TRUE, !.meta = meta]
    BY <1>1, <1>2, <1>4 DEF Processes, Metas
  <1>6. /\ new \in Processes /\ new.current = v.process.current
        /\ new.meta.added = v.process.meta.added
        /\ new.status = "cancelled" /\ new.closed = TRUE
        /\ new.meta.prior = v.process.status
    BY <1>1, <1>3, <1>5 DEF Processes, ProcessStatuses, Over
  <1>7. Write(v, new, {"meta"})
    BY <1>4 DEF CancelProcess
  <1>8. rows' = rows /\ late' = late /\ CompletesNone /\ v.process.status \notin ReadOnly
    BY DEF CancelProcess, CleanWritable
  <1>9. new.status # "closed" /\ Ended(new)
    BY <1>6, <1>8 DEF Ended, Over
  <1> QED BY <1>6, <1>7, <1>8, <1>9, StatusGood

LEMMA ReopenProcessGood ==
  ASSUME IndInv, Fits, NEW v, Known(v), ReopenProcess(v)
  PROVE  Good
  <1>1. v.process \in Processes /\ v.process.meta \in Metas
    BY DEF Known, Processes
  <1>2. StatusBack(v.process) \in ProcessStatuses
    BY <1>1 DEF StatusBack, Metas, ProcessStatuses
  <1>3. PICK new : new = Restored(v.process)
    OBVIOUS
  <1>4. /\ new \in Processes /\ new.current = v.process.current /\ new.meta = v.process.meta
        /\ new.closed = FALSE /\ new.status = StatusBack(v.process)
    BY <1>1, <1>2, <1>3 DEF Restored, Processes
  <1>5. Write(v, new, {"meta"})
    BY <1>3 DEF ReopenProcess
  <1>6. rows' = rows /\ late' = late /\ CompletesNone
    BY DEF ReopenProcess
  <1>7. ASSUME Ended(v.process) PROVE new.status # "closed" /\ Ended(new)
    BY <1>4, <1>7 DEF Ended, StatusBack, Over, ReadOnly
  <1> QED BY <1>4, <1>5, <1>6, <1>7, StatusGood

(* All of the clean pages.                                                 *)
LEMMA CleanFits ==
  ASSUME IndInv, NEW v, Known(v), CleanRequest(v), template' = template, UNCHANGED photoVars
  PROVE  Fits
  <1>1. /\ strayed \in BOOLEAN /\ late \subseteq Optional
        /\ reports \in Seq(Reports)
    BY DEF IndInv, Shapes
  <1>2. (strayed' = strayed \/ \E b \in BOOLEAN : strayed' = (strayed \/ b)) /\ late' \subseteq Optional
    BY <1>1 DEF CleanRequest, EntrySave, SavePhase, AdvancePhase, AdvanceLastSubstep, ThisPhase,
       AddOptionalPhase, ReturnToRepair, UploadReport, ValidateReport, SentToDiagnosis, VoidReport,
       CancelProcess, ReopenProcess
  <1>3. reports' \in Seq(Reports)
    <2>1. CASE reports' = reports
      BY <1>1, <2>1
    <2>2. CASE UploadReport(v)
      <3>1. PICK old \in 0 .. Len(reports) :
              reports' = Append([i \in DOMAIN reports |->
                                   [reports[i] EXCEPT !.live = @ /\ i # old]],
                                [live |-> TRUE, complete |-> FALSE])
        BY <2>2 DEF UploadReport
      <3> DEFINE kept == [i \in DOMAIN reports |-> [reports[i] EXCEPT !.live = @ /\ i # old]]
      <3>2. ASSUME NEW i \in DOMAIN reports
            PROVE  [reports[i] EXCEPT !.live = @ /\ i # old] \in Reports
        <4>1. reports[i] \in Reports
          BY <1>1
        <4> QED BY <4>1 DEF Reports
      <3>3. kept \in Seq(Reports)
        BY <1>1, <3>2
      <3> HIDE DEF kept
      <3>4. [live |-> TRUE, complete |-> FALSE] \in Reports
        BY DEF Reports
      <3>5. Append(kept, [live |-> TRUE, complete |-> FALSE]) \in Seq(Reports)
        BY <3>3, <3>4
      <3> QED BY <3>1, <3>5 DEF kept
    <2>3. ASSUME NEW i \in DOMAIN reports, ValidateReport(v, i)
          PROVE  reports' \in Seq(Reports)
      <3>1. PICK complete \in BOOLEAN :
              reports' = [reports EXCEPT ![i] = [live |-> TRUE, complete |-> complete]]
        BY <2>3 DEF ValidateReport
      <3>2. [live |-> TRUE, complete |-> complete] \in Reports
        BY DEF Reports
      <3> QED BY <1>1, <2>3, <3>1, <3>2
    <2>4. ASSUME NEW i \in DOMAIN reports, VoidReport(v, i)
          PROVE  reports' \in Seq(Reports)
      <3>1. reports' = [reports EXCEPT ![i].live = FALSE]
        BY <2>4 DEF VoidReport
      <3>2. [reports[i] EXCEPT !.live = FALSE] \in Reports
        <4>1. reports[i] \in Reports
          BY <1>1
        <4> QED BY <4>1 DEF Reports
      <3>3. reports' = [reports EXCEPT ![i] = [reports[i] EXCEPT !.live = FALSE]]
        BY <1>1, <2>4, <3>1
      <3> QED BY <1>1, <2>4, <3>2, <3>3
    <2> QED BY <2>1, <2>2, <2>3, <2>4 DEF CleanRequest, EntrySave, SavePhase, AdvancePhase,
       AdvanceLastSubstep, ThisPhase, AddOptionalPhase, ReturnToRepair, CancelProcess, ReopenProcess
  <1> QED BY <1>1, <1>2, <1>3 DEF Fits

LEMMA CleanRequestGood ==
  ASSUME IndInv, NEW v, Known(v), CleanRequest(v), template' = template, UNCHANGED photoVars
  PROVE  Good
  <1>1. Fits
    BY CleanFits
  <1>2. CASE EntrySave(v)
    BY <1>1, <1>2, EntrySaveGood
  <1>3. ASSUME NEW p \in StepKeys, SavePhase(v, p) PROVE Good
    BY <1>1, <1>3, SavePhaseGood
  <1>4. ASSUME NEW p \in StepKeys, AdvancePhase(v, p) PROVE Good
    <2>1. ThisPhase(v, p) /\ Blockers(p) = {} /\ Advanced(v, p, FALSE)
      BY <1>4 DEF AdvancePhase
    <2> QED BY <1>1, <2>1, AdvancedGood
  <1>5. ASSUME NEW p \in StepKeys, AdvanceLastSubstep(v, p) PROVE Good
    <2>1. ThisPhase(v, p) /\ Advanced(v, p, TRUE)
      BY <1>5 DEF AdvanceLastSubstep
    <2> QED BY <1>1, <2>1, AdvancedGood
  <1>6. ASSUME NEW p \in StepKeys, AddOptionalPhase(v, p) PROVE Good
    BY <1>1, <1>6, AddOptionalPhaseGood
  <1>7. CASE ReturnToRepair(v)
    BY <1>1, <1>7, ReturnToRepairGood
  <1>8. CASE UploadReport(v)
    BY <1>1, <1>8, UploadReportGood
  <1>9. ASSUME NEW i \in DOMAIN reports, ValidateReport(v, i) \/ VoidReport(v, i) PROVE Good
    BY <1>1, <1>9, ValidateReportGood, VoidReportGood
  <1>10. CASE CancelProcess(v)
    BY <1>1, <1>10, CancelProcessGood
  <1>11. CASE ReopenProcess(v)
    BY <1>1, <1>11, ReopenProcessGood
  <1> QED BY <1>2, <1>3, <1>4, <1>5, <1>6, <1>7, <1>8, <1>9, <1>10, <1>11 DEF CleanRequest

-----------------------------------------------------------------------------
(* The API, request by request.                                            *)

(* A row of the API means a process of the API, but for the inspection's.  *)
LEMMA OnApi ==
  ASSUME IndInv, NEW v, Known(v), NEW p, p \in ApiPhases \ {"technical_inspection"},
         On(v, p)
  PROVE  template = <<>> /\ \A q \in ApiPhases : rows[q] # None
  BY PhaseFacts DEF On, Known, IndInv, RowsMade

(* The API writes a phase of its own as the current one.                   *)
LEMMA ApiGood ==
  ASSUME IndInv, Fits, NEW v, Known(v), NEW new, new \in Processes, ApiWrite(v, new),
         new.meta = v.process.meta, new.current \in ApiPhases, rows'[new.current] # None,
         NEW S, NEW C, Changes(S, C, rows'), CompletesOnly(C), S \subseteq ApiPhases,
         template = <<>> \/ S = {"technical_inspection"},
         v.process.status \notin Over /\ ~v.process.closed
           => new.status # "closed" /\ (new.closed <=> new.status \in Over)
  PROVE  Good
  <1>1. "entrada" \notin S /\ new.current \notin StepKeys /\ "entrada" \in StepKeys
    BY PhaseFacts
  <1>2. Write(v, new, {}) /\ strayed' = (strayed \/ v.process.status \in Over)
    BY DEF ApiWrite
  <1>3. Moves(v, new, {}, S, C)
    BY <1>1, <1>2 DEF Moves
  <1>4. Placed(new)'
    BY PlacedNew
  <1>5. ASSUME ~stale, ~strayed, ~strayed', v.process = process PROVE InStep(new)
    <2>1. /\ Orderly(Steps(process), process, rows, late)
          /\ v.process.status \notin Over
      BY <1>2, <1>5, OrderNow
    <2>2. ~v.process.closed /\ v.process.meta.prior \notin ReadOnly
      BY <1>5, <2>1 DEF Orderly, Ended
    <2>3. new.status # "closed" /\ Ended(new)
      BY <2>1, <2>2 DEF Ended
    <2> QED BY <1>1, <1>5, <2>1, <2>3, InStepAt
  <1> QED BY <1>3, <1>4, <1>5, StepGood

LEMMA MarksChanges ==
  ASSUME IndInv, NEW v, Known(v), NEW S, NEW rs, Changes(S, {}, rs),
         NEW p, p \in Phases, p \in S, NEW status, status \in RowStatuses, Marks(v, p, status, rs)
  PROVE  \E C : Changes(S, C, rows') /\ CompletesOnly(C)
  <1>1. rows \in RowSets /\ rows' = Row(v, rs, p, status) /\ MayMark(p, status)
    BY DEF IndInv, Shapes, Marks
  <1>2. Changes(S, {p}, rs)
    BY DEF Changes
  <1>3. CASE status = "completed"
    <2>1. Completes(p, FALSE) /\ Blockers(p) = {}
      BY <1>1, <1>3 DEF Marks, MayMark
    <2>2. Changes(S, {p}, rows')
      BY <1>1, <1>2, RowChanges
    <2>3. CompletesOnly({p})
      BY <2>1 DEF CompletesOnly
    <2> QED BY <2>2, <2>3
  <1>4. CASE status # "completed"
    <2>1. CompletesNone
      BY <1>4 DEF Marks
    <2>2. Changes(S, {}, rows')
      BY <1>1, <1>4, RowChanges
    <2>3. CompletesOnly({})
      BY <2>1 DEF CompletesOnly
    <2> QED BY <2>2, <2>3
  <1> QED BY <1>3, <1>4

(* The phase p is marked, and the next one starts and becomes the current  *)
(* one.                                                                    *)
LEMMA ApiMarksGood ==
  ASSUME IndInv, Fits, NEW v, Known(v), NEW p, p \in ApiPhases \ {"technical_inspection"},
         On(v, p), NEW status, status \in RowStatuses, NEW rs,
         Changes(ApiPhases, {}, rs), Marks(v, p, status, rs),
         NEW new, new \in Processes, ApiWrite(v, new),
         new.meta = v.process.meta, new.current \in ApiPhases,
         v.process.status \notin Over /\ ~v.process.closed
           => new.status # "closed" /\ (new.closed <=> new.status \in Over)
  PROVE  Good
  <1>1. template = <<>> /\ \A q \in ApiPhases : rows[q] # None
    BY OnApi
  <1>2. p \in Phases /\ p \in ApiPhases /\ new.current \in Phases
    BY PhaseFacts
  <1>3. PICK C : Changes(ApiPhases, C, rows') /\ CompletesOnly(C)
    BY <1>2, MarksChanges
  <1>4. rows'[new.current] # None
    BY <1>1, <1>2, <1>3 DEF Changes
  <1> QED BY <1>1, <1>3, <1>4, ApiGood

LEMMA StartsApi ==
  ASSUME IndInv, NEW p, p \in ApiPhases, NEW from,
         NEW status, status \in RowStatuses, status # "completed"
  PROVE  Changes(ApiPhases, {}, Starts(rows, p, from, status))
  <1>1. rows \in RowSets /\ p \in Phases
    BY PhaseFacts DEF IndInv, Shapes
  <1>2. Changes(ApiPhases, {}, rows)
    BY <1>1, ChangesNothing
  <1> QED BY <1>1, <1>2, StartsChanges

LEMMA ApiFacts ==
  /\ ApiPhases \ {"technical_inspection"} = {"administrative_reception", "history_check",
       "technical_phase", "diagnosis_decision", "budget_approval",
       "internal_repair_execution", "final_closure"}
  /\ Outcomes \subseteq RowStatuses
  /\ {"pending", "pending_validation", "in_progress", "with_incidents", "completed",
      "completed_with_pending_items"} \subseteq RowStatuses
  BY DEF ApiPhases, Outcomes, RowStatuses

LEMMA ConfirmReceptionGood ==
  ASSUME IndInv, Fits, NEW v, Known(v), ConfirmReception(v)
  PROVE  Good
  <1>1. PICK next \in {"history_check", "technical_phase", "diagnosis_decision"},
             outcome \in Outcomes :
          /\ ApiWrite(v, [v.process EXCEPT !.status = "pending_review", !.current = next])
          /\ Marks(v, "administrative_reception", outcome,
                   Starts(rows, next, {"not_started"}, "pending"))
    BY DEF ConfirmReception
  <1>2. next \in ApiPhases /\ next \in Phases /\ outcome \in RowStatuses
    BY ApiFacts, PhaseFacts
  <1>3. PICK new : new = [v.process EXCEPT !.status = "pending_review", !.current = next]
    OBVIOUS
  <1>4. /\ new \in Processes /\ new.current = next /\ new.meta = v.process.meta
        /\ new.status = "pending_review" /\ new.closed = v.process.closed
    BY <1>2, <1>3 DEF Known, Processes, ProcessStatuses
  <1>5. PICK rs : rs = Starts(rows, next, {"not_started"}, "pending")
    OBVIOUS
  <1>6. Changes(ApiPhases, {}, rs)
    BY <1>2, <1>5, ApiFacts, StartsApi
  <1>7. On(v, "administrative_reception")
    BY DEF ConfirmReception
  <1>8. new.closed \in BOOLEAN
    BY <1>4 DEF Processes
  <1> QED BY <1>1, <1>2, <1>3, <1>4, <1>5, <1>6, <1>7, <1>8, ApiFacts, ApiMarksGood DEF Over

LEMMA ConfirmHistoryCheckGood ==
  ASSUME IndInv, Fits, NEW v, Known(v), ConfirmHistoryCheck(v)
  PROVE  Good
  <1>1. PICK outcome \in Outcomes :
          Marks(v, "history_check", outcome,
                Starts(rows, "technical_phase", {"not_started"}, "pending"))
    BY DEF ConfirmHistoryCheck
  <1>2. "technical_phase" \in ApiPhases /\ "technical_phase" \in Phases /\ outcome \in RowStatuses
    BY ApiFacts, PhaseFacts
  <1>3. PICK new : new = [v.process EXCEPT !.current = "technical_phase"]
    OBVIOUS
  <1>4. /\ new \in Processes /\ new.current = "technical_phase" /\ new.meta = v.process.meta
        /\ new.status = v.process.status /\ new.closed = v.process.closed
    BY <1>2, <1>3 DEF Known, Processes
  <1>5. PICK rs : rs = Starts(rows, "technical_phase", {"not_started"}, "pending")
    OBVIOUS
  <1>6. Changes(ApiPhases, {}, rs)
    BY <1>2, <1>5, ApiFacts, StartsApi
  <1>7. On(v, "history_check") /\ ApiWrite(v, new)
    BY <1>3 DEF ConfirmHistoryCheck
  <1> QED BY <1>1, <1>2, <1>4, <1>5, <1>6, <1>7, ApiFacts, ApiMarksGood DEF Over

LEMMA AddTechnicalReportGood ==
  ASSUME IndInv, Fits, NEW v, Known(v), AddTechnicalReport(v)
  PROVE  Good
  <1>1. PICK p \in {"technical_phase", "internal_repair_execution"} :
          /\ On(v, p)
          /\ rows' = Row(v, rows, p, "pending_validation")
          /\ ApiWrite(v, [v.process EXCEPT !.current = p])
          /\ CompletesNone
    BY DEF AddTechnicalReport
  <1>2. /\ p \in ApiPhases \ {"technical_inspection"} /\ p \in Phases /\ p \in ApiPhases
        /\ "pending_validation" \in RowStatuses /\ rows \in RowSets
    BY ApiFacts, PhaseFacts DEF IndInv, Shapes
  <1>3. PICK new : new = [v.process EXCEPT !.current = p]
    OBVIOUS
  <1>4. /\ new \in Processes /\ new.current = p /\ new.meta = v.process.meta
        /\ new.status = v.process.status /\ new.closed = v.process.closed
    BY <1>2, <1>3 DEF Known, Processes
  <1>5. Changes(ApiPhases, {}, rows') /\ rows'[p] # None
    <2>1. Changes(ApiPhases, {}, rows)
      BY <1>2, ChangesNothing
    <2> QED BY <1>1, <1>2, <2>1, RowChanges
  <1>6. template = <<>>
    BY <1>1, <1>2, OnApi
  <1> QED BY <1>1, <1>2, <1>3, <1>4, <1>5, <1>6, ApiGood DEF CompletesOnly, Over

LEMMA InspectGood ==
  ASSUME IndInv, Fits, NEW v, Known(v), Inspect(v)
  PROVE  Good
  <1> DEFINE p == "technical_inspection"
  <1>1. PICK status \in {"in_progress", "with_incidents"} : rows' = Row(v, rows, p, status)
    BY DEF Inspect
  <1>2. p \in ApiPhases /\ p \in Phases /\ status \in RowStatuses /\ rows \in RowSets
    BY PhaseFacts DEF ApiPhases, RowStatuses, IndInv, Shapes
  <1>3. PICK new : new = [v.process EXCEPT !.current = p]
    OBVIOUS
  <1>4. /\ new \in Processes /\ new.current = p /\ new.meta = v.process.meta
        /\ new.status = v.process.status /\ new.closed = v.process.closed
    BY <1>2, <1>3 DEF Known, Processes
  <1>5. Changes({p}, {}, rows') /\ rows'[p] # None
    <2>1. Changes({p}, {}, rows)
      BY <1>2, ChangesNothing
    <2> QED BY <1>1, <1>2, <2>1, RowChanges
  <1>6. ApiWrite(v, new) /\ CompletesNone
    BY <1>3 DEF Inspect
  <1> QED BY <1>2, <1>4, <1>5, <1>6, ApiGood DEF CompletesOnly, Over

LEMMA ConfirmDecisionGood ==
  ASSUME IndInv, Fits, NEW v, Known(v), ConfirmDecision(v)
  PROVE  Good
  <1>1. PICK next \in {"budget_approval", "internal_repair_execution"} :
          /\ Marks(v, "diagnosis_decision", "completed",
                   Starts(rows, next, {"not_started", "pending_definition"}, "pending"))
          /\ ApiWrite(v, [v.process EXCEPT !.current = next])
    BY DEF ConfirmDecision
  <1>2. next \in ApiPhases /\ next \in Phases
    BY ApiFacts, PhaseFacts
  <1>3. PICK new : new = [v.process EXCEPT !.current = next]
    OBVIOUS
  <1>4. /\ new \in Processes /\ new.current = next /\ new.meta = v.process.meta
        /\ new.status = v.process.status /\ new.closed = v.process.closed
    BY <1>2, <1>3 DEF Known, Processes
  <1>5. PICK rs : rs = Starts(rows, next, {"not_started", "pending_definition"}, "pending")
    OBVIOUS
  <1>6. Changes(ApiPhases, {}, rs)
    BY <1>2, <1>5, ApiFacts, StartsApi
  <1>7. On(v, "diagnosis_decision") /\ ApiWrite(v, new)
    BY <1>1, <1>3 DEF ConfirmDecision
  <1> QED BY <1>1, <1>2, <1>4, <1>5, <1>6, <1>7, ApiFacts, ApiMarksGood DEF Over

LEMMA UpdateBudgetGood ==
  ASSUME IndInv, Fits, NEW v, Known(v), UpdateBudget(v)
  PROVE  Good
  <1>1. PICK outcome \in Outcomes,
             next \in {"internal_repair_execution", "diagnosis_decision", "budget_approval"} :
          /\ Marks(v, "budget_approval", outcome,
                   IF next = "internal_repair_execution"
                   THEN Starts(rows, next, {"not_started"}, "pending") ELSE rows)
          /\ ApiWrite(v, [v.process EXCEPT !.current = next])
    BY DEF UpdateBudget
  <1>2. next \in ApiPhases /\ next \in Phases /\ outcome \in RowStatuses /\ rows \in RowSets
    BY ApiFacts, PhaseFacts DEF IndInv, Shapes
  <1>3. PICK new : new = [v.process EXCEPT !.current = next]
    OBVIOUS
  <1>4. /\ new \in Processes /\ new.current = next /\ new.meta = v.process.meta
        /\ new.status = v.process.status /\ new.closed = v.process.closed
    BY <1>2, <1>3 DEF Known, Processes
  <1>5. PICK rs : rs = IF next = "internal_repair_execution"
                       THEN Starts(rows, next, {"not_started"}, "pending") ELSE rows
    OBVIOUS
  <1>6. Changes(ApiPhases, {}, rs)
    <2>1. Changes(ApiPhases, {}, Starts(rows, next, {"not_started"}, "pending"))
      BY <1>2, ApiFacts, StartsApi
    <2>2. Changes(ApiPhases, {}, rows)
      BY <1>2, ChangesNothing
    <2> QED BY <1>5, <2>1, <2>2
  <1>7. On(v, "budget_approval") /\ ApiWrite(v, new) /\ Marks(v, "budget_approval", outcome, rs)
    BY <1>1, <1>3, <1>5 DEF UpdateBudget
  <1> QED BY <1>2, <1>4, <1>6, <1>7, ApiFacts, ApiMarksGood DEF Over

LEMMA UpdateRepairGood ==
  ASSUME IndInv, Fits, NEW v, Known(v), UpdateRepair(v)
  PROVE  Good
  <1>1. PICK outcome \in Outcomes :
          Marks(v, "internal_repair_execution", outcome,
                Starts(rows, "final_closure", {"not_started"}, "pending"))
    BY DEF UpdateRepair
  <1>2. "final_closure" \in ApiPhases /\ "final_closure" \in Phases /\ outcome \in RowStatuses
    BY ApiFacts, PhaseFacts
  <1>3. PICK new : new = [v.process EXCEPT !.current = "final_closure"]
    OBVIOUS
  <1>4. /\ new \in Processes /\ new.current = "final_closure" /\ new.meta = v.process.meta
        /\ new.status = v.process.status /\ new.closed = v.process.closed
    BY <1>2, <1>3 DEF Known, Processes
  <1>5. PICK rs : rs = Starts(rows, "final_closure", {"not_started"}, "pending")
    OBVIOUS
  <1>6. Changes(ApiPhases, {}, rs)
    BY <1>2, <1>5, ApiFacts, StartsApi
  <1>7. On(v, "internal_repair_execution") /\ ApiWrite(v, new)
    BY <1>3 DEF UpdateRepair
  <1> QED BY <1>1, <1>2, <1>4, <1>5, <1>6, <1>7, ApiFacts, ApiMarksGood DEF Over

LEMMA CloseApiGood ==
  ASSUME IndInv, Fits, NEW v, Known(v), CloseApi(v)
  PROVE  Good
  <1>1. PICK result \in {"completed", "completed_with_pending_items"} :
          /\ ApiWrite(v, [v.process EXCEPT !.status = result, !.current = "final_closure",
                                           !.closed = TRUE])
          /\ Marks(v, "final_closure", result, rows)
    BY DEF CloseApi
  <1>2. /\ "final_closure" \in ApiPhases /\ "final_closure" \in Phases
        /\ result \in RowStatuses /\ rows \in RowSets /\ result \in Over /\ result # "closed"
    BY ApiFacts, PhaseFacts DEF IndInv, Shapes, Over
  <1>3. PICK new : new = [v.process EXCEPT !.status = result, !.current = "final_closure",
                                           !.closed = TRUE]
    OBVIOUS
  <1>4. /\ new \in Processes /\ new.current = "final_closure" /\ new.meta = v.process.meta
        /\ new.status = result /\ new.closed = TRUE
    BY <1>2, <1>3 DEF Known, Processes, ProcessStatuses
  <1>5. Changes(ApiPhases, {}, rows)
    BY <1>2, ChangesNothing
  <1>6. On(v, "final_closure") /\ ApiWrite(v, new)
    BY <1>1, <1>3 DEF CloseApi
  <1> QED BY <1>1, <1>2, <1>4, <1>5, <1>6, ApiFacts, ApiMarksGood

LEMMA AddServiceGood ==
  ASSUME IndInv, Fits, NEW v, Known(v), AddService(v)
  PROVE  Good
  <1>1. PICK new : new = [v.process EXCEPT !.status = "open"]
    OBVIOUS
  <1>2. /\ new \in Processes /\ new.current = v.process.current /\ new.meta = v.process.meta
        /\ new.status = "open" /\ new.closed = v.process.closed /\ ~v.process.closed
        /\ Write(v, new, {}) /\ rows' = rows /\ late' = late /\ CompletesNone
    BY <1>1 DEF Known, Processes, ProcessStatuses, AddService
  <1>3. ASSUME Ended(v.process) PROVE new.status # "closed" /\ Ended(new)
    BY <1>2, <1>3 DEF Ended, Over
  <1> QED BY <1>2, <1>3, StatusGood

(* A request that leaves the process, its rows and its phases as they are. *)
LEMMA UntouchedGood ==
  ASSUME IndInv, Fits,
         UNCHANGED <<process, rows, late, evidence, bypassed, stale, strayed>>
  PROVE  Good
  <1>2. /\ Grows /\ Shapes' /\ (\A proc : Placed(proc)' <=> Placed(proc))
    BY DEF Fits, Grows, IndInv, Shapes, Placed
  <1>3. /\ RowsMade' /\ EntryUnmade' /\ Placed(process)'
    BY <1>2 DEF Fits, IndInv, RowsMade, EntryUnmade, Placed
  <1>4. Evidence'
    <2>1. Changes({}, {}, rows') /\ rows \in RowSets /\ bypassed \subseteq Phases
      BY ChangesNothing DEF IndInv, Shapes
    <2>2. CompletesOnly({}) /\ UNCHANGED photoVars
      BY DEF CompletesOnly, CompletesNone, Fits
    <2> QED BY <2>1, <2>2, EvidenceKept DEF IndInv
  <1>5. AddedOnce'
    BY DEF Fits, IndInv, AddedOnce
  <1>6. InOrder'
    BY DEF Fits, IndInv, InOrder, Reached, Steps, Ended
  <1> QED BY <1>2, <1>3, <1>4, <1>5, <1>6 DEF Good, Base

LEMMA ApiFits ==
  ASSUME IndInv, NEW v, Known(v), ApiRequest(v), template' = template, UNCHANGED photoVars
  PROVE  Fits
  <1>1. strayed \in BOOLEAN /\ late \subseteq Optional /\ reports \in Seq(Reports)
    BY DEF IndInv, Shapes
  <1>2. /\ strayed' = strayed \/ strayed' = (strayed \/ v.process.status \in Over)
        /\ late' = late
    BY DEF ApiRequest, ConfirmReception, ConfirmHistoryCheck, AddTechnicalReport,
       ValidateTechnicalReport, VoidTechnicalReport, Inspect, ConfirmDecision, UpdateBudget,
       UpdateRepair, AddService, CloseApi, On, ApiWrite
  <1>3. reports' \in Seq(Reports)
    <2>1. CASE reports' = reports
      BY <1>1, <2>1
    <2>2. CASE AddTechnicalReport(v)
      <3>1. reports' = Append(reports, [live |-> TRUE, complete |-> FALSE])
        BY <2>2 DEF AddTechnicalReport
      <3>2. [live |-> TRUE, complete |-> FALSE] \in Reports
        BY DEF Reports
      <3> QED BY <1>1, <3>1, <3>2
    <2>3. ASSUME NEW i \in DOMAIN reports, ValidateTechnicalReport(v, i)
          PROVE  reports' \in Seq(Reports)
      <3>1. PICK complete \in BOOLEAN :
              reports' = [reports EXCEPT ![i] = [live |-> TRUE, complete |-> complete]]
        BY <2>3 DEF ValidateTechnicalReport
      <3>2. [live |-> TRUE, complete |-> complete] \in Reports
        BY DEF Reports
      <3> QED BY <1>1, <2>3, <3>1, <3>2
    <2>4. ASSUME NEW i \in DOMAIN reports, VoidTechnicalReport(v, i)
          PROVE  reports' \in Seq(Reports)
      <3>1. reports' = [reports EXCEPT ![i].live = FALSE]
        BY <2>4 DEF VoidTechnicalReport
      <3>2. [reports[i] EXCEPT !.live = FALSE] \in Reports
        <4>1. reports[i] \in Reports
          BY <1>1
        <4> QED BY <4>1 DEF Reports
      <3>3. reports' = [reports EXCEPT ![i] = [reports[i] EXCEPT !.live = FALSE]]
        BY <1>1, <2>4, <3>1
      <3> QED BY <1>1, <2>4, <3>2, <3>3
    <2> QED BY <2>1, <2>2, <2>3, <2>4 DEF ApiRequest, ConfirmReception, ConfirmHistoryCheck,
       Inspect, ConfirmDecision, UpdateBudget, UpdateRepair, AddService, CloseApi
  <1> QED BY <1>1, <1>2, <1>3 DEF Fits

LEMMA ApiRequestGood ==
  ASSUME IndInv, NEW v, Known(v), ApiRequest(v), template' = template, UNCHANGED photoVars
  PROVE  Good
  <1>1. Fits
    BY ApiFits
  <1>2. ASSUME NEW i \in DOMAIN reports,
               ValidateTechnicalReport(v, i) \/ VoidTechnicalReport(v, i)
        PROVE  Good
    BY <1>1, <1>2, UntouchedGood DEF ValidateTechnicalReport, VoidTechnicalReport, CompletesNone
  <1> QED BY <1>1, <1>2, ConfirmReceptionGood, ConfirmHistoryCheckGood, AddTechnicalReportGood,
             InspectGood, ConfirmDecisionGood, UpdateBudgetGood, UpdateRepairGood,
             AddServiceGood, CloseApiGood DEF ApiRequest

-----------------------------------------------------------------------------
(* The captures, request by request.                                       *)

(* A request on one capture leaves the others as they are.                 *)
OnlyCapture(s) ==
  /\ captures' \in Captures /\ shots' \in Seq(ShotRows)
  /\ Len(captures') = Len(captures) /\ Len(shots') = Len(shots)
  /\ hasty' \in BOOLEAN
  /\ hasty => hasty'
  /\ \A t \in DOMAIN captures \ {s} : captures'[t] = captures[t] /\ shots'[t] = shots[t]

(* An approved capture holds approved photographs.                         *)
AllApproved(s) ==
  captures[s].status = "approved" => \A p \in ActiveItems(s) : shots[s][p] = "approved"

LEMMA CaptureKept ==
  ASSUME PhotoShapes, ApprovedIsReviewed, Evidence, NEW s, s \in DOMAIN captures, OnlyCapture(s),
         ~hasty' => AllApproved(s)' /\ (Stands(s) => Stands(s)'),
         UNCHANGED <<rows, evidence, bypassed>>
  PROVE  PhotoShapes' /\ ApprovedIsReviewed' /\ Evidence'
  <1>1. DOMAIN captures' = DOMAIN captures
    BY DEF OnlyCapture, PhotoShapes, Captures
  <1>2. PhotoShapes'
    BY DEF OnlyCapture, PhotoShapes
  <1>3. ASSUME NEW t \in DOMAIN captures, t # s
        PROVE  (AllApproved(t) => AllApproved(t)') /\ (Stands(t) => Stands(t)')
    BY <1>3 DEF OnlyCapture, AllApproved, Stands, ActiveItems
  <1>4. ASSUME ~hasty', NEW t \in DOMAIN captures PROVE AllApproved(t)'
    <2>1. AllApproved(t)
      BY <1>4 DEF OnlyCapture, ApprovedIsReviewed, AllApproved
    <2> QED BY <1>3, <1>4, <2>1
  <1>5. ApprovedIsReviewed'
    BY <1>1, <1>4 DEF ApprovedIsReviewed, AllApproved
  <1>6. ASSUME ~hasty', NEW p \in Phases \ bypassed, rows[p] = "completed", NEW t \in evidence[p]
        PROVE  Stands(t)'
    <2>1. t \in DOMAIN captures /\ Stands(t)
      BY <1>6 DEF Evidence, OnlyCapture
    <2> QED BY <1>3, <1>6, <2>1
  <1>7. Evidence'
    BY <1>1, <1>6 DEF Evidence
  <1> QED BY <1>2, <1>5, <1>7

LEMMA BecomesFacts ==
  ASSUME captures \in Captures, NEW v, NEW s, s \in DOMAIN captures,
         NEW status, status \in CaptureStatuses, Becomes(v, s, status)
  PROVE  /\ captures' \in Captures /\ Len(captures') = Len(captures)
         /\ \A t \in DOMAIN captures \ {s} : captures'[t] = captures[t]
         /\ captures'[s].config = captures[s].config
         /\ v.captures[s].status = captures[s].status => captures'[s].status = status
  <1>1. captures \in Seq(CaptureRows) /\ captures[s] \in CaptureRows
    BY DEF Captures
  <1>2. CASE v.captures[s].status = status
    BY <1>2 DEF Becomes
  <1>3. CASE v.captures[s].status # status
    <2>1. PICK row : row = [captures[s] EXCEPT !.status = status]
      OBVIOUS
    <2>2. row \in CaptureRows /\ row.config = captures[s].config /\ row.status = status
      BY <1>1, <2>1 DEF CaptureRows
    <2>3. captures' = [captures EXCEPT ![s] = row]
      BY <1>1, <1>3, <2>1 DEF Becomes
    <2> QED BY <1>1, <2>2, <2>3 DEF Captures
  <1> QED BY <1>2, <1>3

(* The photographs of one capture.                                         *)
LEMMA ShotsFacts ==
  ASSUME shots \in Seq(ShotRows), NEW s, s \in DOMAIN shots,
         NEW row, row \in ShotRows, shots' = [shots EXCEPT ![s] = row]
  PROVE  /\ shots' \in Seq(ShotRows) /\ Len(shots') = Len(shots) /\ shots'[s] = row
         /\ \A t \in DOMAIN shots \ {s} : shots'[t] = shots[t]
  OBVIOUS

LEMMA MarkedFacts ==
  ASSUME shots \in Seq(ShotRows), NEW s, s \in DOMAIN shots,
         NEW status, status \in CaptureStatuses, Marked(s, status)
  PROVE  /\ shots' \in Seq(ShotRows) /\ Len(shots') = Len(shots)
         /\ \A t \in DOMAIN shots \ {s} : shots'[t] = shots[t]
         /\ \A p \in ActiveItems(s)' : shots'[s][p] = status
  <1>1. PICK row : row = [p \in Photos |-> IF p \in ActiveItems(s) THEN status ELSE shots[s][p]]
    OBVIOUS
  <1>2. shots[s] \in ShotRows
    OBVIOUS
  <1>3. row \in ShotRows
    BY <1>1, <1>2 DEF ShotRows, ShotStatuses
  <1>4. shots' = [shots EXCEPT ![s] = row]
    BY <1>1 DEF Marked
  <1>5. shots'[s] = row
    BY <1>3, <1>4, ShotsFacts
  <1>6. \A p \in Photos : row[p] \notin {"none", "removed"} => row[p] = status
    BY <1>1 DEF ActiveItems
  <1> QED BY <1>3, <1>4, <1>5, <1>6, ShotsFacts DEF ActiveItems

(* Captures that are opened have no photographs, and stand behind nothing. *)
LEMMA OpenedKept ==
  ASSUME PhotoShapes, ApprovedIsReviewed, Evidence, hasty' \in BOOLEAN, hasty => hasty',
         NEW capture, capture \in CaptureRows, capture.status = "pending", Opened(capture),
         UNCHANGED <<rows, evidence, bypassed>>
  PROVE  PhotoShapes' /\ ApprovedIsReviewed' /\ Evidence'
  <1>1. PICK row : row = [p \in Photos |-> "none"]
    OBVIOUS
  <1>2. row \in ShotRows
    BY <1>1 DEF ShotRows, ShotStatuses
  <1>3. captures' = Append(captures, capture) /\ shots' = Append(shots, row)
    BY <1>1 DEF Opened
  <1>4. /\ captures \in Seq(CaptureRows) /\ shots \in Seq(ShotRows)
        /\ Len(shots) = Len(captures) /\ Len(captures) \in Nat
    BY DEF PhotoShapes, Captures
  <1>5. /\ captures' \in Seq(CaptureRows) /\ Len(captures') = Len(captures) + 1
        /\ \A t \in 1 .. Len(captures) : captures'[t] = captures[t]
        /\ captures'[Len(captures) + 1] = capture
        /\ DOMAIN captures = 1 .. Len(captures) /\ DOMAIN captures' = 1 .. Len(captures) + 1
    BY <1>3, <1>4
  <1>6. /\ shots' \in Seq(ShotRows) /\ Len(shots') = Len(shots) + 1
        /\ \A t \in 1 .. Len(captures) : shots'[t] = shots[t]
    BY <1>2, <1>3, <1>4
  <1>7. PhotoShapes'
    BY <1>4, <1>5, <1>6 DEF PhotoShapes, Captures
  <1>8. ASSUME NEW t \in DOMAIN captures
        PROVE  (AllApproved(t) => AllApproved(t)') /\ (Stands(t) => Stands(t)')
    BY <1>5, <1>6 DEF AllApproved, Stands, ActiveItems
  <1>9. ApprovedIsReviewed'
    <2>1. ASSUME ~hasty', NEW t \in DOMAIN captures' PROVE AllApproved(t)'
      <3>1. CASE t \in DOMAIN captures
        <4>1. AllApproved(t)
          BY <2>1, <3>1 DEF ApprovedIsReviewed, AllApproved
        <4> QED BY <1>8, <3>1, <4>1
      <3>2. CASE t \notin DOMAIN captures
        <4>1. t = Len(captures) + 1
          BY <1>4, <1>5, <3>2
        <4> QED BY <1>5, <4>1 DEF AllApproved
      <3> QED BY <3>1, <3>2
    <2> QED BY <2>1 DEF ApprovedIsReviewed, AllApproved
  <1>10. Evidence'
    <2>1. ASSUME ~hasty', NEW p \in Phases \ bypassed, rows[p] = "completed", NEW t \in evidence[p]
          PROVE  Stands(t)'
      <3>1. t \in DOMAIN captures /\ Stands(t)
        BY <2>1 DEF Evidence
      <3> QED BY <1>8, <3>1
    <2>2. DOMAIN captures \subseteq DOMAIN captures'
      BY <1>4, <1>5
    <2> QED BY <2>1, <2>2 DEF Evidence
  <1> QED BY <1>7, <1>9, <1>10

LEMMA StorePhotoKept ==
  ASSUME PhotoShapes, ApprovedIsReviewed, Evidence, NEW v, NEW s, s \in DOMAIN captures,
         NEW p \in Photos, StorePhoto(v, s, p), UNCHANGED <<rows, evidence, bypassed>>
  PROVE  PhotoShapes' /\ ApprovedIsReviewed' /\ Evidence'
  <1>1. /\ captures \in Captures /\ shots \in Seq(ShotRows) /\ s \in DOMAIN shots
        /\ hasty \in BOOLEAN
    BY DEF PhotoShapes, Captures
  <1>2. /\ hasty' = (hasty \/ v.captures[s].status # captures[s].status)
        /\ v.captures[s].status \in Changeable /\ Becomes(v, s, "captured")
        /\ shots' = [shots EXCEPT ![s][p] = "captured"]
    BY DEF StorePhoto, Acts
  <1>3. PICK row : row = [shots[s] EXCEPT ![p] = "captured"]
    OBVIOUS
  <1>4. row \in ShotRows /\ shots' = [shots EXCEPT ![s] = row]
    <2>1. shots[s] \in ShotRows
      BY <1>1
    <2> QED BY <1>1, <1>2, <1>3, <2>1 DEF ShotRows, ShotStatuses, CaptureStatuses
  <1>5. /\ captures' \in Captures /\ Len(captures') = Len(captures)
        /\ \A t \in DOMAIN captures \ {s} : captures'[t] = captures[t]
        /\ captures'[s].config = captures[s].config
        /\ v.captures[s].status = captures[s].status => captures'[s].status = "captured"
    BY <1>1, <1>2, BecomesFacts DEF CaptureStatuses
  <1>6. OnlyCapture(s)
    <2>1. DOMAIN captures = DOMAIN shots
      BY DEF PhotoShapes, Captures
    <2> QED BY <1>1, <1>2, <1>4, <1>5, <2>1, ShotsFacts DEF OnlyCapture
  <1>7. ASSUME ~hasty' PROVE AllApproved(s)' /\ (Stands(s) => Stands(s)')
    BY <1>2, <1>5, <1>7 DEF AllApproved, Stands, Changeable
  <1> QED BY <1>6, <1>7, CaptureKept

LEMMA RemovePhotoKept ==
  ASSUME PhotoShapes, ApprovedIsReviewed, Evidence, NEW v, NEW s, s \in DOMAIN captures,
         NEW p \in Photos, RemovePhoto(v, s, p), UNCHANGED <<rows, evidence, bypassed>>
  PROVE  PhotoShapes' /\ ApprovedIsReviewed' /\ Evidence'
  <1>1. /\ captures \in Captures /\ shots \in Seq(ShotRows) /\ s \in DOMAIN shots
        /\ hasty \in BOOLEAN /\ DOMAIN captures = DOMAIN shots
    BY DEF PhotoShapes, Captures
  <1>2. /\ hasty' = (hasty \/ v.captures[s].status # captures[s].status)
        /\ captures' = captures /\ shots' = [shots EXCEPT ![s][p] = "removed"]
    BY DEF RemovePhoto, Acts
  <1>3. PICK row : row = [shots[s] EXCEPT ![p] = "removed"]
    OBVIOUS
  <1>4. shots[s] \in ShotRows
    BY <1>1
  <1>5. row \in ShotRows /\ shots' = [shots EXCEPT ![s] = row]
    BY <1>1, <1>2, <1>3, <1>4 DEF ShotRows, ShotStatuses
  <1>6. OnlyCapture(s) /\ shots'[s] = row
    BY <1>1, <1>2, <1>5, ShotsFacts DEF OnlyCapture
  <1>7. ASSUME ~hasty' PROVE AllApproved(s)' /\ (Stands(s) => Stands(s)')
    <2>1. AllApproved(s)
      BY <1>2, <1>7 DEF ApprovedIsReviewed, AllApproved
    <2>2. \A q \in ActiveItems(s)' : q \in ActiveItems(s) /\ shots'[s][q] = shots[s][q]
      BY <1>3, <1>4, <1>6 DEF ActiveItems, ShotRows
    <2> QED BY <1>2, <2>1, <2>2 DEF AllApproved, Stands
  <1> QED BY <1>6, <1>7, CaptureKept

(* Submitted, approved or rejected, with every photograph it holds.        *)
LEMMA MarkedKept ==
  ASSUME PhotoShapes, ApprovedIsReviewed, Evidence, NEW v, NEW s, s \in DOMAIN captures,
         Acts(v, s), NEW status, status \in {"submitted", "approved", "rejected"},
         v.captures[s].status # "approved", Becomes(v, s, status), Marked(s, status),
         UNCHANGED <<rows, evidence, bypassed>>
  PROVE  PhotoShapes' /\ ApprovedIsReviewed' /\ Evidence'
  <1>1. /\ captures \in Captures /\ shots \in Seq(ShotRows) /\ s \in DOMAIN shots
        /\ hasty \in BOOLEAN /\ DOMAIN captures = DOMAIN shots /\ status \in CaptureStatuses
    BY DEF PhotoShapes, Captures, CaptureStatuses
  <1>2. hasty' = (hasty \/ v.captures[s].status # captures[s].status)
    BY DEF Acts
  <1>3. /\ captures' \in Captures /\ Len(captures') = Len(captures)
        /\ \A t \in DOMAIN captures \ {s} : captures'[t] = captures[t]
        /\ captures'[s].config = captures[s].config
        /\ v.captures[s].status = captures[s].status => captures'[s].status = status
    BY <1>1, BecomesFacts
  <1>4. /\ shots' \in Seq(ShotRows) /\ Len(shots') = Len(shots)
        /\ \A t \in DOMAIN shots \ {s} : shots'[t] = shots[t]
        /\ \A p \in ActiveItems(s)' : shots'[s][p] = status
    BY <1>1, MarkedFacts
  <1>5. OnlyCapture(s)
    BY <1>1, <1>2, <1>3, <1>4 DEF OnlyCapture
  <1>6. ASSUME ~hasty' PROVE AllApproved(s)' /\ (Stands(s) => Stands(s)')
    <2>1. captures'[s].status = status /\ captures[s].status # "approved"
      BY <1>2, <1>3, <1>6
    <2> QED BY <1>3, <1>4, <2>1 DEF AllApproved, Stands
  <1> QED BY <1>5, <1>6, CaptureKept

LEMMA PhotoRequestKept ==
  ASSUME PhotoShapes, ApprovedIsReviewed, Evidence, NEW v, PhotoRequest(v),
         UNCHANGED <<rows, evidence, bypassed>>
  PROVE  PhotoShapes' /\ ApprovedIsReviewed' /\ Evidence'
  <1>1. PICK s \in DOMAIN captures :
          \/ \E p \in Photos : StorePhoto(v, s, p) \/ RemovePhoto(v, s, p)
          \/ SubmitSession(v, s) \/ ReviewSession(v, s) \/ RepeatSession(v, s)
    BY DEF PhotoRequest
  <1>2. ASSUME NEW p \in Photos, StorePhoto(v, s, p) \/ RemovePhoto(v, s, p)
        PROVE  PhotoShapes' /\ ApprovedIsReviewed' /\ Evidence'
    BY <1>2, StorePhotoKept, RemovePhotoKept
  <1>3. CASE SubmitSession(v, s)
    BY <1>3, MarkedKept DEF SubmitSession, Changeable
  <1>4. CASE ReviewSession(v, s)
    BY <1>4, MarkedKept DEF ReviewSession, Reviewable
  <1>5. CASE RepeatSession(v, s)
    <2>1. PICK capture : capture = [captures[s] EXCEPT !.status = "pending"]
      OBVIOUS
    <2>2. captures[s] \in CaptureRows
      BY DEF PhotoShapes, Captures
    <2>3. capture \in CaptureRows /\ capture.status = "pending"
      BY <2>1, <2>2 DEF CaptureRows, CaptureStatuses
    <2>4. Opened(capture) /\ hasty' \in BOOLEAN /\ (hasty => hasty')
      BY <1>5, <2>1 DEF RepeatSession, Acts, PhotoShapes
    <2> QED BY <2>3, <2>4, OpenedKept
  <1> QED BY <1>1, <1>2, <1>3, <1>4, <1>5

LEMMA NewSessionKept ==
  ASSUME PhotoShapes, ApprovedIsReviewed, Evidence, NewSession,
         UNCHANGED <<rows, evidence, bypassed>>
  PROVE  PhotoShapes' /\ ApprovedIsReviewed' /\ Evidence'
  <1>1. PICK p \in Places, config \in Configs :
          Opened([at |-> p, config |-> config, status |-> "pending"]) /\ hasty' = hasty
    BY DEF NewSession, CreateSession
  <1>2. PICK capture : capture = [at |-> p, config |-> config, status |-> "pending"]
    OBVIOUS
  <1>3. capture \in CaptureRows /\ capture.status = "pending"
    BY <1>2 DEF CaptureRows, CaptureStatuses
  <1>4. Opened(capture) /\ hasty' \in BOOLEAN /\ (hasty => hasty')
    BY <1>1, <1>2 DEF PhotoShapes
  <1> QED BY <1>3, <1>4, OpenedKept

-----------------------------------------------------------------------------
(* The surfaces together.                                                  *)

(* The invariant but for what the open requests have loaded.               *)
Settled ==
  /\ PhotoShapes /\ Shapes
  /\ RowsMade /\ Placed(process) /\ EntryUnmade
  /\ ApprovedIsReviewed /\ Evidence
  /\ AddedOnce /\ InOrder

LEMMA ServeKeeps ==
  ASSUME IndInv, NEW v, Known(v), Serve(v)
  PROVE  Settled' /\ Grows
  <1>1. template' = template
    BY DEF Serve
  <1>2. CASE (CleanRequest(v) \/ ApiRequest(v)) /\ UNCHANGED photoVars
    <2>1. Good
      BY <1>1, <1>2, CleanRequestGood, ApiRequestGood
    <2>2. PhotoShapes' /\ ApprovedIsReviewed'
      BY <1>2 DEF photoVars, IndInv, PhotoShapes, ApprovedIsReviewed, ActiveItems
    <2> QED BY <2>1, <2>2 DEF Good, Base, Settled
  <1>3. CASE (PhotoRequest(v) \/ NewSession) /\ UntouchedProcess
    <2>1. PhotoShapes' /\ ApprovedIsReviewed' /\ Evidence'
      BY <1>3, PhotoRequestKept, NewSessionKept DEF UntouchedProcess, IndInv
    <2>2. Grows /\ Shapes' /\ (\A proc : Placed(proc)' <=> Placed(proc))
      BY <1>1, <1>3 DEF UntouchedProcess, Grows, IndInv, Shapes, Placed
    <2>3. RowsMade' /\ EntryUnmade' /\ Placed(process)'
      BY <1>1, <1>3 DEF UntouchedProcess, IndInv, RowsMade, EntryUnmade, Placed
    <2>4. AddedOnce'
      BY <1>1, <1>3 DEF UntouchedProcess, IndInv, AddedOnce
    <2>5. InOrder'
      BY <1>1, <1>3 DEF UntouchedProcess, IndInv, InOrder, Reached, Steps, Ended
    <2> QED BY <2>1, <2>2, <2>3, <2>4, <2>5 DEF Settled
  <1> QED BY <1>2, <1>3 DEF Serve

LEMMA SeenKnown ==
  ASSUME IndInv
  PROVE  Known(Seen)
  BY DEF IndInv, Known, Seen, Shapes, PhotoShapes

LEMMA NothingMoves ==
  ASSUME IndInv,
         UNCHANGED <<photoVars, template, process, rows, late, evidence, bypassed, stale, strayed,
                     reports>>
  PROVE  Settled' /\ Grows
  <1>1. Fits
    BY DEF Fits, IndInv, Shapes
  <1>2. Good
    BY <1>1, UntouchedGood
  <1>3. PhotoShapes' /\ ApprovedIsReviewed'
    BY DEF photoVars, IndInv, PhotoShapes, ApprovedIsReviewed, ActiveItems
  <1> QED BY <1>2, <1>3 DEF Good, Base, Settled

(* A request that loads the process, or is done with what it loaded, and   *)
(* the others that have loaded theirs.                                     *)
LEMMA ViewsStay ==
  ASSUME IndInv, Grows, NEW r \in Slow, NEW v, view' = [view EXCEPT ![r] = v],
         v = None \/ Known(v)
  PROVE  ViewsKnown'
  <1>1. strayed \in BOOLEAN /\ DOMAIN view = Slow
    BY DEF IndInv, Shapes, ViewsKnown
  <1>2. ASSUME NEW u \in Slow PROVE (view[u] = None \/ Known(view[u]))'
    <2>1. PICK w : w = view'[u]
      OBVIOUS
    <2>2. w = None \/ Known(w)
      BY <1>1, <2>1 DEF IndInv, ViewsKnown
    <2>3. w = None \/ Known(w)'
      BY <1>1, <2>2, KnownStays
    <2> QED BY <2>1, <2>3 DEF Known, Placed
  <1>3. DOMAIN view' = Slow
    BY <1>1
  <1> QED BY <1>2, <1>3 DEF ViewsKnown

LEMMA StepInv ==
  ASSUME IndInv, [Next]_vars
  PROVE  IndInv'
  <1>1. strayed \in BOOLEAN
    BY DEF IndInv, Shapes
  <1>2. CASE Prompt
    <2>1. PICK v : v = Seen
      OBVIOUS
    <2>2. Known(v) /\ Serve(v) /\ view' = view
      BY <1>2, <2>1, SeenKnown DEF Prompt
    <2>3. Settled' /\ Grows
      BY <2>2, ServeKeeps
    <2>4. ASSUME NEW u \in Slow PROVE (view[u] = None \/ Known(view[u]))'
      <3>1. PICK w : w = view'[u]
        OBVIOUS
      <3>2. w = None \/ Known(w)'
        BY <1>1, <2>2, <2>3, <3>1, KnownStays DEF IndInv, ViewsKnown
      <3> QED BY <3>1, <3>2 DEF Known, Placed
    <2>5. ViewsKnown'
      BY <2>2, <2>4 DEF ViewsKnown, IndInv
    <2> QED BY <2>3, <2>5 DEF Settled, IndInv
  <1>3. ASSUME NEW r \in Slow, Overtaken(r) PROVE IndInv'
    <2>1. PICK v : v = view[r]
      OBVIOUS
    <2>2. Known(v) /\ Serve(v) /\ view' = [view EXCEPT ![r] = None]
      BY <1>3, <2>1 DEF Overtaken, IndInv, ViewsKnown
    <2>3. Settled' /\ Grows
      BY <2>2, ServeKeeps
    <2>4. ViewsKnown'
      BY <2>2, <2>3, ViewsStay
    <2> QED BY <2>3, <2>4 DEF Settled, IndInv
  <1>4. ASSUME NEW r \in Slow, Load(r) PROVE IndInv'
    <2>1. PICK v : v = Seen
      OBVIOUS
    <2>2. Known(v) /\ view' = [view EXCEPT ![r] = v]
      BY <1>4, <2>1, SeenKnown DEF Load
    <2>3. Settled' /\ Grows
      BY <1>4, NothingMoves DEF Load
    <2>4. ViewsKnown'
      BY <2>2, <2>3, ViewsStay
    <2> QED BY <2>3, <2>4 DEF Settled, IndInv
  <1>5. CASE UNCHANGED vars
    <2>1. Settled' /\ Grows
      BY <1>5, NothingMoves DEF vars, workshopVars
    <2>2. view' = view
      BY <1>5 DEF vars, workshopVars
    <2>3. ASSUME NEW u \in Slow PROVE (view[u] = None \/ Known(view[u]))'
      <3>1. PICK w : w = view'[u]
        OBVIOUS
      <3>2. w = None \/ Known(w)'
        BY <1>1, <2>1, <2>2, <3>1, KnownStays DEF IndInv, ViewsKnown
      <3> QED BY <3>1, <3>2 DEF Known, Placed
    <2>4. ViewsKnown'
      BY <2>2, <2>3 DEF ViewsKnown, IndInv
    <2> QED BY <2>1, <2>4 DEF Settled, IndInv
  <1> QED BY <1>2, <1>3, <1>4, <1>5 DEF Next

(* Every process begins in order, in its first phase.                      *)
LEMMA InitInv ==
  ASSUME Init
  PROVE  IndInv
  <1>1. /\ captures = <<>> /\ shots = <<>> /\ hasty = FALSE
        /\ reports = <<>> /\ view = [r \in Slow |-> None]
        /\ late = {} /\ evidence = [p \in Phases |-> {}] /\ bypassed = {}
        /\ stale = FALSE /\ strayed = FALSE
    BY DEF Init
  <1>2. PhotoShapes /\ ViewsKnown /\ Evidence /\ ApprovedIsReviewed
    <2>1. PhotoShapes
      <3>1. \A X : <<>> \in Seq(X)
        OBVIOUS
      <3>2. captures \in Captures /\ shots \in Seq(ShotRows)
        BY <1>1, <3>1 DEF Captures
      <3> QED BY <1>1, <3>2 DEF PhotoShapes
    <2>2. ViewsKnown
      BY <1>1 DEF ViewsKnown
    <2>3. Evidence
      BY <1>1 DEF Evidence
    <2>4. ApprovedIsReviewed
      BY <1>1 DEF ApprovedIsReviewed
    <2> QED BY <2>1, <2>2, <2>3, <2>4
  <1>3. PICK meta : meta = [added |-> <<>>, prior |-> None]
    OBVIOUS
  <1>4. meta \in Metas /\ meta.added = <<>> /\ meta.prior = None
    BY <1>3 DEF Metas
  <1>5. /\ reports \in Seq(Reports) /\ late \subseteq Optional /\ bypassed \subseteq Phases
        /\ stale \in BOOLEAN /\ strayed \in BOOLEAN
    <2>1. <<>> \in Seq(Reports)
      OBVIOUS
    <2>2. reports \in Seq(Reports)
      BY <1>1, <2>1
    <2> QED BY <1>1, <2>2
  <1>6. CASE /\ template \in Templates
             /\ process = [status |-> "open", current |-> "entrada", closed |-> FALSE, meta |-> meta]
             /\ rows = [p \in Phases |->
                  IF p = "entrada" THEN "pending_review"
                  ELSE IF \E i \in DOMAIN template : template[i] = p THEN "not_started" ELSE None]
    <2>1. /\ process.status = "open" /\ process.current = "entrada" /\ process.closed = FALSE
          /\ process.meta.added = <<>>
      BY <1>4, <1>6
    <2>2. "entrada" \in StepKeys /\ "entrada" \in Phases /\ None \notin RowStatuses
      BY PhaseFacts
    <2>3. process \in Processes
      BY <1>4, <1>6, <2>2 DEF Processes, ProcessStatuses
    <2>4. rows \in RowSets
      BY <1>6 DEF RowSets, RowStatuses
    <2>5. Shapes
      BY <1>5, <1>6, <2>3, <2>4 DEF Shapes
    <2>6. /\ template \in Seq(StepKeys) /\ Len(template) > 2 /\ template # <<>>
          /\ \A i \in DOMAIN template : template[i] \in StepKeys
      BY <1>6, WorkshopAssumption
    <2>7. \A i \in DOMAIN template : rows[template[i]] # None
      BY <1>6, <2>2, <2>6, PhaseFacts DEF RowStatuses
    <2>8. \A p \in ApiPhases : rows[p] = None
      BY <1>6, <2>2, <2>6, PhaseFacts
    <2>9. RowsMade /\ Placed(process) /\ EntryUnmade
      <3>1. rows[process.current] # None
        BY <1>6, <2>1, <2>2 DEF RowStatuses
      <3> QED BY <2>1, <2>6, <2>7, <2>8, <3>1 DEF RowsMade, Placed, EntryUnmade
    <2>10. AddedOnce
      BY <2>1 DEF AddedOnce
    <2>11. InOrder
      <3>1. Steps(process) = StepsOf(template, <<>>)
        BY <2>1, <2>6 DEF Steps, StepsOf
      <3>2. Fresh(template, <<>>) /\ <<>> \in Seq(StepKeys)
        BY DEF Fresh
      <3>3. /\ StepsOf(template, <<>>) \in Seq(StepKeys) /\ Distinct(StepsOf(template, <<>>))
        BY <1>6, <3>2, StepsFacts, StepsDistinct
      <3>4. /\ Len(template) \in Nat /\ Len(template) > 2
            /\ Len(StepsOf(template, <<>>)) = Len(template) + Len(<<>>)
            /\ \A i \in 1 .. Len(template) - 1 : StepsOf(template, <<>>)[i] = template[i]
        BY <1>6, <3>2, StepsFacts
      <3>5. template[1] = "entrada"
        BY <1>6, WorkshopAssumption
      <3>6. 1 \in 1 .. Len(StepsOf(template, <<>>)) /\ StepsOf(template, <<>>)[1] = "entrada"
        BY <3>4, <3>5
      <3>7. Place(Steps(process), "entrada") = 1 /\ IsStep(Steps(process), "entrada")
        BY <3>1, <3>3, <3>6, PlaceOf
      <3>8. Reached(process, "entrada")
        BY <3>7 DEF Reached
      <3>9. Ended(process)
        BY <1>4, <1>6, PhaseFacts DEF Ended, Over, ReadOnly, ProcessStatuses
      <3> QED BY <2>1, <2>6, <3>8, <3>9 DEF InOrder
    <2> QED BY <1>2, <2>5, <2>9, <2>10, <2>11 DEF IndInv
  <1>7. CASE /\ template = <<>>
             /\ \E status \in {"scheduled", "open"} :
                  process = [status |-> status, current |-> "administrative_reception",
                             closed |-> FALSE, meta |-> meta]
             /\ rows = [p \in Phases |->
                  IF p \notin ApiPhases THEN None
                  ELSE IF p = "administrative_reception" THEN "pending"
                  ELSE IF p = "budget_approval" THEN "pending_definition" ELSE "not_started"]
    <2>1. /\ process.status \in {"scheduled", "open"} /\ process.closed = FALSE
          /\ process.current = "administrative_reception" /\ process.meta.added = <<>>
      BY <1>4, <1>7
    <2>2. /\ "administrative_reception" \in ApiPhases /\ "administrative_reception" \in Phases
          /\ "administrative_reception" \notin StepKeys
          /\ "entrada" \in Phases /\ "entrada" \notin ApiPhases /\ None \notin RowStatuses
      BY PhaseFacts DEF ApiPhases
    <2>3. process \in Processes
      BY <1>4, <1>7, <2>2 DEF Processes, ProcessStatuses
    <2>4. rows \in RowSets
      BY <1>7 DEF RowSets, RowStatuses
    <2>5. Shapes
      BY <1>5, <1>7, <2>3, <2>4 DEF Shapes
    <2>6. \A p \in ApiPhases : rows[p] # None
      BY <1>7, <2>2, PhaseFacts DEF RowStatuses
    <2>7. rows["entrada"] = None
      BY <1>7, <2>2
    <2>8. RowsMade /\ Placed(process) /\ EntryUnmade
      BY <1>7, <2>1, <2>2, <2>6, <2>7 DEF RowsMade, Placed, EntryUnmade
    <2>9. AddedOnce /\ InOrder
      <3>1. Ended(process)
        BY <1>4, <1>7, PhaseFacts DEF Ended, Over, ReadOnly, ProcessStatuses
      <3> QED BY <1>7, <2>1, <2>2, <3>1 DEF AddedOnce, InOrder
    <2> QED BY <1>2, <2>5, <2>8, <2>9 DEF IndInv
  <1> QED BY <1>3, <1>6, <1>7 DEF Init

(* Every process keeps the invariant: requests of the clean pages, the API *)
(* and the captures, prompt or overtaken by any number of others.          *)
THEOREM Inductive == Spec => []IndInv
  <1>1. Init => IndInv
    BY InitInv
  <1>2. IndInv /\ [Next]_vars => IndInv'
    BY StepInv
  <1> QED BY <1>1, <1>2, PTL DEF Spec

(* Every column of a process, its rows, reports and captures keeps its     *)
(* type, and a process is in a phase without a row only when it was sent   *)
(* there from where it was not.                                            *)
THEOREM TypesPreserved == Spec => []TypeOK
  <1>1. IndInv => TypeOK
    <2> SUFFICES ASSUME IndInv PROVE TypeOK
      OBVIOUS
    <2>1. PhotoTypes
      <3>1. /\ captures \in Seq(CaptureRows) /\ shots \in Seq(ShotRows)
            /\ Len(shots) = Len(captures) /\ hasty \in BOOLEAN
        BY DEF IndInv, PhotoShapes, Captures
      <3>2. ASSUME NEW s \in DOMAIN captures
            PROVE  captures[s].status \in CaptureStatuses /\ captures[s].config \in Configs
        <4>1. captures[s] \in CaptureRows
          BY <3>1
        <4> QED BY <4>1 DEF CaptureRows
      <3>3. ASSUME NEW s \in DOMAIN shots, NEW p \in Photos
            PROVE  shots[s][p] \in CaptureStatuses \cup {"none", "removed"}
        <4>1. shots[s] \in ShotRows
          BY <3>1
        <4> QED BY <4>1 DEF ShotRows, ShotStatuses
      <3>4. DOMAIN shots = DOMAIN captures
        BY <3>1
      <3> QED BY <3>1, <3>2, <3>3, <3>4 DEF PhotoTypes
    <2>2. /\ process \in Processes /\ rows \in RowSets /\ late \subseteq Optional
          /\ bypassed \subseteq Phases
      BY DEF IndInv, Shapes
    <2>3. rows[process.current] = None => process.current \in StepKeys /\ strayed
      BY DEF IndInv, Placed
    <2>4. late \subseteq StepKeys
      BY <2>2, WorkshopAssumption
    <2> QED BY <2>1, <2>2, <2>3, <2>4 DEF TypeOK, Processes, RowSets
  <1> QED BY <1>1, Inductive, PTL

(* Behind every phase completed by advancing it or through the API stand   *)
(* the photographs it required then, whatever became of its captures since *)
(* (required_photo_blockers, store_photo, review_session).                 *)
THEOREM EvidenceStands == Spec => []EvidenceBehindPhases
  <1>1. IndInv => EvidenceBehindPhases
    BY DEF IndInv, Evidence, Stands, EvidenceBehindPhases
  <1> QED BY <1>1, Inductive, PTL

(* A process with a time of closure is over; one that is over without it   *)
(* was completed through the API, cancelled then and reopened, never       *)
(* closed or cancelled still; and one the clean pages closed has done all  *)
(* its phases (clean_workshop_phase_save, clean_workshop_reopen_process).  *)
THEOREM ClosedIsDone == Spec => []OutcomeAgrees
  <1>1. IndInv => OutcomeAgrees
    BY DEF IndInv, InOrder, Ended, OutcomeAgrees
  <1> QED BY <1>1, Inductive, PTL

=============================================================================
