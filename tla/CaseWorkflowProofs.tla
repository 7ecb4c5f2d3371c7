------------------------- MODULE CaseWorkflowProofs -------------------------
(***************************************************************************)
(* Proofs about CaseWorkflow, for any number of requests, cases, sales,    *)
(* versions, phases and users.                                             *)
(***************************************************************************)
EXTENDS CaseWorkflow, TLAPS

(* The row of a process is written when it is created, or by a request     *)
(* that holds its lock.                                                    *)
Creates(t, p) == p \in DOMAIN t.home
Holds(t, p) == ProcessLock(p) \in t.locks

(* What is known of the writes of an open request about processes: a new   *)
(* process starts active with its phases pending, and every other write    *)
(* was decided under the lock, by rows that have not changed since.        *)
SoundProcess(t) ==
  /\ \A p, q \in DOMAIN t.status : p = q
  /\ \A p \in DOMAIN t.home : p \in DOMAIN t.status /\ t.status[p] = "active"
  /\ \A p \in DOMAIN t.status :
       ~Creates(t, p) => Holds(t, p) /\ home[p] # None /\ MayEnd(p, t.status[p])
  /\ \A p \in DOMAIN t.revision : ~Creates(t, p) => p \in DOMAIN t.expected
  /\ \A p \in Processes : p \in DOMAIN t.expected =>
       /\ Holds(t, p) /\ home[p] # None
       /\ p \in DOMAIN t.revision
       /\ t.expected[p] = revision[p] /\ t.revision[p] = revision[p] + 1

(* And about phases and proposals: their process is live and locked, and   *)
(* the request that moves, delegates or accepts leaves its status alone.   *)
WorksOn(t, p) == Holds(t, p) /\ status[p] \in Live /\ p \notin DOMAIN t.status

Moved(t) == DOMAIN t.phase \cup DOMAIN t.phaseRevision \cup DOMAIN t.submitter
              \cup DOMAIN t.validator

SoundPhases(t) ==
  /\ \A x \in Moved(t) : ~Creates(t, x[1]) => WorksOn(t, x[1])
  /\ \A k \in DOMAIN t.executions : WorksOn(t, t.executions[k][1])
  /\ \A p \in DOMAIN t.accepted \cup DOMAIN t.acceptances : ~Creates(t, p) => WorksOn(t, p)

Sound(t) == SoundProcess(t) /\ SoundPhases(t)

(* One request at a time holds the row lock of a process.                  *)
LocksExclude ==
  \A v, w \in Workers, p \in Processes : Holds(tx[v], p) /\ Holds(tx[w], p) => v = w

(* A process has a case and a revision as soon as it has a status.         *)
ProcessesExist == \A p \in Processes : status[p] = "none" <=> home[p] = None

IndInv ==
  /\ TypeOK
  /\ LocksExclude
  /\ ProcessesExist
  /\ \A w \in Workers : Sound(tx[w])
  /\ EndedProcessIsSettled
  /\ OneLivePerSale

-----------------------------------------------------------------------------

LEMMA OverlayType ==
  ASSUME NEW D, NEW V, NEW W \in SUBSET V, NEW f \in [D -> V], NEW g, Partial(g, D, W)
  PROVE  Overlay(f, g) \in [D -> V]
  BY DEF Overlay, Partial

(* A request begins with well-typed and sound writes, having waited for    *)
(* the locks that it takes.                                                *)
Begins(w, t) ==
  /\ Begin(w, t) /\ TxOK(t) /\ Sound(t)
  /\ \A p \in Processes : Holds(t, p) => Free(w, ProcessLock(p))

(* Writes that move and delegate no phase.                                 *)
Plain(t) ==
  /\ t.submitter = <<>> /\ t.validator = <<>> /\ t.executions = <<>>
  /\ \A x \in DOMAIN t.phase : t.phase[x] = "pending"

(* A request begins to write what is sound.                                *)
LEMMA BeginKeeps ==
  ASSUME IndInv, NEW w \in Workers, NEW t, Begins(w, t)
  PROVE  IndInv'
  <1> USE DEF Begins
  <1>1. UNCHANGED rows /\ DOMAIN tx = Workers
    BY DEF Begin, IndInv, TypeOK
  <1>2. /\ DOMAIN tx' = Workers /\ tx'[w] = t
        /\ \A v \in Workers : v # w => tx'[v] = tx[v]
    BY <1>1 DEF Begin
  <1>3. \A v \in Workers : TxOK(tx'[v])
    BY <1>2 DEF IndInv, TypeOK
  <1>4. TypeOK'
    <2>1. loaded' \in [Workers -> PhaseReads \cup CaseReads \cup {None}]
      BY DEF Begin, IndInv, TypeOK
    <2>2. \A v \in Workers : TxOK(tx[v])'
      BY <1>3 DEF TxOK
    <2> QED
      BY <1>1, <1>2, <2>1, <2>2 DEF IndInv, TypeOK, rows
  <1>5. LocksExclude'
    <2> SUFFICES ASSUME NEW u \in Workers, NEW v \in Workers, NEW p \in Processes,
                        Holds(tx'[u], p), Holds(tx'[v], p)
                 PROVE  u = v
      BY DEF LocksExclude, Holds
    <2>1. ASSUME NEW x \in Workers, x # w, Holds(t, p) PROVE ~Holds(tx[x], p)
      BY <2>1 DEF Free, Holds
    <2> QED
      BY <1>2, <2>1 DEF IndInv, LocksExclude
  <1>6. \A v \in Workers : Sound(tx'[v])
    BY <1>2 DEF IndInv
  <1>7. (\A v \in Workers : Sound(tx[v]))'
    BY <1>1, <1>6
       DEF Sound, SoundProcess, SoundPhases, Creates, Holds, Moved, WorksOn, MayEnd, Delegated,
           rows
  <1> QED
    BY <1>1, <1>4, <1>5, <1>7
       DEF IndInv, rows, ProcessesExist, EndedProcessIsSettled, OneLivePerSale

-----------------------------------------------------------------------------
(* The revisions that rows can have.                                       *)

LEMMA RevisionsAreNumbers ==
  Revisions \subseteq Nat \ {0} /\ PhaseRevisions \subseteq Nat \ {0}
  BY ParametersAssumption DEF Revisions, PhaseRevisions

LEMMA NextRevisions ==
  ASSUME NEW v \in Versions, NEW n \in Nat
  PROVE  /\ n < MaxRevision[v] => n + 1 \in Revisions
         /\ n < MaxPhaseRevision[v] => n + 1 \in PhaseRevisions
  <1>1. MaxRevision[v] \in Nat /\ MaxPhaseRevision[v] \in Nat
    BY ParametersAssumption
  <1>2. ASSUME n < MaxRevision[v] PROVE n + 1 \in 1 .. MaxRevision[v]
    BY <1>1, <1>2
  <1>3. ASSUME n < MaxPhaseRevision[v] PROVE n + 1 \in 1 .. MaxPhaseRevision[v]
    BY <1>1, <1>3
  <1> QED
    BY <1>2, <1>3 DEF Revisions, PhaseRevisions

LEMMA EarlierRevisions ==
  ASSUME NEW r, NEW e \in 1 .. r
  PROVE  /\ r \in Revisions => e \in Revisions
         /\ r \in PhaseRevisions => e \in PhaseRevisions
  <1>1. ASSUME r \in Revisions PROVE e \in Revisions
    <2>1. PICK v \in Versions : r \in 1 .. MaxRevision[v]
      BY <1>1 DEF Revisions
    <2>2. e \in 1 .. MaxRevision[v]
      BY <2>1, ParametersAssumption
    <2> QED
      BY <2>2 DEF Revisions
  <1>2. ASSUME r \in PhaseRevisions PROVE e \in PhaseRevisions
    <2>1. PICK v \in Versions : r \in 1 .. MaxPhaseRevision[v]
      BY <1>2 DEF PhaseRevisions
    <2>2. e \in 1 .. MaxPhaseRevision[v]
      BY <2>1, ParametersAssumption
    <2> QED
      BY <2>2 DEF PhaseRevisions
  <1> QED
    BY <1>1, <1>2

-----------------------------------------------------------------------------
(* Every request keeps the invariant.                                      *)

(* Loading changes no row and no write.                                    *)
LEMMA LoadKeeps ==
  ASSUME IndInv, NEW w \in Workers, NEW row \in PhaseReads \cup CaseReads, Load(w, row)
  PROVE  IndInv'
  <1>1. UNCHANGED <<rows, tx>>
    BY DEF Load
  <1>2. TypeOK'
    <2>1. loaded' \in [Workers -> PhaseReads \cup CaseReads \cup {None}]
      BY DEF Load, IndInv, TypeOK
    <2> QED
      BY <1>1, <2>1 DEF IndInv, TypeOK, TxOK, Partial, rows
  <1>3. (\A v \in Workers : Sound(tx[v]))'
    BY <1>1 DEF IndInv, Sound, SoundProcess, SoundPhases, Creates, Holds, Moved, WorksOn,
                MayEnd, Delegated, rows
  <1> QED
    BY <1>1, <1>2, <1>3
       DEF IndInv, rows, LocksExclude, Holds, ProcessesExist, EndedProcessIsSettled,
           OneLivePerSale

LEMMA LoadsKeep ==
  ASSUME IndInv, NEW w \in Workers, LoadPhase(w) \/ LoadCase(w)
  PROVE  IndInv'
  <1>1. CASE LoadPhase(w)
    <2>1. PICK intent \in {"transition", "delegate"}, x \in Phases :
            /\ phase[x] # "none"
            /\ \E expected \in 1 .. phaseRevision[x] :
                 Load(w, [intent |-> intent, phase |-> x, expected |-> expected,
                          status |-> phase[x], revision |-> phaseRevision[x],
                          submitter |-> submitter[x], validator |-> validator[x]])
      BY <1>1 DEF LoadPhase
    <2>2. PICK expected \in 1 .. phaseRevision[x] :
            Load(w, [intent |-> intent, phase |-> x, expected |-> expected,
                     status |-> phase[x], revision |-> phaseRevision[x],
                     submitter |-> submitter[x], validator |-> validator[x]])
      BY <2>1
    <2>3. phaseRevision[x] \in PhaseRevisions /\ expected \in PhaseRevisions
      <3>1. phaseRevision[x] \in PhaseRevisions \cup {0}
        BY DEF IndInv, TypeOK
      <3>2. phaseRevision[x] # 0
        BY <2>2
      <3> QED
        BY <3>1, <3>2, EarlierRevisions
    <2>4. [intent |-> intent, phase |-> x, expected |-> expected,
           status |-> phase[x], revision |-> phaseRevision[x],
           submitter |-> submitter[x], validator |-> validator[x]] \in PhaseReads
      BY <2>1, <2>3 DEF PhaseReads, IndInv, TypeOK
    <2> QED
      BY <2>2, <2>4, LoadKeeps
  <1>2. CASE LoadCase(w)
    <2>1. PICK c \in Cases :
            /\ caseStatus[c] # "none"
            /\ Load(w, [intent |-> "create", case |-> c, status |-> caseStatus[c]])
      BY <1>2 DEF LoadCase
    <2>2. [intent |-> "create", case |-> c, status |-> caseStatus[c]] \in CaseReads
      BY <2>1 DEF CaseReads, IndInv, TypeOK
    <2> QED
      BY <2>1, <2>2, LoadKeeps
  <1> QED
    BY <1>1, <1>2

(* A request that writes no process and no phase.                          *)
LEMMA QuietBegins ==
  ASSUME NEW w, NEW t, Begin(w, t), TxOK(t),
         t.home = <<>>, t.status = <<>>, t.revision = <<>>, t.expected = <<>>,
         t.executions = <<>>, Moved(t) = {}, t.accepted = <<>>, t.acceptances = <<>>,
         \A p \in Processes : ~Holds(t, p)
  PROVE  Begins(w, t)
  BY DEF Begins, Sound, SoundProcess, SoundPhases

LEMMA CaseStepsBegin ==
  ASSUME IndInv, NEW w \in Workers, CreateCase(w) \/ CloseCase(w)
  PROVE  \E t : Begins(w, t) /\ Plain(t)
  <1>1. CASE CreateCase(w)
    <2>1. PICK c \in Cases : Begin(w, [Nothing EXCEPT !.case = [y \in {c} |-> "open"]])
      BY <1>1 DEF CreateCase
    <2> DEFINE t == [Nothing EXCEPT !.case = [y \in {c} |-> "open"]]
    <2>2. TxOK(t)
      BY DEF TxOK, Nothing, Partial, CaseStatus
    <2>3. \A p \in Processes : ~Holds(t, p)
      BY DEF Nothing, Holds
    <2>4. Begins(w, t) /\ Plain(t)
      BY <2>1, <2>2, <2>3, QuietBegins DEF Nothing, Plain, Moved
    <2> HIDE DEF t
    <2> QED
      BY <2>4
  <1>2. CASE CloseCase(w)
    <2>1. PICK c \in Cases, override \in BOOLEAN :
            Begin(w, [Nothing EXCEPT
              !.locks = {CaseLock(c)},
              !.case = [y \in {c} |-> IF override THEN "closed_override" ELSE "closed"]])
      BY <1>2 DEF CloseCase
    <2> DEFINE t == [Nothing EXCEPT
              !.locks = {CaseLock(c)},
              !.case = [y \in {c} |-> IF override THEN "closed_override" ELSE "closed"]]
    <2>2. TxOK(t)
      BY DEF TxOK, Nothing, Partial, CaseStatus
    <2>3. \A p \in Processes : ~Holds(t, p)
      BY DEF Nothing, Holds, CaseLock, ProcessLock
    <2>4. /\ t.home = <<>> /\ t.status = <<>> /\ t.revision = <<>> /\ t.expected = <<>>
          /\ t.phase = <<>> /\ t.executions = <<>> /\ Moved(t) = {}
          /\ t.accepted = <<>> /\ t.acceptances = <<>>
          /\ t.submitter = <<>> /\ t.validator = <<>>
      BY DEF Nothing, Moved
    <2>5. Begin(w, t)
      BY <2>1
    <2> HIDE DEF t
    <2>6. Plain(t)
      BY <2>4 DEF Plain
    <2> QED
      BY <2>2, <2>3, <2>4, <2>5, <2>6, QuietBegins
  <1> QED
    BY <1>1, <1>2

LEMMA AbortKeeps ==
  ASSUME IndInv, NEW w \in Workers, Abort(w)
  PROVE  IndInv'
  <1>1. TxOK(Nothing)
    BY DEF TxOK, Nothing, Partial
  <1>2. \A p \in Processes : ~Holds(Nothing, p)
    BY DEF Nothing, Holds
  <1>3. Begin(w, Nothing)
    BY DEF Abort, Begin
  <1> QED
    BY <1>1, <1>2, <1>3, QuietBegins, BeginKeeps DEF Nothing, Moved

LEMMA CreateSaleProcessBegins ==
  ASSUME IndInv, NEW w \in Workers, CreateSaleProcess(w)
  PROVE  \E t : Begins(w, t) /\ Plain(t)
  <1>1. PICK p \in Processes :
          /\ Loaded(w, "create") /\ loaded[w].status = "open"
          /\ Begin(w, [Nothing EXCEPT
               !.locks = {CaseLock(loaded[w].case), Advisory(p)},
               !.status = [q \in {p} |-> "active"],
               !.home = [q \in {p} |-> loaded[w].case],
               !.revision = [q \in {p} |-> 1],
               !.accepted = [q \in {p} |-> p[2]],
               !.acceptances = [q \in {p} |-> {p[2]}],
               !.phase = [x \in {p} \X Steps |-> "pending"],
               !.phaseRevision = [x \in {p} \X Steps |-> 1]])
    BY DEF CreateSaleProcess
  <1> DEFINE t == [Nothing EXCEPT
               !.locks = {CaseLock(loaded[w].case), Advisory(p)},
               !.status = [q \in {p} |-> "active"],
               !.home = [q \in {p} |-> loaded[w].case],
               !.revision = [q \in {p} |-> 1],
               !.accepted = [q \in {p} |-> p[2]],
               !.acceptances = [q \in {p} |-> {p[2]}],
               !.phase = [x \in {p} \X Steps |-> "pending"],
               !.phaseRevision = [x \in {p} \X Steps |-> 1]]
  <1>2. loaded[w].case \in Cases
    <2>1. loaded[w] \in PhaseReads \cup CaseReads
      BY <1>1 DEF Loaded, IndInv, TypeOK
    <2> QED
      BY <1>1, <2>1 DEF Loaded, PhaseReads, CaseReads
  <1>3. p[2] \in Versions /\ {p} \X Steps \subseteq Phases
    BY DEF Processes, Phases
  <1>4. 1 \in Revisions /\ 1 \in PhaseRevisions
    <2>1. 0 < MaxRevision[p[2]] /\ 0 < MaxPhaseRevision[p[2]]
      BY <1>3, ParametersAssumption
    <2> QED
      BY <1>3, <2>1, NextRevisions
  <1>5. /\ t.locks = {CaseLock(loaded[w].case), Advisory(p)}
        /\ t.expected = <<>> /\ t.executions = <<>>
        /\ t.submitter = <<>> /\ t.validator = <<>>
        /\ t.status = [q \in {p} |-> "active"]
        /\ t.home = [q \in {p} |-> loaded[w].case]
        /\ t.revision = [q \in {p} |-> 1]
        /\ t.phase = [x \in {p} \X Steps |-> "pending"]
        /\ t.phaseRevision = [x \in {p} \X Steps |-> 1]
        /\ t.accepted = [q \in {p} |-> p[2]]
        /\ t.acceptances = [q \in {p} |-> {p[2]}]
    BY DEF Nothing
  <1>6. TxOK(t)
    BY <1>2, <1>3, <1>4 DEF TxOK, Nothing, Partial, ProcessStatus, Live, PhaseStatus, Ended
  <1>7. Begin(w, t)
    BY <1>1
  <1> HIDE DEF t
  <1>8. \A q \in Processes : ~Holds(t, q)
    BY <1>5 DEF Holds, CaseLock, Advisory, ProcessLock
  <1>9. Sound(t)
    BY <1>5 DEF Sound, SoundProcess, SoundPhases, Creates, Moved
  <1>10. Plain(t)
    BY <1>5 DEF Plain
  <1> QED
    BY <1>6, <1>7, <1>8, <1>9, <1>10 DEF Begins

(* A process that has a revision, or a status to leave, exists.            *)
LEMMA Exists ==
  ASSUME IndInv, NEW p \in Processes, status[p] # "none"
  PROVE  home[p] # None
  BY DEF IndInv, ProcessesExist

(* The revision that the client saw is the current one, and has a next.    *)
LEMMA SeenRevision ==
  ASSUME IndInv, NEW p \in Processes, NEW expected \in 1 .. revision[p],
         ProcessSeen(p, expected)
  PROVE  expected = revision[p] /\ revision[p] \in Revisions /\ revision[p] + 1 \in Revisions
  <1>1. expected = revision[p] /\ revision[p] < MaxRevision[p[2]] /\ p[2] \in Versions
    BY DEF ProcessSeen, HasRevision, Processes
  <1>2. revision[p] \in Revisions
    <2>1. revision[p] \in Revisions \cup {0} /\ 0 \notin 1 .. 0
      BY DEF IndInv, TypeOK
    <2> QED
      BY <2>1
  <1>3. revision[p] \in Nat
    BY <1>2, RevisionsAreNumbers
  <1> QED
    BY <1>1, <1>2, <1>3, NextRevisions

LEMMA TransitionProcessBegins ==
  ASSUME IndInv, NEW w \in Workers, TransitionProcess(w)
  PROVE  \E t : Begins(w, t) /\ Plain(t)
  <1>1. PICK p \in Processes :
          \E target \in ProcessMoves[status[p]], expected \in 1 .. revision[p] :
            /\ Free(w, ProcessLock(p)) /\ ProcessSeen(p, expected) /\ MayEnd(p, target)
            /\ Begin(w, [Nothing EXCEPT
                 !.locks = {ProcessLock(p)},
                 !.expected = [q \in {p} |-> expected],
                 !.status = [q \in {p} |-> target],
                 !.revision = [q \in {p} |-> revision[p] + 1]])
    BY DEF TransitionProcess
  <1>2. PICK target \in ProcessMoves[status[p]], expected \in 1 .. revision[p] :
            /\ Free(w, ProcessLock(p)) /\ ProcessSeen(p, expected) /\ MayEnd(p, target)
            /\ Begin(w, [Nothing EXCEPT
                 !.locks = {ProcessLock(p)},
                 !.expected = [q \in {p} |-> expected],
                 !.status = [q \in {p} |-> target],
                 !.revision = [q \in {p} |-> revision[p] + 1]])
    BY <1>1
  <1> DEFINE t == [Nothing EXCEPT
                 !.locks = {ProcessLock(p)},
                 !.expected = [q \in {p} |-> expected],
                 !.status = [q \in {p} |-> target],
                 !.revision = [q \in {p} |-> revision[p] + 1]]
  <1>3. status[p] \in ProcessStatus /\ status[p] # "none" /\ target \in ProcessStatus \ {"none"}
    <2>1. status[p] \in ProcessStatus
      BY DEF IndInv, TypeOK
    <2> QED
      BY <2>1 DEF ProcessMoves, ProcessStatus, Live
  <1>4. /\ expected = revision[p] /\ revision[p] \in Revisions
        /\ revision[p] + 1 \in Revisions
    BY <1>2, SeenRevision
  <1>5. /\ t.locks = {ProcessLock(p)} /\ t.home = <<>> /\ t.phase = <<>> /\ t.executions = <<>>
        /\ t.submitter = <<>> /\ t.validator = <<>>
        /\ t.expected = [q \in {p} |-> expected]
        /\ t.status = [q \in {p} |-> target]
        /\ t.revision = [q \in {p} |-> revision[p] + 1]
        /\ t.phaseRevision = <<>> /\ t.accepted = <<>> /\ t.acceptances = <<>>
    BY DEF Nothing
  <1>6. TxOK(t)
    BY <1>3, <1>4 DEF TxOK, Nothing, Partial
  <1>7. Begin(w, t)
    BY <1>2
  <1> HIDE DEF t
  <1>8. \A q \in Processes : Holds(t, q) => Free(w, ProcessLock(q))
    BY <1>2, <1>5 DEF Holds, ProcessLock
  <1>9. Sound(t)
    <2>1. Holds(t, p) /\ home[p] # None
      BY <1>3, <1>5, Exists DEF Holds
    <2>2. SoundPhases(t)
      BY <1>5 DEF SoundPhases, Moved
    <2>3. SoundProcess(t)
      BY <1>2, <1>4, <1>5, <2>1 DEF SoundProcess, Creates
    <2> QED
      BY <2>2, <2>3 DEF Sound
  <1>10. Plain(t)
    BY <1>5 DEF Plain
  <1> QED
    BY <1>6, <1>7, <1>8, <1>9, <1>10 DEF Begins

LEMMA AcceptProposalVersionBegins ==
  ASSUME IndInv, NEW w \in Workers, AcceptProposalVersion(w)
  PROVE  \E t : Begins(w, t) /\ Plain(t)
  <1>1. PICK p \in Processes, v \in Versions :
          \E expected \in 1 .. revision[p] :
            /\ Free(w, ProcessLock(p)) /\ status[p] \in Live /\ ProcessSeen(p, expected)
            /\ Begin(w, [Nothing EXCEPT
                 !.locks = {ProcessLock(p)},
                 !.expected = [q \in {p} |-> expected],
                 !.accepted = [q \in {p} |-> v],
                 !.acceptances = [q \in {p} |-> acceptances[p] \cup {v}],
                 !.revision = [q \in {p} |-> revision[p] + 1]])
    BY DEF AcceptProposalVersion
  <1>2. PICK expected \in 1 .. revision[p] :
            /\ Free(w, ProcessLock(p)) /\ status[p] \in Live /\ ProcessSeen(p, expected)
            /\ Begin(w, [Nothing EXCEPT
                 !.locks = {ProcessLock(p)},
                 !.expected = [q \in {p} |-> expected],
                 !.accepted = [q \in {p} |-> v],
                 !.acceptances = [q \in {p} |-> acceptances[p] \cup {v}],
                 !.revision = [q \in {p} |-> revision[p] + 1]])
    BY <1>1
  <1> DEFINE t == [Nothing EXCEPT
                 !.locks = {ProcessLock(p)},
                 !.expected = [q \in {p} |-> expected],
                 !.accepted = [q \in {p} |-> v],
                 !.acceptances = [q \in {p} |-> acceptances[p] \cup {v}],
                 !.revision = [q \in {p} |-> revision[p] + 1]]
  <1>3. status[p] # "none" /\ acceptances[p] \in SUBSET Versions
    BY <1>2 DEF Live, IndInv, TypeOK
  <1>4. /\ expected = revision[p] /\ revision[p] \in Revisions
        /\ revision[p] + 1 \in Revisions
    BY <1>2, SeenRevision
  <1>5. /\ t.locks = {ProcessLock(p)} /\ t.home = <<>> /\ t.status = <<>>
        /\ t.phase = <<>> /\ t.executions = <<>>
        /\ t.submitter = <<>> /\ t.validator = <<>>
        /\ t.expected = [q \in {p} |-> expected]
        /\ t.revision = [q \in {p} |-> revision[p] + 1]
        /\ t.phaseRevision = <<>>
        /\ t.accepted = [q \in {p} |-> v]
        /\ t.acceptances = [q \in {p} |-> acceptances[p] \cup {v}]
    BY DEF Nothing
  <1>6. TxOK(t)
    BY <1>3, <1>4 DEF TxOK, Nothing, Partial
  <1>7. Begin(w, t)
    BY <1>2
  <1> HIDE DEF t
  <1>8. \A q \in Processes : Holds(t, q) => Free(w, ProcessLock(q))
    BY <1>2, <1>5 DEF Holds, ProcessLock
  <1>9. Sound(t)
    <2>1. Holds(t, p) /\ home[p] # None
      BY <1>3, <1>5, Exists DEF Holds
    <2>2. SoundPhases(t)
      BY <1>2, <1>5, <2>1 DEF SoundPhases, Moved, WorksOn
    <2>3. SoundProcess(t)
      BY <1>2, <1>4, <1>5, <2>1 DEF SoundProcess, Creates
    <2> QED
      BY <2>2, <2>3 DEF Sound
  <1>10. Plain(t)
    BY <1>5 DEF Plain
  <1> QED
    BY <1>6, <1>7, <1>8, <1>9, <1>10 DEF Begins

(* A phase as it was loaded.                                               *)
LEMMA LoadedPhase ==
  ASSUME IndInv, NEW w \in Workers, Loaded(w, "transition") \/ Loaded(w, "delegate")
  PROVE  /\ loaded[w] \in PhaseReads
         /\ loaded[w].phase \in Phases /\ loaded[w].phase[1] \in Processes
         /\ PhaseSeen(loaded[w]) => loaded[w].revision + 1 \in PhaseRevisions
  <1>1. loaded[w] \in PhaseReads
    <2>1. loaded[w] \in PhaseReads \cup CaseReads
      BY DEF Loaded, IndInv, TypeOK
    <2> QED
      BY <2>1 DEF Loaded, CaseReads
  <1>2. loaded[w].phase \in Phases
    BY <1>1 DEF PhaseReads
  <1>3. loaded[w].phase[1] \in Processes
    BY <1>2 DEF Phases
  <1>4. ASSUME PhaseSeen(loaded[w]) PROVE loaded[w].revision + 1 \in PhaseRevisions
    <2>1. /\ loaded[w].phase[1][2] \in Versions
          /\ loaded[w].revision < MaxPhaseRevision[loaded[w].phase[1][2]]
      BY <1>3, <1>4 DEF PhaseSeen, HasPhaseRevision, Processes
    <2>2. loaded[w].revision \in Nat
      BY <1>1, RevisionsAreNumbers DEF PhaseReads
    <2> QED
      BY <2>1, <2>2, NextRevisions
  <1> QED
    BY <1>1, <1>2, <1>3, <1>4

(* A request that moves or delegates a phase of a live, locked process.    *)
LEMMA PhaseWritesSound ==
  ASSUME IndInv, NEW x \in Phases, status[x[1]] \in Live, NEW t,
         t.home = <<>>, t.status = <<>>, t.revision = <<>>,
         t.expected = <<>>, t.accepted = <<>>, t.acceptances = <<>>, Moved(t) \subseteq {x},
         \A k \in DOMAIN t.executions : t.executions[k] = x,
         Holds(t, x[1])
  PROVE  Sound(t)
  <1>1. SoundProcess(t)
    BY DEF SoundProcess
  <1>2. SoundPhases(t)
    BY DEF SoundPhases, WorksOn
  <1> QED
    BY <1>1, <1>2 DEF Sound

LEMMA TransitionPhaseKeeps ==
  ASSUME IndInv, NEW w \in Workers, TransitionPhase(w)
  PROVE  IndInv'
  <1> DEFINE row == loaded[w]
             x == row.phase
             Submits(actor, target) == IF target = "awaiting_validation" THEN actor ELSE row.submitter
             Validates(actor, target) == IF Validation(x, target) THEN actor
                                         ELSE IF target = "active" THEN None ELSE row.validator
             T(actor, target) == [Nothing EXCEPT
               !.locks = {ProcessLock(x[1])},
               !.phase = [y \in {x} |-> target],
               !.phaseRevision = [y \in {x} |-> row.revision + 1],
               !.submitter = Column(x, Submits(actor, target), row.submitter),
               !.validator = Column(x, Validates(actor, target), row.validator)]
  <1>1. /\ Loaded(w, "transition") /\ Free(w, ProcessLock(x[1]))
        /\ status[x[1]] \in Live /\ PhaseSeen(row)
        /\ \E actor \in Actors, target \in PhaseMoves[row.status] : Begin(w, T(actor, target))
    BY DEF TransitionPhase
  <1>2. PICK actor \in Actors, target \in PhaseMoves[row.status] : Begin(w, T(actor, target))
    BY <1>1
  <1> DEFINE t == T(actor, target)
  <1>3. /\ row \in PhaseReads /\ x \in Phases /\ row.revision + 1 \in PhaseRevisions
        /\ x[1] \in Processes
    BY <1>1, LoadedPhase
  <1>4. target \in PhaseStatus \ {"none"}
    <2>1. row.status \in PhaseStatus
      BY <1>3 DEF PhaseReads
    <2> QED
      BY <2>1 DEF PhaseMoves, PhaseStatus, Ended
  <1>5. /\ Partial(Column(x, Submits(actor, target), row.submitter), Phases, Actors)
        /\ Partial(Column(x, Validates(actor, target), row.validator), Phases, Actors \cup {None})
    BY <1>3 DEF Partial, Column, PhaseReads
  <1> HIDE DEF Submits, Validates
  <1>6. /\ t.locks = {ProcessLock(x[1])} /\ t.home = <<>> /\ t.status = <<>>
        /\ t.revision = <<>> /\ t.executions = <<>> /\ t.expected = <<>>
        /\ t.accepted = <<>> /\ t.acceptances = <<>> /\ Moved(t) \subseteq {x}
    BY DEF Nothing, Moved, Column
  <1>7. TxOK(t)
    BY <1>3, <1>4, <1>5 DEF TxOK, Nothing, Partial
  <1>8. Begin(w, t)
    BY <1>2
  <1> HIDE DEF t
  <1>9. \A q \in Processes : Holds(t, q) => Free(w, ProcessLock(q))
    BY <1>1, <1>6 DEF Holds, ProcessLock
  <1>10. Sound(t)
    BY <1>1, <1>3, <1>6, PhaseWritesSound DEF Holds
  <1> QED
    BY <1>7, <1>8, <1>9, <1>10, BeginKeeps DEF Begins

LEMMA DelegatePhaseKeeps ==
  ASSUME IndInv, NEW w \in Workers, DelegatePhase(w)
  PROVE  IndInv'
  <1> DEFINE row == loaded[w]
             x == row.phase
             T(k) == [Nothing EXCEPT
               !.locks = {Advisory(x), ProcessLock(x[1])},
               !.phaseRevision = [y \in {x} |-> row.revision + 1],
               !.executions = [y \in {k} |-> x]]
  <1>1. /\ Loaded(w, "delegate") /\ Free(w, ProcessLock(x[1]))
        /\ status[x[1]] \in Live /\ PhaseSeen(row)
        /\ \E k \in Keys : Begin(w, T(k))
    BY DEF DelegatePhase
  <1>2. PICK k \in Keys : Begin(w, T(k))
    BY <1>1
  <1> DEFINE t == T(k)
  <1>3. /\ row \in PhaseReads /\ x \in Phases /\ row.revision + 1 \in PhaseRevisions
        /\ x[1] \in Processes
    BY <1>1, LoadedPhase
  <1>4. /\ t.locks = {Advisory(x), ProcessLock(x[1])} /\ t.home = <<>> /\ t.status = <<>>
        /\ t.revision = <<>> /\ t.expected = <<>>
        /\ t.accepted = <<>> /\ t.acceptances = <<>> /\ Moved(t) \subseteq {x}
        /\ t.executions = [y \in {k} |-> x]
    BY DEF Nothing, Moved
  <1>5. TxOK(t)
    BY <1>3 DEF TxOK, Nothing, Partial
  <1>6. Begin(w, t)
    BY <1>2
  <1> HIDE DEF t
  <1>7. \A q \in Processes : Holds(t, q) => Free(w, ProcessLock(q))
    BY <1>1, <1>4 DEF Holds, Advisory, ProcessLock
  <1>8. Sound(t)
    BY <1>1, <1>3, <1>4, PhaseWritesSound DEF Holds
  <1> QED
    BY <1>5, <1>6, <1>7, <1>8, BeginKeeps DEF Begins

-----------------------------------------------------------------------------
(* A commit.                                                               *)

LEMMA CommitTypes ==
  ASSUME IndInv, NEW w \in Workers, Commit(w)
  PROVE  TypeOK'
  <1> DEFINE t == tx[w]
  <1>1. TypeOK /\ TxOK(t)
    BY DEF IndInv, TypeOK
  <1>2. caseStatus' \in [Cases -> CaseStatus]
    BY <1>1, OverlayType DEF Commit, TypeOK, TxOK
  <1>3. /\ status' \in [Processes -> ProcessStatus]
        /\ home' \in [Processes -> Cases \cup {None}]
        /\ revision' \in [Processes -> Revisions \cup {0}]
    BY <1>1, OverlayType DEF Commit, TypeOK, TxOK
  <1>4. /\ accepted' \in [Processes -> Versions \cup {None}]
        /\ acceptances' \in [Processes -> SUBSET Versions]
    BY <1>1, OverlayType DEF Commit, TypeOK, TxOK
  <1>5. /\ phase' \in [Phases -> PhaseStatus]
        /\ phaseRevision' \in [Phases -> PhaseRevisions \cup {0}]
    BY <1>1, OverlayType DEF Commit, TypeOK, TxOK
  <1>6. /\ submitter' \in [Phases -> Actors \cup {None}]
        /\ validator' \in [Phases -> Actors \cup {None}]
    BY <1>1, OverlayType DEF Commit, TypeOK, TxOK
  <1>7. executions' \in [Keys -> Phases \cup {None}]
    BY <1>1, OverlayType DEF Commit, TypeOK, TxOK
  <1>8. loaded' \in [Workers -> PhaseReads \cup CaseReads \cup {None}]
    BY <1>1 DEF Commit, TypeOK
  <1>9. DOMAIN tx' = Workers /\ \A v \in Workers : TxOK(tx'[v])
    <2>1. TxOK(Nothing)
      BY DEF TxOK, Nothing, Partial
    <2> QED
      BY <1>1, <2>1 DEF Commit, TypeOK
  <1>10. (\A v \in Workers : TxOK(tx[v]))'
    BY <1>9 DEF TxOK
  <1> QED
    BY <1>2, <1>3, <1>4, <1>5, <1>6, <1>7, <1>8, <1>9, <1>10 DEF TypeOK

(* What a commit does to the rows, cell by cell.                           *)
LEMMA CommitCells ==
  ASSUME IndInv, NEW w \in Workers, Commit(w)
  PROVE  /\ \A p \in Processes :
              /\ status'[p] = IF p \in DOMAIN tx[w].status THEN tx[w].status[p] ELSE status[p]
              /\ home'[p] = IF p \in DOMAIN tx[w].home THEN tx[w].home[p] ELSE home[p]
              /\ revision'[p] = IF p \in DOMAIN tx[w].revision
                                THEN tx[w].revision[p] ELSE revision[p]
         /\ \A x \in Phases :
              phase'[x] = IF x \in DOMAIN tx[w].phase THEN tx[w].phase[x] ELSE phase[x]
         /\ \A k \in Keys :
              executions'[k] = IF k \in DOMAIN tx[w].executions
                               THEN tx[w].executions[k] ELSE executions[k]
         /\ tx'[w] = Nothing /\ \A v \in Workers : v # w => tx'[v] = tx[v]
         /\ \A p \in DOMAIN tx[w].home : home[p] = None
  BY DEF Commit, Conflicts, SameOperation, Overlay, IndInv, TypeOK

(* What a commit may do to a process that exists: only the holder of its   *)
(* lock touches it or its phases.                                          *)
LEMMA OnlyHoldersWrite ==
  ASSUME IndInv, NEW w \in Workers, Commit(w), NEW p \in Processes, home[p] # None
  PROVE  /\ p \notin DOMAIN tx[w].home /\ home'[p] = home[p]
         /\ ~Holds(tx[w], p) =>
              /\ status'[p] = status[p] /\ revision'[p] = revision[p]
              /\ \A s \in Steps : phase'[<<p, s>>] = phase[<<p, s>>]
              /\ \A s \in Steps, k \in Keys : executions'[k] = <<p, s>> => executions[k] = <<p, s>>
  <1>1. p \notin DOMAIN tx[w].home /\ home'[p] = home[p]
    BY CommitCells
  <1>2. Sound(tx[w])
    BY DEF IndInv
  <1>3. ASSUME ~Holds(tx[w], p) PROVE p \notin DOMAIN tx[w].status /\ p \notin DOMAIN tx[w].revision
    BY <1>1, <1>2, <1>3 DEF Sound, SoundProcess, Creates
  <1>4. ASSUME ~Holds(tx[w], p), NEW s \in Steps
        PROVE  phase'[<<p, s>>] = phase[<<p, s>>]
    <2>1. <<p, s>> \in Phases /\ <<p, s>>[1] = p
      BY DEF Phases
    <2>2. <<p, s>> \notin DOMAIN tx[w].phase
      BY <1>1, <1>2, <1>4, <2>1 DEF Sound, SoundPhases, Moved, WorksOn, Creates
    <2> QED
      BY <2>1, <2>2, CommitCells
  <1>5. ASSUME ~Holds(tx[w], p), NEW s \in Steps, NEW k \in Keys, executions'[k] = <<p, s>>
        PROVE  executions[k] = <<p, s>>
    <2>1. ASSUME k \in DOMAIN tx[w].executions PROVE FALSE
      <3>1. tx[w].executions[k] = <<p, s>>
        BY <1>5, <2>1, CommitCells
      <3> QED
        BY <1>2, <1>5, <2>1, <3>1 DEF Sound, SoundPhases, WorksOn
    <2> QED
      BY <1>5, <2>1, CommitCells
  <1> QED
    BY <1>1, <1>3, <1>4, <1>5, CommitCells

LEMMA CommitKeepsExistence ==
  ASSUME IndInv, NEW w \in Workers, Commit(w)
  PROVE  ProcessesExist'
  <1> SUFFICES ASSUME NEW p \in Processes PROVE status'[p] = "none" <=> home'[p] = None
    BY DEF ProcessesExist
  <1>1. Sound(tx[w]) /\ TxOK(tx[w])
    BY DEF IndInv, TypeOK
  <1>2. CASE p \in DOMAIN tx[w].home
    BY <1>1, <1>2, CommitCells, ParametersAssumption DEF Sound, SoundProcess, TxOK, Partial
  <1>3. CASE p \notin DOMAIN tx[w].home /\ p \in DOMAIN tx[w].status
    BY <1>1, <1>3, CommitCells DEF Sound, SoundProcess, Creates, TxOK, Partial
  <1>4. CASE p \notin DOMAIN tx[w].home /\ p \notin DOMAIN tx[w].status
    BY <1>4, CommitCells DEF IndInv, ProcessesExist
  <1> QED
    BY <1>2, <1>3, <1>4

(* The unique index over the live processes of a sale.                     *)
LEMMA CommitKeepsOneLive ==
  ASSUME IndInv, NEW w \in Workers, Commit(w)
  PROVE  OneLivePerSale'
  <1> SUFFICES ASSUME NEW p \in Processes, NEW q \in Processes, p[1] = q[1],
                      status'[p] \in Live, status'[q] \in Live
               PROVE  p = q
    BY DEF OneLivePerSale
  <1>1. Sound(tx[w])
    BY DEF IndInv
  <1>2. ASSUME NEW a \in Processes, NEW b \in Processes, a[1] = b[1], a \in DOMAIN tx[w].status,
               status'[a] \in Live, status'[b] \in Live
        PROVE  a = b
    <2>1. CASE b \in DOMAIN tx[w].status
      BY <1>1, <1>2, <2>1 DEF Sound, SoundProcess
    <2>2. CASE b \notin DOMAIN tx[w].status
      <3>1. b \in LiveOfSale(a[1])
        BY <1>2, <2>2, CommitCells DEF LiveOfSale
      <3>2. tx[w].status[a] \in Live
        BY <1>2, CommitCells
      <3> QED
        BY <1>2, <3>1, <3>2 DEF Commit, Conflicts, SecondLive
    <2> QED
      BY <2>1, <2>2
  <1>3. CASE p \in DOMAIN tx[w].status \/ q \in DOMAIN tx[w].status
    BY <1>2, <1>3
  <1>4. CASE p \notin DOMAIN tx[w].status /\ q \notin DOMAIN tx[w].status
    BY <1>4, CommitCells DEF IndInv, OneLivePerSale
  <1> QED
    BY <1>3, <1>4

(* A process that ends has been settled under its lock, and one that ended *)
(* is out of reach of phases that were loaded before.                      *)
LEMMA CommitKeepsSettled ==
  ASSUME IndInv, NEW w \in Workers, Commit(w)
  PROVE  EndedProcessIsSettled'
  <1> SUFFICES ASSUME NEW p \in Processes, NEW s \in Steps
               PROVE  /\ status'[p] = "completed" => phase'[<<p, s>>] \in Ended
                      /\ status'[p] \in {"completed", "cancelled"} =>
                           \A k \in Keys : executions'[k] # <<p, s>>
    BY DEF EndedProcessIsSettled
  <1> DEFINE t == tx[w]
             x == <<p, s>>
  <1>1. Sound(t) /\ x \in Phases /\ x[1] = p
    BY DEF IndInv, Phases
  <1>2. CASE p \in DOMAIN t.home
    <2>1. status'[p] = "active"
      BY <1>1, <1>2, CommitCells DEF Sound, SoundProcess
    <2> QED
      BY <2>1
  <1>3. CASE p \notin DOMAIN t.home /\ ~WorksOn(t, p)
    <2>1. x \notin DOMAIN t.phase
      BY <1>1, <1>3 DEF Sound, SoundPhases, Moved, Creates
    <2>2. \A k \in DOMAIN t.executions : t.executions[k] # x
      BY <1>1, <1>3 DEF Sound, SoundPhases
    <2>3. phase'[x] = phase[x] /\ \A k \in Keys : executions'[k] = x => executions[k] = x
      BY <1>1, <2>1, <2>2, CommitCells
    <2>4. CASE p \in DOMAIN t.status
      <3>1. MayEnd(p, status'[p])
        BY <1>1, <1>3, <2>4, CommitCells DEF Sound, SoundProcess, Creates
      <3> QED
        BY <2>3, <3>1 DEF MayEnd, Delegated
    <2>5. CASE p \notin DOMAIN t.status
      BY <2>3, <2>5, CommitCells DEF IndInv, EndedProcessIsSettled
    <2> QED
      BY <2>4, <2>5
  <1>4. CASE WorksOn(t, p)
    <2>1. status'[p] \in Live
      BY <1>4, CommitCells DEF WorksOn
    <2> QED
      BY <2>1 DEF Live
  <1> QED
    BY <1>2, <1>3, <1>4

(* What the other requests are about to write stays as they decided it.    *)
LEMMA CommitKeepsOthersSound ==
  ASSUME IndInv, NEW w \in Workers, Commit(w), NEW v \in Workers, v # w
  PROVE  Sound(tx[v])'
  <1> DEFINE t == tx[v]
  <1>1. Sound(t) /\ TxOK(t) /\ tx'[v] = t
    BY CommitCells DEF IndInv, TypeOK
  <1>2. ASSUME NEW p \in Processes, Holds(t, p) PROVE ~Holds(tx[w], p)
    BY <1>2 DEF IndInv, LocksExclude
  <1>3. SoundProcess(t)'
    <2>1. ASSUME NEW p \in Processes, Holds(t, p), home[p] # None
          PROVE  /\ home'[p] # None /\ revision'[p] = revision[p]
                 /\ \A target : MayEnd(p, target) => MayEnd(p, target)'
      BY <1>2, <2>1, OnlyHoldersWrite DEF MayEnd, Delegated
    <2>2. DOMAIN t.status \subseteq Processes
      BY <1>1 DEF TxOK, Partial
    <2>3. \A p \in DOMAIN t.status :
            ~Creates(t, p) => Holds(t, p) /\ home'[p] # None /\ MayEnd(p, t.status[p])'
      BY <1>1, <2>1, <2>2 DEF Sound, SoundProcess
    <2>4. \A p \in Processes : p \in DOMAIN t.expected =>
            /\ Holds(t, p) /\ home'[p] # None
            /\ p \in DOMAIN t.revision
            /\ t.expected[p] = revision'[p] /\ t.revision[p] = revision'[p] + 1
      BY <1>1, <2>1 DEF Sound, SoundProcess
    <2> QED
      BY <1>1, <2>3, <2>4 DEF Sound, SoundProcess, Creates, Holds, MayEnd, Delegated
  <1>4. SoundPhases(t)'
    <2>1. ASSUME NEW p \in Processes, WorksOn(t, p) PROVE WorksOn(t, p)'
      <3>1. home[p] # None
        BY <2>1, Exists DEF WorksOn, Live
      <3>2. status'[p] = status[p]
        BY <1>2, <2>1, <3>1, OnlyHoldersWrite DEF WorksOn
      <3> QED
        BY <1>1, <2>1, <3>2 DEF WorksOn, Holds
    <2>2. /\ \A x \in Moved(t) : x[1] \in Processes
          /\ \A k \in DOMAIN t.executions : t.executions[k][1] \in Processes
          /\ \A p \in DOMAIN t.accepted \cup DOMAIN t.acceptances : p \in Processes
      BY <1>1 DEF TxOK, Partial, Phases, Moved
    <2> QED
      BY <1>1, <2>1, <2>2 DEF Sound, SoundPhases, Creates, Moved
  <1> QED
    BY <1>1, <1>3, <1>4 DEF Sound

LEMMA CommitKeeps ==
  ASSUME IndInv, NEW w \in Workers, Commit(w)
  PROVE  IndInv'
  <1>1. TypeOK'
    BY CommitTypes
  <1>2. LocksExclude'
    BY CommitCells DEF IndInv, LocksExclude, Holds, Nothing
  <1>3. \A v \in Workers : Sound(tx[v])'
    <2>1. tx'[w] = Nothing
      BY CommitCells
    <2>2. Sound(tx[w])'
      BY <2>1 DEF Nothing, Sound, SoundProcess, SoundPhases, Moved
    <2> QED
      BY <2>2, CommitKeepsOthersSound
  <1> QED
    BY <1>1, <1>2, <1>3, CommitKeepsExistence, CommitKeepsOneLive, CommitKeepsSettled
       DEF IndInv

-----------------------------------------------------------------------------
(* The theorems for any number of overlapping requests.                    *)

LEMMA InitIndInv == Init => IndInv
  <1> SUFFICES ASSUME Init PROVE IndInv
    OBVIOUS
  <1>1. TxOK(Nothing) /\ Sound(Nothing) /\ \A p \in Processes : ~Holds(Nothing, p)
    BY DEF TxOK, Nothing, Partial, Sound, SoundProcess, SoundPhases, Moved, Holds
  <1>2. TypeOK
    BY <1>1 DEF Init, TypeOK, CaseStatus, ProcessStatus, PhaseStatus
  <1>3. LocksExclude /\ \A w \in Workers : Sound(tx[w])
    BY <1>1 DEF Init, LocksExclude
  <1>4. ProcessesExist /\ EndedProcessIsSettled /\ OneLivePerSale
    BY DEF Init, ProcessesExist, EndedProcessIsSettled, OneLivePerSale, Live
  <1> QED
    BY <1>2, <1>3, <1>4 DEF IndInv

LEMMA StutterKeeps == IndInv /\ UNCHANGED vars => IndInv'
  <1> SUFFICES ASSUME IndInv, UNCHANGED vars PROVE IndInv'
    OBVIOUS
  <1> USE DEF vars
  <1>1. TypeOK'
    BY DEF IndInv, TypeOK, TxOK, Partial
  <1>2. (\A w \in Workers : Sound(tx[w]))'
    BY DEF IndInv, Sound, SoundProcess, SoundPhases, Creates, Holds, Moved, WorksOn, MayEnd,
           Delegated
  <1> QED
    BY <1>1, <1>2
       DEF IndInv, LocksExclude, Holds, ProcessesExist, EndedProcessIsSettled, OneLivePerSale

(* Whatever requests overlap, commit or abort: the types, the exclusion by *)
(* row locks, the soundness of what is about to be written, and the state  *)
(* of ended and of live processes are preserved together.                  *)
THEOREM Inductive == Spec => []IndInv
  <1>1. IndInv /\ [Next]_vars => IndInv'
    <2> SUFFICES ASSUME IndInv, [Next]_vars PROVE IndInv'
      OBVIOUS
    <2>1. CASE UNCHANGED vars
      BY <2>1, StutterKeeps
    <2>2. CASE Next
      <3>1. PICK w \in Workers : Request(w) \/ Commit(w) \/ Abort(w)
        BY <2>2 DEF Next
      <3>2. CASE Request(w)
        BY <3>2, LoadsKeep, CaseStepsBegin, CreateSaleProcessBegins, TransitionProcessBegins,
           AcceptProposalVersionBegins, BeginKeeps, TransitionPhaseKeeps, DelegatePhaseKeeps
           DEF Request
      <3> QED
        BY <3>1, <3>2, CommitKeeps, AbortKeeps
    <2> QED
      BY <2>1, <2>2
  <1> QED
    BY <1>1, InitIndInv, PTL DEF Spec

(* Rows, reads and pending writes keep their types, whatever overlaps.     *)
THEOREM TypesPreserved == Spec => []TypeOK
  <1>1. IndInv => TypeOK
    BY DEF IndInv
  <1> QED
    BY <1>1, Inductive, PTL

(* A process that was completed or cancelled has no unfinished or delegated*)
(* phase, although phases are loaded before the lock of the process.       *)
THEOREM EndedStaysSettled == Spec => []EndedProcessIsSettled
  <1>1. IndInv => EndedProcessIsSettled
    BY DEF IndInv
  <1> QED
    BY <1>1, Inductive, PTL

(* A sale has one live process, whoever creates or reopens one.            *)
THEOREM OneLiveProcess == Spec => []OneLivePerSale
  <1>1. IndInv => OneLivePerSale
    BY DEF IndInv
  <1> QED
    BY <1>1, Inductive, PTL

(* No update of a process is lost: what a request is about to write to it  *)
(* was decided on its present revision.                                    *)
THEOREM NoProcessUpdateLost == Spec => []ProcessWritesAreCurrent
  <1>1. IndInv => ProcessWritesAreCurrent
    BY DEF IndInv, Sound, SoundProcess, ProcessWritesAreCurrent
  <1> QED
    BY <1>1, Inductive, PTL

(* Only a commit changes a row.                                            *)
LEMMA OnlyCommitsWrite ==
  ASSUME NEW w, Request(w) \/ Abort(w)
  PROVE  UNCHANGED rows
  <1>1. CASE LoadPhase(w) \/ LoadCase(w)
    BY <1>1 DEF LoadPhase, LoadCase, Load
  <1>2. CASE CreateCase(w) \/ CloseCase(w)
    BY <1>2 DEF CreateCase, CloseCase, Begin
  <1>3. CASE CreateSaleProcess(w)
    BY <1>3 DEF CreateSaleProcess, Begin
  <1>4. CASE TransitionProcess(w) \/ AcceptProposalVersion(w)
    BY <1>4 DEF TransitionProcess, AcceptProposalVersion, Begin
  <1>5. CASE TransitionPhase(w)
    BY <1>5 DEF TransitionPhase, Begin
  <1>6. CASE DelegatePhase(w)
    BY <1>6 DEF DelegatePhase, Begin
  <1>7. CASE Abort(w)
    BY <1>7 DEF Abort
  <1> QED
    BY <1>1, <1>2, <1>3, <1>4, <1>5, <1>6, <1>7 DEF Request

(* A process that ended keeps its phases and its proposals as they are,    *)
(* although requests loaded its phases while it was live: whoever writes   *)
(* them holds its lock and found it live, so it has not ended since.       *)
THEOREM EndedStandsStill == Spec => EndedProcessStandsStill
  <1> DEFINE Still(p) ==
        /\ accepted'[p] = accepted[p] /\ acceptances'[p] = acceptances[p]
        /\ \A s \in Steps :
             /\ phase'[<<p, s>>] = phase[<<p, s>>]
             /\ phaseRevision'[<<p, s>>] = phaseRevision[<<p, s>>]
             /\ submitter'[<<p, s>>] = submitter[<<p, s>>]
             /\ validator'[<<p, s>>] = validator[<<p, s>>]
  <1>1. ASSUME IndInv, Next, NEW p \in Processes, status[p] \in {"completed", "cancelled"}
        PROVE  Still(p)
    <2>1. PICK w \in Workers : Request(w) \/ Commit(w) \/ Abort(w)
      BY <1>1 DEF Next
    <2>2. CASE Request(w) \/ Abort(w)
      BY <2>2, OnlyCommitsWrite DEF rows
    <2>3. CASE Commit(w)
      <3> DEFINE t == tx[w]
      <3>1. Sound(t) /\ home[p] # None
        BY <1>1, Exists DEF IndInv
      <3>2. ~Creates(t, p) /\ ~WorksOn(t, p)
        BY <1>1, <2>3, <3>1, CommitCells DEF Creates, WorksOn, Live
      <3>3. p \notin DOMAIN t.accepted /\ p \notin DOMAIN t.acceptances
        BY <3>1, <3>2 DEF Sound, SoundPhases
      <3>4. ASSUME NEW s \in Steps PROVE <<p, s>> \in Phases /\ <<p, s>> \notin Moved(t)
        BY <3>1, <3>2 DEF Sound, SoundPhases, Phases
      <3>5. accepted'[p] = accepted[p] /\ acceptances'[p] = acceptances[p]
        BY <1>1, <2>3, <3>3 DEF Commit, Overlay, IndInv, TypeOK
      <3>6. ASSUME NEW s \in Steps
            PROVE  /\ phase'[<<p, s>>] = phase[<<p, s>>]
                   /\ phaseRevision'[<<p, s>>] = phaseRevision[<<p, s>>]
                   /\ submitter'[<<p, s>>] = submitter[<<p, s>>]
                   /\ validator'[<<p, s>>] = validator[<<p, s>>]
        BY <1>1, <2>3, <3>4 DEF Commit, Overlay, Moved, IndInv, TypeOK
      <3> QED
        BY <3>5, <3>6
    <2> QED
      BY <2>1, <2>2, <2>3
  <1>2. IndInv /\ [Next]_vars =>
          [\A p \in Processes : status[p] \in {"completed", "cancelled"} => Still(p)]_vars
    BY <1>1
  <1> QED
    BY <1>2, Inductive, PTL DEF Spec, EndedProcessStandsStill

-----------------------------------------------------------------------------
(* What holds as long as each request decides on a phase as it is.         *)

TwoPersons(submitters, validators, x) ==
  submitters[x] # None /\ validators[x] # None /\ submitters[x] # validators[x]

(* The writes of an open request about phases: an end of a sensitive phase *)
(* has two persons behind it, and only open work is delegated.             *)
PhaseWritesCurrent(t) ==
  /\ \A x \in DOMAIN t.phase : x[2] \in Sensitive /\ t.phase[x] \in Ended =>
       /\ WorksOn(t, x[1])
       /\ TwoPersons(Overlay(submitter, t.submitter), Overlay(validator, t.validator), x)
  /\ DOMAIN t.submitter \subseteq DOMAIN t.phase /\ DOMAIN t.validator \subseteq DOMAIN t.phase
  /\ \A k \in DOMAIN t.executions : phase[t.executions[k]] \in {"pending", "active", "blocked"}

CurrentInv == ~stale => FourEyes /\ \A w \in Workers : PhaseWritesCurrent(tx[w])

LEMMA PlainWritesCurrent ==
  ASSUME NEW t, Plain(t)
  PROVE  PhaseWritesCurrent(t)
  BY DEF Plain, PhaseWritesCurrent, Ended

(* A request begins to write, or ends without having written.              *)
LEMMA CurrentBegin ==
  ASSUME IndInv, CurrentInv, NEW w \in Workers, NEW t, Begin(w, t),
         ~stale' => ~stale /\ PhaseWritesCurrent(t)
  PROVE  CurrentInv'
  <1> SUFFICES ASSUME ~stale' PROVE (FourEyes /\ \A v \in Workers : PhaseWritesCurrent(tx[v]))'
    BY DEF CurrentInv
  <1>1. ~stale /\ UNCHANGED rows /\ tx'[w] = t /\ \A v \in Workers : v # w => tx'[v] = tx[v]
    BY DEF Begin, IndInv, TypeOK
  <1>2. \A v \in Workers : PhaseWritesCurrent(tx'[v])
    BY <1>1 DEF CurrentInv
  <1>3. (\A v \in Workers : PhaseWritesCurrent(tx[v]))'
    BY <1>1, <1>2 DEF PhaseWritesCurrent, TwoPersons, WorksOn, Holds, rows
  <1> QED
    BY <1>1, <1>3 DEF CurrentInv, FourEyes, rows

LEMMA CurrentPlainSteps ==
  ASSUME IndInv, CurrentInv, NEW w \in Workers,
         ~stale' => ~stale,
         \/ CreateCase(w) \/ CloseCase(w) \/ CreateSaleProcess(w) \/ TransitionProcess(w)
         \/ AcceptProposalVersion(w) \/ Abort(w)
  PROVE  CurrentInv'
  <1>1. ASSUME NEW t, Begin(w, t), Plain(t) PROVE CurrentInv'
    BY <1>1, PlainWritesCurrent, CurrentBegin
  <1>2. CASE Abort(w)
    <2>1. Begin(w, Nothing) /\ Plain(Nothing)
      BY <1>2 DEF Abort, Begin, Plain, Nothing
    <2> QED
      BY <1>1, <2>1
  <1> QED
    BY <1>1, <1>2, CaseStepsBegin, CreateSaleProcessBegins, TransitionProcessBegins,
       AcceptProposalVersionBegins DEF Begins

LEMMA CurrentLoads ==
  ASSUME IndInv, CurrentInv, NEW w \in Workers, LoadPhase(w) \/ LoadCase(w),
         ~stale' => ~stale
  PROVE  CurrentInv'
  <1>1. UNCHANGED <<rows, tx>>
    BY DEF LoadPhase, LoadCase, Load
  <1> QED
    BY <1>1 DEF CurrentInv, FourEyes, PhaseWritesCurrent, TwoPersons, WorksOn, Holds, rows

(* A phase ends under four eyes: the validator is not the submitter, whom  *)
(* the validation leaves as he is.                                         *)
LEMMA CurrentTransitionPhase ==
  ASSUME IndInv, CurrentInv, NEW w \in Workers, TransitionPhase(w),
         ~stale' => ~stale /\ ~Outdated(w)
  PROVE  CurrentInv'
  <1> DEFINE row == loaded[w]
             x == row.phase
             Submits(actor, target) == IF target = "awaiting_validation" THEN actor ELSE row.submitter
             Validates(actor, target) == IF Validation(x, target) THEN actor
                                         ELSE IF target = "active" THEN None ELSE row.validator
             T(actor, target) == [Nothing EXCEPT
               !.locks = {ProcessLock(x[1])},
               !.phase = [y \in {x} |-> target],
               !.phaseRevision = [y \in {x} |-> row.revision + 1],
               !.submitter = Column(x, Submits(actor, target), row.submitter),
               !.validator = Column(x, Validates(actor, target), row.validator)]
  <1>1. /\ Loaded(w, "transition") /\ status[x[1]] \in Live
        /\ \E actor \in Actors, target \in PhaseMoves[row.status] :
             /\ Validation(x, target) => MayValidate(row, actor)
             /\ Begin(w, T(actor, target))
    BY DEF TransitionPhase
  <1>2. PICK actor \in Actors, target \in PhaseMoves[row.status] :
             /\ Validation(x, target) => MayValidate(row, actor)
             /\ Begin(w, T(actor, target))
    BY <1>1
  <1> DEFINE t == T(actor, target)
             s == Column(x, Submits(actor, target), row.submitter)
             v == Column(x, Validates(actor, target), row.validator)
  <1>3. /\ x \in Phases /\ row \in PhaseReads
        /\ submitter \in [Phases -> Actors \cup {None}]
        /\ validator \in [Phases -> Actors \cup {None}]
    BY <1>1, LoadedPhase DEF IndInv, TypeOK
  <1>4. row # None /\ row.intent # "create"
    BY <1>1 DEF Loaded
  <1>5. DOMAIN s \subseteq {x} /\ DOMAIN v \subseteq {x}
    BY DEF Column
  <1>6. ~Outdated(w) =>
          /\ Overlay(submitter, s)[x] = Submits(actor, target)
          /\ Overlay(validator, v)[x] = Validates(actor, target)
    <2>1. ~Outdated(w) => row.submitter = submitter[x] /\ row.validator = validator[x]
      BY <1>4 DEF Outdated
    <2> HIDE DEF Submits, Validates
    <2> QED
      BY <1>3, <2>1 DEF Overlay, Column
  <1>7. ASSUME ~Outdated(w), x[2] \in Sensitive, target \in Ended
        PROVE  TwoPersons(Overlay(submitter, s), Overlay(validator, v), x)
    <2>1. Validation(x, target) /\ target # "awaiting_validation"
      BY <1>7 DEF Validation, Ended
    <2>2. row.submitter # None /\ row.submitter # actor /\ actor # None
      BY <1>2, <2>1, ParametersAssumption DEF MayValidate
    <2> QED
      BY <1>6, <1>7, <2>1, <2>2 DEF TwoPersons
  <1>8. /\ t.executions = <<>> /\ t.submitter = s /\ t.validator = v /\ t.status = <<>>
        /\ t.phase = [y \in {x} |-> target] /\ t.locks = {ProcessLock(x[1])}
    BY DEF Nothing
  <1>9. Begin(w, t)
    BY <1>2
  <1> HIDE DEF t, s, v
  <1>10. WorksOn(t, x[1])
    BY <1>1, <1>8 DEF WorksOn, Holds
  <1>11. ~Outdated(w) => PhaseWritesCurrent(t)
    BY <1>5, <1>7, <1>8, <1>10 DEF PhaseWritesCurrent
  <1> QED
    BY <1>9, <1>11, CurrentBegin

LEMMA CurrentDelegatePhase ==
  ASSUME IndInv, CurrentInv, NEW w \in Workers, DelegatePhase(w),
         ~stale' => ~stale /\ ~Outdated(w)
  PROVE  CurrentInv'
  <1> DEFINE row == loaded[w]
             x == row.phase
             T(k) == [Nothing EXCEPT
               !.locks = {Advisory(x), ProcessLock(x[1])},
               !.phaseRevision = [y \in {x} |-> row.revision + 1],
               !.executions = [y \in {k} |-> x]]
  <1>1. /\ Loaded(w, "delegate") /\ Delegable(row)
        /\ \E k \in Keys : Begin(w, T(k))
    BY DEF DelegatePhase
  <1>2. PICK k \in Keys : Begin(w, T(k))
    BY <1>1
  <1> DEFINE t == T(k)
  <1>3. ~Outdated(w) => phase[x] = row.status
    BY <1>1 DEF Outdated, Loaded
  <1>4. /\ t.phase = <<>> /\ t.submitter = <<>> /\ t.validator = <<>>
        /\ t.executions = [y \in {k} |-> x]
    BY DEF Nothing
  <1>5. Begin(w, t)
    BY <1>2
  <1> HIDE DEF t
  <1>6. ~Outdated(w) => PhaseWritesCurrent(t)
    BY <1>1, <1>3, <1>4 DEF PhaseWritesCurrent, Delegable
  <1> QED
    BY <1>5, <1>6, CurrentBegin

(* The holder of the lock of a process finds its phases as he left them.   *)
LEMMA OthersLeavePhases ==
  ASSUME IndInv, NEW w \in Workers, Commit(w), NEW v \in Workers, v # w,
         NEW x \in Phases, WorksOn(tx[v], x[1])
  PROVE  /\ phase'[x] = phase[x]
         /\ submitter'[x] = submitter[x] /\ validator'[x] = validator[x]
  <1>1. x[1] \in Processes
    BY DEF Phases
  <1>2. home[x[1]] # None
    BY <1>1, Exists DEF WorksOn, Live
  <1>3. ~Holds(tx[w], x[1]) /\ x[1] \notin DOMAIN tx[w].home
    BY <1>1, <1>2, OnlyHoldersWrite DEF WorksOn, IndInv, LocksExclude
  <1>4. x \notin Moved(tx[w])
    BY <1>3 DEF IndInv, Sound, SoundPhases, Creates, WorksOn
  <1> QED
    BY <1>4 DEF Moved, Commit, Overlay, IndInv, TypeOK

LEMMA CurrentCommit ==
  ASSUME IndInv, CurrentInv, NEW w \in Workers, Commit(w), UNCHANGED stale
  PROVE  CurrentInv'
  <1> SUFFICES ASSUME ~stale PROVE (FourEyes /\ \A v \in Workers : PhaseWritesCurrent(tx[v]))'
    BY DEF CurrentInv
  <1>1. FourEyes /\ \A v \in Workers : PhaseWritesCurrent(tx[v])
    BY DEF CurrentInv
  <1>2. /\ submitter' = Overlay(submitter, tx[w].submitter)
        /\ validator' = Overlay(validator, tx[w].validator)
    BY DEF Commit
  <1>3. FourEyes'
    <2> SUFFICES ASSUME NEW x \in Phases, x[2] \in Sensitive, phase'[x] \in Ended
                 PROVE  TwoPersons(submitter', validator', x)
      BY DEF FourEyes, TwoPersons
    <2>1. CASE x \in DOMAIN tx[w].phase
      BY <1>1, <1>2, <2>1, CommitCells DEF PhaseWritesCurrent
    <2>2. CASE x \notin DOMAIN tx[w].phase
      <3>1. TwoPersons(submitter, validator, x)
        BY <1>1, <2>2, CommitCells DEF FourEyes, TwoPersons
      <3>2. submitter'[x] = submitter[x] /\ validator'[x] = validator[x]
        BY <1>1, <1>2, <2>2 DEF PhaseWritesCurrent, Overlay, IndInv, TypeOK
      <3> QED
        BY <3>1, <3>2 DEF TwoPersons
    <2> QED
      BY <2>1, <2>2
  <1>4. ASSUME NEW v \in Workers PROVE PhaseWritesCurrent(tx[v])'
    <2>1. CASE v = w
      <3>1. tx'[v] = Nothing
        BY <2>1, CommitCells
      <3> QED
        BY <3>1 DEF PhaseWritesCurrent, Nothing
    <2>2. CASE v # w
      <3> DEFINE t == tx[v]
      <3>1. PhaseWritesCurrent(t) /\ Sound(t) /\ TxOK(t) /\ tx'[v] = t /\ Sound(t)'
        BY <1>1, <2>2, CommitCells, CommitKeepsOthersSound DEF IndInv, TypeOK
      <3>2. ASSUME NEW x \in DOMAIN t.phase, x[2] \in Sensitive, t.phase[x] \in Ended
            PROVE  /\ WorksOn(t, x[1])'
                   /\ TwoPersons(Overlay(submitter', t.submitter), Overlay(validator', t.validator), x)
        <4>1. /\ x \in Phases /\ WorksOn(t, x[1])
              /\ TwoPersons(Overlay(submitter, t.submitter), Overlay(validator, t.validator), x)
          BY <3>1, <3>2 DEF PhaseWritesCurrent, TxOK, Partial
        <4>2. submitter'[x] = submitter[x] /\ validator'[x] = validator[x]
          BY <2>2, <4>1, OthersLeavePhases
        <4>3. WorksOn(t, x[1])'
          BY <3>1, <4>1 DEF Sound, SoundProcess, SoundPhases, Moved, Creates, WorksOn
        <4>4. /\ Overlay(submitter', t.submitter)[x] = Overlay(submitter, t.submitter)[x]
              /\ Overlay(validator', t.validator)[x] = Overlay(validator, t.validator)[x]
          BY <1>2, <4>1, <4>2 DEF Overlay, IndInv, TypeOK
        <4> QED
          BY <4>1, <4>3, <4>4 DEF TwoPersons
      <3>3. ASSUME NEW k \in DOMAIN t.executions
            PROVE  phase'[t.executions[k]] \in {"pending", "active", "blocked"}
        <4>1. t.executions[k] \in Phases /\ WorksOn(t, t.executions[k][1])
          BY <3>1 DEF Sound, SoundPhases, TxOK, Partial
        <4> QED
          BY <2>2, <3>1, <4>1, OthersLeavePhases DEF PhaseWritesCurrent
      <3> HIDE DEF t
      <3> QED
        BY <3>1, <3>2, <3>3 DEF PhaseWritesCurrent, t
    <2> QED
      BY <2>1, <2>2
  <1> QED
    BY <1>3, <1>4

(* Every phase that a request decided on was current, so far.              *)
LEMMA CurrentInductive == Spec => []CurrentInv
  <1>1. Init => CurrentInv
    <2>1. PhaseWritesCurrent(Nothing)
      BY DEF PhaseWritesCurrent, Nothing
    <2> QED
      BY <2>1 DEF Init, CurrentInv, FourEyes, Ended
  <1>2. IndInv /\ CurrentInv /\ [Next]_vars => CurrentInv'
    <2> SUFFICES ASSUME IndInv, CurrentInv, [Next]_vars PROVE CurrentInv'
      OBVIOUS
    <2>1. CASE UNCHANGED vars
      BY <2>1 DEF vars, CurrentInv, PhaseWritesCurrent, TwoPersons, WorksOn, Holds, FourEyes
    <2>2. CASE Next
      <3>1. PICK w \in Workers : \/ Request(w) /\ stale' = (stale \/ Outdated(w))
                                 \/ (Commit(w) \/ Abort(w)) /\ UNCHANGED stale
        BY <2>2 DEF Next
      <3>2. CASE Request(w) /\ stale' = (stale \/ Outdated(w))
        <4>1. ~stale' => ~stale /\ ~Outdated(w)
          BY <3>2
        <4> QED
          BY <3>2, <4>1, CurrentLoads, CurrentPlainSteps, CurrentTransitionPhase, CurrentDelegatePhase
             DEF Request
      <3>3. CASE (Commit(w) \/ Abort(w)) /\ UNCHANGED stale
        BY <3>3, CurrentCommit, CurrentPlainSteps
      <3> QED
        BY <3>1, <3>2, <3>3
    <2> QED
      BY <2>1, <2>2
  <1> QED
    BY <1>1, <1>2, Inductive, PTL DEF Spec

(* However requests overlap, a sensitive phase that ended was submitted by *)
(* one person and validated by another, as long as each request found the  *)
(* phase, under the process lock, as it had loaded it (transition_phase).  *)
THEOREM TwoPersonsWhenCurrent == Spec => []FourEyesWhenCurrent
  <1>1. CurrentInv => FourEyesWhenCurrent
    BY DEF CurrentInv, FourEyesWhenCurrent
  <1> QED
    BY <1>1, CurrentInductive, PTL

(* And a task is made only of open work in a live process                  *)
(* (delegate_phase_to_task).                                               *)
THEOREM DelegationsAreOfOpenWork == Spec => DelegatesOpenWork
  <1> DEFINE OpenWork ==
        \A k \in Keys : executions[k] # executions'[k] =>
          LET x == executions'[k] IN
          /\ phase[x] \in {"pending", "active", "blocked"}
          /\ status[x[1]] \in Live
  <1>1. IndInv /\ CurrentInv /\ [Next]_vars => [~stale => OpenWork]_vars
    <2> SUFFICES ASSUME IndInv, CurrentInv, Next, ~stale,
                        NEW k \in Keys, executions[k] # executions'[k]
                 PROVE  LET x == executions'[k] IN
                        /\ phase[x] \in {"pending", "active", "blocked"}
                        /\ status[x[1]] \in Live
      OBVIOUS
    <2>1. PICK w \in Workers : Commit(w)
      BY OnlyCommitsWrite DEF Next, rows
    <2>2. k \in DOMAIN tx[w].executions /\ executions'[k] = tx[w].executions[k]
      BY <2>1, CommitCells
    <2>3. PhaseWritesCurrent(tx[w]) /\ Sound(tx[w])
      BY DEF CurrentInv, IndInv
    <2> QED
      BY <2>2, <2>3 DEF PhaseWritesCurrent, Sound, SoundPhases, WorksOn
  <1> QED
    BY <1>1, Inductive, CurrentInductive, PTL DEF Spec, DelegatesOpenWork

=============================================================================
