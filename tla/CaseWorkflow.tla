---------------------------- MODULE CaseWorkflow ----------------------------
(***************************************************************************)
(* Cases, sale processes and their phases                                  *)
(* (app/services/case_workflow.py).                                        *)
(*                                                                         *)
(* A request of the workflow runs in one database transaction at READ      *)
(* COMMITTED.  Some operations load a row before they hold the lock that   *)
(* protects it, and the ORM session keeps what it loaded: the later        *)
(* SELECT ... FOR UPDATE of the same row waits for the lock but does not   *)
(* refresh the object.  Such a request is three steps: it loads; it takes  *)
(* its locks, checks and computes its writes; it commits.  The others are  *)
(* the last two.                                                           *)
(***************************************************************************)
EXTENDS Integers, FiniteSets

CONSTANTS
  Workers,      \* concurrent requests
  Actors,       \* users with every permission of the workflow
  Cases,        \* ids of operational cases
  Sales,        \* <<proposal_logical_id, vehicle_id, process_kind>>
  Versions,     \* versions of a proposal
  Steps,        \* phase keys of the published process model
  Sensitive,    \* the steps that need a second person's validation
  Keys,         \* idempotency keys of delegations
  MaxRevision,       \* version -> bound on the revision of its process
  MaxPhaseRevision,  \* version -> bound on the revision of its phases
  None

(* A sale process is known by its operation_key, a phase by its process    *)
(* and phase_key.                                                          *)
Processes == Sales \X Versions
Phases == Processes \X Steps

(* Processes and phases are rows of two tables.                            *)
ASSUME ParametersAssumption ==
  /\ Sensitive \subseteq Steps
  /\ {MaxRevision, MaxPhaseRevision} \subseteq [Versions -> Nat \ {0}]
  /\ None \notin Actors \cup Cases \cup Versions \cup Phases
  /\ Processes \cap Phases = {}

Revisions == UNION {1 .. MaxRevision[v] : v \in Versions}
PhaseRevisions == UNION {1 .. MaxPhaseRevision[v] : v \in Versions}

VARIABLES
  caseStatus,     \* case -> status; an overriding close is told by its audit row
  status,         \* process -> status
  home,           \* process -> case_id
  revision,       \* process -> revision
  accepted,       \* process -> accepted_proposal_version
  acceptances,    \* process -> versions in process_proposal_acceptances
  phase,          \* phase -> status
  phaseRevision,  \* phase -> revision
  submitter,      \* phase -> submitted_by_id
  validator,      \* phase -> validated_by_id
  executions,     \* idempotency key -> the phase it delegates; nothing ends one
  loaded,         \* worker -> the row its session loaded before any lock
  tx,             \* worker -> what its open transaction holds and will write
  stale           \* history: a request decided by a phase that had changed

rows == <<caseStatus, status, home, revision, accepted, acceptances, phase, phaseRevision,
          submitter, validator, executions>>
vars == <<caseStatus, status, home, revision, accepted, acceptances, phase, phaseRevision,
          submitter, validator, executions, loaded, tx, stale>>

-----------------------------------------------------------------------------
(* Types.                                                                  *)

CaseStatus == {"none", "open", "closed", "closed_override"}
Live == {"active", "blocked"}
ProcessStatus == Live \cup {"none", "completed", "cancelled"}
Ended == {"completed", "skipped"}
PhaseStatus == Ended \cup {"none", "pending", "active", "blocked", "awaiting_validation"}

(* Mutant: the table names a status that no query looks for.               *)
ProcessMovesMisspelt ==
  [active |-> {"blocked", "completed", "canceled"}, blocked |-> {"active", "canceled"},
   completed |-> {"active"}, canceled |-> {}, none |-> {}]

ProcessMoves ==
  [active |-> {"blocked", "completed", "cancelled"}, blocked |-> {"active", "cancelled"},
   completed |-> {"active"}, cancelled |-> {}, none |-> {}]

PhaseMoves ==
  [pending |-> {"active", "skipped"},
   active |-> {"blocked", "awaiting_validation", "completed", "skipped"},
   blocked |-> {"active", "skipped"}, awaiting_validation |-> {"active", "completed"},
   completed |-> {"active"}, skipped |-> {"active"}, none |-> {}]

(* Cells are partial functions; locks are on process rows, case rows and   *)
(* advisory keys; expected is the revision of a process that the client    *)
(* saw.                                                                    *)
Nothing == [locks |-> {}, expected |-> <<>>, case |-> <<>>, status |-> <<>>, home |-> <<>>,
            revision |-> <<>>, accepted |-> <<>>, acceptances |-> <<>>, phase |-> <<>>,
            phaseRevision |-> <<>>, submitter |-> <<>>, validator |-> <<>>,
            executions |-> <<>>]

Init ==
  /\ caseStatus = [c \in Cases |-> "none"]
  /\ status = [p \in Processes |-> "none"]
  /\ home = [p \in Processes |-> None]
  /\ revision = [p \in Processes |-> 0]
  /\ accepted = [p \in Processes |-> None]
  /\ acceptances = [p \in Processes |-> {}]
  /\ phase = [x \in Phases |-> "none"]
  /\ phaseRevision = [x \in Phases |-> 0]
  /\ submitter = [x \in Phases |-> None]
  /\ validator = [x \in Phases |-> None]
  /\ executions = [k \in Keys |-> None]
  /\ loaded = [w \in Workers |-> None]
  /\ tx = [w \in Workers |-> Nothing]
  /\ stale = FALSE

-----------------------------------------------------------------------------
(* Locks and unlocked reads.                                               *)

ProcessLock(p) == <<"process", p>>
CaseLock(c) == <<"case", c>>
Advisory(key) == <<"advisory", key>>

(* Mutant: the row of a process is read without FOR UPDATE.                *)
FreeWithoutForUpdate(w, lock) ==
  lock[1] # "process" =>
    \A v \in Workers \ {w} :
      /\ lock \notin tx[v].locks
      /\ loaded[v] # None /\ loaded[v].intent = "delegate" => lock # Advisory(loaded[v].phase)

(* A delegation holds the advisory lock of its phase from before it loads. *)
Free(w, lock) ==
  \A v \in Workers \ {w} :
    /\ lock \notin tx[v].locks
    /\ loaded[v] # None /\ loaded[v].intent = "delegate" => lock # Advisory(loaded[v].phase)

Idle(w) == tx[w] = Nothing /\ loaded[w] = None

Load(w, row) ==
  /\ Idle(w)
  /\ loaded' = [loaded EXCEPT ![w] = row]
  /\ UNCHANGED <<rows, tx>>

(* The client's revision is one the phase has or had.                      *)
LoadPhase(w) ==
  \E intent \in {"transition", "delegate"}, x \in Phases :
    /\ phase[x] # "none"
    /\ intent = "delegate" => Free(w, Advisory(x))
    /\ \E expected \in 1 .. phaseRevision[x] :
         Load(w, [intent |-> intent, phase |-> x, expected |-> expected, status |-> phase[x],
                  revision |-> phaseRevision[x], submitter |-> submitter[x],
                  validator |-> validator[x]])

(* create_sale_process is given the case object its caller loaded.         *)
LoadCase(w) ==
  \E c \in Cases :
    /\ caseStatus[c] # "none"
    /\ Load(w, [intent |-> "create", case |-> c, status |-> caseStatus[c]])

Loaded(w, intent) == tx[w] = Nothing /\ loaded[w] # None /\ loaded[w].intent = intent

(* The phase that the session loaded has changed.                          *)
Outdated(w) ==
  LET row == loaded[w] IN
  /\ row # None /\ row.intent # "create"
  /\ <<row.status, row.revision, row.submitter, row.validator>> #
       <<phase[row.phase], phaseRevision[row.phase], submitter[row.phase], validator[row.phase]>>

Begin(w, writes) ==
  /\ tx' = [tx EXCEPT ![w] = writes]
  /\ loaded' = [loaded EXCEPT ![w] = None]
  /\ UNCHANGED rows

-----------------------------------------------------------------------------
(* Cases.                                                                  *)

(* The id comes from a sequence, which gives it to one request only.       *)
CreateCase(w) ==
  \E c \in Cases :
    /\ Idle(w)
    /\ caseStatus[c] = "none" /\ \A v \in Workers : c \notin DOMAIN tx[v].case
    /\ Begin(w, [Nothing EXCEPT !.case = [y \in {c} |-> "open"]])

LiveProcesses(c) == {p \in Processes : home[p] = c /\ status[p] \in Live}

CloseCase(w) ==
  \E c \in Cases, override \in BOOLEAN :
    /\ Idle(w)
    /\ Free(w, CaseLock(c))
    /\ caseStatus[c] = "open"
    /\ LiveProcesses(c) = {} \/ override
    /\ Begin(w, [Nothing EXCEPT
         !.locks = {CaseLock(c)},
         !.case = [y \in {c} |-> IF override THEN "closed_override" ELSE "closed"]])

-----------------------------------------------------------------------------
(* Processes.                                                              *)

LiveOfSale(s) == {p \in Processes : p[1] = s /\ status[p] \in Live}

(* A live process of the sale, or an older one with the same key, is       *)
(* returned or refused without a write.                                    *)
CreateSaleProcess(w) ==
  \E p \in Processes :
    /\ Loaded(w, "create")
    /\ Free(w, CaseLock(loaded[w].case)) /\ Free(w, Advisory(p))
    /\ loaded[w].status = "open"
    /\ LiveOfSale(p[1]) = {}
    /\ status[p] = "none"
    /\ Begin(w, [Nothing EXCEPT
         !.locks = {CaseLock(loaded[w].case), Advisory(p)},
         !.status = [q \in {p} |-> "active"],
         !.home = [q \in {p} |-> loaded[w].case],
         !.revision = [q \in {p} |-> 1],
         !.accepted = [q \in {p} |-> p[2]],
         !.acceptances = [q \in {p} |-> {p[2]}],
         !.phase = [x \in {p} \X Steps |-> "pending"],
         !.phaseRevision = [x \in {p} \X Steps |-> 1]])

Delegated(x) == \E k \in Keys : executions[k] = x

(* Mutant: a completed process may leave phases behind.                    *)
MayEndUnfinished(p, target) ==
  target \in {"completed", "cancelled"} => \A s \in Steps : ~Delegated(<<p, s>>)

MayEnd(p, target) ==
  /\ target = "completed" => \A s \in Steps : phase[<<p, s>>] \in Ended
  /\ target \in {"completed", "cancelled"} => \A s \in Steps : ~Delegated(<<p, s>>)

HasRevision(p) == revision[p] < MaxRevision[p[2]]

(* Mutant: the revision the client saw is not compared.                    *)
ProcessSeenIgnored(p, expected) == HasRevision(p)

(* The client saw the current revision of the locked process.              *)
ProcessSeen(p, expected) == revision[p] = expected /\ HasRevision(p)

TransitionProcess(w) ==
  \E p \in Processes : \E target \in ProcessMoves[status[p]], expected \in 1 .. revision[p] :
    /\ Idle(w)
    /\ Free(w, ProcessLock(p))
    /\ ProcessSeen(p, expected)
    /\ MayEnd(p, target)
    /\ Begin(w, [Nothing EXCEPT
         !.locks = {ProcessLock(p)},
         !.expected = [q \in {p} |-> expected],
         !.status = [q \in {p} |-> target],
         !.revision = [q \in {p} |-> revision[p] + 1]])

AcceptProposalVersion(w) ==
  \E p \in Processes, v \in Versions : \E expected \in 1 .. revision[p] :
    /\ Idle(w)
    /\ Free(w, ProcessLock(p))
    /\ status[p] \in Live
    /\ ProcessSeen(p, expected)
    /\ v \notin acceptances[p]
    /\ Begin(w, [Nothing EXCEPT
         !.locks = {ProcessLock(p)},
         !.expected = [q \in {p} |-> expected],
         !.accepted = [q \in {p} |-> v],
         !.acceptances = [q \in {p} |-> acceptances[p] \cup {v}],
         !.revision = [q \in {p} |-> revision[p] + 1]])

-----------------------------------------------------------------------------
(* Phases.  `row` is the phase as the session loaded it, before the lock.  *)

HasPhaseRevision(row) == row.revision < MaxPhaseRevision[row.phase[1][2]]

PhaseSeen(row) == row.revision = row.expected /\ HasPhaseRevision(row)

Validation(x, target) == x[2] \in Sensitive /\ target \in Ended

MayValidate(row, actor) ==
  /\ row.status = "awaiting_validation"
  /\ row.submitter \notin {None, actor}

(* The session writes a column only if its value differs from the loaded.  *)
Column(x, new, old) == [y \in {z \in {x} : new # old} |-> new]

TransitionPhase(w) ==
  LET row == loaded[w]
      x == row.phase
  IN
  /\ Loaded(w, "transition")
  /\ Free(w, ProcessLock(x[1]))
  /\ status[x[1]] \in Live
  /\ PhaseSeen(row)
  /\ \E actor \in Actors, target \in PhaseMoves[row.status] :
       /\ Validation(x, target) => MayValidate(row, actor)
       /\ Begin(w, [Nothing EXCEPT
            !.locks = {ProcessLock(x[1])},
            !.phase = [y \in {x} |-> target],
            !.phaseRevision = [y \in {x} |-> row.revision + 1],
            !.submitter =
              Column(x, IF target = "awaiting_validation" THEN actor ELSE row.submitter,
                     row.submitter),
            !.validator =
              Column(x, IF Validation(x, target) THEN actor
                        ELSE IF target = "active" THEN None ELSE row.validator,
                     row.validator)])

(* Mutant: a phase that ended can be delegated.                            *)
DelegableAny(row) == row.status # "none"

Delegable(row) == row.status \in {"pending", "active", "blocked"}

(* A key that was used before returns its execution or is refused.  The    *)
(* new execution comes with a task and an outbox event of the same key.    *)
DelegatePhase(w) ==
  LET row == loaded[w]
      x == row.phase
  IN
  /\ Loaded(w, "delegate")
  /\ Free(w, ProcessLock(x[1]))
  /\ caseStatus[home[x[1]]] = "open"
  /\ status[x[1]] \in Live
  /\ PhaseSeen(row)
  /\ Delegable(row)
  /\ ~Delegated(x)
  /\ \E k \in Keys :
       /\ executions[k] = None
       /\ Begin(w, [Nothing EXCEPT
            !.locks = {Advisory(x), ProcessLock(x[1])},
            !.phaseRevision = [y \in {x} |-> row.revision + 1],
            !.executions = [y \in {k} |-> x]])

-----------------------------------------------------------------------------
(* Commit and abort.                                                       *)

(* Unique indexes: the live processes of a sale, the operation key, the    *)
(* idempotency key and the active execution of a phase.                    *)

(* Mutant: no unique index over the live processes of a sale.              *)
AnyNumberLive(t) == FALSE

SecondLive(t) ==
  \E p \in DOMAIN t.status : t.status[p] \in Live /\ LiveOfSale(p[1]) \ {p} # {}

SameOperation(t) == \E p \in DOMAIN t.home : home[p] # None

SecondExecution(t) ==
  \E k \in DOMAIN t.executions : executions[k] # None \/ Delegated(t.executions[k])

Conflicts(t) == SecondLive(t) \/ SameOperation(t) \/ SecondExecution(t)

Overlay(f, g) == [x \in DOMAIN f |-> IF x \in DOMAIN g THEN g[x] ELSE f[x]]

Commit(w) ==
  LET t == tx[w] IN
  /\ t # Nothing
  /\ ~Conflicts(t)
  /\ caseStatus' = Overlay(caseStatus, t.case)
  /\ status' = Overlay(status, t.status)
  /\ home' = Overlay(home, t.home)
  /\ revision' = Overlay(revision, t.revision)
  /\ accepted' = Overlay(accepted, t.accepted)
  /\ acceptances' = Overlay(acceptances, t.acceptances)
  /\ phase' = Overlay(phase, t.phase)
  /\ phaseRevision' = Overlay(phaseRevision, t.phaseRevision)
  /\ submitter' = Overlay(submitter, t.submitter)
  /\ validator' = Overlay(validator, t.validator)
  /\ executions' = Overlay(executions, t.executions)
  /\ tx' = [tx EXCEPT ![w] = Nothing]
  /\ UNCHANGED loaded

(* A refused guard after the load, a refused row, or a lost connection.    *)
Abort(w) ==
  /\ ~Idle(w)
  /\ tx' = [tx EXCEPT ![w] = Nothing]
  /\ loaded' = [loaded EXCEPT ![w] = None]
  /\ UNCHANGED rows

Request(w) ==
  \/ LoadPhase(w)
  \/ LoadCase(w)
  \/ CreateCase(w)
  \/ CloseCase(w)
  \/ CreateSaleProcess(w)
  \/ TransitionProcess(w)
  \/ AcceptProposalVersion(w)
  \/ TransitionPhase(w)
  \/ DelegatePhase(w)

Next ==
  \E w \in Workers :
    \/ Request(w) /\ stale' = (stale \/ Outdated(w))
    \/ (Commit(w) \/ Abort(w)) /\ UNCHANGED stale

Spec == Init /\ [][Next]_vars

-----------------------------------------------------------------------------
(* Types of the state.                                                     *)

PhaseReads == [intent : {"transition", "delegate"}, phase : Phases, expected : PhaseRevisions,
               status : PhaseStatus \ {"none"}, revision : PhaseRevisions,
               submitter : Actors \cup {None}, validator : Actors \cup {None}]

CaseReads == [intent : {"create"}, case : Cases, status : CaseStatus \ {"none"}]

Partial(f, D, V) == DOMAIN f \subseteq D /\ \A x \in DOMAIN f : f[x] \in V

TxOK(t) ==
  /\ Partial(t.expected, Processes, Revisions)
  /\ Partial(t.case, Cases, CaseStatus \ {"none"})
  /\ Partial(t.status, Processes, ProcessStatus \ {"none"})
  /\ Partial(t.home, Processes, Cases)
  /\ Partial(t.revision, Processes, Revisions)
  /\ Partial(t.accepted, Processes, Versions)
  /\ Partial(t.acceptances, Processes, SUBSET Versions)
  /\ Partial(t.phase, Phases, PhaseStatus \ {"none"})
  /\ Partial(t.phaseRevision, Phases, PhaseRevisions)
  /\ Partial(t.submitter, Phases, Actors)
  /\ Partial(t.validator, Phases, Actors \cup {None})
  /\ Partial(t.executions, Keys, Phases)

(* Every row, read and pending write has the type of its column; nothing   *)
(* ever removes a row, an execution or the submitter of a phase.           *)
TypeOK ==
  /\ caseStatus \in [Cases -> CaseStatus]
  /\ status \in [Processes -> ProcessStatus]
  /\ home \in [Processes -> Cases \cup {None}]
  /\ revision \in [Processes -> Revisions \cup {0}]
  /\ accepted \in [Processes -> Versions \cup {None}]
  /\ acceptances \in [Processes -> SUBSET Versions]
  /\ phase \in [Phases -> PhaseStatus]
  /\ phaseRevision \in [Phases -> PhaseRevisions \cup {0}]
  /\ submitter \in [Phases -> Actors \cup {None}]
  /\ validator \in [Phases -> Actors \cup {None}]
  /\ executions \in [Keys -> Phases \cup {None}]
  /\ loaded \in [Workers -> PhaseReads \cup CaseReads \cup {None}]
  /\ DOMAIN tx = Workers /\ \A w \in Workers : TxOK(tx[w])

-----------------------------------------------------------------------------
(* Safety under any interleaving of requests.                              *)

(* A completed process has no unfinished phase, and neither a completed    *)
(* nor a cancelled one has a phase that a task still executes, although    *)
(* phases move and are delegated by requests that loaded them before the   *)
(* process lock (transition_process, transition_phase and                  *)
(* delegate_phase_to_task).                                                *)
EndedProcessIsSettled ==
  \A p \in Processes, s \in Steps :
    /\ status[p] = "completed" => phase[<<p, s>>] \in Ended
    /\ status[p] \in {"completed", "cancelled"} => \A k \in Keys : executions[k] # <<p, s>>

(* A sale has at most one live process, whichever of create_sale_process   *)
(* and the reopening of a completed process races with the other.          *)
OneLivePerSale ==
  \A p, q \in Processes : p[1] = q[1] /\ status[p] \in Live /\ status[q] \in Live => p = q

(* No update of a process is lost: what an open request will write to it   *)
(* was decided on the revision the client saw, which is still the current  *)
(* one (expected_revision under _lock_process).                            *)
ProcessWritesAreCurrent ==
  \A w \in Workers, p \in Processes :
    p \in DOMAIN tx[w].expected =>
      /\ tx[w].expected[p] = revision[p]
      /\ tx[w].revision[p] = revision[p] + 1

(* Nothing of a process that ended moves until it is reopened: neither its *)
(* accepted proposals nor the status, revision, submitter and validator of *)
(* any of its phases.  A request may have loaded a phase while the process *)
(* was live, and found it current; only its wait for the process lock and  *)
(* the status it reads under it keep the late write out (_lock_process).   *)
EndedProcessStandsStill ==
  [][\A p \in Processes : status[p] \in {"completed", "cancelled"} =>
       /\ accepted'[p] = accepted[p] /\ acceptances'[p] = acceptances[p]
       /\ \A s \in Steps :
            /\ phase'[<<p, s>>] = phase[<<p, s>>]
            /\ phaseRevision'[<<p, s>>] = phaseRevision[<<p, s>>]
            /\ submitter'[<<p, s>>] = submitter[<<p, s>>]
            /\ validator'[<<p, s>>] = validator[<<p, s>>]]_vars

-----------------------------------------------------------------------------
(* Two persons, and open work.                                             *)

(* A sensitive phase that ended was submitted by one person and validated  *)
(* by another (transition_phase).  Overlapping requests break this: the    *)
(* submitter is compared as it was loaded, before the lock.                *)
FourEyes ==
  \A x \in Phases : x[2] \in Sensitive /\ phase[x] \in Ended =>
    submitter[x] # None /\ validator[x] # None /\ submitter[x] # validator[x]

(* That is all that breaks it.  However requests overlap, two persons stand*)
(* behind the end of a sensitive phase as long as each request that decided*)
(* on a phase, when it held the process lock, had loaded it as it was then.*)
FourEyesWhenCurrent == ~stale => FourEyes

(* A task is made only of a phase that at that moment has not ended and    *)
(* awaits no validation, in a live process, with the same proviso          *)
(* (delegate_phase_to_task).  The case is looked at, but nothing locks it. *)
DelegatesOpenWork ==
  [][~stale => \A k \in Keys : executions[k] # executions'[k] =>
       LET x == executions'[k] IN
       /\ phase[x] \in {"pending", "active", "blocked"}
       /\ status[x[1]] \in Live]_vars

=============================================================================
