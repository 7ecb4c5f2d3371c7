# Verification of the CarFast operational hub

TLA+ models of the stateful core of the hub (a FastAPI application over one
PostgreSQL database), checked on small instances with TLC, with central safety
properties proved for every instance with TLAPS.

The hub is a set of request handlers. Each handler opens an ORM session, reads
rows, decides, and commits; several web workers, a scheduled command and the
webhooks of a mail provider do so at the same time. What is hard to test is what
happens between the read and the commit: rows read before the lock that protects
them, values computed from rows that somebody else changes meanwhile, a second
click, a call that is repeated, a crash before the commit. And several surfaces
(new pages, old pages, REST API) write the same rows with rules of their own. The
models are built around exactly that.

## 1. Inventory

| Component | State | Operations | Hard behaviour | What makes it correct | Here |
|---|---|---|---|---|---|
| Stock ledger (`services/stock.py`, `web/stock.py`, `stock_domain/`) | movements (append-only), discrepancies, receipts, order lines, inventory sessions and counts, material needs, invoice imports | manual movement, reversal, receipt (also against an order), purchase order, blind inventory, regularise a discrepancy, deliver a workshop request, deactivate an article; import, check and receive invoices | no lock except on workshop needs; absolute values from stale reads; one request books several movements | every event booked once; a reversal cancels one posting; orders, discrepancies and sessions agree with the ledger; nothing is delivered that is not there | `StockLedger`; invoices not |
| Case and process workflow (`services/case_workflow.py`) | cases, processes, phases, executions, acceptances | create and close a case, create a sale process, move a process or a phase, delegate a phase, accept a proposal version | phase rows loaded before the process lock; client revisions | one live process per sale, no lost update, a process ends settled, a sensitive phase ends by two people | `CaseWorkflow` |
| Task recurrence (`services/task_recurrence.py`, forms in `web/router.py`) | templates with `next_run_at`, occurrences | generate (command, templates page, task centre), create, update, toggle a template | overlapping runs, crashes, forms saved late; month ends and clock changes | one task per slot, none left out, none early, backlog worked off | `TaskRecurrence`, `Calendar` |
| Tasks (`web/router.py`, `api/routes/tasks.py`, `services/task_workflow.py`, `task_support.py`) | status, executor, questions, successors | transition, edit, claim, ask for support or a decision and answer, close, reopen, on four surfaces | each surface has its own rules; questions interrupt one another; overtaken saves | questions and status agree, one open question of a kind, a concluded task is stamped for every surface | `TaskDesk` |
| Task cases (`services/task_cases.py`) | groups of tasks, active while one is unfinished | open a related case, add a task | the form still holds a task as it was when the case was active | tasks join active cases only | in `TaskDesk` |
| Service desk and SLA (`services/service_desk.py`) | deadlines, pause, total paused | initialise, pause, resume, respond, resolve, assign, claim | waits interrupted by questions, by sending, by conclusion | the service level counts worked time, once | `ServiceDesk` |
| E-mail (`services/email_postmark.py`, `email_transport.py`, `web/email.py`) | conversations, messages, webhook events, deliveries, linked tasks | webhooks for incoming mail and for reports; draft, edit, approve, send; statuses, triage, spam, task | repeated, reordered, lost calls; sending succeeds and the commit does not; approval overtaken | mail stored once, reports counted once, the worst report stays, nothing left behind | `EmailDesk`, `MailSpec` |
| Photo capture (`services/photo_capture.py`, `api/routes/photo_actions.py`) | captures, photographs | create, upload, remove, submit, review, repeat | an upload waits for its file while the capture is reviewed | an approved capture holds reviewed photographs only | `PhotoCapture` |
| Workshop process (`web/router.py`, `api/routes/workshop.py`) | process, phases, reports, alerts | entry, save, advance, last substep, optional phase, report, cancel, reopen; nine REST handlers | two surfaces with different phases; JSON metadata written as a whole; phases wait for captures | evidence behind completed phases; what is closed is over and done | `WorkshopPhases`, `WorkshopApi` |
| Vehicle sales (`web/vehicle_sales.py`) | proposals and versions, lines, sale profiles | create, edit lines, send, cancel, complete, reopen, reserve and sell a lot, status by hand, bulk prices | two lots want one vehicle; versions reopened; columns written one by one | no lot takes another's vehicle; what is held stands on a version | `VehicleSales` |
| Classification proposals, templates of tasks and their processes | proposals, JSON contexts | propose, decide, start, advance | whole-JSON writes from stale reads | a decision is applied once | planned |
| Portal, management centre, suppliers and partners, documents, vehicle history, importers, users and permissions, platform helpers, navigation and administration, migrations, templates | rows edited by one form at a time, files, pages | create, edit, render, parse | mostly input and output | not modelled, section 7 | no |

Components meet in the database. Workshop needs are written by the workshop
handlers and delivered by stock; phases wait for captures; a cancelled workshop
process cancels its tasks; phases of sale processes are executed by tasks; an
incoming mail opens a task, and the task's conclusion brings the mail back;
recurrences make tasks; the service desk keeps the clock of tasks and of mails.

## 2. Modules

| Module | What it is |
|---|---|
| `StockLedgerSpec` | Abstract: batches are appended; a movement is reversed at most once and a reversal never; an event of certain types is booked once per article. |
| `StockLedger` | The handlers of the stock ledger, one action each. Implements `StockLedgerSpec`. |
| `CaseWorkflow` | Cases, processes, phases, delegations and acceptances with their locks and stale reads. |
| `TaskRecurrence` | Generation runs, template forms, crashes, the clock. It numbers the slots. |
| `Calendar` | `advance_schedule`: days, months and Lisbon's clock; why slots can be numbered. |
| `ServiceDesk` | The clock of the service level, as operators on an item of work. |
| `TaskDesk` | The life of a task on four surfaces, with its questions, executor, successors and case; extends `ServiceDesk`. |
| `MailSpec` | Abstract: a mail is stored at most once; a report counts at most once, and only about a mail that was sent. |
| `EmailDesk` | Webhooks, sending, conversations and their tasks, with lost and repeated calls and crashes. Implements `MailSpec`. |
| `PhotoCapture` | Captures of photographs and what a step that waits for them asks. |
| `WorkshopPhases` | The workshop process on the clean pages; extends `PhotoCapture`. |
| `WorkshopApi` | The REST API on the same rows, and the composition of the three surfaces. |
| `VehicleSales` | Lots of vehicles offered to merchants. |
| `StockLedgerProofs`, `CaseWorkflowProofs`, `TaskRecurrenceProofs`, `CalendarProofs`, `TaskDeskProofs`, `EmailDeskProofs`, `WorkshopProofs`, `VehicleSalesProofs` | Theorems and their proofs. |
| `MC...` | Constants and symmetry of the instances given to TLC. |

### How a transaction is modelled

The database runs READ COMMITTED, and an ORM session emits absolute values, but
only for columns whose value differs from the one it loaded. That is the source
of most hazards, and the models keep it in two forms.

*With a transaction of its own* (`StockLedger`, `CaseWorkflow`). The first step is
the handler: it reads the committed rows, tests every guard in the order of the
code and keeps in `tx[w]` the rows it will insert and the *cells* it will update
(partial functions over the columns). The second is `Commit(w)`, which writes the
cells over whatever others committed in between and fails if a unique index
refuses a row (`Conflicts`), or `Abort(w)`, which writes nothing: a lost
connection, a killed worker or a refused row. With one worker the same actions are
the program without overlap, and some properties of the stock are claimed only
there.

*With a view* (`TaskDesk`, `EmailDesk`, `WorkshopPhases`, `WorkshopApi`,
`PhotoCapture`, `VehicleSales`). Every handler is an operator of `v`, the rows that
its request loaded. A *prompt* request sees the rows as they are, in one step. A
*slow* request takes its view with `Load(r)` and acts with `Overtaken(r)`, any
number of requests later; what it writes is the difference between its view and
its result, laid over the present rows. Reads that the code makes after loading
(photographs counted at the end of an upload, a row locked and refreshed) are taken
from the present rows. History variables note when a request wrote from a view
that was no longer current (`stale`, `hasty`, `loose`), or went around a rule on
purpose of the code (`strayed`, `bypassed`, `late`, `recalled`); a property names
the ones it is excused by, so what it does not name it holds against.

Locks are modelled where the code takes them and nowhere else: `FOR UPDATE` rows
and advisory locks, which a transaction keeps until it ends (`tx[w].locks`,
`tx[w].locked`), `FOR UPDATE SKIP LOCKED` in the generation of recurrences, and
tasks locked and loaded again before a decision is asked for (`LocksTask`, always
prompt). Nothing locks an article, an order line, an inventory session, a
conversation, a capture, a workshop process or a proposal.

In `CaseWorkflow` some requests have a third, earlier step. `transition_phase` and
`delegate_phase_to_task` load the phase with `db.get` before they lock the process.
The later `SELECT ... FOR UPDATE` of the phase waits for the row but leaves the
loaded object as it is, because the session does not refresh an object it already
holds. `LoadPhase` records what was loaded in `loaded[w]`, and `TransitionPhase` and
`DelegatePhase` decide on that record while they read the process, which is first
loaded under its lock, as committed. The history variable `stale` notes that one of
them decided on a record that was no longer the phase. The same holds for the case
object handed to `create_sale_process` (`LoadCase`). `create_case` takes an id that
no other open request has, since it comes from a sequence.

In `TaskRecurrence` a run is finer: `Start` selects and locks, each `Generate` is
one turn of the inner loop, `Commit` publishes, `Crash` forgets. Between them
other runs and forms move. Each run is a process of its own, so the process-wide
`_generation_lock` never makes it wait; runs in one process are a special case.

In `EmailDesk` sending is three steps, `Dispatch`, `Accept` by the provider and
`Conclude`, and a request may `Die` in each gap: then the mail is out and no row
knows it, so that reports about it are refused and repeated. The provider repeats
every webhook until it is answered with success, and `Answer` may lose the answer
after the commit.

### State and actions against the code

`PROJECT.json` gives the lines of every definition. Names follow the code:
`movements`, `received`, `receiving`, `snapshot`, `counted`, `adjusted` are the
columns of `models/stock.py`; `revision`, `accepted`, `submitter`, `validator` those
of `models/task_templates.py` and `models/case_workflow.py`; `enabled`, `nextRun`,
`interval` those of `models/tasks.py`; in `TaskDesk` and `EmailDesk` a row is a record
with the columns that a guard reads (`firstDue`, `due`, `paused`, `total`,
`resolved`, `claimed`). Quantities are integers in a range, for a NUMERIC(14, 3)
column: a value out of range fails its statement and with it the request. Names,
texts, prices, audit rows and timestamps that no guard reads are left out. What a
long form of the workshop says is one of `open`, `closed` and `reserved`.

## 3. Properties

Stock, under any interleaving: `ReversedAtMostOnce`, `NeedDeliveredOnce`,
`BalanceIgnoresReversed` (what users see is the sum of the postings nobody
reversed, transfers included) and `LedgerPromise` (the refinement). One request at
a time: `SerialLedgerPromise` (the same refinement with inventory sessions and
discrepancies as single events too), `NoOverdraw`, `AdjustmentMatchesCount`,
`ReceivedMatchesEntries`, `OrdersTellReceipts` (the status of an order and the
open discrepancies tell exactly what was received against what was ordered). These
rest on requests that do not overlap: the code takes no lock there and, except
for the case in section 5, no text promises more.

Workflow, under any interleaving: `EndedProcessIsSettled`, `OneLivePerSale`,
`ProcessWritesAreCurrent`, and the action property `EndedProcessStandsStill` (no
request that loaded a phase while the process was live changes it, or accepts a
version, after the process ended; reopening moves the process alone). Under any
interleaving, as long as no request decided by a phase that had changed:
`FourEyesWhenCurrent` and the action property `DelegatesOpenWork` (the phase is
open and its process is live at the commit; the case is not in it, since nothing
locks a case). Requests overlap in these too: it is the row lock that keeps the
second submission out, and each fails when the lock is taken out of the model.

Recurrence: `RunsAreCurrent`, `OneTaskPerSlot`, `NothingEarly`, the action
properties `GeneratesOnlyEnabled` and `LeavesNoSlot`, and the liveness property
`CatchesUp`. Calendar: `SlotsAdvance` (every slot is later than the one before, so a
number stands for a slot) and `SlotsKeepDayAndHour` (a slot, got from the one before
it again and again, is the day that counting from the first one gives, and its
hour in Lisbon). `CalendarIsRegular` evaluates both with every run of the module.

Tasks: `SlaCountsWorkedTime` (what is left of both deadlines is what was allotted
less the time the task was not waiting, through pauses, questions that interrupt a
wait, conclusion and reopening), `QuestionsMatch`, and `SurfacesAgree`, in two parts.
`FinishedIsStamped`: the surfaces do not agree on what is over. Three statuses are
final everywhere; the API counts 'resolved' too, and gives it a time of closure
(`api/routes/tasks.py:674`) that the pages clear. What holds of all four statuses,
on whichever surface the task got there, is that the task is answered and resolved
and its clock stands; what holds of the time of closure is that the three final
statuses have it, and that nothing has it but a concluded task or one of which a
decision was asked while it was 'resolved'. A task cancelled with its workshop
process gets no stamps (`taken`), and the property says so by name; every other
cancelled task is in it. `ExecutorIsOne`: claim, executor and state agree.

That a task gets one successor at a time is no property: `create_next_recurring_task`
asks for an open one, and two conclusions that overlap can both find none.
`JoinsActiveCase` is violated, section 5.

E-mail: `MailPromise` (the desk implements `MailSpec`), `FateIsWorstReported`,
`PausedIsWaiting`, and the liveness property `MailArrives`.

Workshop and captures: `EvidenceBehindPhases` and `OutcomeAgrees` (a process with a
time of closure is over; one closed on the clean pages has done its phases; and one
that is over without a time of closure came to it in the one way of section 5).

Vehicle sales: `HeldIsListed` and the action property `NoLotTakesAnothers`;
`OneDraftPerLot`, on which they rest, is proved with them.

## 4. Runs and bounds

| Run | Instance | Why it is enough |
|---|---|---|
| `StockReceipts` | 1 worker, 2 articles, 1 location, an order of two lines of 1, quantities 1 and 2, receipts of up to 2 lines, 2 needs, 4 movements | over-delivery at once or in two receipts, a second excess, both lines in one receipt, reversal and delivery of what was received, regularisation |
| `StockInventory` | 1 worker, 2 articles, counts 0 and 1, 3 movements | a session of one or two articles that moves up, down or not at all, an article switched off in review, recount and cancel |
| `StockRacing` | 2 workers, 1 article, 2 locations, 1 key, 1 need, 3 movements | each pair of handlers in every order of read and commit: two reversals, two receipts with one key, two deliveries, transfers between two places |
| `StockDoubleConfirm` | 2 workers, 1 session | the shortest history that books an inventory twice |
| `WorkflowRacing` | 2 workers, 2 actors, 1 sale, 2 proposal versions, one sensitive phase, 1 delegation key; process and phase revisions up to 4 for the first version, 1 for the second | every pair of operations on one process, one with a stale phase; submit, send back, submit again, validate; completing and reopening takes three revisions; version 1 is reopened while version 2 is created. A phase that is not sensitive only lacks the step of validation |
| `WorkflowFourEyes` | 2 workers, 2 actors, a sensitive phase | the history of section 5 |
| `RecurrenceRuns` | 2 runs, 1 form, 2 templates, clock up to 2, limit 2, 1 saved form, 1 crash; for the calendar 171 first instants, every 1, 5 or 12 days, weeks or months, 13 steps | three slots of backlog against a limit of two, two templates that compete for it, a form that sets a template back or off in the middle of a run, a crash at every step; ends of months, a leap day, both changes of the clock |
| `TaskRequests` | any 3 requests, 1 of them slow, clock up to 2, 2 questions of each kind, 2 successors, 2 other tasks in the case | a wait interrupted by a question of each kind, a conclusion and a reopening in between; concluded on one surface and reopened on another, 'resolved' in between; a slow request overtaken by two others |
| `TaskCaseJoins` | 4 requests, 1 of them slow, up to 2 other tasks in the case, no clock and no questions | open a case, finish its other task, conclude this one under the form that adds another |
| `EmailDelivery` | 2 copies of an answer to a sent mail, a delivery and a bounce report, 1 message out, 2 requests of users, 1 slow request, 1 failure | copies overlap, reports come in both orders, before the sending is committed and again after a lost answer; the answer arrives before or after the mail it answers is known |
| `WorkshopSurfaces` | 2 templates, 6 requests on a process of the clean pages or 3 on one of the API, 2 photographs, 2 captures (with and without review), 1 report, 1 reopening; 1 slow request overtaken by up to 2 | through a short template to its end; a photograph uploaded over a review; a phase advanced while its capture is repeated; an optional phase added late |
| `SaleLots` | 2 lots of 2 versions, 2 vehicles, 6 requests, 1 slow | reserve, reopen, edit the new draft, send and cancel it, with another lot or a user after the same vehicle |

Every bound is a constant that only stops a counter the program increments for
ever: `MaxMovements`, `MaxAmount`, `MaxReceiptLines`, `MaxRevision`,
`MaxPhaseRevision`, `Horizon`, `MaxEdits`, `MaxCrashes`, `MaxCommits`,
`MaxQuestions`, `MaxRelated`, `MaxOut`, `MaxWork`, `MaxFailures`, `MaxCaptures`,
`MaxReports`, `MaxReopenings`, `MaxOvertaking`, `CleanRequests`, `ApiRequests`,
`MaxVersion`, `Steps`. Deadlock is not checked: at its bounds each model may stop,
and a system without requests is idle. `WorkflowRacing` and `SaleLots` use
symmetry, over requests and users and over vehicles and lots; no property of
theirs is a liveness property.

## 5. Findings

### Against the text of the repository

*An inventory can be booked twice* (`StockDoubleConfirm`).
`confirm_inventory_session` tests the status and the adjustment of rows it read
without a lock. Two overlapping confirmations both book the adjustment, although
`tests/test_stock_final_reorganization.py:619` states that confirming twice books
one movement.

*One person can submit and validate* (`WorkflowFourEyes`). Two overlapping
submissions of a sensitive phase both load it as active. The first commits; a
manager opens the validation and loads the first submitter; the second
submission, by that manager, commits; the manager's validation then compares the
manager with the first submitter, whom it loaded, and passes. The code says
"Sensitive phase requires a different validator"
(`services/case_workflow.py:299`), and a test requires it. `populate_existing` on
the locked read would close it. The same stale read lets phase updates be lost and
lets a phase that has ended be delegated: no property says that phase updates are
not lost, and `DelegatesOpenWork` is claimed until a request decides by a phase
that had changed.

*A task is added to a completed case* (`TaskCaseJoins`). The form that adds a task
resolves the case and keeps one of its tasks, which it will copy
(`router.py:6392`). `add_task_to_case` asks under the lock of the case and its tasks
whether the case is active still, but its `SELECT ... FOR UPDATE`
(`services/task_cases.py:118`) leaves the kept object as it was loaded. If that was
the last unfinished task and it was concluded meanwhile, the case is completed and
gets a task, although the docstring at `router.py:6228` says that completed cases
fail closed and `tests/test_task_cases.py:199` that the state is asked again inside
the transaction; the test concludes the task before the session loads it.
`create_related_case` has `populate_existing` at the same place.

### What the code does and a property is excused by

Modelling met these. The models have them, and the history variable or the clause
in brackets is the place where a property lets them pass.

- Tasks: a legacy or REST save over a status that a question set leaves the question
  open (`strayed`). Cancelling a workshop process drops a wait without ending it
  (`strayed`) and leaves the task without stamps (`taken`). A task that the API
  resolved has a time of closure, and the pages clear it when they save the task,
  still 'resolved', `router.py:7747`, 8181, 37246; a decision asked of it sends it
  into execution with its time of closure (both are said in `FinishedIsStamped`).
  Two conclusions of a recurring task that overlap each make a successor.
- E-mail: a draft or an approval on a waiting conversation takes it out of its wait
  and leaves the clock stopped, `web/email.py:3039` (`strayed`). Approving a message
  that cannot be approved makes a draft of it, of sent mail too (`recalled`). An
  edited draft cannot be approved any more.
- Captures: an upload that was slow puts an unreviewed photograph into a capture
  approved meanwhile, `photo_actions.py:140` (`hasty`). A removed photograph cannot
  be taken again, and a rejected capture that was repeated keeps blocking. A capture
  whose configuration asks for no review can be rejected all the same, also behind a
  phase that is completed, and filled again; it is then captured and no more
  approved, so `EvidenceBehindPhases` asks of such a capture only that it is filled.
- Workshop: saving the last substep of a phase completes it, and closes the process
  after the last phase, without asking for photographs, `router.py:26596`
  (`bypassed`), although a required capture is meant to block the phase until it is
  approved, `tests/test_photo_capture_action.py:270`. A report sends the process to
  the diagnosis, even off its template, `router.py:26881` (`strayed`). A slow entry
  save erases what a cancellation noted, so that a reopened process is open,
  `router.py:25205`. A process that the API completed can be cancelled on the clean
  pages, since only closed and cancelled ones are read-only there; reopening it
  gives back the status noted by the cancellation and clears the time of closure,
  `router.py:26000-26022`, where only closed and cancelled are turned into open: it
  is then completed and open at once, and takes services again
  (`api/routes/workshop.py:1210`). `OutcomeAgrees` names this way and admits no
  other. The API acts on processes that are over (`strayed`), a voided report is
  revived by its validation, and an alert of high severity is never resolved.
- Vehicle sales: a lot may be reserved from a draft, whose line may then be removed
  (`loose`); superseded versions still reserve and sell, only cancelled ones do not,
  `vehicle_sales.py:1858`. A delivered vehicle, and one sold by its life cycle that
  has no profile, is no conflict. Two overlapping lots can both take a vehicle
  (`OvertakenOn`), and columns written one by one can leave a vehicle with a lot and
  another one's status (`loose`): the model has these overlaps, but no property of
  the run catches them, nor could one hold. A slow sending revives a cancelled
  proposal.
- Calendar: after February a template of the 31st keeps the 28th or 29th for good;
  one at 01:00 in Lisbon keeps 02:00 for good after the change in spring. A monthly
  step from the repeated hour of autumn straight onto the day of the change in
  spring (29 months from 2023-10-29 01:00 UTC) lands at midnight; the steps of the
  run do not reach it.

## 6. Proofs

`StockLedgerProofs`, for any number of workers, articles, locations, orders,
needs and keys, under the assumptions on constants in `StockLedger` (the needs
are finitely many, the lines are well typed, `None` is no value):

- `Inductive`: `IndInv == TypeOK /\ ReversedAtMostOnce /\ NeedDeliveredOnce /\
  PendingSound` is inductive. The ledger properties alone are not, because a
  commit writes what its request decided earlier. `PendingSound` says what is
  known of those pending writes: a pending reversal names a committed posting, a
  pending receipt carries its key, a pending delivery holds the row lock of its
  need and nothing was booked for it, and no two requests hold one lock. Each
  handler establishes it for its own writes (lemmas `ReceiveKeeps`,
  `DeliverKeeps`, ...), and `CommitKeeps` shows that a commit preserves it for
  the writes of all the others, from the unique constraints and the locks.
- `TypesPreserved`, `SingleReversal`, `SingleDelivery`, `PendingStaysSound`: the
  parts, as theorems of `Spec`.
- `KeepsLedgerPromise`: `Spec => LedgerPromise`. A commit appends one batch that is
  legal for `StockLedgerSpec` and everything else stutters.
- `ReversalsCancel`: the balance shown is that of the postings nobody reversed. It
  needs that a reversal is booked on the article of what it reverses, which a
  request decided before others committed (`SameArticle`). The rest is about
  sums: each reversal and its posting are taken out of the balance together
  (`SumCancels`), and no posting goes with two reversals.

What the stock promises of requests that do not overlap is proved under
`OneWorker`, that there is at most one worker: with two, stale reads break these
properties, and no code prevents it (section 3). `SerialInv` is inductive beside
`IndInv`. It says that the orders, discrepancies and sessions agree with the ledger
now, and that what the open request will write keeps them so (`Careful`): a receipt
adds to each line what it books there, reports the excess that remains and leaves
the order's status that follows; a posting is backed by what the batch before it
left; a session is completed with one adjustment for each row that differs.
The handlers give `Careful` from their guards; that the commit then preserves the
agreement is where the sums come in (`CommitReceives`, `CommitKeepsExcess`,
`CommitKeepsAdjustments`). `ReceiptsMatch`, `OrdersTell`, `AdjustmentsMatch` and
`SerialPromise` follow. `NeverOverdraws` adds an induction over the postings of one
batch (`BackedBatch`): each is backed after those before it, so none takes below
zero an existence it lowers, and the last balance is one the batch did not lower or
one that is not negative.

`TaskRecurrenceProofs`, for any number of runs, forms and templates, any limits
and any length of time: `TypeOK /\ RunsAreCurrent /\ OneTaskPerSlot /\
NothingEarly` is inductive. The invariant it needs is `RunsAreCurrent`: the
templates of an open run are as they were selected and belong to no other run,
and what it made is new and due. From it follow `OccurrencesAreUnique`,
`NeverEarly`, `RunsStayCurrent`, and `OnlyEnabledGenerate` as an action property.
`NoSlotIsLeft` proves `LeavesNoSlot` for every interval, where the runs have one
length only. It adds `NoGaps`: an open run has moved each template by a multiple of
its interval, and each slot it left has an occurrence or is among what it made. That
no other multiple lies between two neighbours is the lemma `Grid`.
The proofs use `None \notin Nat` and that intervals and limits are positive.

`CalendarProofs`, for every instant and every interval: `DaysAdvance`, a daily or
weekly step is later than the slot it starts from, and `MonthsAdvance`, so is a
monthly one, although it shortens the day to the month it reaches and the clock of
Lisbon may take an hour back on the way. The second rests on lemmas about the
ordinal of a date: a month starts after the one before it ends. That slots keep
their day and hour over many steps is only evaluated (`SlotsKeepDayAndHour`).

`VehicleSalesProofs`, for any number of lots, versions, vehicles and slow requests:
`SalesInductive` shows that `TypeOK`, `ViewsStand`, `OneDraftPerLot` and `HeldIsListed`
are inductive together. A slow request decides by its view, so the invariant has to
say what a view is still good for: `ViewsStand`, that a proposal it shows exists and
one it shows out of its draft is out of it still. A view shows nothing more than
that: lines and profiles may have changed, which is why `loose` takes the vehicles
that were written from such a view out of `HeldIsListed`. `SingleDraft`,
`LotsListWhatTheyHold` and the action property `HoldersStay` follow.

`CaseWorkflowProofs`, for any number of requests, cases, sales, versions, phases,
users and keys: `TypeOK`, `EndedProcessIsSettled` and `OneLivePerSale` are inductive
with what a request knows of its pending writes. A process is written by the
request that creates it or by one that holds its row lock (`LocksExclude`), and what
the latter is about to write was decided on the present revision (`SoundProcess`);
a phase is written only while its process is live and locked (`SoundPhases`), which
is why a completed process stays settled although phases are loaded before the
lock. `EndedStaysSettled`, `OneLiveProcess`, `NoProcessUpdateLost` and the action
property `EndedStandsStill` follow. `TwoPersonsWhenCurrent` and
`DelegationsAreOfOpenWork` hold for any number of overlapping requests too: their
invariant adds that, until a request decides by a phase that had changed, what a
request is about to write of a phase was decided on the phase as it is, because it
holds the phase's row from that decision to its commit.

`TaskDeskProofs`, for any number of overtaken requests, users and statuses and any
service level. `IndInv` relates the clock columns to two sums that no column holds,
the time worked and the time waited (`Counts`), says
that a conclusion leaves the stamps that other surfaces read (`Finished`, for
'resolved' as for the final statuses) and that its executor is one, that at most one
question of a kind is open and that the status lets it be answered, and bounds what
a view can still be wrong about: its questions are among those there are.
`WorkedTimeCounts`, `QuestionsAgree` and `SurfacesAgreeAlways` follow.

`EmailDeskProofs`, for any number of mails, copies, sent messages and requests and
any way in which calls are lost. `IndInv` says that rows, requests and what they
loaded refer to one another, that a number of the provider names one message or one
request that has not stored it yet, that a message shows the worst of what was
counted about it, and that a conversation that waits has its clock stopped.
`WorstReportStays` and `ClockStandsWhileWaiting` follow, and `KeepsPromise`:
`Spec => MailPromise`, every step of the desk stores one mail, sends one, counts one
report or changes nothing that `MailSpec` sees.

`WorkshopProofs`, for any set of requests, templates, optional phases, photographs
and configurations of captures. `IndInv` has the rows that exist whatever was done
(`RowsMade`), where a process, or a view of it, may be (`Placed`, `ViewsKnown`), an
entry form that only an untouched process still has (`EntryUnmade`), approved
captures with reviewed photographs only (`ApprovedIsReviewed`), the photographs
behind completed phases (`Evidence`), phases added once (`AddedOnce`), and the order
of the phases while nobody acted on rows that had changed (`InOrder`). Neither
`EvidenceBehindPhases` nor `OutcomeAgrees` is inductive without the others: what a
phase's completion found must survive uploads, removals and reviews, and an
outcome is reached one phase after another; and that only a reopening leaves a
process over and open rests on what cancellations note, which is never closed or
cancelled (`Ended`). `EvidenceStands` and `ClosedIsDone` follow.

The proofs corrected the models where the bounds of the runs had hidden a mistake:
the parameters of `CaseWorkflow` left out a case that its types need; a second
support request on a task that has an active one was possible for a view older than
any the run reaches (`OnlyActiveHelp`, the unique index `uq_task_help_active_task`);
`EvidenceBehindPhases` said more than the code keeps, and six requests on the API
show it; and `None` had to be no status of a row or a process.

Induction over data is out of the provers' reach as a rule, because the induction
theorems of the library take an operator. The proofs use the least element of a set
of numbers instead (`WFMin` on `NatLessThanWellFounded`), which takes none: as
`Numbers`, a set of numbers that has 0 and every successor has them all, in
`StockLedgerProofs`. From it follow what the sums of the ledger need, that
`SumFunctionOnSet` takes one element after another, in any order (`SumStep`,
`SumTakes`), and that it depends on the summands only (`SumSame`).

Only model-checked: `CatchesUp` and `MailArrives`, since liveness and ENABLED are
out of the prover's reach; `SlotsKeepDayAndHour`, which is about repeated steps
of a recursive definition; and what the three violated properties show.

### Fairness

Stock, workflow, tasks, workshop and sales have none: users may stop at any point
and only safety is claimed. `TaskRecurrence` assumes that the scheduler starts its
command again and again while something is due (weak fairness of
`Start(Scheduled)`; the operations guide schedules it every minute) and that a run
that does not crash goes on to its commit (weak fairness of `Generate` and
`Commit`). Crashes and edits are finitely many by their bounds: with a crash in
every run, or a form saved again and again, nothing could be promised. An
exception raised for one template in every run would be such a case, and it would
hold up all templates.

`EmailDesk` assumes that the provider repeats a call until it is answered
(`DeliverAgain`, `ReportAgain`; the webhooks answer an unmatched report with an
error in order to get it again) and that somebody opens the inbox now and then
(`Page`), because the code brings back a conversation whose task was concluded only
then. It does not assume that a slow request ends, that a user approves anything,
or that a sent mail is known: a request that died after sending leaves its
reports uncounted, and `MailArrives` speaks of messages that the desk knows.

## 7. Not modelled

Of the modelled components:

- stock: average cost and prices, import, check and receipt of invoices, vehicle
  compatibility, delivery documents;
- workflow: publication of process models, the outbox, which no code reads;
- recurrence: the five-minute throttle of the task centre, which only delays;
- tasks: queues, bulk edits, imports, attachments, templates of tasks, the pages of
  a case;
- e-mail: the Microsoft 365 transport, attachments, the rules of triage themselves
  (a mail's rule is a constant), mailbox settings;
- captures: formats, storage, locations, the definitions of captures;
- workshop: templates and services, checklists, extraction of reports; two requests
  that both make the missing row of a phase;
- sales: prices, images, publications, the interest of the public; that a price or a
  publication gives a vehicle its sale profile is modelled.

Permissions are assumed: every actor may do what the handler offers. A request that
a guard outside the model refuses changes nothing, which every model allows.

Of the other components: the portal checks a token and renders or stores one form;
importers, invoice audit and OCR parse files; vehicle history consolidates imported
files; suppliers, documents, users and administration are forms over single rows;
migrations, templates and assets have no state of their own. Their rows are not
raced for by several actors in a way that a property would be about, or they are
input and output. Navigation and rendering are most of `web/router.py` by length.

## 8. Plan

1. Done: stock ledger with its abstract specification and proofs; workflow;
   recurrence and calendar with proofs; tasks and service level; e-mail with its
   abstract specification; captures and the workshop on both surfaces; vehicle
   sales with proofs.
2. Proofs: done for every component but the properties that section 6 lists as only
   model-checked.
3. Invoices in stock: import by hash and by number, validation, receipt, removal,
   with the races between removal, receipt and a second validation.
4. Processes of task templates (`services/task_templates.py`), whose whole JSON
   context is read, changed and written back without a lock, and classification
   proposals.
5. The pages of a task case.
