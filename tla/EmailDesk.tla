----------------------------- MODULE EmailDesk -----------------------------
(***************************************************************************)
(* The e-mail desk (app/services/email_postmark.py, app/web/email.py): the *)
(* provider's webhooks for incoming mail and for what became of sent mail, *)
(* the approval and sending of answers, and the state of the conversations *)
(* with their linked tasks.                                                *)
(*                                                                         *)
(* The provider calls a webhook again until it is answered with success.   *)
(* As in TaskDesk a request decides by the rows that it loaded: a prompt   *)
(* one by the present rows, a slow one by its view, and it writes the      *)
(* columns it changed.  Sending calls the provider between the two.        *)
(*                                                                         *)
(* There is one channel; a mail is what a logical key stands for, and its  *)
(* copies are the webhook events that carry it.                            *)
(***************************************************************************)
EXTENDS Naturals, Sequences, FiniteSets

CONSTANTS
  Copies,       \* webhook events of incoming mail
  MailOf,       \* copy -> mail
  Parent,       \* mail -> the mail that it answers, Ours for a sent one, None
  Ours,
  Kinds,        \* reports about a sent mail
  Slow,         \* requests that may be overtaken
  AutoTask,     \* mail -> auto_task_mode of its rule: "open", "complete" or None
  Pauses,       \* sla_pause_on_waiting
  Statuses,     \* statuses that a user sets by hand
  MaxOut,       \* bound on outgoing messages
  MaxWork,      \* bound on the requests of users
  MaxFailures,  \* bound on crashes, lost answers and refused sendings
  Gone,         \* a request that has ended
  None

Mails == {MailOf[c] : c \in Copies}

ASSUME MailAssumption ==
  /\ MaxOut \in Nat /\ MaxWork \in Nat /\ MaxFailures \in Nat
  /\ \A m \in Mails :
       Parent[m] \in Mails \cup {Ours, None} /\ AutoTask[m] \in {"open", "complete", None}
  /\ Pauses \in BOOLEAN /\ None \notin Mails
  /\ Kinds \subseteq {"delivery", "soft", "hard", "spam"}

StatusLabels ==
  {"triage", "in_progress", "waiting_reply", "new_reply", "waiting_approval",
   "returned", "associated", "task_created", "resolved", "archived"}

MessageStates ==
  {"received", "read", "draft", "pending_approval", "approved", "sent",
   "soft_bounced", "delivered", "bounced", "spam_complaint"}

ASSUME StatusesAssumption == Statuses \subseteq StatusLabels

VARIABLES
  threads,    \* the conversations
  messages,   \* their messages; mid is external_message_id of a sent one
  taskDone,   \* task -> it is concluded
  ingested,   \* copies with a webhook event and a delivery
  counted,    \* processed reports, in the order of their processing
  accepted,   \* number of mails that the provider accepted to send
  raised,     \* reports that the provider has about them
  answered,   \* copies and reports it no longer repeats
  view,       \* slow request -> the rows it loaded and what it sends, None
              \* before that, Gone when it has ended
  work, failures,
  stale,      \* history: a request decided by rows that were not current
  strayed,    \* history: a waiting conversation was left with its clock stopped
  recalled    \* history: a sent message was made a draft again

rows == <<threads, messages, taskDone, ingested, counted>>
provider == <<accepted, raised, answered>>
history == <<stale, strayed, recalled>>
vars == <<rows, provider, view, work, failures, history>>

Seen == [threads |-> threads, messages |-> messages,
         ingested |-> ingested, counted |-> counted]

Init ==
  /\ threads = <<>> /\ messages = <<>> /\ taskDone = <<>>
  /\ ingested = {} /\ counted = <<>>
  /\ accepted = 0 /\ raised = {} /\ answered = {}
  /\ view = [r \in Slow |-> None]
  /\ work = 0 /\ failures = 0
  /\ stale = FALSE /\ strayed = FALSE /\ recalled = FALSE

-----------------------------------------------------------------------------
(* Requests.                                                               *)

Load(r) ==
  /\ view[r] = None
  /\ view' = [view EXCEPT ![r] = [rows |-> Seen, job |-> None, mid |-> 0]]
  /\ UNCHANGED <<rows, provider, work, failures, history>>

IsRunning(r) == view[r] \notin {None, Gone}

Die(r) ==
  /\ IsRunning(r) /\ failures < MaxFailures
  /\ view' = [view EXCEPT ![r] = Gone]
  /\ failures' = failures + 1
  /\ UNCHANGED <<rows, provider, work, history>>

(* The rows after a commit: changed columns over the present values, added *)
(* rows behind the present ones.                                           *)
Columns(present, seen, new) ==
  [f \in DOMAIN new |-> IF new[f] # seen[f] THEN new[f] ELSE present[f]]

Merged(present, seen, new) ==
  [i \in 1 .. Len(present) + Len(new) - Len(seen) |->
     IF i > Len(present) THEN new[i + Len(seen) - Len(present)]
     ELSE IF i <= Len(seen) THEN Columns(present[i], seen[i], new[i]) ELSE present[i]]

(* A message of a conversation that is added with it.                      *)
Placed(v, message) ==
  IF message.thread <= Len(v.threads) THEN message
  ELSE [message EXCEPT !.thread = @ + Len(threads) - Len(v.threads)]

Commit(v, ts, ms) ==
  /\ threads' = Merged(threads, v.threads, ts)
  /\ messages' = Merged(messages, v.messages,
       [i \in DOMAIN ms |-> IF i > Len(v.messages) THEN Placed(v, ms[i]) ELSE ms[i]])
  /\ stale' = (stale \/ v # Seen)

Answer(call) ==
  \/ answered' = answered \cup {call} /\ UNCHANGED failures
  \/ UNCHANGED answered /\ failures < MaxFailures /\ failures' = failures + 1

Replaced(s, i, x) == [s EXCEPT ![i] = x]

-----------------------------------------------------------------------------
(* The service-level clock of a conversation: paused and resolved.         *)

(* Mutant: a customer's answer leaves the clock stopped.                   *)
StillWaiting(thread) == thread

Resumed(thread) == [thread EXCEPT !.paused = FALSE]

Waiting(thread) == [thread EXCEPT !.paused = @ \/ Pauses]

(* mark_email_resolved returns early when resolved_at is still set.        *)
Resolved(thread) ==
  IF thread.resolved THEN thread ELSE [Resumed(thread) EXCEPT !.resolved = TRUE]

(* A status written over waiting_reply without resuming the clock.         *)
LeftPaused(v, ts) ==
  \E t \in DOMAIN v.threads :
    ts[t].paused /\ v.threads[t].paused /\ ts[t].status # "waiting_reply"

Stray(v, ts) == strayed' = (strayed \/ LeftPaused(v, ts))

-----------------------------------------------------------------------------
(* Incoming mail: ingest_inbound.                                          *)

InboundOf(ms, mail) == IF mail = None THEN {} ELSE {i \in DOMAIN ms : ms[i].mail = mail}
Outgoing(ms) == {i \in DOMAIN ms : ms[i].mail = None}

NewThread(status) ==
  [status |-> status, paused |-> FALSE, resolved |-> FALSE, task |-> 0, validated |-> FALSE]

(* The customer writes again.                                              *)
Reopened(thread) ==
  IF thread.status \in {"waiting_reply", "resolved", "archived"}
  THEN [Resumed(thread) EXCEPT !.status = "new_reply"] ELSE thread

Inbound(mail, t) ==
  [thread |-> t, mail |-> mail, state |-> "received", mid |-> 0, approvable |-> FALSE]

(* Mutant: the unique key of the canonical delivery is missing.            *)
AnyDelivery(ms, mail) == TRUE

(* uq_email_message_delivery_canonical.                                    *)
FirstDelivery(ms, mail) == InboundOf(ms, mail) = {}

(* A first copy: it joins the conversation of the mail that it answers, or *)
(* opens one, which may get its task at once.                              *)
Added(v, mail) ==
  LET parents == IF Parent[mail] = Ours THEN {i \in Outgoing(v.messages) : v.messages[i].mid # 0}
                 ELSE InboundOf(v.messages, Parent[mail])
      mode == AutoTask[mail]
      status == CASE mode = "open" -> "task_created" [] mode = "complete" -> "resolved"
                  [] OTHER -> "triage"
      opened == [NewThread(status) EXCEPT !.task = IF mode = None THEN 0 ELSE Len(taskDone) + 1]
  IN
  IF parents = {}
  THEN /\ Commit(v, Append(v.threads, opened),
                 Append(v.messages, Inbound(mail, Len(v.threads) + 1)))
       /\ taskDone' = IF mode = None THEN taskDone ELSE Append(taskDone, mode = "complete")
  ELSE LET t == v.messages[CHOOSE i \in parents : \A j \in parents : j <= i].thread IN
       /\ Commit(v, Replaced(v.threads, t, Reopened(v.threads[t])),
                 Append(v.messages, Inbound(mail, t)))
       /\ UNCHANGED taskDone

Ingest(v, c) ==
  LET mail == MailOf[c] IN
  /\ c \notin answered
  /\ \/ c \in v.ingested                       \* repeated: nothing but the answer
        /\ UNCHANGED <<rows, stale>>
     \/ /\ c \notin v.ingested /\ c \notin ingested
        /\ ingested' = ingested \cup {c}
        /\ UNCHANGED counted
        /\ \/ /\ InboundOf(v.messages, mail) # {}
              /\ UNCHANGED <<threads, messages, taskDone, stale>>
           \/ /\ InboundOf(v.messages, mail) = {}
              /\ FirstDelivery(messages, mail)
              /\ Added(v, mail)
  /\ Answer(c)
  /\ UNCHANGED <<accepted, raised, work, strayed, recalled>>

-----------------------------------------------------------------------------
(* What became of a sent mail: ingest_outbound_event.                      *)

Raise ==
  \E mid \in 1 .. accepted, kind \in Kinds :
    /\ <<mid, kind>> \notin raised
    /\ raised' = raised \cup {<<mid, kind>>}
    /\ UNCHANGED <<rows, accepted, answered, view, work, failures, history>>

Rank(state) ==
  CASE state = "approved" -> 1 [] state = "sent" -> 2 [] state = "soft_bounced" -> 3
    [] state = "delivered" -> 4 [] state = "bounced" -> 5 [] state = "spam_complaint" -> 6
    [] OTHER -> 0

(* Mutant: the provider's name for what happened is taken as the state.    *)
TargetVerbatim(kind) == kind

Target(kind) ==
  CASE kind = "delivery" -> "delivered" [] kind = "spam" -> "spam_complaint"
    [] kind = "hard" -> "bounced" [] kind = "soft" -> "soft_bounced"

(* Mutant: the last report wins.                                           *)
LastReported(state, target) == target

WorstReported(state, target) == IF Rank(target) >= Rank(state) THEN target ELSE state

Counted(log) == {log[i] : i \in DOMAIN log}
SentAs(v, mid) == {i \in DOMAIN v.messages : v.messages[i].mid = mid}

IsKnown(v, mid) == SentAs(v, mid) # {}

ReportedIn(v, mid, kind) ==
  LET i == CHOOSE i \in SentAs(v, mid) : TRUE
  IN [v.messages EXCEPT ![i].state = WorstReported(@, Target(kind))]

CountReport(v, mid, kind) ==
  \/ /\ <<mid, kind>> \in Counted(v.counted)
     /\ UNCHANGED <<rows, stale>>
  \/ /\ <<mid, kind>> \notin Counted(v.counted) \cup Counted(counted)
     /\ counted' = Append(counted, <<mid, kind>>)
     /\ Commit(v, v.threads, ReportedIn(v, mid, kind))
     /\ UNCHANGED <<taskDone, ingested>>

(* Mutant: a report about an unknown message is answered like any other.   *)
UnmatchedAnswered(v, mid, kind) ==
  IF IsKnown(v, mid) THEN CountReport(v, mid, kind) ELSE UNCHANGED <<rows, stale>>

(* An unmatched report is refused, so that the provider repeats it.        *)
Matched(v, mid, kind) == IsKnown(v, mid) /\ CountReport(v, mid, kind)

TakeReport(v, mid, kind) ==
  /\ <<mid, kind>> \in raised \ answered
  /\ Matched(v, mid, kind)
  /\ Answer(<<mid, kind>>)
  /\ UNCHANGED <<accepted, raised, work, strayed, recalled>>

-----------------------------------------------------------------------------
(* Answers and new messages that are drafted, edited, approved and sent.   *)

Outbound(t, state) ==
  [thread |-> t, mail |-> None, state |-> state, mid |-> 0, approvable |-> TRUE]

RoomToWrite(v) == Cardinality(Outgoing(v.messages)) < MaxOut

StatusFor(state) == IF state = "pending_approval" THEN "waiting_approval" ELSE "in_progress"

Works ==
  /\ work < MaxWork /\ work' = work + 1
  /\ UNCHANGED <<ingested, counted, provider, failures>>

Write(v) ==
  \E t \in DOMAIN v.threads, state \in {"draft", "pending_approval"} :
    LET ts == [v.threads EXCEPT ![t].status = StatusFor(state)] IN
    /\ RoomToWrite(v)
    /\ Works /\ Commit(v, ts, Append(v.messages, Outbound(t, state))) /\ Stray(v, ts)
    /\ UNCHANGED <<taskDone, recalled>>

WriteNew(v) ==
  \E state \in {"draft", "pending_approval"} :
    /\ RoomToWrite(v)
    /\ Works
    /\ Commit(v, Append(v.threads, NewThread(StatusFor(state))),
              Append(v.messages, Outbound(Len(v.threads) + 1, state)))
    /\ UNCHANGED <<taskDone, strayed, recalled>>

EditDraft(v) ==
  \E i \in Outgoing(v.messages) :
    /\ v.messages[i].state \in {"draft", "pending_approval"}
    /\ Works
    /\ Commit(v, v.threads, [v.messages EXCEPT ![i].state = "draft", ![i].approvable = FALSE])
    /\ UNCHANGED <<taskDone, strayed, recalled>>

Approvable(message) == message.state = "pending_approval" /\ message.approvable

(* An approval of anything else makes a draft of it, of sent mail too.     *)
ApproveInVain(v) ==
  \E i \in DOMAIN v.messages :
    /\ ~Approvable(v.messages[i])
    /\ Works /\ Commit(v, v.threads, [v.messages EXCEPT ![i].state = "draft"])
    /\ recalled' = (recalled \/ v.messages[i].mid # 0)
    /\ UNCHANGED <<taskDone, strayed>>

(* What a request asks the provider to send: a message that waits for its  *)
(* approval, an answer, or a new message.                                  *)
Sendable(v) ==
  [job : {"approve"}, of : {i \in DOMAIN v.messages : Approvable(v.messages[i])}]
    \cup [job : {"answer"}, of : IF RoomToWrite(v) THEN DOMAIN v.threads ELSE {}]
    \cup [job : {"new"}, of : IF RoomToWrite(v) THEN {0} ELSE {}]

(* The provider accepts, then the request goes on, or it never learns.     *)
Dispatch(r) ==
  /\ IsRunning(r) /\ view[r].job = None
  /\ \E job \in Sendable(view[r].rows) :
       /\ Works
       /\ view' = [view EXCEPT ![r].job = job]
       /\ UNCHANGED <<threads, messages, taskDone, history>>

Accept(r) ==
  /\ IsRunning(r) /\ view[r].job # None /\ view[r].mid = 0
  /\ accepted' = accepted + 1
  /\ view' = [view EXCEPT ![r].mid = accepted']
  /\ UNCHANGED <<rows, raised, answered, work, failures, history>>

AsSent(message, mid) == [message EXCEPT !.state = "sent", !.mid = mid]
AsWaiting(thread) == [Waiting(thread) EXCEPT !.status = "waiting_reply"]

Conclude(r) ==
  /\ IsRunning(r) /\ view[r].mid # 0
  /\ LET v == view[r].rows
         of == view[r].job.of
         mid == view[r].mid
     IN
     CASE view[r].job.job = "approve" ->
            LET t == v.messages[of].thread IN
            Commit(v, Replaced(v.threads, t, AsWaiting(v.threads[t])),
                   Replaced(v.messages, of, AsSent(v.messages[of], mid)))
       [] view[r].job.job = "answer" ->
            Commit(v, Replaced(v.threads, of, AsWaiting(v.threads[of])),
                   Append(v.messages, AsSent(Outbound(of, "approved"), mid)))
       [] view[r].job.job = "new" ->
            Commit(v, Append(v.threads, AsWaiting(NewThread("in_progress"))),
                   Append(v.messages, AsSent(Outbound(Len(v.threads) + 1, "approved"), mid)))
  /\ view' = [view EXCEPT ![r] = Gone]
  /\ UNCHANGED <<taskDone, ingested, counted, provider, work, failures, strayed, recalled>>

(* HTTPError: the refusal is noted with the message, which stays approved. *)
Refuse(r) ==
  /\ IsRunning(r) /\ view[r].job # None /\ view[r].mid = 0
  /\ failures < MaxFailures /\ failures' = failures + 1
  /\ LET v == view[r].rows
         of == view[r].job.of
     IN
     CASE view[r].job.job = "approve" -> UNCHANGED <<threads, messages, stale, strayed>>
       [] view[r].job.job = "answer" ->
            LET ts == [v.threads EXCEPT ![of].status = "in_progress"] IN
            /\ Commit(v, ts, Append(v.messages, Outbound(of, "approved")))
            /\ Stray(v, ts)
       [] view[r].job.job = "new" ->
            /\ Commit(v, Append(v.threads, NewThread("in_progress")),
                      Append(v.messages, Outbound(Len(v.threads) + 1, "approved")))
            /\ UNCHANGED strayed
  /\ view' = [view EXCEPT ![r] = Gone]
  /\ UNCHANGED <<taskDone, ingested, counted, provider, work, recalled>>

-----------------------------------------------------------------------------
(* The state of a conversation.                                            *)

MayArchive(thread) == thread.validated /\ thread.status # "triage"

SetStatus(v) ==
  \E t \in DOMAIN v.threads, status \in Statuses :
    LET thread == v.threads[t]
        moved == IF status = "resolved" THEN Resolved(thread)
                 ELSE IF thread.status = "resolved" THEN [thread EXCEPT !.resolved = FALSE]
                 ELSE thread
        clocked == IF thread.status = "waiting_reply" /\ status # "waiting_reply" THEN Resumed(moved)
                   ELSE IF status = "waiting_reply" /\ thread.status # "waiting_reply" THEN Waiting(moved)
                   ELSE moved
    IN
    /\ status = "archived" => MayArchive(thread)
    /\ Works
    /\ Commit(v, Replaced(v.threads, t, [clocked EXCEPT !.status = status]), v.messages)
    /\ UNCHANGED <<taskDone, strayed, recalled>>

Triage(v) ==
  \E t \in DOMAIN v.threads, validate \in BOOLEAN :
    LET thread == v.threads[t]
        status == IF validate /\ thread.status = "triage" THEN "in_progress" ELSE thread.status
    IN
    /\ Works
    /\ Commit(v, Replaced(v.threads, t, [thread EXCEPT !.validated = validate, !.status = status]),
              v.messages)
    /\ UNCHANGED <<taskDone, strayed, recalled>>

MarkRead(v) ==
  \E t \in DOMAIN v.threads :
    /\ \E i \in DOMAIN v.messages : v.messages[i].thread = t /\ v.messages[i].state = "received"
    /\ Works
    /\ Commit(v, v.threads,
              [i \in DOMAIN v.messages |->
                 IF v.messages[i].thread = t /\ v.messages[i].state = "received"
                 THEN [v.messages[i] EXCEPT !.state = "read"] ELSE v.messages[i]])
    /\ UNCHANGED <<taskDone, strayed, recalled>>

(* The mail has been moved to the junk folder by the provider.             *)
MarkSpam(v) ==
  \E t \in DOMAIN v.threads :
    LET ts == [v.threads EXCEPT ![t].status = "archived"] IN
    /\ \E i \in DOMAIN v.messages : v.messages[i].thread = t /\ v.messages[i].mail # None
    /\ Works /\ Commit(v, ts, v.messages) /\ Stray(v, ts)
    /\ UNCHANGED <<taskDone, recalled>>

CreateTask(v) ==
  \E t \in DOMAIN v.threads, outcome \in {"wait", "complete"} :
    LET linked == [v.threads[t] EXCEPT !.task = Len(taskDone) + 1]
        ts == Replaced(v.threads, t,
                IF outcome = "wait" THEN [linked EXCEPT !.status = "task_created"]
                ELSE [Resolved(linked) EXCEPT !.status = "resolved"])
    IN
    /\ v.threads[t].task = 0
    /\ taskDone' = Append(taskDone, FALSE)
    /\ Works /\ Commit(v, ts, v.messages) /\ Stray(v, ts)
    /\ UNCHANGED recalled

(* Tasks are concluded and reopened elsewhere (TaskDesk).                  *)
TaskMoves ==
  \E k \in DOMAIN taskDone :
    /\ taskDone' = [taskDone EXCEPT ![k] = ~@]
    /\ UNCHANGED <<threads, messages, ingested, counted, provider, view, work, failures, history>>

Returning(v) ==
  {t \in DOMAIN v.threads :
     v.threads[t].status = "task_created" /\ v.threads[t].task # 0 /\ taskDone[v.threads[t].task]}

(* Whoever opens the inbox reopens them.                                   *)
OpenInbox(v) ==
  /\ Returning(v) # {}
  /\ Commit(v, [t \in DOMAIN v.threads |->
                  IF t \in Returning(v) THEN [v.threads[t] EXCEPT !.status = "triage"]
                  ELSE v.threads[t]], v.messages)
  /\ UNCHANGED <<taskDone, ingested, counted, provider, work, failures, strayed, recalled>>

-----------------------------------------------------------------------------
ByUser(v) ==
  \/ Write(v) \/ WriteNew(v) \/ EditDraft(v) \/ ApproveInVain(v)
  \/ SetStatus(v) \/ Triage(v) \/ MarkRead(v) \/ MarkSpam(v) \/ CreateTask(v)

ByProvider(v) ==
  \/ \E c \in Copies : Ingest(v, c)
  \/ \E report \in raised : TakeReport(v, report[1], report[2])

Overtaken(r) ==
  /\ IsRunning(r) /\ view[r].job = None
  /\ ByUser(view[r].rows) \/ ByProvider(view[r].rows)
  /\ view' = [view EXCEPT ![r] = Gone]

Prompt == (ByUser(Seen) \/ ByProvider(Seen)) /\ UNCHANGED view

Page == OpenInbox(Seen) /\ UNCHANGED view

Next ==
  \/ Prompt \/ Raise \/ TaskMoves \/ Page
  \/ \E r \in Slow : Load(r) \/ Die(r) \/ Overtaken(r)
  \/ \E r \in Slow : Dispatch(r) \/ Accept(r) \/ Refuse(r) \/ Conclude(r)

(* The provider repeats calls until they are answered, and people open the *)
(* inbox.                                                                  *)
DeliverAgain == \E c \in Copies : Ingest(Seen, c) /\ UNCHANGED view
ReportAgain == \E report \in raised : TakeReport(Seen, report[1], report[2]) /\ UNCHANGED view

Fairness == WF_vars(DeliverAgain) /\ WF_vars(ReportAgain) /\ WF_vars(Page)

Spec == Init /\ [][Next]_vars /\ Fairness

-----------------------------------------------------------------------------
(* Properties.                                                             *)

(* Every column keeps its type, and every reference has its row.           *)
TypeOK ==
  /\ \A t \in DOMAIN threads :
       /\ threads[t].status \in StatusLabels
       /\ threads[t].task \in 0 .. Len(taskDone)
       /\ {threads[t].paused, threads[t].resolved, threads[t].validated} \subseteq BOOLEAN
  /\ \A i \in DOMAIN messages :
       /\ messages[i].thread \in DOMAIN threads
       /\ messages[i].mail \in Mails \cup {None}
       /\ messages[i].state \in MessageStates
       /\ messages[i].mid \in 0 .. accepted
  /\ ingested \subseteq Copies
  /\ \A k \in DOMAIN counted : counted[k] \in raised
  /\ work \in 0 .. MaxWork /\ failures \in 0 .. MaxFailures

(* Repeated, overlapping and interrupted calls of the provider store each  *)
(* mail once and count each report once, and only about a mail that was    *)
(* sent (the unique keys of webhook events and deliveries behind           *)
(* ingest_inbound and ingest_outbound_event).                              *)
TimesStored == [m \in Mails |-> Cardinality(InboundOf(messages, m))]

Promise ==
  INSTANCE MailSpec WITH stored <- TimesStored, sent <- accepted, reported <- counted

MailPromise == Promise!Spec

(* Whatever order the reports about a message arrive in, and however often *)
(* each is repeated, the message shows the worst of them.                  *)
FateIsWorstReported ==
  ~stale /\ ~recalled =>
    \A i \in DOMAIN messages : messages[i].mid # 0 =>
      LET fates == {"sent"} \cup {Target(report[2]) :
                      report \in {r \in Counted(counted) : r[1] = messages[i].mid}}
      IN messages[i].state \in fates
           /\ \A fate \in fates : Rank(fate) <= Rank(messages[i].state)

(* The clock of a conversation stands exactly while the customer's answer  *)
(* is awaited, unless a draft, an e-mail task or the junk folder took the  *)
(* conversation out of its wait.                                           *)
PausedIsWaiting ==
  ~stale /\ ~strayed =>
    \A t \in DOMAIN threads :
      threads[t].paused <=> (Pauses /\ threads[t].status = "waiting_reply")

(* Every incoming mail is stored and answered for, every report about a    *)
(* message that the desk knows to have sent is counted, however many calls *)
(* and answers are lost, and a conversation whose task was concluded comes *)
(* back for triage.                                                        *)
AllStored ==
  \A c \in Copies : c \in ingested \cap answered /\ InboundOf(messages, MailOf[c]) # {}

AllCounted ==
  \A report \in raised : SentAs(Seen, report[1]) # {} => report \in Counted(counted)

NoneLeftBehind ==
  \A t \in DOMAIN threads :
    threads[t].status = "task_created" /\ threads[t].task # 0 => ~taskDone[threads[t].task]

MailArrives == []<>(AllStored /\ AllCounted /\ NoneLeftBehind)

=============================================================================
