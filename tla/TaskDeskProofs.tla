--------------------------- MODULE TaskDeskProofs ---------------------------
(***************************************************************************)
(* Proofs about TaskDesk, for any number of overtaken requests, users,     *)
(* statuses asked for, and any service level.                              *)
(***************************************************************************)
EXTENDS TaskDesk, FiniteSetTheorems, TLAPS

USE DeskAssumption, TargetsAssumption

ExecutorStates == {"waiting_assignment", "assigned_user", "team_unclaimed", "assigned_team"}

(* The rows that a task can have at an instant.                            *)
Rows(now) ==
  [status : Statuses, closed : BOOLEAN, ctx : Nat \cup {None},
   firstDue : Nat, due : Nat, responded : BOOLEAN, resolved : BOOLEAN,
   paused : (0 .. now) \cup {None}, total : Nat, pauses : BOOLEAN,
   user : Users \cup {None}, team : {Team, None}, state : ExecutorStates,
   claimed : Users \cup {None}]

HelpRows ==
  [prev : Statuses \ {"support_requested"},
   status : {"pending", "accepted", "completed", "cancelled"}]

DecisionRows ==
  [prev : Statuses \ Asking,
   status : {"pending", "information_requested", "approved", "rejected"}]

(* A view was the rows, so its questions are among those that there are.   *)
Views(now, asked) ==
  {v \in [task : Rows(now), helps : Seq(HelpRows), successors : Seq(BOOLEAN),
          companions : Seq(BOOLEAN) \cup {None}] :
     Len(v.helps) <= asked}

TypeInv ==
  /\ clock \in 0 .. Horizon /\ commits \in 0 .. MaxCommits
  /\ task \in Rows(clock)
  /\ helps \in Seq(HelpRows) /\ decisions \in Seq(DecisionRows)
  /\ successors \in Seq(BOOLEAN) /\ companions \in Seq(BOOLEAN) \cup {None}
  /\ view \in [Slow -> Views(clock, Len(helps)) \cup {None}]
  /\ worked \in Nat /\ waited \in Nat /\ stale \in BOOLEAN /\ strayed \in BOOLEAN
  /\ taken \in BOOLEAN

-----------------------------------------------------------------------------
(* What the properties say of one row.                                     *)

(* A decision was asked of a task that was resolved.                       *)
Overruled == \E i \in DOMAIN decisions : decisions[i].prev = "resolved"

FinishedAs(item, withProcess, overruled) ==
  /\ item.status \in Archived /\ ~(item.status = "cancelled" /\ withProcess) =>
       item.resolved /\ item.responded /\ item.paused = None
  /\ item.status \in Final => item.closed
  /\ item.closed => item.status \in Archived \/ overruled

Finished(item) == FinishedAs(item, taken, Overruled)

OneExecutor(item) ==
  /\ item.claimed # None => item.user = item.claimed /\ item.state = "assigned_user"
  /\ item.state = "team_unclaimed" => item.team # None /\ item.user = None
  /\ (item.state = "assigned_user") <=> (item.user # None)

Running(item) == IF item.paused = None THEN 0 ELSE clock - item.paused

(* The deadlines tell the time that was worked.                            *)
Counts(item, work) ==
  /\ item.total + Running(item) = waited
  /\ ~item.responded => item.firstDue = FirstMinutes + item.total
  /\ ~item.resolved => item.due + Running(item) + work = clock + Minutes

SameExecutor(a, b) ==
  a.user = b.user /\ a.team = b.team /\ a.state = b.state /\ a.claimed = b.claimed

SameClock(a, b) ==
  /\ a.firstDue = b.firstDue /\ a.due = b.due /\ a.total = b.total /\ a.paused = b.paused
  /\ a.responded = b.responded /\ a.resolved = b.resolved /\ a.pauses = b.pauses

(* Steps of the clock leave the rest of a row alone.                       *)
Retimed(a, b) ==
  /\ b \in Rows(clock) /\ SameExecutor(a, b)
  /\ b.status = a.status /\ b.pauses = a.pauses

(* And lose no time.                                                       *)
KeepsTime(a, b) == \A work \in Nat : Counts(a, work) => Counts(b, work)

(* A row that other columns were written to.                               *)
Rewritten(a, b) == DOMAIN b = DOMAIN a /\ b = [f \in DOMAIN a |-> b[f]]

-----------------------------------------------------------------------------
(* The operators on rows.                                                  *)

LEMMA RowByColumns ==
  ASSUME NEW now \in Nat, NEW a \in Rows(now), NEW b, Rewritten(a, b),
         b.status \in Statuses, b.closed \in BOOLEAN, b.ctx \in Nat \cup {None},
         b.firstDue \in Nat, b.due \in Nat, b.responded \in BOOLEAN, b.resolved \in BOOLEAN,
         b.paused \in (0 .. now) \cup {None}, b.total \in Nat, b.pauses \in BOOLEAN,
         b.user \in Users \cup {None}, b.team \in {Team, None},
         b.state \in ExecutorStates, b.claimed \in Users \cup {None}
  PROVE  b \in Rows(now)
  BY DEF Rewritten, Rows

LEMMA Columns ==
  ASSUME NEW now \in Nat, NEW a \in Rows(now)
  PROVE  /\ a.status \in Statuses /\ a.closed \in BOOLEAN /\ a.ctx \in Nat \cup {None}
         /\ a.firstDue \in Nat /\ a.due \in Nat /\ a.responded \in BOOLEAN
         /\ a.resolved \in BOOLEAN /\ a.paused \in (0 .. now) \cup {None}
         /\ a.total \in Nat /\ a.pauses \in BOOLEAN
         /\ a.user \in Users \cup {None} /\ a.team \in {Team, None}
         /\ a.state \in ExecutorStates /\ a.claimed \in Users \cup {None}
  BY DEF Rows

LEMMA LaterIsLater ==
  ASSUME NEW d \in Nat, NEW n \in Nat PROVE Later(d, n) = d + n
  BY DEF Later

LEMMA SameClockCounts ==
  ASSUME NEW a, NEW b, SameClock(a, b) PROVE KeepsTime(a, b)
  BY DEF SameClock, KeepsTime, Counts, Running

LEMMA ShiftedRow ==
  ASSUME clock \in Nat, NEW item \in Rows(clock), NEW n \in Nat
  PROVE  LET r == Shifted(item, n) IN
         /\ Retimed(item, r) /\ r.paused = item.paused /\ r.total = item.total
         /\ r.closed = item.closed /\ r.responded = item.responded
         /\ r.resolved = item.resolved
         /\ r.firstDue = IF item.responded THEN item.firstDue ELSE item.firstDue + n
         /\ r.due = IF item.resolved THEN item.due ELSE item.due + n
  <1> DEFINE first == IF item.responded THEN item.firstDue ELSE item.firstDue + n
             last == IF item.resolved THEN item.due ELSE item.due + n
             r == Shifted(item, n)
  <1>1. item.firstDue \in Nat /\ item.due \in Nat
    BY Columns
  <1>2. Later(item.firstDue, n) = item.firstDue + n /\ Later(item.due, n) = item.due + n
    BY <1>1, LaterIsLater
  <1>3. first \in Nat /\ last \in Nat
    BY <1>1
  <1>4. r = [item EXCEPT !.firstDue = first, !.due = last]
    BY <1>2 DEF Shifted
  <1> HIDE DEF first, last, r
  <1>5. /\ Rewritten(item, r) /\ SameExecutor(item, r)
        /\ r.status = item.status /\ r.closed = item.closed /\ r.ctx = item.ctx
        /\ r.firstDue = first /\ r.due = last /\ r.responded = item.responded
        /\ r.resolved = item.resolved /\ r.paused = item.paused
        /\ r.total = item.total /\ r.pauses = item.pauses
    BY <1>4 DEF Rewritten, SameExecutor, Rows
  <1>6. r \in Rows(clock)
    BY <1>3, <1>5, Columns, RowByColumns DEF SameExecutor
  <1> QED BY <1>5, <1>6 DEF Retimed, first, last, r

LEMMA ResumedRow ==
  ASSUME clock \in Nat, NEW item \in Rows(clock)
  PROVE  LET r == Resumed(item, clock) IN
         /\ Retimed(item, r) /\ r.paused = None
         /\ r.closed = item.closed /\ r.responded = item.responded
         /\ r.resolved = item.resolved
         /\ waited \in Nat => KeepsTime(item, r)
  <1> DEFINE n == clock - item.paused
             s == Shifted(item, n)
             r == Resumed(item, clock)
  <1>1. CASE item.paused = None
    BY <1>1 DEF Resumed, Retimed, SameExecutor, KeepsTime
  <1>2. CASE item.paused # None
    <2>1. n \in Nat
      BY <1>2, Columns
    <2>2. /\ Retimed(item, s) /\ s.paused = item.paused /\ s.total = item.total
          /\ s.closed = item.closed /\ s.responded = item.responded
          /\ s.resolved = item.resolved
          /\ s.firstDue = IF item.responded THEN item.firstDue ELSE item.firstDue + n
          /\ s.due = IF item.resolved THEN item.due ELSE item.due + n
      BY <2>1, ShiftedRow
    <2>3. r = [s EXCEPT !.total = @ + n, !.paused = None]
      BY <1>2 DEF Resumed
    <2> HIDE DEF s, r
    <2>4. s \in Rows(clock)
      BY <2>2 DEF Retimed
    <2>5. /\ Rewritten(s, r) /\ SameExecutor(s, r)
          /\ r.status = s.status /\ r.closed = s.closed /\ r.ctx = s.ctx
          /\ r.firstDue = s.firstDue /\ r.due = s.due /\ r.responded = s.responded
          /\ r.resolved = s.resolved /\ r.paused = None
          /\ r.total = s.total + n /\ r.pauses = s.pauses
      BY <2>3, <2>4 DEF Rewritten, SameExecutor, Rows
    <2>6. r \in Rows(clock)
      BY <2>1, <2>4, <2>5, Columns, RowByColumns DEF SameExecutor
    <2>7. waited \in Nat => KeepsTime(item, r)
      BY <1>2, <2>1, <2>2, <2>5, Columns DEF KeepsTime, Counts, Running
    <2> QED BY <2>2, <2>5, <2>6, <2>7 DEF r, Retimed, SameExecutor
  <1> QED BY <1>1, <1>2

LEMMA PausedRow ==
  ASSUME clock \in Nat, NEW item \in Rows(clock)
  PROVE  LET r == Paused(item, clock) IN
         /\ Retimed(item, r) /\ (r.paused # None <=> item.pauses \/ item.paused # None)
         /\ r.closed = item.closed /\ r.responded = item.responded
         /\ r.resolved = item.resolved
         /\ waited \in Nat => KeepsTime(item, r)
  <1> DEFINE r == Paused(item, clock)
  <1>1. CASE item.pauses /\ item.paused = None
    <2>1. r = [item EXCEPT !.paused = clock]
      BY <1>1 DEF Paused
    <2> HIDE DEF r
    <2>2. /\ Rewritten(item, r) /\ SameExecutor(item, r)
          /\ r.status = item.status /\ r.closed = item.closed /\ r.ctx = item.ctx
          /\ r.firstDue = item.firstDue /\ r.due = item.due /\ r.responded = item.responded
          /\ r.resolved = item.resolved /\ r.paused = clock
          /\ r.total = item.total /\ r.pauses = item.pauses
      BY <2>1 DEF Rewritten, SameExecutor, Rows
    <2>3. r \in Rows(clock)
      BY <2>2, Columns, RowByColumns DEF SameExecutor
    <2>4. waited \in Nat => KeepsTime(item, r)
      BY <1>1, <2>2, Columns DEF KeepsTime, Counts, Running
    <2> QED BY <1>1, <2>2, <2>3, <2>4 DEF r, Retimed
  <1>2. CASE ~(item.pauses /\ item.paused = None)
    <2>1. r = item
      BY <1>2 DEF Paused
    <2> HIDE DEF r
    <2> QED BY <1>2, <2>1, Columns DEF r, Retimed, SameExecutor, KeepsTime
  <1> QED BY <1>1, <1>2

(* A comment answers, a conclusion answers and resolves.                   *)
LEMMA RespondedRow ==
  ASSUME clock \in Nat, NEW item \in Rows(clock)
  PROVE  LET r == Responded(item) IN
         /\ Retimed(item, r) /\ r.paused = item.paused
         /\ r.closed = item.closed /\ r.responded = TRUE /\ r.resolved = item.resolved
         /\ KeepsTime(item, r)
  <1> DEFINE r == Responded(item)
  <1>1. r = [item EXCEPT !.responded = TRUE]
    BY DEF Responded
  <1> HIDE DEF r
  <1>2. /\ Rewritten(item, r) /\ SameExecutor(item, r)
        /\ r.status = item.status /\ r.closed = item.closed /\ r.ctx = item.ctx
        /\ r.firstDue = item.firstDue /\ r.due = item.due
        /\ r.responded \in BOOLEAN /\ r.responded = TRUE
        /\ r.resolved = item.resolved /\ r.paused = item.paused
        /\ r.total = item.total /\ r.pauses = item.pauses
    BY <1>1 DEF Rewritten, SameExecutor, Rows
  <1>3. r \in Rows(clock)
    BY <1>2, Columns, RowByColumns DEF SameExecutor
  <1>4. KeepsTime(item, r)
    BY <1>2 DEF KeepsTime, Counts, Running
  <1> QED BY <1>2, <1>3, <1>4 DEF r, Retimed

LEMMA ResolvedRow ==
  ASSUME clock \in Nat, NEW item \in Rows(clock)
  PROVE  LET r == MarkedResolved(item, clock) IN
         /\ Retimed(item, r) /\ r.paused = None
         /\ r.closed = item.closed /\ r.responded = TRUE /\ r.resolved = TRUE
         /\ waited \in Nat => KeepsTime(item, r)
  <1> DEFINE s == Resumed(item, clock)
             t == Responded(s)
             r == MarkedResolved(item, clock)
  <1>1. /\ Retimed(item, s) /\ s.paused = None /\ s.closed = item.closed
        /\ waited \in Nat => KeepsTime(item, s)
    BY ResumedRow
  <1>2. s \in Rows(clock)
    BY <1>1 DEF Retimed
  <1> HIDE DEF s
  <1>3. /\ Retimed(s, t) /\ t.paused = s.paused /\ t.closed = s.closed
        /\ t.responded = TRUE /\ KeepsTime(s, t)
    BY <1>2, RespondedRow
  <1>4. t \in Rows(clock)
    BY <1>3 DEF Retimed
  <1>5. r = [t EXCEPT !.resolved = TRUE]
    BY DEF MarkedResolved, s
  <1> HIDE DEF t, r
  <1>6. /\ Rewritten(t, r) /\ SameExecutor(t, r)
        /\ r.status = t.status /\ r.closed = t.closed /\ r.ctx = t.ctx
        /\ r.firstDue = t.firstDue /\ r.due = t.due /\ r.responded = t.responded
        /\ r.resolved \in BOOLEAN /\ r.resolved = TRUE /\ r.paused = t.paused
        /\ r.total = t.total /\ r.pauses = t.pauses
    BY <1>4, <1>5 DEF Rewritten, SameExecutor, Rows
  <1>7. r \in Rows(clock)
    BY <1>4, <1>6, Columns, RowByColumns DEF SameExecutor
  <1>8. KeepsTime(t, r)
    BY <1>6 DEF KeepsTime, Counts, Running
  <1>9. waited \in Nat => KeepsTime(item, r)
    BY <1>1, <1>3, <1>8 DEF KeepsTime
  <1> QED BY <1>1, <1>3, <1>6, <1>7, <1>9 DEF r, Retimed, SameExecutor

LEMMA OpenedRow ==
  ASSUME clock \in Nat, NEW item \in Rows(clock), NEW c \in BOOLEAN
  PROVE  LET r == [item EXCEPT !.closed = c] IN
         Retimed(item, r) /\ SameClock(item, r) /\ r.closed = c /\ KeepsTime(item, r)
  <1> DEFINE r == [item EXCEPT !.closed = c]
  <1>1. /\ Rewritten(item, r) /\ SameExecutor(item, r)
        /\ r.status = item.status /\ r.closed = c /\ r.ctx = item.ctx
        /\ r.firstDue = item.firstDue /\ r.due = item.due /\ r.responded = item.responded
        /\ r.resolved = item.resolved /\ r.paused = item.paused
        /\ r.total = item.total /\ r.pauses = item.pauses
    BY DEF Rewritten, SameExecutor, Rows
  <1> HIDE DEF r
  <1>2. r \in Rows(clock)
    BY <1>1, Columns, RowByColumns DEF SameExecutor
  <1> QED BY <1>1, <1>2, SameClockCounts DEF r, Retimed, SameClock

LEMMA ClosedRow ==
  ASSUME clock \in Nat, NEW item \in Rows(clock)
  PROVE  LET r == Closed(item) IN
         /\ Retimed(item, r) /\ r.paused = None /\ r.closed = TRUE
         /\ r.responded = TRUE /\ r.resolved = TRUE
         /\ item.status \in Archived => Finished(r)
         /\ waited \in Nat => KeepsTime(item, r)
  <1> DEFINE s == MarkedResolved(item, clock)
             r == Closed(item)
  <1>1. /\ Retimed(item, s) /\ s.paused = None /\ s.responded = TRUE /\ s.resolved = TRUE
        /\ waited \in Nat => KeepsTime(item, s)
    BY ResolvedRow
  <1>2. s \in Rows(clock)
    BY <1>1 DEF Retimed
  <1>3. r = [s EXCEPT !.closed = TRUE]
    BY DEF Closed
  <1> HIDE DEF s, r
  <1>4. Retimed(s, r) /\ SameClock(s, r) /\ r.closed = TRUE /\ KeepsTime(s, r)
    BY <1>2, <1>3, OpenedRow
  <1> QED BY <1>1, <1>4 DEF r, Retimed, SameExecutor, SameClock, KeepsTime, Finished, FinishedAs

(* A restart gives the whole time again.                                   *)
LEMMA RestartedRow ==
  ASSUME clock \in Nat, NEW item \in Rows(clock)
  PROVE  LET r == Restarted(item, clock, Minutes) IN
         /\ Retimed(item, r) /\ r.paused = None /\ r.closed = item.closed
         /\ r.responded = item.responded /\ r.resolved = FALSE
         /\ item.paused = None => \A work \in Nat : Counts(item, work) => Counts(r, 0)
  <1> DEFINE r == Restarted(item, clock, Minutes)
  <1>0. Later(Minutes, clock) = clock + Minutes
    BY LaterIsLater
  <1>1. r = [item EXCEPT !.resolved = FALSE, !.paused = None, !.due = clock + Minutes]
    BY <1>0 DEF Restarted
  <1> HIDE DEF r
  <1>2. /\ Rewritten(item, r) /\ SameExecutor(item, r)
        /\ r.status = item.status /\ r.closed = item.closed /\ r.ctx = item.ctx
        /\ r.firstDue = item.firstDue /\ r.due = clock + Minutes
        /\ r.responded = item.responded
        /\ r.resolved \in BOOLEAN /\ r.resolved = FALSE /\ r.paused = None
        /\ r.total = item.total /\ r.pauses = item.pauses
    BY <1>1 DEF Rewritten, SameExecutor, Rows
  <1>3. r \in Rows(clock)
    BY <1>2, Columns, RowByColumns DEF SameExecutor
  <1>4. item.paused = None => \A work \in Nat : Counts(item, work) => Counts(r, 0)
    BY <1>2, Columns DEF Counts, Running
  <1> QED BY <1>2, <1>3, <1>4 DEF r, Retimed

(* A status is written, and perhaps the instant that a wait ends.          *)
MovedTo(item, status, until) == [item EXCEPT !.status = status, !.ctx = until]
Put(item, status) == [item EXCEPT !.status = status]

LEMMA MovedRow ==
  ASSUME clock \in Nat, NEW item \in Rows(clock), NEW s \in Statuses, NEW u \in Nat \cup {None}
  PROVE  LET r == MovedTo(item, s, u) IN
         /\ r \in Rows(clock) /\ r.status = s /\ SameExecutor(item, r) /\ SameClock(item, r)
         /\ r.closed = item.closed
  <1> DEFINE r == [item EXCEPT !.status = s, !.ctx = u]
  <1>1. /\ Rewritten(item, r) /\ SameExecutor(item, r)
        /\ r.status = s /\ r.closed = item.closed /\ r.ctx = u
        /\ r.firstDue = item.firstDue /\ r.due = item.due /\ r.responded = item.responded
        /\ r.resolved = item.resolved /\ r.paused = item.paused
        /\ r.total = item.total /\ r.pauses = item.pauses
    BY DEF Rewritten, SameExecutor, Rows
  <1> HIDE DEF r
  <1>2. r \in Rows(clock)
    BY <1>1, Columns, RowByColumns DEF SameExecutor
  <1> QED BY <1>1, <1>2 DEF r, SameClock, MovedTo

LEMMA StatusRow ==
  ASSUME clock \in Nat, NEW item \in Rows(clock), NEW s \in Statuses
  PROVE  LET r == Put(item, s) IN
         /\ r \in Rows(clock) /\ r.status = s /\ SameExecutor(item, r) /\ SameClock(item, r)
         /\ r.closed = item.closed
  <1> DEFINE r == [item EXCEPT !.status = s]
  <1>1. /\ Rewritten(item, r) /\ SameExecutor(item, r)
        /\ r.status = s /\ r.closed = item.closed /\ r.ctx = item.ctx
        /\ r.firstDue = item.firstDue /\ r.due = item.due /\ r.responded = item.responded
        /\ r.resolved = item.resolved /\ r.paused = item.paused
        /\ r.total = item.total /\ r.pauses = item.pauses
    BY DEF Rewritten, SameExecutor, Rows
  <1> HIDE DEF r
  <1>2. r \in Rows(clock)
    BY <1>1, Columns, RowByColumns DEF SameExecutor
  <1> QED BY <1>1, <1>2 DEF r, SameClock, Put

(* An executor is named.                                                   *)
LEMMA AssignedRow ==
  ASSUME clock \in Nat, NEW item \in Rows(clock), NEW e \in Executors
  PROVE  LET r == Assigned(item, e) IN
         /\ r \in Rows(clock) /\ r.status = item.status /\ SameClock(item, r)
         /\ r.closed = item.closed /\ OneExecutor(r)
  <1> DEFINE r == Assigned(item, e)
             st == IF e.user # None THEN "assigned_user"
                   ELSE IF e.team # None /\ e.claim THEN "team_unclaimed"
                   ELSE IF e.team # None THEN "assigned_team" ELSE "waiting_assignment"
  <1>1. /\ e.user \in Users \cup {None} /\ e.team \in {Team, None} /\ st \in ExecutorStates
        /\ e.user # None => e.team = None
    BY DEF Executors, ExecutorStates
  <1>2. r = [item EXCEPT !.user = e.user, !.team = e.team, !.claimed = None, !.state = st]
    BY DEF Assigned
  <1>3. /\ st = "assigned_user" <=> e.user # None
        /\ st = "team_unclaimed" => e.team # None /\ e.user = None
    OBVIOUS
  <1> HIDE DEF r, st
  <1>4. /\ Rewritten(item, r)
        /\ r.user = e.user /\ r.team = e.team /\ r.claimed = None /\ r.state = st
        /\ r.status = item.status /\ r.closed = item.closed /\ r.ctx = item.ctx
        /\ r.firstDue = item.firstDue /\ r.due = item.due /\ r.responded = item.responded
        /\ r.resolved = item.resolved /\ r.paused = item.paused
        /\ r.total = item.total /\ r.pauses = item.pauses
    BY <1>2 DEF Rewritten, Rows
  <1>5. r \in Rows(clock)
    BY <1>1, <1>4, Columns, RowByColumns
  <1> QED BY <1>3, <1>4, <1>5 DEF r, SameClock, OneExecutor

LEMMA AssignedIfOtherRow ==
  ASSUME clock \in Nat, NEW item \in Rows(clock), NEW e \in Executors
  PROVE  LET r == AssignedIfOther(item, e) IN
         /\ r \in Rows(clock) /\ r.status = item.status /\ SameClock(item, r)
         /\ r.closed = item.closed /\ (OneExecutor(item) => OneExecutor(r))
  <1>1. CASE AssignedIfOther(item, e) = item
    BY <1>1 DEF SameClock
  <1>2. CASE AssignedIfOther(item, e) = Assigned(item, e)
    BY <1>2, AssignedRow
  <1> QED BY <1>1, <1>2 DEF AssignedIfOther

LEMMA ReclockedRow ==
  ASSUME clock \in Nat, NEW item \in Rows(clock), NEW prior
  PROVE  LET r == Reclocked(prior, item) IN
         /\ Retimed(item, r) /\ r.closed = item.closed
         /\ r.responded = item.responded /\ r.resolved = item.resolved
         /\ item.status = "waiting" /\ prior # "waiting" =>
              (r.paused # None <=> item.pauses \/ item.paused # None)
         /\ item.status # "waiting" /\ prior = "waiting" => r.paused = None
         /\ (item.status = "waiting" <=> prior = "waiting") => r.paused = item.paused
         /\ waited \in Nat => KeepsTime(item, r)
  <1>1. CASE item.status = "waiting" /\ prior # "waiting"
    BY <1>1, PausedRow DEF Reclocked
  <1>2. CASE item.status # "waiting" /\ prior = "waiting"
    BY <1>2, ResumedRow DEF Reclocked
  <1>3. CASE item.status = "waiting" <=> prior = "waiting"
    <2>1. Reclocked(prior, item) = item
      BY <1>3 DEF Reclocked
    <2> QED BY <1>3, <2>1 DEF Retimed, SameExecutor, KeepsTime
  <1> QED BY <1>1, <1>2, <1>3

LEMMA SettledRow ==
  ASSUME clock \in Nat, waited \in Nat, NEW item \in Rows(clock), NEW prior
  PROVE  LET r == Settled(prior, item) IN
         /\ Retimed(item, r) /\ Finished(r)
         /\ r.paused = item.paused \/ r.paused = None
         /\ item.status \notin Archived /\ ~Restarts(prior, item) => r.paused = item.paused
         /\ (Restarts(prior, item) => item.paused = None) =>
              \A work \in Nat : Counts(item, work) =>
                Counts(r, IF Restarts(prior, item) THEN 0 ELSE work)
  <1> DEFINE opened == [item EXCEPT !.closed = FALSE]
             r == Settled(prior, item)
  <1>1. /\ Retimed(item, opened) /\ SameClock(item, opened) /\ opened.closed = FALSE
        /\ KeepsTime(item, opened)
    BY OpenedRow
  <1>2. opened \in Rows(clock)
    BY <1>1 DEF Retimed
  <1>3. /\ item.status \in Final => r = Closed(item)
        /\ item.status = "resolved" => r = MarkedResolved(opened, clock)
        /\ Restarts(prior, item) => r = Restarted(opened, clock, Minutes)
        /\ item.status \notin Archived /\ ~Restarts(prior, item) => r = opened
    BY DEF Settled, Restarts, Archived, Final
  <1>4. item.status \in Archived => ~Restarts(prior, item)
    BY DEF Restarts
  <1>5. Restarts(prior, item) => prior = "resolved"
    BY DEF Restarts
  <1> HIDE DEF opened, r
  <1>6. CASE item.status \in Final
    BY <1>3, <1>4, <1>6, ClosedRow DEF r, Archived, Final, KeepsTime
  <1>7. CASE item.status = "resolved"
    <2>1. /\ Retimed(opened, r) /\ r.paused = None /\ KeepsTime(opened, r)
          /\ r.closed = opened.closed /\ r.responded = TRUE /\ r.resolved = TRUE
      BY <1>2, <1>3, <1>7, ResolvedRow
    <2>2. r.status = "resolved" /\ r.closed = FALSE
      BY <1>1, <1>7, <2>1 DEF Retimed
    <2>3. Finished(r)
      BY <2>1, <2>2 DEF Finished, FinishedAs, Final
    <2> QED
      BY <1>1, <1>4, <1>7, <2>1, <2>3 DEF r, Archived, KeepsTime, Retimed, SameExecutor
  <1>8. CASE Restarts(prior, item)
    <2>1. /\ Retimed(opened, r) /\ r.paused = None /\ r.closed = opened.closed
          /\ opened.paused = None => \A work \in Nat : Counts(opened, work) => Counts(r, 0)
      BY <1>2, <1>3, <1>8, RestartedRow
    <2>2. item.status \notin Archived
      BY <1>4, <1>8
    <2>3. r.status \notin Archived /\ r.closed = FALSE
      BY <1>1, <2>1, <2>2 DEF Retimed
    <2>4. Finished(r)
      BY <2>3 DEF Finished, FinishedAs, Archived
    <2> QED
      BY <1>1, <1>5, <1>8, <2>1, <2>2, <2>4
      DEF r, KeepsTime, Retimed, SameExecutor, SameClock
  <1>9. CASE item.status \notin Archived /\ ~Restarts(prior, item)
    BY <1>1, <1>3, <1>9 DEF r, Archived, Finished, FinishedAs, Retimed, KeepsTime, SameClock
  <1> QED BY <1>4, <1>6, <1>7, <1>8, <1>9 DEF Archived

(* A transition, or the return from a question, as a whole: r is what is   *)
(* left of a row that went from a status to another.                       *)
Returned(item, prior, status, restarts, r) ==
  /\ r \in Rows(clock) /\ Finished(r) /\ SameExecutor(item, r)
  /\ r.status = status /\ r.pauses = item.pauses
  /\ (item.paused # None <=> item.pauses /\ prior = "waiting")
       /\ status \in {prior} \cup Transitions(prior) =>
       /\ r.paused # None <=> r.pauses /\ status = "waiting"
       /\ \A work \in Nat : Counts(item, work) => Counts(r, IF restarts THEN 0 ELSE work)
  /\ status = prior /\ status \notin Archived =>
       r.paused = item.paused /\ ~restarts /\ KeepsTime(item, r)

LEMMA ReturnedRow ==
  ASSUME clock \in Nat, waited \in Nat, NEW item \in Rows(clock), NEW prior,
         NEW status \in Statuses, NEW until \in Nat \cup {None}
  PROVE  LET m == MovedTo(item, status, until)
             c == Reclocked(prior, m)
             r == Settled(prior, c) IN
         Returned(item, prior, status, Restarts(prior, c), r)
  <1> DEFINE m == MovedTo(item, status, until)
             c == Reclocked(prior, m)
             r == Settled(prior, c)
  <1>1. /\ m \in Rows(clock) /\ m.status = status /\ SameExecutor(item, m)
        /\ SameClock(item, m)
    BY MovedRow
  <1> HIDE DEF m
  <1>0. KeepsTime(item, m)
    BY <1>1, SameClockCounts
  <1>2. /\ Retimed(m, c) /\ c.resolved = m.resolved
        /\ status = "waiting" /\ prior # "waiting" =>
              (c.paused # None <=> m.pauses \/ m.paused # None)
        /\ status # "waiting" /\ prior = "waiting" => c.paused = None
        /\ (status = "waiting" <=> prior = "waiting") => c.paused = m.paused
        /\ KeepsTime(m, c)
    BY <1>1, ReclockedRow
  <1>3. c \in Rows(clock) /\ c.status = status
    BY <1>1, <1>2 DEF Retimed
  <1> HIDE DEF c
  <1>4. /\ Retimed(c, r) /\ Finished(r)
        /\ r.paused = c.paused \/ r.paused = None
        /\ status \notin Archived /\ ~Restarts(prior, c) => r.paused = c.paused
        /\ (Restarts(prior, c) => c.paused = None) =>
             \A work \in Nat : Counts(c, work) =>
               Counts(r, IF Restarts(prior, c) THEN 0 ELSE work)
    BY <1>3, SettledRow
  <1> HIDE DEF r
  <1>5. /\ r \in Rows(clock) /\ Finished(r) /\ SameExecutor(item, r)
        /\ r.status = status /\ r.pauses = item.pauses
    BY <1>1, <1>2, <1>3, <1>4 DEF Retimed, SameExecutor, SameClock
  <1>6. ASSUME item.paused # None <=> item.pauses /\ prior = "waiting",
               status \in {prior} \cup Transitions(prior)
        PROVE  /\ r.paused # None <=> r.pauses /\ status = "waiting"
               /\ \A work \in Nat : Counts(item, work) =>
                    Counts(r, IF Restarts(prior, c) THEN 0 ELSE work)
    <2>1. prior = "resolved" => status # "waiting"
      BY <1>6 DEF Transitions
    <2>2. c.paused # None <=> c.pauses /\ status = "waiting"
      BY <1>1, <1>2, <1>6 DEF Retimed, SameClock
    <2>3. Restarts(prior, c) => c.paused = None
      BY <2>1, <2>2 DEF Restarts
    <2>4. r.paused # None <=> r.pauses /\ status = "waiting"
      <3>1. CASE status = "waiting"
        BY <1>4, <2>1, <2>2, <3>1 DEF Retimed, Restarts, Archived, Final
      <3>2. CASE status # "waiting"
        BY <1>4, <2>2, <3>2
      <3> QED BY <3>1, <3>2
    <2>5. \A work \in Nat : Counts(item, work) =>
            Counts(r, IF Restarts(prior, c) THEN 0 ELSE work)
        BY <1>0, <1>2, <1>4, <2>3 DEF KeepsTime
    <2> QED BY <2>4, <2>5
  <1>7. ASSUME status = prior, status \notin Archived
        PROVE  r.paused = item.paused /\ ~Restarts(prior, c) /\ KeepsTime(item, r)
    <2>1. ~Restarts(prior, c)
      BY <1>7 DEF Restarts, Archived
    <2>2. c.paused = item.paused
      BY <1>1, <1>2, <1>7 DEF SameClock
    <2> QED BY <1>0, <1>2, <1>4, <1>7, <2>1, <2>2 DEF KeepsTime
  <1> QED BY <1>5, <1>6, <1>7 DEF m, c, r, Returned

(* Writing what was decided.                                               *)
LEMMA WrittenRow ==
  ASSUME NEW now \in Nat, task \in Rows(now), NEW v, v.task \in Rows(now),
         NEW new \in Rows(now), NEW stamped
  PROVE  Written(v, new, stamped) \in Rows(now)
  <1> DEFINE w == Written(v, new, stamped)
  <1>1. Rewritten(task, w)
    BY DEF Written, Rewritten
  <1>2. \A f \in DOMAIN task : w[f] = new[f] \/ w[f] = task[f]
    BY DEF Written
  <1> HIDE DEF w
  <1>3. /\ w.status \in Statuses /\ w.closed \in BOOLEAN /\ w.ctx \in Nat \cup {None}
        /\ w.firstDue \in Nat /\ w.due \in Nat /\ w.responded \in BOOLEAN
        /\ w.resolved \in BOOLEAN /\ w.paused \in (0 .. now) \cup {None}
    BY <1>2 DEF Rows
  <1>4. /\ w.total \in Nat /\ w.pauses \in BOOLEAN
        /\ w.user \in Users \cup {None} /\ w.team \in {Team, None}
        /\ w.state \in ExecutorStates /\ w.claimed \in Users \cup {None}
    BY <1>2 DEF Rows
  <1> QED BY <1>1, <1>3, <1>4, RowByColumns DEF w

LEMMA WrittenPrompt ==
  ASSUME NEW now \in Nat, task \in Rows(now), NEW new \in Rows(now), NEW v, v.task = task,
         NEW stamped
  PROVE  Written(v, new, stamped) = new
  <1>1. DOMAIN task = DOMAIN new
    BY DEF Rows
  <1>2. \A f \in DOMAIN task : Written(v, new, stamped)[f] = new[f]
    BY DEF Written
  <1>3. new = [f \in DOMAIN new |-> new[f]]
    BY DEF Rows
  <1> QED BY <1>1, <1>2, <1>3 DEF Written

-----------------------------------------------------------------------------
(* What a request does to the task, and what it needs of the questions.    *)

(* One request for support and one for a decision is open.                 *)
Unique ==
  /\ \A i, j \in OpenHelps : i = j
  /\ \A i, j \in OpenDecisions : i = j

(* The status says which question is open.                                 *)
Match ==
  /\ (task.status = "support_requested") <=> (OpenHelps # {})
  /\ OpenDecisions # {} <=>
       \/ task.status = "waiting_decision"
       \/ \E i \in OpenHelps : helps[i].prev = "waiting_decision"

(* And the clock of the service level stands while the task waits, also    *)
(* when a question interrupts the wait.                                    *)
PausedRight == task.paused # None <=> task.pauses /\ Interrupted = {"waiting"}

Sane == Match /\ PausedRight

LEMMA Uninterrupted ==
  ASSUME task.status \notin Asking
  PROVE  Interrupted = {task.status}
  BY DEF Interrupted, Asking

(* Every request leaves a row, and one that decided by the rows as they    *)
(* are leaves a concluded task stamped and an executor that is one.        *)
CommittedAs(v, k, d) ==
  /\ clock' = clock /\ waited' = waited /\ worked' \in Nat /\ task' \in Rows(clock)
  /\ commits' \in 0 .. MaxCommits /\ stale' \in BOOLEAN
  /\ ~stale' => ~stale /\ v = Seen
  /\ ~stale' /\ Finished(task) /\ OneExecutor(task) =>
       FinishedAs(task', k, d) /\ OneExecutor(task')

(* And unless it strays, the questions and the clock stay right.           *)
OutcomeAs(v, k, d) ==
  /\ CommittedAs(v, k, d)
  /\ v = Seen /\ Unique /\ Sane /\ ~strayed' =>
       Sane' /\ (Counts(task, worked) => Counts(task', worked'))

(* Most requests do not cancel a process, nor ask for a decision.          *)
Committed(v) == CommittedAs(v, taken, Overruled)
Outcome(v) == OutcomeAs(v, taken, Overruled)

Reworked(stamped) == IF "due" \in stamped THEN 0 ELSE worked

LEMMA CommittingAs ==
  ASSUME TypeInv, NEW v, v.task \in Rows(clock), NEW new \in Rows(clock), NEW stamped,
         NEW k, NEW d, Commit(v, new, stamped),
         Finished(v.task) => FinishedAs(new, k, d), OneExecutor(v.task) => OneExecutor(new)
  PROVE  /\ CommittedAs(v, k, d)
         /\ v = Seen => task' = new /\ worked' = Reworked(stamped)
  <1>1. clock \in Nat /\ commits \in Nat /\ task \in Rows(clock)
    BY DEF TypeInv
  <1>2. task' \in Rows(clock)
    BY <1>1, WrittenRow DEF Commit
  <1>3. /\ clock' = clock /\ waited' = waited /\ worked' \in Nat
        /\ commits' \in 0 .. MaxCommits /\ worked' = Reworked(stamped)
    BY <1>1 DEF Commit, TypeInv, Reworked
  <1>6. stale' \in BOOLEAN /\ (~stale' => ~stale /\ v = Seen)
    BY DEF Commit, TypeInv
  <1>4. v = Seen => v.task = task
    BY DEF Seen
  <1>5. v = Seen => task' = new
    BY <1>1, <1>4, WrittenPrompt DEF Commit
  <1> QED BY <1>2, <1>3, <1>4, <1>5, <1>6 DEF CommittedAs

LEMMA Committing ==
  ASSUME TypeInv, NEW v, v.task \in Rows(clock), NEW new \in Rows(clock), NEW stamped,
         Commit(v, new, stamped),
         Finished(v.task) => Finished(new), OneExecutor(v.task) => OneExecutor(new)
  PROVE  /\ Committed(v)
         /\ v = Seen => task' = new /\ worked' = Reworked(stamped)
  <1>1. Finished(v.task) => FinishedAs(new, taken, Overruled)
    BY DEF Finished
  <1> QED BY <1>1, CommittingAs DEF Committed

(* A request that asks or answers nothing keeps the status and the pause,  *)
(* or moves between statuses that are no questions.                        *)
LEMMA PlainOutcomeAs ==
  ASSUME TypeInv, NEW v, v.task \in Rows(clock), NEW new \in Rows(clock), NEW stamped,
         NEW k, NEW d,
         Commit(v, new, stamped), UNCHANGED <<helps, decisions>>,
         Finished(v.task) => FinishedAs(new, k, d), OneExecutor(v.task) => OneExecutor(new),
         new.pauses = v.task.pauses,
         v = Seen /\ Sane /\ ~strayed' =>
           /\ \/ new.status = task.status /\ new.paused = task.paused
              \/ /\ new.status \notin Asking /\ task.status \notin Asking
                 /\ new.paused # None <=> new.pauses /\ new.status = "waiting"
           /\ Counts(task, worked) => Counts(new, Reworked(stamped))
  PROVE  OutcomeAs(v, k, d)
  <1>1. /\ CommittedAs(v, k, d)
        /\ v = Seen => task' = new /\ worked' = Reworked(stamped)
    BY CommittingAs
  <1> SUFFICES ASSUME v = Seen, Unique, Sane, ~strayed'
               PROVE  Sane' /\ (Counts(task, worked) => Counts(task', worked'))
    BY <1>1 DEF OutcomeAs
  <1>2. task' = new /\ worked' = Reworked(stamped) /\ v.task = task
    BY <1>1 DEF Seen
  <1>3. OpenHelps' = OpenHelps /\ OpenDecisions' = OpenDecisions /\ helps' = helps
    BY DEF OpenHelps, OpenDecisions
  <1>4. CASE new.status = task.status /\ new.paused = task.paused
    <2>1. Interrupted' = Interrupted
      BY <1>2, <1>3, <1>4 DEF Interrupted
    <2> QED BY <1>2, <1>3, <1>4, <2>1 DEF Sane, Match, PausedRight
  <1>5. CASE /\ new.status \notin Asking /\ task.status \notin Asking
             /\ new.paused # None <=> new.pauses /\ new.status = "waiting"
    <2>1. Interrupted' = {new.status}
      BY <1>2, <1>5, Uninterrupted DEF Interrupted, Asking
    <2>2. Match'
      BY <1>2, <1>3, <1>5 DEF Sane, Match, Asking
    <2> QED BY <1>2, <1>5, <2>1, <2>2 DEF Sane, PausedRight
  <1> QED BY <1>4, <1>5

LEMMA PlainOutcome ==
  ASSUME TypeInv, NEW v, v.task \in Rows(clock), NEW new \in Rows(clock), NEW stamped,
         Commit(v, new, stamped), UNCHANGED <<helps, decisions>>,
         Finished(v.task) => Finished(new), OneExecutor(v.task) => OneExecutor(new),
         new.pauses = v.task.pauses,
         v = Seen /\ Sane /\ ~strayed' =>
           /\ \/ new.status = task.status /\ new.paused = task.paused
              \/ /\ new.status \notin Asking /\ task.status \notin Asking
                 /\ new.paused # None <=> new.pauses /\ new.status = "waiting"
           /\ Counts(task, worked) => Counts(new, Reworked(stamped))
  PROVE  Outcome(v)
  <1>1. Finished(v.task) => FinishedAs(new, taken, Overruled)
    BY DEF Finished
  <1> QED BY <1>1, PlainOutcomeAs DEF Outcome

-----------------------------------------------------------------------------
(* The requests, one by one.                                               *)

LEMMA MeansUntil ==
  ASSUME clock \in Nat, NEW status, NEW offered \in SUBSET (Nat \cup {None}),
         NEW until \in Contexts(status, offered)
  PROVE  until \in Nat \cup {None}
  BY DEF Contexts

LEMMA MeansStatus ==
  ASSUME NEW prior, NEW status \in Transitions(prior)
  PROVE  status \in Statuses /\ status \notin Asking /\ prior \notin Asking
  BY DEF Transitions, Statuses, Archived, Final, Asking

LEMMA FutureInstants ==
  ASSUME clock \in Nat PROVE Future \subseteq Nat \cup {None}
  BY DEF Future

LEMMA TransitionOutcome ==
  ASSUME TypeInv, NEW v, v.task \in Rows(clock), Transition(v)
  PROVE  Outcome(v)
  <1> DEFINE prior == v.task.status
             ctx(status, until) ==
               IF status = "waiting" \/ prior = "waiting" THEN until ELSE v.task.ctx
             m(status, until) == MovedTo(v.task, status, ctx(status, until))
             c(status, until) == Reclocked(prior, m(status, until))
             n(status, until) == Settled(prior, c(status, until))
             st(status, until) == IF Restarts(prior, c(status, until)) THEN {"due"} ELSE {}
  <1>0. clock \in Nat /\ waited \in Nat
    BY DEF TypeInv
  <1>1. PICK status \in Transitions(prior) : \E until \in Contexts(status, Future) :
          Commit(v, n(status, until), st(status, until))
    BY DEF Transition, MovedTo
  <1>2. PICK until \in Contexts(status, Future) : Commit(v, n(status, until), st(status, until))
    BY <1>1
  <1>3. UNCHANGED <<helps, decisions>>
    BY DEF Transition
  <1>4. ctx(status, until) \in Nat \cup {None} /\ status \in Statuses
    BY <1>0, MeansUntil, FutureInstants, MeansStatus, Columns
  <1> HIDE DEF ctx
  <1>5. Returned(v.task, prior, status, Restarts(prior, c(status, until)), n(status, until))
    BY <1>0, <1>4, ReturnedRow
  <1>6. st(status, until) = IF Restarts(prior, c(status, until)) THEN {"due"} ELSE {}
    OBVIOUS
  <1> HIDE DEF n, c, m, st
  <1>7. OneExecutor(v.task) => OneExecutor(n(status, until))
    BY <1>5 DEF SameExecutor, OneExecutor, Returned
  <1>8. ASSUME v = Seen, Sane
        PROVE  /\ n(status, until).status \notin Asking /\ task.status \notin Asking
               /\ n(status, until).paused # None <=>
                    n(status, until).pauses /\ n(status, until).status = "waiting"
               /\ Counts(task, worked) => Counts(n(status, until), Reworked(st(status, until)))
    <2>1. v.task = task
      BY <1>8 DEF Seen
    <2>2. prior \notin Asking /\ status \notin Asking
      BY MeansStatus
    <2>3. task.paused # None <=> task.pauses /\ prior = "waiting"
      BY <1>8, <2>1, <2>2, Uninterrupted DEF Sane, PausedRight
    <2>4. worked \in Nat
      BY DEF TypeInv
    <2> QED BY <1>5, <1>6, <2>1, <2>2, <2>3, <2>4 DEF Reworked, Returned
  <1> QED BY <1>2, <1>3, <1>5, <1>7, <1>8, PlainOutcome DEF Returned

LEMMA ClosingOutcome ==
  ASSUME TypeInv, NEW v, v.task \in Rows(clock), NEW status \in Archived, NEW stamped,
         "due" \notin stamped, Commit(v, Closed(Put(v.task, status)), stamped),
         UNCHANGED <<helps, decisions>>,
         ~strayed' => ~Bypasses(v, Closed(Put(v.task, status)))
  PROVE  Outcome(v)
  <1> DEFINE m == Put(v.task, status)
             n == Closed(m)
  <1>0. clock \in Nat /\ waited \in Nat /\ worked \in Nat /\ status \in Statuses
    BY DEF TypeInv, Statuses
  <1>1. /\ m \in Rows(clock) /\ m.status = status /\ SameExecutor(v.task, m)
        /\ SameClock(v.task, m)
    BY <1>0, StatusRow
  <1>2. Commit(v, n, stamped) /\ (~strayed' => ~Bypasses(v, n))
    OBVIOUS
  <1> HIDE DEF m
  <1>3. KeepsTime(v.task, m)
    BY <1>1, SameClockCounts
  <1>4. Retimed(m, n) /\ n.paused = None /\ Finished(n) /\ KeepsTime(m, n)
    BY <1>0, <1>1, ClosedRow
  <1> HIDE DEF n
  <1>5. n \in Rows(clock) /\ n.status = status /\ n.pauses = v.task.pauses
    BY <1>1, <1>4 DEF Retimed, SameClock
  <1>6. OneExecutor(v.task) => OneExecutor(n)
    BY <1>1, <1>4 DEF Retimed, SameExecutor, OneExecutor
  <1>7. ASSUME v = Seen, ~strayed'
        PROVE  /\ n.status \notin Asking /\ task.status \notin Asking
               /\ n.paused # None <=> n.pauses /\ n.status = "waiting"
               /\ Counts(task, worked) => Counts(n, Reworked(stamped))
    <2>1. v.task = task
      BY <1>7 DEF Seen
    <2>2. status \notin Asking /\ status # "waiting"
      BY DEF Archived, Final, Asking
    <2> QED BY <1>0, <1>2, <1>3, <1>4, <1>5, <1>7, <2>1, <2>2 DEF Bypasses, KeepsTime, Reworked
  <1> QED BY <1>2, <1>4, <1>5, <1>6, <1>7, PlainOutcome

LEMMA ClosesOutcome ==
  ASSUME TypeInv, NEW v, v.task \in Rows(clock),
         CloseClean(v) \/ CloseApi(v) \/ CloseLegacy(v)
  PROVE  Outcome(v)
  <1>1. CASE CloseClean(v)
    <2>1. /\ Commit(v, Closed(Put(v.task, "closed")), {"closed"})
          /\ UNCHANGED <<helps, decisions>>
          /\ strayed' = (strayed \/ Bypasses(v, Closed(Put(v.task, "closed"))))
      BY <1>1 DEF CloseClean, Put
    <2> QED BY <2>1, ClosingOutcome DEF Archived, Final
  <1>2. CASE CloseLegacy(v)
    <2>1. /\ Commit(v, Closed(Put(v.task, "closed")), {"closed"})
          /\ UNCHANGED <<helps, decisions>>
          /\ strayed' = (strayed \/ Bypasses(v, Closed(Put(v.task, "closed"))))
      BY <1>2 DEF CloseLegacy, Put
    <2> QED BY <2>1, ClosingOutcome DEF Archived, Final
  <1>3. CASE CloseApi(v)
    <2>1. PICK status \in Archived :
            /\ Commit(v, Closed(Put(v.task, status)), {})
            /\ UNCHANGED <<helps, decisions>>
            /\ strayed' = (strayed \/ Bypasses(v, Closed(Put(v.task, status))))
      BY <1>3 DEF CloseApi, Put
    <2> QED BY <2>1, ClosingOutcome
  <1> QED BY <1>1, <1>2, <1>3

LEMMA CommentOutcome ==
  ASSUME TypeInv, NEW v, v.task \in Rows(clock), Comment(v)
  PROVE  Outcome(v)
  <1> DEFINE n == Responded(v.task)
  <1>0. clock \in Nat /\ worked \in Nat
    BY DEF TypeInv
  <1>1. Commit(v, n, {}) /\ UNCHANGED <<helps, decisions>>
    BY DEF Comment
  <1>2. /\ Retimed(v.task, n) /\ n.paused = v.task.paused
        /\ n.closed = v.task.closed /\ n.responded = TRUE /\ n.resolved = v.task.resolved
        /\ KeepsTime(v.task, n)
    BY <1>0, RespondedRow
  <1> HIDE DEF n
  <1>3. n \in Rows(clock) /\ n.status = v.task.status /\ n.pauses = v.task.pauses
    BY <1>2 DEF Retimed
  <1>4. Finished(v.task) => Finished(n)
    BY <1>2, <1>3 DEF Finished, FinishedAs
  <1>5. OneExecutor(v.task) => OneExecutor(n)
    BY <1>2 DEF Retimed, SameExecutor, OneExecutor
  <1>6. v = Seen => /\ n.status = task.status /\ n.paused = task.paused
                    /\ Counts(task, worked) => Counts(n, Reworked({}))
    BY <1>0, <1>2, <1>3 DEF Seen, KeepsTime, Reworked
  <1> QED BY <1>1, <1>3, <1>4, <1>5, <1>6, PlainOutcome

LEMMA AssignApiOutcome ==
  ASSUME TypeInv, NEW v, v.task \in Rows(clock), AssignApi(v)
  PROVE  Outcome(v)
  <1>0. clock \in Nat /\ worked \in Nat
    BY DEF TypeInv
  <1>1. PICK e \in Executors : Commit(v, Assigned(v.task, e), {}) /\ UNCHANGED <<helps, decisions>>
    BY DEF AssignApi
  <1> DEFINE n == Assigned(v.task, e)
  <1>2. /\ n \in Rows(clock) /\ n.status = v.task.status /\ SameClock(v.task, n)
        /\ n.closed = v.task.closed /\ OneExecutor(n)
    BY <1>0, AssignedRow
  <1>3. Commit(v, n, {})
    BY <1>1
  <1> HIDE DEF n
  <1>4. Finished(v.task) => Finished(n)
    BY <1>2 DEF Finished, FinishedAs, SameClock
  <1>5. KeepsTime(v.task, n) /\ n.pauses = v.task.pauses /\ n.paused = v.task.paused
    BY <1>2, SameClockCounts DEF SameClock
  <1>6. v = Seen => /\ n.status = task.status /\ n.paused = task.paused
                    /\ Counts(task, worked) => Counts(n, Reworked({}))
    BY <1>0, <1>2, <1>5 DEF Seen, KeepsTime, Reworked
  <1> QED BY <1>1, <1>2, <1>3, <1>4, <1>5, <1>6, PlainOutcome

LEMMA ClaimOutcome ==
  ASSUME TypeInv, NEW v, v.task \in Rows(clock), Claim(v)
  PROVE  Outcome(v)
  <1>0. clock \in Nat /\ worked \in Nat
    BY DEF TypeInv
  <1>1. PICK u \in Users :
          /\ Commit(v, [v.task EXCEPT !.user = u, !.claimed = u, !.state = "assigned_user"], {})
          /\ UNCHANGED <<helps, decisions>>
    BY DEF Claim
  <1> DEFINE n == [v.task EXCEPT !.user = u, !.claimed = u, !.state = "assigned_user"]
  <1>2. /\ Rewritten(v.task, n) /\ SameClock(v.task, n)
        /\ n.user = u /\ n.claimed = u /\ n.state = "assigned_user" /\ n.team = v.task.team
        /\ n.status = v.task.status /\ n.closed = v.task.closed /\ n.ctx = v.task.ctx
    BY DEF Rewritten, SameClock, Rows
  <1>3. Commit(v, n, {})
    BY <1>1
  <1> HIDE DEF n
  <1>4. n \in Rows(clock)
    BY <1>0, <1>2, Columns, RowByColumns DEF SameClock, ExecutorStates
  <1>5. OneExecutor(n)
    BY <1>2 DEF OneExecutor
  <1>6. Finished(v.task) => Finished(n)
    BY <1>2 DEF Finished, FinishedAs, SameClock
  <1>7. KeepsTime(v.task, n) /\ n.pauses = v.task.pauses /\ n.paused = v.task.paused
    BY <1>2, SameClockCounts DEF SameClock
  <1>8. v = Seen => /\ n.status = task.status /\ n.paused = task.paused
                    /\ Counts(task, worked) => Counts(n, Reworked({}))
    BY <1>0, <1>2, <1>7 DEF Seen, KeepsTime, Reworked
  <1> QED BY <1>1, <1>3, <1>4, <1>5, <1>6, <1>7, <1>8, PlainOutcome

(* The three forms that edit a task: x is the row with what the form says, *)
(* c the row after its clock was stopped or started.                       *)
LEMMA EditedOutcome ==
  ASSUME TypeInv, NEW v, v.task \in Rows(clock), NEW x \in Rows(clock), NEW c, NEW new,
         NEW restarts \in BOOLEAN,
         SameClock(v.task, x), x.closed = v.task.closed, OneExecutor(v.task) => OneExecutor(x),
         c = Reclocked(v.task.status, x),
         \/ x.status \in Archived /\ ~restarts /\ new = Closed(c)
         \/ /\ x.status \notin Archived /\ restarts
            /\ new = [Restarted(c, clock, Minutes) EXCEPT !.closed = FALSE]
         \/ /\ x.status \notin Final /\ ~restarts
            /\ x.status = "resolved" => v.task.status = "resolved"
            /\ (new = c /\ x.status = v.task.status) \/ new = [c EXCEPT !.closed = FALSE],
         restarts => v.task.status \in Archived,
         Commit(v, new, IF restarts THEN {"due"} ELSE {}), UNCHANGED <<helps, decisions>>,
         ~strayed' => ~Bypasses(v, new) /\ ~(restarts /\ x.status = "waiting")
  PROVE  Outcome(v)
  <1> DEFINE prior == v.task.status
             st == IF restarts THEN {"due"} ELSE {}
             s == Restarted(c, clock, Minutes)
  <1>0. clock \in Nat /\ waited \in Nat /\ worked \in Nat
    BY DEF TypeInv
  <1>1. /\ Retimed(x, c) /\ c.closed = x.closed
        /\ c.responded = x.responded /\ c.resolved = x.resolved
        /\ x.status = "waiting" /\ prior # "waiting" => (c.paused # None <=> x.pauses \/ x.paused # None)
        /\ x.status # "waiting" /\ prior = "waiting" => c.paused = None
        /\ (x.status = "waiting" <=> prior = "waiting") => c.paused = x.paused
        /\ KeepsTime(x, c)
    BY <1>0, ReclockedRow
  <1>2. c \in Rows(clock) /\ c.status = x.status /\ c.pauses = v.task.pauses
    BY <1>1 DEF Retimed, SameClock
  <1>3. KeepsTime(v.task, c)
    BY <1>1, SameClockCounts DEF KeepsTime
  <1>4. /\ Retimed(c, new) /\ (Finished(v.task) => Finished(new))
        /\ new.paused = None \/ (~restarts /\ x.status \notin Final /\ new.paused = c.paused)
        /\ (restarts => c.paused = None) =>
             \A work \in Nat : Counts(c, work) => Counts(new, IF restarts THEN 0 ELSE work)
    <2>1. CASE x.status \in Archived /\ ~restarts /\ new = Closed(c)
      BY <1>0, <1>2, <2>1, ClosedRow DEF KeepsTime
    <2>2. CASE /\ x.status \notin Archived /\ restarts
               /\ new = [Restarted(c, clock, Minutes) EXCEPT !.closed = FALSE]
      <3>1. /\ Retimed(c, s) /\ s.paused = None
            /\ c.paused = None => \A work \in Nat : Counts(c, work) => Counts(s, 0)
        BY <1>0, <1>2, RestartedRow
      <3>2. s \in Rows(clock) /\ new = [s EXCEPT !.closed = FALSE]
        BY <2>2, <3>1 DEF Retimed
      <3> HIDE DEF s
      <3>3. Retimed(s, new) /\ SameClock(s, new) /\ KeepsTime(s, new)
        BY <1>0, <3>2, OpenedRow
      <3>4. Finished(new)
        BY <1>2, <2>2, <3>1, <3>2, <3>3 DEF Finished, FinishedAs, Archived, Retimed
      <3> QED BY <2>2, <3>1, <3>3, <3>4 DEF Retimed, SameExecutor, SameClock, KeepsTime
    <2>3. CASE /\ x.status \notin Final /\ ~restarts
               /\ x.status = "resolved" => v.task.status = "resolved"
               /\ (new = c /\ x.status = v.task.status) \/ new = [c EXCEPT !.closed = FALSE]
      <3>1. Retimed(c, new) /\ SameClock(c, new) /\ KeepsTime(c, new)
        <4>1. CASE new = c
          BY <1>2, <4>1 DEF Retimed, SameExecutor, SameClock, KeepsTime
        <4>2. CASE new = [c EXCEPT !.closed = FALSE]
          BY <1>0, <1>2, <4>2, OpenedRow
        <4> QED BY <2>3, <4>1, <4>2
      <3>2. (new.closed = FALSE) \/ (new.closed = v.task.closed /\ x.status = v.task.status)
        <4>1. CASE new = [c EXCEPT !.closed = FALSE]
          BY <1>0, <1>2, <4>1, OpenedRow
        <4> QED BY <1>1, <2>3, <4>1
      <3>3. new.status = x.status /\ new.resolved = x.resolved /\ new.responded = x.responded
        BY <1>1, <3>1 DEF Retimed, SameClock
      <3>4. x.status = "resolved" => v.task.status = "resolved" /\ new.paused = v.task.paused
        BY <1>1, <2>3, <3>1 DEF SameClock
      <3>5. x.resolved = v.task.resolved /\ x.responded = v.task.responded
        BY DEF SameClock
      <3>6. Finished(v.task) => Finished(new)
        BY <2>3, <3>2, <3>3, <3>4, <3>5 DEF Finished, FinishedAs, Archived, Final
      <3> QED BY <1>2, <2>3, <3>1, <3>6 DEF SameClock, KeepsTime
    <2> QED BY <2>1, <2>2, <2>3
  <1>5. new \in Rows(clock) /\ new.status = x.status /\ new.pauses = v.task.pauses
    BY <1>2, <1>4 DEF Retimed
  <1>6. OneExecutor(v.task) => OneExecutor(new)
    BY <1>1, <1>4 DEF Retimed, SameExecutor, OneExecutor
  <1>7. ASSUME v = Seen, Sane, ~strayed'
        PROVE  /\ \/ new.status = task.status /\ new.paused = task.paused
                  \/ /\ new.status \notin Asking /\ task.status \notin Asking
                     /\ new.paused # None <=> new.pauses /\ new.status = "waiting"
               /\ Counts(task, worked) => Counts(new, Reworked(st))
    <2>1. v.task = task
      BY <1>7 DEF Seen
    <2>2. restarts => c.paused = None /\ task.status \notin Asking
      <3> SUFFICES ASSUME restarts PROVE c.paused = None /\ task.status \notin Asking
        OBVIOUS
      <3>1. task.status \notin Asking /\ task.status # "waiting"
        BY <2>1 DEF Archived, Final, Asking
      <3>2. task.paused = None
        BY <1>7, <3>1, Uninterrupted DEF Sane, PausedRight
      <3>3. x.status # "waiting"
        BY <1>7
      <3> QED BY <1>1, <2>1, <3>1, <3>2, <3>3 DEF SameClock
    <2>3. Counts(task, worked) => Counts(new, Reworked(st))
      BY <1>0, <1>3, <1>4, <2>1, <2>2 DEF KeepsTime, Reworked
    <2>4. CASE new.status = task.status /\ task.status \in Asking
      <3>1. ~restarts /\ x.status \notin Archived
        BY <1>5, <2>2, <2>4 DEF Asking, Archived, Final
      <3>2. new.paused = c.paused /\ c.paused = task.paused
        <4>1. c.paused = task.paused
          BY <1>1, <1>5, <2>1, <2>4 DEF SameClock
        <4>2. new = c \/ new = [c EXCEPT !.closed = FALSE]
          BY <3>1
        <4>3. CASE new = [c EXCEPT !.closed = FALSE]
          BY <1>0, <1>2, <4>3, OpenedRow, <4>1 DEF SameClock
        <4> QED BY <4>1, <4>2, <4>3
      <3> QED BY <2>3, <2>4, <3>2
    <2>5. CASE new.status \notin Asking /\ task.status \notin Asking
      <3>1. task.paused # None <=> task.pauses /\ task.status = "waiting"
        BY <1>7, <2>5, Uninterrupted DEF Sane, PausedRight
      <3>2. c.paused # None <=> c.pauses /\ x.status = "waiting"
        BY <1>1, <2>1, <3>1, <1>2 DEF SameClock
      <3>3. new.paused # None <=> new.pauses /\ new.status = "waiting"
        <4>1. CASE x.status \in Archived /\ new = Closed(c)
          <5>1. new.paused = None
            BY <1>0, <1>2, <4>1, ClosedRow
          <5> QED BY <1>5, <4>1, <5>1 DEF Archived, Final
        <4>2. CASE restarts
          <5>1. new.paused = None
            BY <1>4, <4>2
          <5> QED BY <1>5, <1>7, <4>2, <5>1
        <4>3. CASE new = c
          BY <1>2, <3>2, <4>3
        <4>4. CASE new = [c EXCEPT !.closed = FALSE]
          BY <1>0, <1>2, <1>5, <3>2, <4>4, OpenedRow DEF SameClock
        <4> QED BY <4>1, <4>2, <4>3, <4>4
      <3> QED BY <2>3, <2>5, <3>3
    <2> QED BY <1>7, <2>1, <2>4, <2>5 DEF Bypasses
  <1> QED BY <1>4, <1>5, <1>6, <1>7, PlainOutcome

LEMMA EditFieldsOutcome ==
  ASSUME TypeInv, NEW v, v.task \in Rows(clock), EditFields(v)
  PROVE  Outcome(v)
  <1>0. clock \in Nat
    BY DEF TypeInv
  <1>1. PICK e \in Executors :
          LET item == AssignedIfOther(v.task, e) IN
          /\ Commit(v, IF item.status \in Final THEN Closed(item)
                       ELSE [item EXCEPT !.closed = FALSE], {})
          /\ UNCHANGED <<helps, decisions>>
    BY DEF EditFields
  <1> DEFINE x == AssignedIfOther(v.task, e)
             n == IF x.status \in Final THEN Closed(x) ELSE [x EXCEPT !.closed = FALSE]
  <1>2. /\ x \in Rows(clock) /\ x.status = v.task.status /\ SameClock(v.task, x)
        /\ x.closed = v.task.closed /\ (OneExecutor(v.task) => OneExecutor(x))
    BY <1>0, AssignedIfOtherRow
  <1>3. Commit(v, n, {})
    BY <1>1
  <1>4. /\ x.status \in Final => n = Closed(x)
        /\ x.status \notin Final => n = [x EXCEPT !.closed = FALSE]
    OBVIOUS
  <1> HIDE DEF x, n
  <1>5. x = Reclocked(v.task.status, x)
    BY <1>2 DEF Reclocked
  <1>6. n.status = v.task.status
    <2>1. CASE x.status \in Final
      BY <1>0, <1>2, <1>4, <2>1, ClosedRow DEF Retimed
    <2>2. CASE x.status \notin Final
      BY <1>0, <1>2, <1>4, <2>2, OpenedRow DEF Retimed
    <2> QED BY <2>1, <2>2
  <1>7. ~Bypasses(v, n)
    BY <1>6 DEF Bypasses
  <1>8. \/ x.status \in Archived /\ n = Closed(x)
        \/ x.status \notin Final /\ n = [x EXCEPT !.closed = FALSE]
    BY <1>4 DEF Archived
  <1> QED BY <1>1, <1>2, <1>3, <1>5, <1>7, <1>8, EditedOutcome

LEMMA UpdateApiOutcome ==
  ASSUME TypeInv, NEW v, v.task \in Rows(clock), UpdateApi(v)
  PROVE  Outcome(v)
  <1>0. clock \in Nat
    BY DEF TypeInv
  <1>1. PICK target \in Targets \cup {None}, e \in Executors \cup {None} :
          LET prior == v.task.status
              given == target # None
              status == IF given THEN target ELSE prior
          IN
          \E until \in Contexts(status, Future \cup {v.task.ctx}) :
            LET moved == [v.task EXCEPT !.status = status, !.ctx = until]
                clocked == Reclocked(prior, AssignedIfNamed(moved, e))
                restarts == given /\ status \notin Archived /\ clocked.resolved /\ prior \in Archived
                new == IF status \in Archived THEN Closed(clocked)
                       ELSE IF restarts
                         THEN [Restarted(clocked, clock, Minutes) EXCEPT !.closed = FALSE]
                       ELSE IF given THEN [clocked EXCEPT !.closed = FALSE]
                       ELSE clocked
            IN
            /\ Commit(v, new, IF restarts THEN {"due"} ELSE {})
            /\ strayed' = (strayed \/ Bypasses(v, new) \/ (restarts /\ status = "waiting"))
            /\ UNCHANGED <<helps, decisions, successors, companions>>
    BY Zenon DEF UpdateApi
  <1> DEFINE prior == v.task.status
             status == IF target # None THEN target ELSE prior
  <1>2. PICK until \in Contexts(status, Future \cup {v.task.ctx}) :
            LET moved == [v.task EXCEPT !.status = status, !.ctx = until]
                clocked == Reclocked(prior, AssignedIfNamed(moved, e))
                restarts == target # None /\ status \notin Archived /\ clocked.resolved
                              /\ prior \in Archived
                new == IF status \in Archived THEN Closed(clocked)
                       ELSE IF restarts
                         THEN [Restarted(clocked, clock, Minutes) EXCEPT !.closed = FALSE]
                       ELSE IF target # None THEN [clocked EXCEPT !.closed = FALSE]
                       ELSE clocked
            IN
            /\ Commit(v, new, IF restarts THEN {"due"} ELSE {})
            /\ strayed' = (strayed \/ Bypasses(v, new) \/ (restarts /\ status = "waiting"))
            /\ UNCHANGED <<helps, decisions, successors, companions>>
    BY <1>1, Zenon
  <1> DEFINE m == MovedTo(v.task, status, until)
             xx == AssignedIfNamed(m, e)
             cc == Reclocked(prior, xx)
             rr == target # None /\ status \notin Archived /\ cc.resolved /\ prior \in Archived
             nn == IF status \in Archived THEN Closed(cc)
                   ELSE IF rr THEN [Restarted(cc, clock, Minutes) EXCEPT !.closed = FALSE]
                   ELSE IF target # None THEN [cc EXCEPT !.closed = FALSE]
                   ELSE cc
  <1>11. /\ Commit(v, nn, IF rr THEN {"due"} ELSE {})
         /\ strayed' = (strayed \/ Bypasses(v, nn) \/ (rr /\ status = "waiting"))
         /\ UNCHANGED <<helps, decisions>>
    BY <1>2, Zenon DEF MovedTo
  <1>3. until \in Nat \cup {None} /\ status \in Statuses
    <2>1. Future \cup {v.task.ctx} \in SUBSET (Nat \cup {None})
      BY <1>0, FutureInstants, Columns
    <2> QED BY <1>0, <2>1, MeansUntil, Columns
  <1> HIDE DEF status
  <1>4. /\ m \in Rows(clock) /\ m.status = status /\ SameExecutor(v.task, m)
        /\ SameClock(v.task, m) /\ m.closed = v.task.closed
    BY <1>0, <1>3, MovedRow
  <1>5. xx = (IF e = None THEN m ELSE Assigned(m, e))
    BY DEF AssignedIfNamed
  <1> HIDE DEF m
  <1>6. /\ xx \in Rows(clock) /\ xx.status = status /\ SameClock(v.task, xx)
        /\ xx.closed = v.task.closed
        /\ OneExecutor(v.task) => OneExecutor(xx)
    <2>1. CASE e = None
      BY <1>4, <1>5, <2>1 DEF SameExecutor, OneExecutor
    <2>2. CASE e # None
      <3>1. /\ Assigned(m, e) \in Rows(clock) /\ Assigned(m, e).status = m.status
            /\ SameClock(m, Assigned(m, e)) /\ Assigned(m, e).closed = m.closed
            /\ OneExecutor(Assigned(m, e))
        BY <1>0, <1>4, <2>2, AssignedRow
      <3> QED BY <1>4, <1>5, <2>2, <3>1 DEF SameClock
    <2> QED BY <2>1, <2>2
  <1> HIDE DEF xx
  <1>7. cc = Reclocked(v.task.status, xx)
    OBVIOUS
  <1> HIDE DEF cc
  <1>8. rr \in BOOLEAN /\ (rr => v.task.status \in Archived /\ status \notin Archived)
    OBVIOUS
  <1>9. \/ status \in Archived /\ ~rr /\ nn = Closed(cc)
        \/ /\ status \notin Archived /\ rr
           /\ nn = [Restarted(cc, clock, Minutes) EXCEPT !.closed = FALSE]
        \/ /\ status \notin Archived /\ ~rr
           /\ (nn = cc /\ status = v.task.status) \/ nn = [cc EXCEPT !.closed = FALSE]
    <2>1. target = None => status = v.task.status
      BY DEF status
    <2> HIDE DEF rr
    <2> QED BY <1>8, <2>1
  <1> HIDE DEF rr, nn
  <1>10. \/ xx.status \in Archived /\ ~rr /\ nn = Closed(cc)
         \/ /\ xx.status \notin Archived /\ rr
            /\ nn = [Restarted(cc, clock, Minutes) EXCEPT !.closed = FALSE]
         \/ /\ xx.status \notin Final /\ ~rr
            /\ xx.status = "resolved" => v.task.status = "resolved"
            /\ (nn = cc /\ xx.status = v.task.status) \/ nn = [cc EXCEPT !.closed = FALSE]
    BY <1>6, <1>9 DEF Archived
  <1>12. ~strayed' => ~Bypasses(v, nn) /\ ~(rr /\ xx.status = "waiting")
    BY <1>11, <1>6
  <1> QED BY <1>6, <1>7, <1>8, <1>10, <1>11, <1>12, EditedOutcome

LEMMA UpdateLegacyOutcome ==
  ASSUME TypeInv, NEW v, v.task \in Rows(clock), UpdateLegacy(v)
  PROVE  Outcome(v)
  <1>0. clock \in Nat
    BY DEF TypeInv
  <1> DEFINE prior == v.task.status
             x(status, e, until) == AssignedIfOther(MovedTo(v.task, status, until), e)
             c(status, e, until) == Reclocked(prior, x(status, e, until))
             restarts(status) == status \notin Final /\ prior \in Final
             n(status, e, until) ==
               IF status \in Final THEN Closed(c(status, e, until))
               ELSE IF restarts(status)
                 THEN [Restarted(c(status, e, until), clock, Minutes) EXCEPT !.closed = FALSE]
               ELSE [c(status, e, until) EXCEPT !.closed = FALSE]
  <1>1. PICK status \in (Targets \ {"resolved"}) \cup {v.task.status}, e \in Executors :
          \E until \in Contexts(status, Future \cup {v.task.ctx}) :
            /\ Commit(v, n(status, e, until), IF restarts(status) THEN {"due"} ELSE {})
            /\ strayed' = (strayed \/ Bypasses(v, n(status, e, until))
                                   \/ (restarts(status) /\ status = "waiting"))
            /\ UNCHANGED <<helps, decisions>>
    BY DEF UpdateLegacy, MovedTo
  <1> HIDE DEF n, restarts, c, x
  <1>2. PICK until \in Contexts(status, Future \cup {v.task.ctx}) :
          /\ Commit(v, n(status, e, until), IF restarts(status) THEN {"due"} ELSE {})
          /\ strayed' = (strayed \/ Bypasses(v, n(status, e, until))
                                 \/ (restarts(status) /\ status = "waiting"))
          /\ UNCHANGED <<helps, decisions>>
    BY <1>1
  <1>3. until \in Nat \cup {None} /\ status \in Statuses
    <2>1. Future \cup {v.task.ctx} \in SUBSET (Nat \cup {None})
      BY <1>0, FutureInstants, Columns
    <2> QED BY <1>0, <2>1, MeansUntil, Columns
  <1> DEFINE m == MovedTo(v.task, status, until)
             xx == x(status, e, until)
             cc == c(status, e, until)
             rr == restarts(status)
             nn == n(status, e, until)
  <1>4. /\ m \in Rows(clock) /\ m.status = status /\ SameExecutor(v.task, m)
        /\ SameClock(v.task, m) /\ m.closed = v.task.closed
    BY <1>0, <1>3, MovedRow
  <1>5. xx = AssignedIfOther(m, e)
    BY DEF x
  <1> HIDE DEF m
  <1>6. /\ xx \in Rows(clock) /\ xx.status = status /\ SameClock(v.task, xx)
        /\ xx.closed = v.task.closed
        /\ OneExecutor(v.task) => OneExecutor(xx)
    <2>1. /\ xx \in Rows(clock) /\ xx.status = m.status /\ SameClock(m, xx)
          /\ xx.closed = m.closed
          /\ OneExecutor(m) => OneExecutor(xx)
      BY <1>0, <1>4, <1>5, AssignedIfOtherRow
    <2> HIDE DEF xx
    <2> QED BY <1>4, <2>1 DEF SameClock, SameExecutor, OneExecutor
  <1>7. cc = Reclocked(v.task.status, xx)
    BY DEF c
  <1>8. rr \in BOOLEAN /\ (rr => v.task.status \in Archived /\ status \notin Archived)
    BY DEF restarts, Archived, Final
  <1>9. \/ status \in Final /\ ~rr /\ nn = Closed(cc)
        \/ /\ status \notin Final /\ rr
           /\ nn = [Restarted(cc, clock, Minutes) EXCEPT !.closed = FALSE]
        \/ status \notin Final /\ ~rr /\ nn = [cc EXCEPT !.closed = FALSE]
    BY <1>8 DEF n, restarts, Archived
  <1>13. status = "resolved" => v.task.status = "resolved"
    OBVIOUS
  <1>10. \/ xx.status \in Archived /\ ~rr /\ nn = Closed(cc)
         \/ /\ xx.status \notin Archived /\ rr
            /\ nn = [Restarted(cc, clock, Minutes) EXCEPT !.closed = FALSE]
         \/ /\ xx.status \notin Final /\ ~rr
            /\ xx.status = "resolved" => v.task.status = "resolved"
            /\ (nn = cc /\ xx.status = v.task.status) \/ nn = [cc EXCEPT !.closed = FALSE]
    BY <1>6, <1>8, <1>9, <1>13 DEF Archived
  <1>11. Commit(v, nn, IF rr THEN {"due"} ELSE {}) /\ UNCHANGED <<helps, decisions>>
    BY <1>2
  <1>12. ~strayed' => ~Bypasses(v, nn) /\ ~(rr /\ xx.status = "waiting")
    BY <1>2, <1>6
  <1> HIDE DEF xx, cc, rr, nn
  <1> QED BY <1>6, <1>7, <1>8, <1>10, <1>11, <1>12, EditedOutcome

LEMMA ReopenOutcome ==
  ASSUME TypeInv, NEW v, v.task \in Rows(clock), Reopen(v)
  PROVE  Outcome(v)
  <1> DEFINE s == Restarted(v.task, clock, Minutes)
             m == Put(s, "new")
             n == [m EXCEPT !.closed = FALSE]
  <1>0. clock \in Nat /\ waited \in Nat /\ worked \in Nat /\ "new" \in Statuses
    BY DEF TypeInv, Statuses
  <1>1. /\ Commit(v, n, {"due"}) /\ UNCHANGED <<helps, decisions>>
        /\ strayed' = (strayed \/ Bypasses(v, n) \/ v.task.status = "waiting" \/ v.task.paused # None)
    BY DEF Reopen, Put
  <1>2. /\ Retimed(v.task, s) /\ s.paused = None
        /\ v.task.paused = None => \A work \in Nat : Counts(v.task, work) => Counts(s, 0)
    BY <1>0, RestartedRow
  <1>3. s \in Rows(clock)
    BY <1>2 DEF Retimed
  <1> HIDE DEF s
  <1>4. /\ m \in Rows(clock) /\ m.status = "new" /\ SameExecutor(s, m) /\ SameClock(s, m)
    BY <1>0, <1>3, StatusRow
  <1> HIDE DEF m
  <1>5. Retimed(m, n) /\ SameClock(m, n) /\ KeepsTime(m, n) /\ n.closed = FALSE
    BY <1>0, <1>4, OpenedRow
  <1> HIDE DEF n
  <1>6. KeepsTime(s, n)
    BY <1>4, <1>5, SameClockCounts DEF KeepsTime
  <1>7. /\ n \in Rows(clock) /\ n.status = "new" /\ n.pauses = v.task.pauses /\ n.paused = None
        /\ SameExecutor(v.task, n) /\ n.closed = FALSE
    BY <1>2, <1>4, <1>5 DEF Retimed, SameExecutor, SameClock
  <1>8. Finished(n) /\ (OneExecutor(v.task) => OneExecutor(n))
    BY <1>7 DEF Finished, FinishedAs, Archived, Final, SameExecutor, OneExecutor
  <1>9. ASSUME v = Seen, Sane, ~strayed'
        PROVE  /\ n.status \notin Asking /\ task.status \notin Asking
               /\ n.paused # None <=> n.pauses /\ n.status = "waiting"
               /\ Counts(task, worked) => Counts(n, Reworked({"due"}))
    <2>1. v.task = task /\ task.paused = None /\ ~Bypasses(v, n)
      BY <1>1, <1>9 DEF Seen
    <2> QED BY <1>0, <1>2, <1>6, <1>7, <2>1 DEF Bypasses, Asking, Reworked, KeepsTime
  <1> QED BY <1>1, <1>7, <1>8, <1>9, PlainOutcome

LEMMA CancelWithProcessOutcome ==
  ASSUME TypeInv, NEW v, v.task \in Rows(clock), CancelWithProcess(v)
  PROVE  OutcomeAs(v, TRUE, Overruled)
  <1> DEFINE m == Put(v.task, "cancelled")
             n == [m EXCEPT !.closed = TRUE]
  <1>0. clock \in Nat /\ worked \in Nat /\ "cancelled" \in Statuses
    BY DEF TypeInv, Statuses, Archived, Final
  <1>1. /\ Commit(v, n, {"closed"}) /\ UNCHANGED <<helps, decisions>>
        /\ strayed' = (strayed \/ Bypasses(v, n) \/ v.task.paused # None)
    BY DEF CancelWithProcess, Put
  <1>2. /\ m \in Rows(clock) /\ m.status = "cancelled" /\ SameExecutor(v.task, m)
        /\ SameClock(v.task, m)
    BY <1>0, StatusRow
  <1> HIDE DEF m
  <1>3. Retimed(m, n) /\ SameClock(m, n) /\ n.closed = TRUE /\ KeepsTime(m, n)
    BY <1>0, <1>2, OpenedRow
  <1> HIDE DEF n
  <1>4. KeepsTime(v.task, n)
    BY <1>2, <1>3, SameClockCounts DEF KeepsTime
  <1>5. /\ n \in Rows(clock) /\ n.status = "cancelled" /\ n.pauses = v.task.pauses
        /\ n.paused = v.task.paused /\ SameExecutor(v.task, n)
    BY <1>2, <1>3 DEF Retimed, SameExecutor, SameClock
  <1>6. FinishedAs(n, TRUE, Overruled) /\ (OneExecutor(v.task) => OneExecutor(n))
    BY <1>3, <1>5 DEF FinishedAs, Archived, Final, SameExecutor, OneExecutor
  <1>7. ASSUME v = Seen, Sane, ~strayed'
        PROVE  /\ n.status \notin Asking /\ task.status \notin Asking
               /\ n.paused # None <=> n.pauses /\ n.status = "waiting"
               /\ Counts(task, worked) => Counts(n, Reworked({"closed"}))
    <2>1. v.task = task /\ task.paused = None /\ ~Bypasses(v, n)
      BY <1>1, <1>7 DEF Seen
    <2> QED BY <1>0, <1>4, <1>5, <2>1 DEF Bypasses, Asking, Reworked, KeepsTime
  <1> QED BY <1>1, <1>5, <1>6, <1>7, PlainOutcomeAs

-----------------------------------------------------------------------------
(* Requests for support.                                                   *)

LEMMA RowsOf ==
  ASSUME NEW R, NEW s \in Seq(R), NEW i \in DOMAIN s, NEW r \in R, NEW t, t = [s EXCEPT ![i] = r]
  PROVE  /\ t \in Seq(R) /\ Len(t) = Len(s) /\ DOMAIN t = DOMAIN s
         /\ t[i] = r /\ \A j \in DOMAIN s : j # i => t[j] = s[j]
  OBVIOUS

Answered(s, i, answer) == [s EXCEPT ![i].status = answer]

LEMMA AnsweredHelp ==
  ASSUME NEW s \in Seq(HelpRows), NEW i \in DOMAIN s,
         NEW answer, answer \in {"accepted", "completed", "cancelled"},
         NEW t, t = Answered(s, i, answer)
  PROVE  /\ t \in Seq(HelpRows) /\ Len(t) = Len(s) /\ DOMAIN t = DOMAIN s
         /\ t[i].status = answer /\ t[i].prev = s[i].prev
         /\ \A j \in DOMAIN s : j # i => t[j] = s[j]
  <1> DEFINE r == [s[i] EXCEPT !.status = answer]
  <1>1. s[i] \in HelpRows
    OBVIOUS
  <1>2. r \in HelpRows /\ r.status = answer /\ r.prev = s[i].prev
    BY <1>1 DEF HelpRows
  <1>3. t = [s EXCEPT ![i] = r]
    BY DEF Answered
  <1> HIDE DEF r
  <1>4. /\ t \in Seq(HelpRows) /\ Len(t) = Len(s) /\ DOMAIN t = DOMAIN s
        /\ t[i] = r /\ \A j \in DOMAIN s : j # i => t[j] = s[j]
    BY <1>2, <1>3, RowsOf
  <1> QED BY <1>2, <1>4

(* The status that a question for a decision may hide.                     *)
Behind(status) ==
  IF status = "waiting_decision" THEN {decisions[i].prev : i \in OpenDecisions} ELSE {status}

LEMMA BehindSupport ==
  ASSUME NEW h \in OpenHelps, Unique, task.status = "support_requested"
  PROVE  Interrupted = Behind(helps[h].prev)
  <1>1. OpenHelps = {h}
    BY DEF Unique
  <1> QED BY <1>1 DEF Interrupted, Behind

LEMMA BehindStatus ==
  ASSUME task.status # "support_requested"
  PROVE  Interrupted = Behind(task.status)
  BY DEF Interrupted, Behind

LEMMA RequestSupportOutcome ==
  ASSUME TypeInv, NEW v, v.task \in Rows(clock), RequestSupport(v)
  PROVE  Outcome(v)
  <1> DEFINE n == Put(v.task, "support_requested")
             h == Len(helps) + 1
  <1>0. clock \in Nat /\ worked \in Nat /\ "support_requested" \in Statuses
    BY DEF TypeInv, Statuses
  <1>1. Commit(v, n, {}) /\ UNCHANGED decisions
    BY DEF RequestSupport, Put
  <1>2. /\ n \in Rows(clock) /\ n.status = "support_requested" /\ SameExecutor(v.task, n)
        /\ SameClock(v.task, n) /\ n.closed = FALSE
    BY <1>0, StatusRow, Columns DEF RequestSupport
  <1> HIDE DEF n
  <1>3. Finished(n) /\ (OneExecutor(v.task) => OneExecutor(n))
    BY <1>2 DEF Finished, FinishedAs, Archived, Final, SameExecutor, OneExecutor
  <1>4. Committed(v) /\ (v = Seen => task' = n /\ worked' = Reworked({}))
    BY <1>1, <1>2, <1>3, Committing
  <1> SUFFICES ASSUME v = Seen, Unique, Sane, ~strayed'
               PROVE  Sane' /\ (Counts(task, worked) => Counts(task', worked'))
    BY <1>4 DEF Outcome, OutcomeAs, Committed
  <1>5. v.task = task /\ task' = n /\ worked' = worked
    BY <1>4 DEF Seen, Reworked
  <1>6. Counts(task, worked) => Counts(task', worked')
    BY <1>0, <1>2, <1>5, SameClockCounts DEF KeepsTime
  <1>7. /\ OpenHelps = {} /\ task.status # "support_requested"
        /\ helps' = Append(helps, [prev |-> task.status, status |-> "pending"])
        /\ helps \in Seq(HelpRows)
    BY <1>5 DEF RequestSupport, NoActiveHelp, TypeInv
  <1>8. h \in DOMAIN helps' /\ helps'[h] = [prev |-> task.status, status |-> "pending"]
    BY <1>7
  <1>9. OpenHelps' = {h}
    <2>1. \A i \in DOMAIN helps' : i # h => i \in DOMAIN helps /\ helps'[i] = helps[i]
      BY <1>7
    <2> QED BY <1>7, <1>8, <2>1 DEF OpenHelps, IsOpenHelp
  <1>10. OpenDecisions' = OpenDecisions /\ decisions' = decisions
    BY <1>1 DEF OpenDecisions
  <1>11. Interrupted' = Interrupted
    <2>1. Interrupted = Behind(task.status)
      BY <1>7, BehindStatus
    <2>2. Interrupted' = Behind(helps'[h].prev)
      BY <1>2, <1>5, <1>9, <1>10 DEF Interrupted, Behind
    <2> QED BY <1>8, <2>1, <2>2
  <1>12. Match'
    BY <1>2, <1>5, <1>7, <1>8, <1>9, <1>10 DEF Sane, Match
  <1>13. PausedRight'
    BY <1>2, <1>5, <1>11 DEF Sane, PausedRight, SameClock
  <1> QED BY <1>6, <1>12, <1>13 DEF Sane

LEMMA AcceptSupportOutcome ==
  ASSUME TypeInv, NEW v \in Views(clock, Len(helps)), AcceptSupport(v)
  PROVE  Outcome(v)
  <1>0. clock \in Nat /\ worked \in Nat /\ v.task \in Rows(clock)
    BY DEF TypeInv, Views
  <1>1. PICK i \in DOMAIN v.helps :
          /\ Answerable(v, i) /\ v.helps[i].status = "pending" /\ OnlyActiveHelp(i)
          /\ helps' = Answered(helps, i, "accepted")
          /\ Commit(v, v.task, {})
          /\ UNCHANGED <<decisions, successors, companions, strayed>>
    BY DEF AcceptSupport, Answered
  <1>2. Committed(v) /\ (v = Seen => task' = v.task /\ worked' = Reworked({}))
    BY <1>0, <1>1, Committing
  <1> SUFFICES ASSUME v = Seen, Unique, Sane, ~strayed'
               PROVE  Sane' /\ (Counts(task, worked) => Counts(task', worked'))
    BY <1>2 DEF Outcome, OutcomeAs, Committed
  <1>3. task' = task /\ worked' = worked /\ v.helps = helps
    BY <1>2 DEF Seen, Reworked
  <1>4. /\ helps' \in Seq(HelpRows) /\ DOMAIN helps' = DOMAIN helps
        /\ helps'[i].status = "accepted" /\ helps'[i].prev = helps[i].prev
        /\ \A j \in DOMAIN helps : j # i => helps'[j] = helps[j]
    <2>1. i \in DOMAIN helps /\ helps \in Seq(HelpRows) /\ helps' = Answered(helps, i, "accepted")
      BY <1>1, <1>3 DEF TypeInv
    <2> QED BY <2>1, AnsweredHelp
  <1>5. OpenHelps' = OpenHelps /\ \A j \in OpenHelps : helps'[j].prev = helps[j].prev
    BY <1>1, <1>3, <1>4 DEF OpenHelps, IsOpenHelp
  <1>6. OpenDecisions' = OpenDecisions /\ decisions' = decisions
    BY <1>1 DEF OpenDecisions
  <1>7. Interrupted' = Interrupted
    <2>1. /\ i \in OpenHelps /\ OpenHelps = {i} /\ task.status = "support_requested"
          /\ helps'[i].prev = helps[i].prev
      BY <1>1, <1>3, <1>4 DEF Answerable, OnlyActiveHelp, OpenHelps, IsOpenHelp, Seen
    <2>2. Interrupted = Behind(helps[i].prev)
      BY <2>1, BehindSupport
    <2>3. Interrupted' = Behind(helps'[i].prev)
      BY <1>3, <1>5, <1>6, <2>1 DEF Interrupted, Behind
    <2> QED BY <2>1, <2>2, <2>3
  <1>8. Match'
    BY <1>3, <1>5, <1>6 DEF Sane, Match
  <1>9. PausedRight'
    BY <1>3, <1>7 DEF Sane, PausedRight
  <1> QED BY <1>3, <1>8, <1>9 DEF Sane

LEMMA EndSupportOutcome ==
  ASSUME TypeInv, NEW v \in Views(clock, Len(helps)), EndSupport(v)
  PROVE  Outcome(v)
  <1>0. clock \in Nat /\ waited \in Nat /\ worked \in Nat /\ v.task \in Rows(clock)
        /\ v.helps \in Seq(HelpRows)
    BY DEF TypeInv, Views
  <1>1. PICK i \in DOMAIN v.helps, answer \in {"completed", "cancelled"} :
          LET prior == v.helps[i].prev IN
          \E status \in {prior} \cup Transitions(prior) :
            \E until \in Contexts(status, {v.task.ctx}) :
              LET clocked == Reclocked(prior, [v.task EXCEPT !.status = status, !.ctx = until]) IN
              /\ Answerable(v, i)
              /\ helps' = [helps EXCEPT ![i].status = answer]
              /\ Commit(v, Settled(prior, clocked), IF Restarts(prior, clocked) THEN {"due"} ELSE {})
              /\ UNCHANGED <<decisions, successors, companions, strayed>>
    BY Zenon DEF EndSupport
  <1> DEFINE prior == v.helps[i].prev
  <1>a. PICK status \in {prior} \cup Transitions(prior) :
          \E until \in Contexts(status, {v.task.ctx}) :
            LET clocked == Reclocked(prior, [v.task EXCEPT !.status = status, !.ctx = until]) IN
            /\ Answerable(v, i)
            /\ helps' = [helps EXCEPT ![i].status = answer]
            /\ Commit(v, Settled(prior, clocked), IF Restarts(prior, clocked) THEN {"due"} ELSE {})
            /\ UNCHANGED <<decisions, successors, companions, strayed>>
    BY <1>1, Zenon
  <1>2. PICK until \in Contexts(status, {v.task.ctx}) :
          LET clocked == Reclocked(prior, [v.task EXCEPT !.status = status, !.ctx = until]) IN
          /\ Answerable(v, i)
          /\ helps' = [helps EXCEPT ![i].status = answer]
          /\ Commit(v, Settled(prior, clocked), IF Restarts(prior, clocked) THEN {"due"} ELSE {})
          /\ UNCHANGED <<decisions, successors, companions, strayed>>
    BY <1>a, Zenon
  <1> DEFINE m == MovedTo(v.task, status, until)
             c == Reclocked(prior, m)
             n == Settled(prior, c)
             st == IF Restarts(prior, c) THEN {"due"} ELSE {}
  <1>3. /\ Answerable(v, i) /\ helps' = Answered(helps, i, answer)
        /\ Commit(v, n, st) /\ UNCHANGED <<decisions, successors, companions, strayed>>
    BY <1>2, Zenon DEF MovedTo, Answered
  <1>4. prior \in Statuses \ {"support_requested"}
    <2>1. v.helps[i] \in HelpRows
      BY <1>0
    <2> QED BY <2>1 DEF HelpRows
  <1> HIDE DEF prior
  <1>5. /\ status \in Statuses /\ until \in Nat \cup {None} /\ status # "support_requested"
        /\ status = "waiting_decision" <=> prior = "waiting_decision"
        /\ prior = "waiting_decision" => status = prior
    <2>1. \/ status = prior
          \/ status \in Statuses /\ status \notin Asking /\ prior \notin Asking
      BY MeansStatus
    <2>2. until \in Nat \cup {None}
      BY <1>0, Columns, MeansUntil
    <2> QED BY <1>4, <2>1, <2>2 DEF Asking
  <1>6. Returned(v.task, prior, status, Restarts(prior, c), n)
    BY <1>0, <1>5, ReturnedRow
  <1>7. st = IF Restarts(prior, c) THEN {"due"} ELSE {}
    OBVIOUS
  <1> HIDE DEF n, c, m, st
  <1>8. n \in Rows(clock) /\ Finished(n) /\ (OneExecutor(v.task) => OneExecutor(n))
    BY <1>6 DEF Returned, SameExecutor, OneExecutor
  <1>9. Committed(v) /\ (v = Seen => task' = n /\ worked' = Reworked(st))
    BY <1>0, <1>3, <1>8, Committing
  <1> SUFFICES ASSUME v = Seen, Unique, Sane, ~strayed'
               PROVE  Sane' /\ (Counts(task, worked) => Counts(task', worked'))
    BY <1>9 DEF Outcome, OutcomeAs, Committed
  <1>10. /\ task' = n /\ worked' = Reworked(st) /\ v.helps = helps /\ v.task = task
         /\ task.status = "support_requested" /\ i \in OpenHelps /\ prior = helps[i].prev
    BY <1>3, <1>9 DEF Seen, Answerable, OpenHelps, prior
  <1>11. /\ DOMAIN helps' = DOMAIN helps /\ helps'[i].status = answer
         /\ \A j \in DOMAIN helps : j # i => helps'[j] = helps[j]
    <2>1. i \in DOMAIN helps /\ helps \in Seq(HelpRows) /\ helps' = Answered(helps, i, answer)
      BY <1>3, <1>10 DEF TypeInv
    <2> QED BY <2>1, AnsweredHelp
  <1>12. OpenHelps = {i} /\ OpenHelps' = {}
    BY <1>10, <1>11 DEF Unique, OpenHelps, IsOpenHelp
  <1>13. OpenDecisions' = OpenDecisions /\ decisions' = decisions
    BY <1>3 DEF OpenDecisions
  <1>14. Interrupted = Behind(prior)
    BY <1>10, BehindSupport
  <1>15. n.status = status /\ n.pauses = task.pauses
    BY <1>6, <1>10 DEF Returned
  <1>16. Interrupted' = Behind(status)
    BY <1>5, <1>10, <1>13, <1>15 DEF Interrupted, Behind
  <1>17. Match'
    BY <1>5, <1>10, <1>12, <1>13, <1>15 DEF Sane, Match
  <1>18. PausedRight' /\ (Counts(task, worked) => Counts(task', worked'))
    <2>1. CASE prior = "waiting_decision"
      <3>1. status = prior /\ status \notin Archived
        BY <1>5, <2>1 DEF Archived, Final
      <3>2. n.paused = task.paused /\ ~Restarts(prior, c) /\ KeepsTime(task, n)
        BY <1>6, <1>10, <3>1 DEF Returned
      <3>3. worked' = worked
        BY <1>7, <1>10, <3>2 DEF Reworked
      <3> QED BY <1>0, <1>10, <1>14, <1>15, <1>16, <3>1, <3>2, <3>3 DEF Sane, PausedRight, KeepsTime
    <2>2. CASE prior # "waiting_decision"
      <3>1. task.paused # None <=> task.pauses /\ prior = "waiting"
        BY <1>14, <2>2 DEF Sane, PausedRight, Behind
      <3>2. /\ n.paused # None <=> n.pauses /\ status = "waiting"
            /\ \A work \in Nat : Counts(task, work) =>
                 Counts(n, IF Restarts(prior, c) THEN 0 ELSE work)
        BY <1>6, <1>10, <3>1 DEF Returned
      <3>3. Interrupted' = {status}
        BY <1>5, <1>16, <2>2 DEF Behind
      <3>4. PausedRight'
        BY <1>10, <1>15, <3>2, <3>3 DEF PausedRight
      <3>5. worked' = IF Restarts(prior, c) THEN 0 ELSE worked
        BY <1>7, <1>10 DEF Reworked
      <3> QED BY <1>0, <1>10, <3>2, <3>4, <3>5
    <2> QED BY <2>1, <2>2
  <1> QED BY <1>17, <1>18 DEF Sane

LEMMA AddToCaseOutcome ==
  ASSUME TypeInv, NEW v, v.task \in Rows(clock), AddToCase(v)
  PROVE  Outcome(v)
  <1>1. Commit(v, v.task, {}) /\ UNCHANGED <<helps, decisions>>
    BY DEF AddToCase
  <1>2. v = Seen => v.task = task
    BY DEF Seen
  <1>3. Counts(task, worked) => Counts(task, Reworked({}))
    BY DEF Reworked
  <1> QED BY <1>1, <1>2, <1>3, PlainOutcome

LEMMA HandleOutcome ==
  ASSUME TypeInv, NEW v \in Views(clock, Len(helps)), Handle(v)
  PROVE  Outcome(v)
  <1>0. v.task \in Rows(clock)
    BY DEF Views
  <1> QED
    BY <1>0, TransitionOutcome, EditFieldsOutcome, ClosesOutcome, ReopenOutcome, CommentOutcome,
       ClaimOutcome, RequestSupportOutcome, AcceptSupportOutcome, EndSupportOutcome,
       UpdateApiOutcome, AssignApiOutcome, UpdateLegacyOutcome, AddToCaseOutcome
    DEF Handle

-----------------------------------------------------------------------------
(* Requests that lock the task: for decisions, for a case, and those on a  *)
(* successor.                                                              *)

LEMMA AnsweredDecision ==
  ASSUME NEW s \in Seq(DecisionRows), NEW i \in DOMAIN s,
         NEW answer, answer \in {"information_requested", "approved", "rejected"},
         NEW t, t = Answered(s, i, answer)
  PROVE  /\ t \in Seq(DecisionRows) /\ Len(t) = Len(s) /\ DOMAIN t = DOMAIN s
         /\ t[i].status = answer /\ t[i].prev = s[i].prev
         /\ \A j \in DOMAIN s : j # i => t[j] = s[j]
  <1> DEFINE r == [s[i] EXCEPT !.status = answer]
  <1>1. s[i] \in DecisionRows
    OBVIOUS
  <1>2. r \in DecisionRows /\ r.status = answer /\ r.prev = s[i].prev
    BY <1>1 DEF DecisionRows
  <1>3. t = [s EXCEPT ![i] = r]
    BY DEF Answered
  <1> HIDE DEF r
  <1>4. /\ t \in Seq(DecisionRows) /\ Len(t) = Len(s) /\ DOMAIN t = DOMAIN s
        /\ t[i] = r /\ \A j \in DOMAIN s : j # i => t[j] = s[j]
    BY <1>2, <1>3, RowsOf
  <1> QED BY <1>2, <1>4

LEMMA SeenRow ==
  ASSUME TypeInv
  PROVE  Seen.task = task /\ task \in Rows(clock) /\ Seen \in Views(clock, Len(helps))
  BY DEF TypeInv, Seen, Views

LEMMA RequestDecisionOutcome ==
  ASSUME TypeInv, RequestDecision
  PROVE  OutcomeAs(Seen, taken, Overruled \/ task.status = "resolved")
  <1> DEFINE over == Overruled \/ task.status = "resolved"
             n == Put(task, "waiting_decision")
             d == Len(decisions) + 1
  <1>0. clock \in Nat /\ worked \in Nat /\ "waiting_decision" \in Statuses
    BY DEF TypeInv, Statuses
  <1>1. Commit(Seen, n, {}) /\ UNCHANGED helps
    BY DEF RequestDecision, Put
  <1>2. /\ n \in Rows(clock) /\ n.status = "waiting_decision" /\ SameExecutor(task, n)
        /\ SameClock(task, n) /\ n.closed = task.closed /\ task.status \notin Final
    BY <1>0, SeenRow, StatusRow DEF RequestDecision
  <1> HIDE DEF n
  <1>3. /\ Finished(task) => FinishedAs(n, taken, over)
        /\ OneExecutor(task) => OneExecutor(n)
    BY <1>2 DEF Finished, FinishedAs, Archived, Final, SameExecutor, OneExecutor
  <1>4. CommittedAs(Seen, taken, over) /\ task' = n /\ worked' = Reworked({})
    BY <1>1, <1>2, <1>3, SeenRow, CommittingAs
  <1> SUFFICES ASSUME Unique, Sane, ~strayed'
               PROVE  Sane' /\ (Counts(task, worked) => Counts(task', worked'))
    BY <1>4 DEF OutcomeAs
  <1>5. worked' = worked /\ KeepsTime(task, task')
    BY <1>2, <1>4, SameClockCounts DEF Reworked
  <1>6. Counts(task, worked) => Counts(task', worked')
    BY <1>0, <1>5 DEF KeepsTime
  <1>7. /\ OpenDecisions = {} /\ task.status \notin Asking
        /\ decisions' = Append(decisions, [prev |-> task.status, status |-> "pending"])
        /\ decisions \in Seq(DecisionRows)
    BY DEF RequestDecision, TypeInv
  <1>8. d \in DOMAIN decisions' /\ decisions'[d] = [prev |-> task.status, status |-> "pending"]
    BY <1>7
  <1>9. OpenDecisions' = {d}
    <2>1. \A i \in DOMAIN decisions' : i # d => i \in DOMAIN decisions /\ decisions'[i] = decisions[i]
      BY <1>7
    <2> QED BY <1>7, <1>8, <2>1 DEF OpenDecisions, IsOpenDecision
  <1>10. OpenHelps' = OpenHelps /\ OpenHelps = {}
    BY <1>1, <1>7 DEF OpenHelps, Sane, Match, Asking
  <1>11. Interrupted' = Interrupted
    <2>1. Interrupted = {task.status}
      BY <1>7, Uninterrupted
    <2>2. Interrupted' = {decisions'[d].prev}
      BY <1>2, <1>4, <1>9 DEF Interrupted
    <2> QED BY <1>8, <2>1, <2>2
  <1>12. Match'
    BY <1>2, <1>4, <1>9, <1>10 DEF Match
  <1>13. PausedRight'
    BY <1>2, <1>4, <1>11 DEF Sane, PausedRight, SameClock
  <1> QED BY <1>6, <1>12, <1>13 DEF Sane

LEMMA AskForInformationOutcome ==
  ASSUME TypeInv, AskForInformation
  PROVE  Outcome(Seen)
  <1>0. worked \in Nat /\ decisions \in Seq(DecisionRows)
    BY DEF TypeInv
  <1>1. PICK i \in OpenDecisions :
          /\ task.status = "waiting_decision"
          /\ decisions' = Answered(decisions, i, "information_requested")
          /\ Commit(Seen, task, {})
          /\ UNCHANGED <<helps, successors, companions, strayed>>
    BY DEF AskForInformation, Answered
  <1>2. Committed(Seen) /\ task' = task /\ worked' = Reworked({})
    BY <1>1, SeenRow, Committing
  <1> SUFFICES ASSUME Unique, Sane, ~strayed'
               PROVE  Sane' /\ (Counts(task, worked) => Counts(task', worked'))
    BY <1>2 DEF Outcome, OutcomeAs, Committed
  <1>3. worked' = worked
    BY <1>2 DEF Reworked
  <1>4. /\ DOMAIN decisions' = DOMAIN decisions
        /\ decisions'[i].status = "information_requested" /\ decisions'[i].prev = decisions[i].prev
        /\ \A j \in DOMAIN decisions : j # i => decisions'[j] = decisions[j]
    BY <1>0, <1>1, AnsweredDecision DEF OpenDecisions
  <1>5. OpenDecisions' = OpenDecisions /\ OpenDecisions = {i}
    BY <1>4 DEF OpenDecisions, IsOpenDecision, Unique
  <1>6. OpenHelps' = OpenHelps /\ helps' = helps
    BY <1>1 DEF OpenHelps
  <1>7. Interrupted' = Interrupted
    <2>1. Interrupted = {decisions[i].prev}
      BY <1>1, <1>5 DEF Interrupted
    <2>2. Interrupted' = {decisions'[i].prev}
      BY <1>1, <1>2, <1>5 DEF Interrupted
    <2> QED BY <1>4, <2>1, <2>2
  <1>8. Match'
    BY <1>2, <1>5, <1>6 DEF Sane, Match
  <1>9. PausedRight'
    BY <1>2, <1>7 DEF Sane, PausedRight
  <1> QED BY <1>2, <1>3, <1>8, <1>9 DEF Sane

LEMMA ResolveDecisionOutcome ==
  ASSUME TypeInv, ResolveDecision
  PROVE  Outcome(Seen)
  <1> DEFINE n == Put(task, "in_execution")
  <1>0. /\ clock \in Nat /\ worked \in Nat /\ "in_execution" \in Statuses
        /\ decisions \in Seq(DecisionRows)
    BY DEF TypeInv, Statuses
  <1>1. PICK i \in OpenDecisions, answer \in {"approved", "rejected"} :
          /\ task.status = "waiting_decision"
          /\ decisions' = Answered(decisions, i, answer)
          /\ Commit(Seen, n, {})
          /\ strayed' = (strayed \/ decisions[i].prev = "waiting")
          /\ UNCHANGED <<helps, successors, companions>>
    BY DEF ResolveDecision, Answered, Decided, Put
  <1>2. /\ n \in Rows(clock) /\ n.status = "in_execution" /\ SameExecutor(task, n)
        /\ SameClock(task, n) /\ n.closed = task.closed
    BY <1>0, SeenRow, StatusRow
  <1> HIDE DEF n
  <1>3. (Finished(task) => Finished(n)) /\ (OneExecutor(task) => OneExecutor(n))
    BY <1>1, <1>2 DEF Finished, FinishedAs, Archived, Final, SameExecutor, OneExecutor
  <1>4. Committed(Seen) /\ task' = n /\ worked' = Reworked({})
    BY <1>1, <1>2, <1>3, SeenRow, Committing
  <1> SUFFICES ASSUME Unique, Sane, ~strayed'
               PROVE  Sane' /\ (Counts(task, worked) => Counts(task', worked'))
    BY <1>4 DEF Outcome, OutcomeAs, Committed
  <1>5. worked' = worked /\ KeepsTime(task, task')
    BY <1>2, <1>4, SameClockCounts DEF Reworked
  <1>6. Counts(task, worked) => Counts(task', worked')
    BY <1>0, <1>5 DEF KeepsTime
  <1>7. /\ DOMAIN decisions' = DOMAIN decisions /\ decisions'[i].status = answer
        /\ \A j \in DOMAIN decisions : j # i => decisions'[j] = decisions[j]
    BY <1>0, <1>1, AnsweredDecision DEF OpenDecisions
  <1>8. OpenDecisions = {i} /\ OpenDecisions' = {}
    BY <1>7 DEF OpenDecisions, IsOpenDecision, Unique
  <1>9. OpenHelps' = OpenHelps /\ OpenHelps = {}
    BY <1>1 DEF OpenHelps, Sane, Match
  <1>10. Interrupted = {decisions[i].prev} /\ decisions[i].prev # "waiting"
    BY <1>1, <1>8 DEF Interrupted
  <1>11. Interrupted' = {"in_execution"}
    BY <1>2, <1>4 DEF Interrupted
  <1>12. Match'
    BY <1>2, <1>4, <1>8, <1>9 DEF Match
  <1>13. PausedRight'
    BY <1>2, <1>4, <1>10, <1>11 DEF Sane, PausedRight, SameClock
  <1> QED BY <1>6, <1>12, <1>13 DEF Sane

LEMMA OthersOutcome ==
  ASSUME TypeInv, RelateCase \/ SuccessorMoves \/ CompanionMoves
  PROVE  Outcome(Seen)
  <1>1. Commit(Seen, task, {}) /\ UNCHANGED <<helps, decisions>>
    BY DEF RelateCase, SuccessorMoves, CompanionMoves
  <1>2. Counts(task, worked) => Counts(task, Reworked({}))
    BY DEF Reworked
  <1> QED BY <1>1, <1>2, SeenRow, PlainOutcome

-----------------------------------------------------------------------------
(* The questions, the successors and the case that a step leaves.          *)

Questions ==
  /\ helps' \in Seq(HelpRows) /\ Len(helps) <= Len(helps')
  /\ decisions' \in Seq(DecisionRows)
  /\ Unique => Unique'
  /\ Overruled => Overruled'

Others ==
  /\ successors' \in Seq(BOOLEAN)
  /\ companions' \in Seq(BOOLEAN) \cup {None}

LEMMA AskedResolved ==
  ASSUME TypeInv, RequestDecision, task.status = "resolved"
  PROVE  Overruled'
  <1> DEFINE d == Len(decisions) + 1
  <1>1. /\ decisions' = Append(decisions, [prev |-> task.status, status |-> "pending"])
        /\ decisions \in Seq(DecisionRows)
    BY DEF RequestDecision, TypeInv
  <1>2. d \in DOMAIN decisions' /\ decisions'[d].prev = "resolved"
    BY <1>1
  <1> QED BY <1>2 DEF Overruled

LEMMA UnaskedQuestions ==
  ASSUME TypeInv, UNCHANGED <<helps, decisions>>
  PROVE  Questions
  <1>1. OpenHelps' = OpenHelps /\ OpenDecisions' = OpenDecisions
    BY DEF OpenHelps, OpenDecisions
  <1>2. Unique => Unique'
    BY <1>1 DEF Unique
  <1>3. Len(helps) <= Len(helps')
    <2>1. Len(helps) \in Nat /\ Len(helps') = Len(helps)
      BY DEF TypeInv
    <2> QED BY <2>1
  <1>4. Overruled => Overruled'
    BY DEF Overruled
  <1> QED BY <1>2, <1>3, <1>4 DEF Questions, TypeInv

(* An answer to one of the requests for support.                           *)
LEMMA AnsweredQuestions ==
  ASSUME TypeInv, NEW v \in Views(clock, Len(helps)), NEW i \in DOMAIN v.helps,
         NEW answer, answer \in {"accepted", "completed", "cancelled"},
         answer = "accepted" => OnlyActiveHelp(i),
         helps' = Answered(helps, i, answer), UNCHANGED decisions
  PROVE  Questions
  <1>1. helps \in Seq(HelpRows) /\ v.helps \in Seq(HelpRows) /\ Len(v.helps) <= Len(helps)
    BY DEF TypeInv, Views
  <1>2. i \in DOMAIN helps
    BY <1>1
  <1>3. /\ helps' \in Seq(HelpRows) /\ Len(helps') = Len(helps) /\ DOMAIN helps' = DOMAIN helps
        /\ helps'[i].status = answer
        /\ \A j \in DOMAIN helps : j # i => helps'[j] = helps[j]
    BY <1>1, <1>2, AnsweredHelp
  <1>4. OpenDecisions' = OpenDecisions
    BY DEF OpenDecisions
  <1>5. OpenHelps' \subseteq OpenHelps \cup {i}
    BY <1>3 DEF OpenHelps
  <1>6. answer # "accepted" => i \notin OpenHelps'
    BY <1>3 DEF OpenHelps, IsOpenHelp
  <1>7. Unique => Unique'
    BY <1>4, <1>5, <1>6 DEF Unique, OnlyActiveHelp
  <1>8. Len(helps) <= Len(helps')
    BY <1>1, <1>3
  <1>9. Overruled => Overruled'
    BY DEF Overruled
  <1> QED BY <1>3, <1>7, <1>8, <1>9 DEF Questions, TypeInv

(* What an update by the API leaves alone.                                 *)
LEMMA UpdateApiLeaves ==
  ASSUME NEW v, UpdateApi(v), strayed \in BOOLEAN
  PROVE  /\ UNCHANGED <<helps, decisions, successors, companions>>
         /\ strayed' \in BOOLEAN /\ (~strayed' => ~strayed)
  BY SMT DEF UpdateApi

LEMMA ServeQuestions ==
  ASSUME TypeInv, NEW v \in Views(clock, Len(helps)), Serve(v)
  PROVE  Questions
  <1>1. CASE UNCHANGED <<helps, decisions>>
    BY <1>1, UnaskedQuestions
  <1>2. CASE RequestSupport(v)
    <2> DEFINE row == [prev |-> v.task.status, status |-> "pending"]
               h == Len(helps) + 1
    <2>1. /\ OpenHelps = {} /\ helps' = Append(helps, row) /\ UNCHANGED decisions
          /\ v.task.status # "support_requested"
      BY <1>2 DEF RequestSupport, NoActiveHelp
    <2>2. v.task.status \in Statuses
      <3>1. v.task \in Rows(clock)
        BY DEF Views
      <3> QED BY <3>1, Columns DEF TypeInv
    <2>3. row \in HelpRows
      BY <2>1, <2>2 DEF HelpRows
    <2> HIDE DEF row
    <2>4. helps \in Seq(HelpRows)
      BY DEF TypeInv
    <2>5. /\ helps' \in Seq(HelpRows) /\ Len(helps') = h
          /\ \A j \in DOMAIN helps' : j # h => j \in DOMAIN helps /\ helps'[j] = helps[j]
      BY <2>1, <2>3, <2>4
    <2>6. OpenHelps' \subseteq {h} /\ OpenDecisions' = OpenDecisions
      BY <2>1, <2>5 DEF OpenHelps, OpenDecisions
    <2>7. Unique => Unique'
      BY <2>6 DEF Unique
    <2>8. Len(helps) <= Len(helps')
      BY <2>4, <2>5
    <2>9. Overruled => Overruled'
      BY <2>1 DEF Overruled
    <2> QED BY <2>1, <2>5, <2>7, <2>8, <2>9 DEF Questions, TypeInv
  <1>3. CASE AcceptSupport(v)
    <2>1. PICK i \in DOMAIN v.helps :
            /\ OnlyActiveHelp(i) /\ helps' = Answered(helps, i, "accepted") /\ UNCHANGED decisions
      BY <1>3 DEF AcceptSupport, Answered
    <2> QED BY <2>1, AnsweredQuestions
  <1>4. CASE EndSupport(v)
    <2>1. PICK i \in DOMAIN v.helps, answer \in {"completed", "cancelled"} :
            helps' = Answered(helps, i, answer) /\ UNCHANGED decisions
      BY <1>4 DEF EndSupport, Answered
    <2>2. answer \in {"accepted", "completed", "cancelled"} /\ answer # "accepted"
      OBVIOUS
    <2> QED BY <2>1, <2>2, AnsweredQuestions
  <1>5. ASSUME ~RequestSupport(v), ~AcceptSupport(v), ~EndSupport(v)
        PROVE  UNCHANGED <<helps, decisions>>
    <2>1. CASE Transition(v)
      BY <2>1, Zenon DEF Transition
    <2>2. CASE EditFields(v)
      BY <2>2, Zenon DEF EditFields
    <2>3. CASE CloseClean(v)
      BY <2>3, Zenon DEF CloseClean
    <2>4. CASE Reopen(v)
      BY <2>4, Zenon DEF Reopen
    <2>5. CASE Comment(v)
      BY <2>5, Zenon DEF Comment
    <2>6. CASE Claim(v)
      BY <2>6, Zenon DEF Claim
    <2>7. CASE UpdateApi(v)
      BY <2>7, UpdateApiLeaves DEF TypeInv
    <2>8. CASE AssignApi(v)
      BY <2>8, Zenon DEF AssignApi
    <2>9. CASE CloseApi(v)
      BY <2>9, Zenon DEF CloseApi
    <2>10. CASE UpdateLegacy(v)
      BY <2>10, Zenon DEF UpdateLegacy
    <2>11. CASE CloseLegacy(v)
      BY <2>11, Zenon DEF CloseLegacy
    <2>12. CASE CancelWithProcess(v)
      BY <2>12, Zenon DEF CancelWithProcess
    <2>13. CASE AddToCase(v)
      BY <2>13, Zenon DEF AddToCase
    <2> QED BY <1>5, <2>1, <2>2, <2>3, <2>4, <2>5, <2>6, <2>7, <2>8, <2>9, <2>10, <2>11, <2>12,
               <2>13 DEF Serve, Handle
  <1> QED BY <1>1, <1>2, <1>3, <1>4, <1>5

LEMMA Toggled ==
  ASSUME NEW s \in Seq(BOOLEAN), NEW i \in DOMAIN s
  PROVE  [s EXCEPT ![i] = ~@] \in Seq(BOOLEAN)
  <1>1. (~s[i]) \in BOOLEAN
    OBVIOUS
  <1> QED BY <1>1, RowsOf

LEMMA ServeOthers ==
  ASSUME TypeInv, NEW v, Serve(v)
  PROVE  Others
  <1>0. successors \in Seq(BOOLEAN) /\ companions \in Seq(BOOLEAN) \cup {None}
    BY DEF TypeInv
  <1>1. CASE Succeed(v) /\ UNCHANGED companions
    <2>1. CASE UNCHANGED successors
      BY <1>0, <1>1, <2>1 DEF Others
    <2>2. CASE successors' = Append(successors, TRUE)
      BY <1>0, <1>1, <2>2 DEF Others
    <2> QED BY <1>1, <2>1, <2>2 DEF Succeed
  <1>2. CASE AddToCase(v)
    <2>1. /\ companions # None /\ companions' = Append(companions, TRUE)
          /\ UNCHANGED successors
      BY <1>2 DEF AddToCase
    <2>2. companions \in Seq(BOOLEAN)
      BY <1>0, <2>1
    <2>3. Append(companions, TRUE) \in Seq(BOOLEAN)
      BY <2>2
    <2> QED BY <1>0, <2>1, <2>3 DEF Others
  <1>3. CASE UNCHANGED <<successors, companions>>
    BY <1>0, <1>3 DEF Others
  <1>4. ASSUME ~AddToCase(v)
        PROVE  (Succeed(v) \/ UNCHANGED successors) /\ UNCHANGED companions
    <2>1. CASE Transition(v)
      BY <2>1, Zenon DEF Transition
    <2>2. CASE EditFields(v)
      BY <2>2, Zenon DEF EditFields
    <2>3. CASE CloseClean(v)
      BY <2>3, Zenon DEF CloseClean
    <2>4. CASE Reopen(v)
      BY <2>4, Zenon DEF Reopen
    <2>5. CASE Comment(v)
      BY <2>5, Zenon DEF Comment
    <2>6. CASE Claim(v)
      BY <2>6, Zenon DEF Claim
    <2>7. CASE RequestSupport(v)
      BY <2>7, Zenon DEF RequestSupport
    <2>8. CASE AcceptSupport(v)
      BY <2>8, Zenon DEF AcceptSupport
    <2>9. CASE EndSupport(v)
      BY <2>9, Zenon DEF EndSupport
    <2>10. CASE UpdateApi(v)
      BY <2>10, UpdateApiLeaves DEF TypeInv
    <2>11. CASE AssignApi(v)
      BY <2>11, Zenon DEF AssignApi
    <2>12. CASE CloseApi(v)
      BY <2>12, Zenon DEF CloseApi
    <2>13. CASE CancelWithProcess(v)
      BY <2>13, Zenon DEF CancelWithProcess
    <2>14. CASE UpdateLegacy(v)
      BY <2>14, Zenon DEF UpdateLegacy
    <2>15. CASE CloseLegacy(v)
      BY <2>15, Zenon DEF CloseLegacy
    <2> QED BY <1>4, <2>1, <2>2, <2>3, <2>4, <2>5, <2>6, <2>7, <2>8, <2>9, <2>10, <2>11, <2>12,
               <2>13, <2>14, <2>15 DEF Serve, Handle
  <1> QED BY <1>1, <1>2, <1>3, <1>4

LEMMA LockedOthers ==
  ASSUME TypeInv,
         \/ RequestDecision \/ AskForInformation \/ ResolveDecision
         \/ RelateCase \/ SuccessorMoves \/ CompanionMoves
  PROVE  Others
  <1>0. successors \in Seq(BOOLEAN) /\ companions \in Seq(BOOLEAN) \cup {None}
    BY DEF TypeInv
  <1>1. CASE RequestDecision \/ AskForInformation \/ ResolveDecision
    <2>1. UNCHANGED <<successors, companions>>
      BY <1>1, Zenon DEF RequestDecision, AskForInformation, ResolveDecision
    <2> QED BY <1>0, <2>1 DEF Others
  <1>2. CASE RelateCase
    BY <1>0, <1>2 DEF RelateCase, Others
  <1>3. CASE SuccessorMoves
    <2>1. PICK i \in DOMAIN successors :
            successors' = [successors EXCEPT ![i] = ~@] /\ UNCHANGED companions
      BY <1>3 DEF SuccessorMoves
    <2>2. successors' \in Seq(BOOLEAN)
      BY <1>0, <2>1, Toggled
    <2> QED BY <1>0, <2>1, <2>2 DEF Others
  <1>4. CASE CompanionMoves
    <2>1. companions # None /\ UNCHANGED successors
      BY <1>4 DEF CompanionMoves
    <2>2. PICK i \in DOMAIN companions : companions' = [companions EXCEPT ![i] = ~@]
      BY <1>4 DEF CompanionMoves
    <2>3. companions \in Seq(BOOLEAN)
      BY <1>0, <2>1
    <2>4. companions' \in Seq(BOOLEAN)
      BY <2>2, <2>3, Toggled
    <2> QED BY <1>0, <2>1, <2>4 DEF Others
  <1> QED BY <1>1, <1>2, <1>3, <1>4

(* That a request strayed is never forgotten.                              *)
LEMMA Straying ==
  ASSUME TypeInv,
         \/ \E v : Serve(v)
         \/ RequestDecision \/ AskForInformation \/ ResolveDecision
         \/ RelateCase \/ SuccessorMoves \/ CompanionMoves
  PROVE  strayed' \in BOOLEAN /\ (~strayed' => ~strayed)
  <1>0. strayed \in BOOLEAN
    BY DEF TypeInv
  <1>1. ASSUME NEW v, Serve(v)
        PROVE  strayed' \in BOOLEAN /\ (~strayed' => ~strayed)
    <2>1. Transition(v) => UNCHANGED strayed
      BY Zenon DEF Transition
    <2>2. EditFields(v) => UNCHANGED strayed
      BY Zenon DEF EditFields
    <2>3. Comment(v) => UNCHANGED strayed
      BY Zenon DEF Comment
    <2>4. Claim(v) => UNCHANGED strayed
      BY Zenon DEF Claim
    <2>5. RequestSupport(v) => UNCHANGED strayed
      BY Zenon DEF RequestSupport
    <2>6. AcceptSupport(v) => UNCHANGED strayed
      BY Zenon DEF AcceptSupport
    <2>7. EndSupport(v) => UNCHANGED strayed
      BY Zenon DEF EndSupport
    <2>8. AssignApi(v) => UNCHANGED strayed
      BY Zenon DEF AssignApi
    <2>9. CloseClean(v) => \E b : strayed' = (strayed \/ b)
      BY Zenon DEF CloseClean
    <2>10. Reopen(v) => \E b : strayed' = (strayed \/ b)
      BY Zenon DEF Reopen
    <2>11. UpdateApi(v) => strayed' \in BOOLEAN /\ (~strayed' => ~strayed)
      BY <1>0, UpdateApiLeaves
    <2>12. CloseApi(v) => \E b : strayed' = (strayed \/ b)
      BY Zenon DEF CloseApi
    <2>13. UpdateLegacy(v) => \E b : strayed' = (strayed \/ b)
      BY Zenon DEF UpdateLegacy
    <2>14. CloseLegacy(v) => \E b : strayed' = (strayed \/ b)
      BY Zenon DEF CloseLegacy
    <2>15. CancelWithProcess(v) => \E b : strayed' = (strayed \/ b)
      BY Zenon DEF CancelWithProcess
    <2>16. AddToCase(v) => UNCHANGED strayed
      BY Zenon DEF AddToCase
    <2> QED BY <1>0, <1>1, <2>1, <2>2, <2>3, <2>4, <2>5, <2>6, <2>7, <2>8, <2>9, <2>10, <2>11, <2>12,
               <2>13, <2>14, <2>15, <2>16 DEF Serve, Handle
  <1>2. CASE \/ RequestDecision \/ AskForInformation
             \/ RelateCase \/ SuccessorMoves \/ CompanionMoves
    <2>1. UNCHANGED strayed
      BY <1>2, Zenon
      DEF RequestDecision, AskForInformation, RelateCase, SuccessorMoves, CompanionMoves
    <2> QED BY <1>0, <2>1
  <1>3. CASE ResolveDecision
    <2>1. PICK i \in OpenDecisions : strayed' = (strayed \/ decisions[i].prev = "waiting")
      BY <1>3, Zenon DEF ResolveDecision
    <2> QED BY <1>0, <2>1
  <1> QED BY <1>1, <1>2, <1>3

LEMMA LockedQuestions ==
  ASSUME TypeInv,
         RequestDecision \/ AskForInformation \/ ResolveDecision
         \/ RelateCase \/ SuccessorMoves \/ CompanionMoves
  PROVE  Questions
  <1>0. decisions \in Seq(DecisionRows) /\ helps \in Seq(HelpRows)
    BY DEF TypeInv
  <1>1. CASE RequestDecision
    <2> DEFINE row == [prev |-> task.status, status |-> "pending"]
               d == Len(decisions) + 1
    <2>1. /\ OpenDecisions = {} /\ decisions' = Append(decisions, row) /\ UNCHANGED helps
          /\ task.status \notin Asking
      BY <1>1 DEF RequestDecision
    <2>2. task.status \in Statuses
      BY SeenRow, Columns DEF TypeInv
    <2>3. row \in DecisionRows
      BY <2>1, <2>2 DEF DecisionRows
    <2> HIDE DEF row
    <2>4. /\ decisions' \in Seq(DecisionRows) /\ Len(decisions') = d
          /\ \A j \in DOMAIN decisions' :
               j # d => j \in DOMAIN decisions /\ decisions'[j] = decisions[j]
      BY <1>0, <2>1, <2>3
    <2>5. OpenDecisions' \subseteq {d} /\ OpenHelps' = OpenHelps
      BY <2>1, <2>4 DEF OpenHelps, OpenDecisions
    <2>6. Unique => Unique'
      BY <2>5 DEF Unique
    <2>7. \A j \in DOMAIN decisions : j \in DOMAIN decisions' /\ decisions'[j] = decisions[j]
      BY <1>0, <2>1
    <2>8. Overruled => Overruled'
      BY <2>7 DEF Overruled
    <2> QED BY <1>0, <2>1, <2>4, <2>6, <2>8 DEF Questions
  <1>2. CASE AskForInformation \/ ResolveDecision
    <2>1. PICK i \in OpenDecisions : \E answer \in {"information_requested", "approved", "rejected"} :
            decisions' = Answered(decisions, i, answer) /\ UNCHANGED helps
      BY <1>2 DEF AskForInformation, ResolveDecision, Answered
    <2>2. PICK answer \in {"information_requested", "approved", "rejected"} :
            decisions' = Answered(decisions, i, answer) /\ UNCHANGED helps
      BY <2>1
    <2>3. /\ decisions' \in Seq(DecisionRows) /\ DOMAIN decisions' = DOMAIN decisions
          /\ decisions'[i].prev = decisions[i].prev /\ i \in DOMAIN decisions
          /\ \A j \in DOMAIN decisions : j # i => decisions'[j] = decisions[j]
      <3>1. i \in DOMAIN decisions /\ answer \in {"information_requested", "approved", "rejected"}
        BY DEF OpenDecisions
      <3> QED BY <1>0, <2>2, <3>1, AnsweredDecision
    <2>4. OpenDecisions' \subseteq OpenDecisions /\ OpenHelps' = OpenHelps
      BY <2>2, <2>3 DEF OpenHelps, OpenDecisions
    <2>5. Unique => Unique'
      BY <2>4 DEF Unique
    <2>6. Overruled => Overruled'
      BY <2>3 DEF Overruled
    <2> QED BY <1>0, <2>2, <2>3, <2>5, <2>6 DEF Questions
  <1>3. CASE RelateCase \/ SuccessorMoves \/ CompanionMoves
    <2>1. UNCHANGED <<helps, decisions>>
      BY <1>3, Zenon DEF RelateCase, SuccessorMoves, CompanionMoves
    <2> QED BY <2>1, UnaskedQuestions
  <1> QED BY <1>1, <1>2, <1>3

-----------------------------------------------------------------------------
(* The inductive invariant.  That the questions are one holds however      *)
(* requests overtake one another; what a row says of itself, as long as    *)
(* none was decided by rows that had changed; and what it says of the      *)
(* questions and of the time, as long as none went around them either.     *)
IndInv ==
  /\ TypeInv /\ Unique
  /\ ~stale => Finished(task) /\ OneExecutor(task)
  /\ ~stale /\ ~strayed => Sane /\ Counts(task, worked)

LEMMA InitIndInv ==
  Init => IndInv
  <1> SUFFICES ASSUME Init PROVE IndInv
    OBVIOUS
  <1>1. PICK status \in {"planned", "new"}, pauses \in BOOLEAN :
          task = [status |-> status, closed |-> FALSE, ctx |-> None,
                  firstDue |-> Later(FirstMinutes, 0), due |-> Later(Minutes, 0),
                  responded |-> FALSE, resolved |-> FALSE,
                  paused |-> None, total |-> 0, pauses |-> pauses,
                  user |-> None, team |-> None, state |-> "waiting_assignment",
                  claimed |-> None]
    BY Zenon DEF Init
  <1>2. Later(FirstMinutes, 0) = FirstMinutes /\ Later(Minutes, 0) = Minutes
    BY DEF Later
  <1>3. /\ clock = 0 /\ helps = <<>> /\ decisions = <<>> /\ successors = <<>> /\ companions = None
        /\ view = [r \in Slow |-> None] /\ commits = 0
        /\ worked = 0 /\ waited = 0 /\ stale = FALSE /\ strayed = FALSE /\ taken = FALSE
    BY DEF Init
  <1>4. task \in Rows(0)
    BY <1>1, <1>2 DEF Rows, Statuses, ExecutorStates
  <1>5. /\ task.status \in {"planned", "new"} /\ task.paused = None
        /\ task.responded = FALSE /\ task.resolved = FALSE /\ task.total = 0
        /\ task.closed = FALSE
        /\ task.user = None /\ task.state = "waiting_assignment" /\ task.claimed = None
        /\ task.firstDue = FirstMinutes /\ task.due = Minutes
    BY <1>1, <1>2
  <1>6. TypeInv
    <2>1. clock \in 0 .. Horizon /\ commits \in 0 .. MaxCommits /\ task \in Rows(clock)
      BY <1>3, <1>4
    <2>2. /\ helps \in Seq(HelpRows) /\ decisions \in Seq(DecisionRows)
          /\ successors \in Seq(BOOLEAN)
      BY <1>3
    <2>3. view \in [Slow -> Views(clock, Len(helps)) \cup {None}]
      BY <1>3
    <2> QED BY <1>3, <2>1, <2>2, <2>3 DEF TypeInv
  <1>7. OpenHelps = {} /\ OpenDecisions = {}
    BY <1>3 DEF OpenHelps, OpenDecisions
  <1>8. Unique
    BY <1>3, <1>7 DEF Unique
  <1>9. Finished(task) /\ OneExecutor(task)
    BY <1>5 DEF Finished, FinishedAs, OneExecutor, Archived, Final
  <1>10. Sane
    <2>1. Interrupted = {task.status}
      BY <1>5, Uninterrupted DEF Asking
    <2> QED BY <1>5, <1>7, <2>1 DEF Sane, Match, PausedRight
  <1>11. Counts(task, worked)
    BY <1>3, <1>5 DEF Counts, Running
  <1> QED BY <1>6, <1>8, <1>9, <1>10, <1>11 DEF IndInv

LEMMA ViewsGrow ==
  ASSUME NEW now \in Nat, NEW later \in Nat, now <= later,
         NEW asked \in Nat, NEW more \in Nat, asked <= more
  PROVE  Rows(now) \subseteq Rows(later) /\ Views(now, asked) \subseteq Views(later, more)
  <1>1. (0 .. now) \cup {None} \subseteq (0 .. later) \cup {None}
    OBVIOUS
  <1>2. Rows(now) \subseteq Rows(later)
    BY <1>1 DEF Rows
  <1>3. ASSUME NEW v \in Views(now, asked) PROVE v \in Views(later, more)
    <2>1. /\ v \in [task : Rows(now), helps : Seq(HelpRows), successors : Seq(BOOLEAN),
                   companions : Seq(BOOLEAN) \cup {None}]
          /\ Len(v.helps) <= asked
      BY DEF Views
    <2>2. v \in [task : Rows(later), helps : Seq(HelpRows), successors : Seq(BOOLEAN),
                   companions : Seq(BOOLEAN) \cup {None}]
      BY <1>2, <2>1
    <2>3. Len(v.helps) \in Nat
      BY <2>2
    <2>4. Len(v.helps) <= more
      BY <2>1, <2>3
    <2> QED BY <2>2, <2>4 DEF Views
  <1> QED BY <1>2, <1>3

(* A request that committed, whichever it was.                             *)
LEMMA CommittedIndInv ==
  ASSUME IndInv, NEW v, NEW d, OutcomeAs(v, taken', d), d => Overruled', taken' \in BOOLEAN,
         Questions, Others,
         strayed' \in BOOLEAN, ~strayed' => ~strayed,
         UNCHANGED view \/ \E r \in Slow : view' = [view EXCEPT ![r] = None]
  PROVE  IndInv'
  <1>1. TypeInv /\ clock \in Nat /\ clock' = clock
    BY DEF IndInv, TypeInv, OutcomeAs, CommittedAs
  <1>2. view' \in [Slow -> Views(clock', Len(helps')) \cup {None}]
    <2>1. Len(helps) \in Nat /\ Len(helps') \in Nat /\ Len(helps) <= Len(helps')
      BY <1>1 DEF TypeInv, Questions
    <2>2. Views(clock, Len(helps)) \subseteq Views(clock', Len(helps'))
      BY <1>1, <2>1, ViewsGrow
    <2>3. view \in [Slow -> Views(clock', Len(helps')) \cup {None}]
      BY <1>1, <2>2 DEF TypeInv
    <2> QED BY <2>3
  <1>3. TypeInv'
    BY <1>1, <1>2 DEF TypeInv, OutcomeAs, CommittedAs, Questions, Others
  <1>4. Unique'
    BY DEF IndInv, Questions
  <1>5. ~stale' => FinishedAs(task', taken', d) /\ OneExecutor(task')
    BY DEF IndInv, OutcomeAs, CommittedAs
  <1>6. ~stale' /\ ~strayed' => Sane' /\ Counts(task', worked')
    BY DEF IndInv, OutcomeAs, CommittedAs
  <1>7. waited' = waited
    BY DEF OutcomeAs, CommittedAs
  <1>8. (~stale => Finished(task) /\ OneExecutor(task))'
    BY <1>5 DEF Finished, FinishedAs, OneExecutor
  <1>9. (~stale /\ ~strayed => Sane /\ Counts(task, worked))'
    BY <1>1, <1>6, <1>7 DEF Counts, Running
  <1> QED BY <1>3, <1>4, <1>8, <1>9 DEF IndInv

(* Time passes: for the clock of the task only while it does not wait.     *)
LEMMA TickIndInv ==
  ASSUME IndInv, Tick
  PROVE  IndInv'
  <1>1. /\ TypeInv /\ clock \in Nat /\ clock' = clock + 1 /\ clock' \in 0 .. Horizon
        /\ worked' \in Nat /\ waited' \in Nat
        /\ UNCHANGED <<task, helps, decisions, successors, companions, view, commits, stale, strayed, taken>>
    BY DEF Tick, IndInv, TypeInv
  <1>2. TypeInv'
    <2>1. Len(helps) \in Nat /\ Len(helps) <= Len(helps)
      BY <1>1 DEF TypeInv
    <2>2. clock' \in Nat /\ clock <= clock'
      BY <1>1
    <2>3. /\ Views(clock, Len(helps)) \subseteq Views(clock', Len(helps))
          /\ Rows(clock) \subseteq Rows(clock')
      BY <1>1, <2>1, <2>2, ViewsGrow
    <2>4. task \in Rows(clock') /\ view \in [Slow -> Views(clock', Len(helps)) \cup {None}]
      BY <1>1, <2>3 DEF TypeInv
    <2> QED BY <1>1, <2>4 DEF TypeInv
  <1>3. OpenHelps' = OpenHelps /\ OpenDecisions' = OpenDecisions
    BY <1>1 DEF OpenHelps, OpenDecisions
  <1>4. Interrupted' = Interrupted
    BY <1>1, <1>3 DEF Interrupted
  <1>5. Unique'
    BY <1>1, <1>3 DEF IndInv, Unique
  <1>6. ~stale' => Finished(task)' /\ OneExecutor(task)'
    BY <1>1 DEF IndInv, Finished, FinishedAs, Overruled, OneExecutor
  <1>7. ASSUME ~stale, ~strayed
        PROVE  Sane' /\ Counts(task, worked)'
    <2>1. Sane /\ Counts(task, worked)
      BY <1>7 DEF IndInv
    <2>2. Sane'
      BY <1>1, <1>3, <1>4, <2>1 DEF Sane, Match, PausedRight
    <2>3. ASSUME task.paused # None PROVE Counts(task, worked)'
      <3>1. waited' = waited + 1 /\ worked' = worked
        BY <2>1, <2>3 DEF Sane, PausedRight, Tick
      <3>2. /\ task.paused \in 0 .. clock /\ task.total \in Nat /\ task.due \in Nat
            /\ worked \in Nat /\ waited \in Nat
        BY <1>1, <2>3, Columns DEF TypeInv
      <3> QED BY <1>1, <2>1, <2>3, <3>1, <3>2 DEF Counts, Running
    <2>4. ASSUME task.paused = None PROVE Counts(task, worked)'
      <3>1. waited' = waited /\ worked' = worked + 1
        BY <2>1, <2>4 DEF Sane, PausedRight, Tick
      <3>2. task.total \in Nat /\ task.due \in Nat /\ worked \in Nat /\ waited \in Nat
        BY <1>1, Columns DEF TypeInv
      <3> QED BY <1>1, <2>1, <2>4, <3>1, <3>2 DEF Counts, Running
    <2> QED BY <2>2, <2>3, <2>4
  <1> QED BY <1>1, <1>2, <1>5, <1>6, <1>7 DEF IndInv

LEMMA LoadIndInv ==
  ASSUME IndInv, NEW r \in Slow, Load(r)
  PROVE  IndInv'
  <1>1. /\ view' = [view EXCEPT ![r] = Seen] /\ TypeInv
        /\ UNCHANGED <<clock, task, helps, decisions, successors, companions, commits>>
        /\ UNCHANGED <<worked, waited, stale, strayed, taken>>
    BY DEF Load, IndInv, history
  <1>2. Seen \in Views(clock, Len(helps))
    BY <1>1, SeenRow
  <1>3. view' \in [Slow -> Views(clock, Len(helps)) \cup {None}]
    BY <1>1, <1>2 DEF TypeInv
  <1>4. TypeInv'
    BY <1>1, <1>3 DEF TypeInv
  <1>5. OpenHelps' = OpenHelps /\ OpenDecisions' = OpenDecisions
    BY <1>1 DEF OpenHelps, OpenDecisions
  <1>6. Interrupted' = Interrupted
    BY <1>1, <1>5 DEF Interrupted
  <1>7. Unique'
    BY <1>1, <1>5 DEF IndInv, Unique
  <1>8. (~stale => Finished(task) /\ OneExecutor(task))'
    BY <1>1 DEF IndInv, Finished, FinishedAs, Overruled, OneExecutor
  <1>9. (~stale /\ ~strayed => Sane /\ Counts(task, worked))'
    BY <1>1, <1>5, <1>6 DEF IndInv, Sane, Match, PausedRight, Counts, Running
  <1> QED BY <1>4, <1>7, <1>8, <1>9 DEF IndInv

LEMMA NextIndInv ==
  ASSUME IndInv, [Next]_vars
  PROVE  IndInv'
  <1>0. TypeInv
    BY DEF IndInv
  <1>1. CASE UNCHANGED vars
    <2>1. /\ UNCHANGED <<clock, task, helps, decisions, successors, companions, view, commits>>
          /\ UNCHANGED <<worked, waited, stale, strayed, taken>>
      BY <1>1 DEF vars, history
    <2>2. OpenHelps' = OpenHelps /\ OpenDecisions' = OpenDecisions
      BY <2>1 DEF OpenHelps, OpenDecisions
    <2>3. Interrupted' = Interrupted
      BY <2>1, <2>2 DEF Interrupted
    <2>4. TypeInv'
      BY <1>0, <2>1 DEF TypeInv
    <2>5. Unique'
      BY <2>1, <2>2 DEF IndInv, Unique
    <2>6. (~stale => Finished(task) /\ OneExecutor(task))'
      BY <2>1 DEF IndInv, Finished, FinishedAs, Overruled, OneExecutor
    <2>7. (~stale /\ ~strayed => Sane /\ Counts(task, worked))'
      BY <2>1, <2>2, <2>3 DEF IndInv, Sane, Match, PausedRight, Counts, Running
    <2> QED BY <2>4, <2>5, <2>6, <2>7 DEF IndInv
  <1>2. CASE Tick
    BY <1>2, TickIndInv
  <1>3. ASSUME NEW v \in Views(clock, Len(helps)), Serve(v),
               UNCHANGED view \/ \E r \in Slow : view' = [view EXCEPT ![r] = None]
        PROVE  IndInv'
    <2>1. OutcomeAs(v, taken', Overruled) /\ taken' \in BOOLEAN
      <3>1. CASE Handle(v) /\ UNCHANGED taken
        BY <1>0, <3>1, HandleOutcome DEF Outcome, TypeInv
      <3>2. CASE CancelWithProcess(v)
        <4>1. v.task \in Rows(clock) /\ taken' = TRUE
          BY <3>2 DEF Views, CancelWithProcess
        <4> QED BY <1>0, <3>2, <4>1, CancelWithProcessOutcome
      <3> QED BY <1>3, <3>1, <3>2 DEF Serve
    <2>2. Questions
      BY <1>0, <1>3, ServeQuestions
    <2>3. Overruled => Overruled'
      BY <2>2 DEF Questions
    <2>4. Others /\ strayed' \in BOOLEAN /\ (~strayed' => ~strayed)
      BY <1>0, <1>3, ServeOthers, Straying
    <2> QED BY <1>3, <2>1, <2>2, <2>3, <2>4, CommittedIndInv
  <1>4. CASE Prompt
    BY <1>0, <1>3, <1>4, SeenRow DEF Prompt
  <1>5. CASE LocksTask
    <2>1. /\ UNCHANGED <<view, taken>>
          /\ \/ RequestDecision \/ AskForInformation \/ ResolveDecision
             \/ RelateCase \/ SuccessorMoves \/ CompanionMoves
      BY <1>5 DEF LocksTask
    <2>2. Questions
      BY <1>0, <2>1, LockedQuestions
    <2>3. PICK d : OutcomeAs(Seen, taken', d) /\ (d => Overruled')
      <3>1. CASE RequestDecision
        <4>1. OutcomeAs(Seen, taken', Overruled \/ task.status = "resolved")
          BY <1>0, <2>1, <3>1, RequestDecisionOutcome
        <4>2. task.status = "resolved" => Overruled'
          BY <1>0, <3>1, AskedResolved
        <4> QED BY <2>2, <4>1, <4>2 DEF Questions
      <3>2. CASE ~RequestDecision
        <4>1. OutcomeAs(Seen, taken', Overruled)
          BY <1>0, <2>1, <3>2, AskForInformationOutcome, ResolveDecisionOutcome, OthersOutcome
          DEF Outcome
        <4> QED BY <2>2, <4>1 DEF Questions
      <3> QED BY <3>1, <3>2
    <2>4. Others /\ strayed' \in BOOLEAN /\ (~strayed' => ~strayed)
      BY <1>0, <2>1, LockedOthers, Straying
    <2>5. taken' \in BOOLEAN
      BY <1>0, <2>1 DEF TypeInv
    <2> QED BY <2>1, <2>2, <2>3, <2>4, <2>5, CommittedIndInv
  <1>6. ASSUME NEW r \in Slow, Load(r) \/ Overtaken(r)
        PROVE  IndInv'
    <2>1. CASE Load(r)
      BY <2>1, LoadIndInv
    <2>2. CASE Overtaken(r)
      <3>1. view[r] \in Views(clock, Len(helps))
        BY <1>0, <2>2 DEF TypeInv, Overtaken
      <3> QED BY <1>3, <2>2, <3>1 DEF Overtaken
    <2> QED BY <1>6, <2>1, <2>2
  <1> QED BY <1>1, <1>2, <1>4, <1>5, <1>6 DEF Next

(* The invariant that the theorems rest on holds in every reachable state, *)
(* whatever requests overtake one another.                                 *)
THEOREM Inductive == Spec => []IndInv
  BY InitIndInv, NextIndInv, PTL DEF Spec

-----------------------------------------------------------------------------
(* The properties.                                                         *)

(* Every column of the task and of its questions keeps its type.           *)
THEOREM TypesPreserved == Spec => []TypeOK
  <1>1. IndInv => TypeOK
    <2> SUFFICES ASSUME IndInv PROVE TypeOK
      OBVIOUS
    <2>1. TypeInv /\ task \in Rows(clock)
      BY DEF IndInv, TypeInv
    <2>2. \A f \in {"closed", "responded", "resolved", "pauses"} : task[f] \in BOOLEAN
      BY <2>1, Columns DEF TypeInv
    <2>3. \A f \in {"firstDue", "due", "paused", "ctx"} : OptionalInstant(task[f])
      BY <2>1, Columns DEF TypeInv, OptionalInstant
    <2>4. \A i \in DOMAIN helps : helps[i].prev \in Statuses \ {"support_requested"}
      <3>1. \A i \in DOMAIN helps : helps[i] \in HelpRows
        BY <2>1 DEF TypeInv
      <3> QED BY <3>1 DEF HelpRows
    <2>5. \A i \in DOMAIN decisions : decisions[i].prev \in Statuses \ Asking
      <3>1. \A i \in DOMAIN decisions : decisions[i] \in DecisionRows
        BY <2>1 DEF TypeInv
      <3> QED BY <3>1 DEF DecisionRows
    <2>6. /\ task.status \in Statuses /\ task.total \in Nat
          /\ task.user \in Users \cup {None} /\ task.claimed \in Users \cup {None}
          /\ task.team \in {Team, None}
      BY <2>1, Columns DEF TypeInv
    <2> QED BY <2>1, <2>2, <2>3, <2>4, <2>5, <2>6 DEF TypeOK, TypeInv
  <1> QED BY <1>1, Inductive, PTL

(* As long as no request decided by rows that had changed and none went    *)
(* around the questions, the deadlines allot exactly what was agreed less  *)
(* the time that was worked (pause_task_sla, resume_task_sla,              *)
(* _shift_deadlines), for every service level and however often the task   *)
(* is paused, interrupted, concluded and reopened.                         *)
THEOREM WorkedTimeCounts == Spec => []SlaCountsWorkedTime
  <1>1. IndInv => SlaCountsWorkedTime
    <2> SUFFICES ASSUME IndInv, ~stale, ~strayed
                 PROVE  /\ task.total + Running(task) = waited
                        /\ ~task.responded => task.firstDue = Later(FirstMinutes, task.total)
                        /\ ~task.resolved => task.due + Running(task) + worked = clock + Minutes
      BY DEF SlaCountsWorkedTime, Running
    <2>1. Counts(task, worked)
      BY DEF IndInv
    <2>2. Later(FirstMinutes, task.total) = FirstMinutes + task.total
      <3>1. clock \in Nat /\ task \in Rows(clock)
        BY DEF IndInv, TypeInv
      <3>2. task.total \in Nat
        BY <3>1, Columns
      <3> QED BY <3>2, LaterIsLater
    <2> QED BY <2>1, <2>2 DEF Counts
  <1> QED BY <1>1, Inductive, PTL

(* However requests overtake one another, at most one request for support  *)
(* and one for a decision is open (the check for a duplicate and the       *)
(* unique index of support; the lock of decisions); and as long as nothing *)
(* writes over them the status of the task lets the open one be answered.  *)
THEOREM QuestionsAgree == Spec => []QuestionsMatch
  <1>1. ASSUME NEW S, \A i, j \in S : i = j
        PROVE  Cardinality(S) <= 1
    <2>1. CASE S = {}
      BY <2>1, FS_EmptySet
    <2>2. CASE S # {}
      <3>1. PICK x \in S : S = {x}
        BY <1>1, <2>2
      <3>2. Cardinality({x}) = 1
        BY FS_Singleton
      <3> QED BY <3>1, <3>2
    <2> QED BY <2>1, <2>2
  <1>2. IndInv => QuestionsMatch
    <2> SUFFICES ASSUME IndInv PROVE QuestionsMatch
      OBVIOUS
    <2>1. Cardinality(OpenHelps) <= 1 /\ Cardinality(OpenDecisions) <= 1
      BY <1>1 DEF IndInv, Unique
    <2>2. ~stale /\ ~strayed => Match
      BY DEF IndInv, Sane
    <2> QED BY <2>1, <2>2 DEF QuestionsMatch, Match
  <1> QED BY <1>2, Inductive, PTL

(* Whichever of the clean task centre, the legacy board, the REST API and  *)
(* the workshop concludes a task ('resolved' included), reopens it or      *)
(* assigns it, what it leaves carries every mark another surface looks     *)
(* for, as long as no request decided by rows that had changed; the two    *)
(* ways in which the surfaces do differ, a task cancelled with its process *)
(* and a decision asked of a resolved task, are named in the property.     *)
THEOREM SurfacesAgreeAlways == Spec => []SurfacesAgree
  <1>1. IndInv => SurfacesAgree
    BY DEF IndInv, SurfacesAgree, Finished, FinishedAs, Overruled, OneExecutor,
       FinishedIsStamped, ExecutorIsOne
  <1> QED BY <1>1, Inductive, PTL

=============================================================================
