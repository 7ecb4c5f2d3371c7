--------------------------- MODULE EmailDeskProofs ---------------------------
(***************************************************************************)
(* Proofs about EmailDesk, for any number of mails, copies, overtaken      *)
(* requests and sent messages, and for any way in which calls are lost.    *)
(***************************************************************************)
EXTENDS EmailDesk, FiniteSetTheorems, WellFoundedInduction, TLAPS

ThreadRows(tasks) ==
  [status : StatusLabels, paused : BOOLEAN, resolved : BOOLEAN, task : 0 .. tasks,
   validated : BOOLEAN]

MessageRows(conversations, mids) ==
  [thread : 1 .. conversations, mail : Mails \cup {None}, state : MessageStates,
   mid : 0 .. mids, approvable : BOOLEAN]

(* Rows as a request may have loaded them, now or earlier.                 *)
Loaded(v) ==
  /\ v.threads \in Seq(ThreadRows(Len(taskDone))) /\ Len(v.threads) <= Len(threads)
  /\ v.messages \in Seq(MessageRows(Len(v.threads), accepted))
  /\ Len(v.messages) <= Len(messages)

(* What a slow request sends refers to a row that it loaded.               *)
Job(v, job) ==
  /\ job.job \in {"approve", "answer", "new"}
  /\ job.job = "approve" => job.of \in DOMAIN v.messages /\ Approvable(v.messages[job.of])
  /\ job.job = "answer" => job.of \in DOMAIN v.threads

Running(w) ==
  /\ w = [rows |-> w.rows, job |-> w.job, mid |-> w.mid]
  /\ Loaded(w.rows) /\ w.mid \in 0 .. accepted
  /\ w.job # None => Job(w.rows, w.job)
  /\ w.mid # 0 => w.job # None

ViewsTyped ==
  /\ DOMAIN view = Slow
  /\ \A r \in Slow : view[r] \in {None, Gone} \/ Running(view[r])

TypeInv ==
  /\ threads \in Seq(ThreadRows(Len(taskDone)))
  /\ messages \in Seq(MessageRows(Len(threads), accepted))
  /\ taskDone \in Seq(BOOLEAN)
  /\ ingested \subseteq Copies /\ accepted \in Nat
  /\ raised \subseteq (1 .. accepted) \X Kinds /\ counted \in Seq(raised)
  /\ ViewsTyped
  /\ work \in 0 .. MaxWork /\ failures \in 0 .. MaxFailures
  /\ stale \in BOOLEAN /\ strayed \in BOOLEAN /\ recalled \in BOOLEAN

-----------------------------------------------------------------------------
(* What the properties say of the rows.                                    *)

(* The clock of a conversation stands exactly while it waits.              *)
Waits(ts) ==
  \A t \in DOMAIN ts : ts[t].paused <=> (Pauses /\ ts[t].status = "waiting_reply")

ReportedStates == {"sent", "soft_bounced", "delivered", "bounced", "spam_complaint"}

Fates(log, mid) ==
  {"sent"} \cup {Target(report[2]) : report \in {r \in Counted(log) : r[1] = mid}}

(* A sent message shows the worst of what was reported about it.           *)
ShowsWorst(message, log) ==
  /\ message.state \in Fates(log, message.mid)
  /\ \A fate \in Fates(log, message.mid) : Rank(fate) <= Rank(message.state)

InFlight(r) == view[r] \notin {None, Gone} /\ view[r].mid # 0

(* The number that the provider gave to a mail names one message, or one   *)
(* request that has not yet stored it; reports are about stored ones.      *)
MidsAreOnes ==
  /\ \A i, j \in DOMAIN messages :
       messages[i].mid # 0 /\ messages[i].mid = messages[j].mid => i = j
  /\ \A r \in Slow, i \in DOMAIN messages : InFlight(r) => view[r].mid # messages[i].mid
  /\ \A r, s \in Slow : InFlight(r) /\ InFlight(s) /\ view[r].mid = view[s].mid => r = s
  /\ \A k \in DOMAIN counted : \E i \in DOMAIN messages : messages[i].mid = counted[k][1]

Fated ==
  /\ MidsAreOnes
  /\ \A i \in DOMAIN messages : messages[i].mid # 0 => ShowsWorst(messages[i], counted)

IndInv ==
  /\ TypeInv
  /\ ~stale /\ ~strayed => Waits(threads)
  /\ ~stale /\ ~recalled => Fated

-----------------------------------------------------------------------------
(* Rows that are merged.                                                   *)

LEMMA RowsGrow ==
  ASSUME NEW m \in Nat, NEW n \in Nat, m <= n, NEW a \in Nat, NEW b \in Nat, a <= b
  PROVE  ThreadRows(m) \subseteq ThreadRows(n)
         /\ MessageRows(m, a) \subseteq MessageRows(n, b)
  <1>1. 0 .. m \subseteq 0 .. n /\ 1 .. m \subseteq 1 .. n /\ 0 .. a \subseteq 0 .. b
    OBVIOUS
  <1> QED BY <1>1 DEF ThreadRows, MessageRows

LEMMA ThreadColumns ==
  ASSUME NEW n \in Nat, NEW a \in ThreadRows(n), NEW b \in ThreadRows(n), NEW c
  PROVE  /\ Columns(a, c, b) \in ThreadRows(n)
         /\ Columns(a, a, b) = b
  BY DEF Columns, ThreadRows

LEMMA MessageColumns ==
  ASSUME NEW n \in Nat, NEW k \in Nat, NEW a \in MessageRows(n, k), NEW b \in MessageRows(n, k), NEW c
  PROVE  /\ Columns(a, c, b) \in MessageRows(n, k)
         /\ Columns(a, a, b) = b
         /\ c.mail = b.mail => Columns(a, c, b).mail = a.mail
  BY DEF Columns, MessageRows

Columned(R) ==
  \A a, b \in R : Columns(a, a, b) = b /\ \A c : Columns(a, c, b) \in R

IsMerged(m, R, present, seen, new) ==
  /\ m \in Seq(R) /\ Len(m) = Len(present) + Len(new) - Len(seen)
  /\ \A i \in DOMAIN m :
       m[i] = IF i > Len(present) THEN new[i + Len(seen) - Len(present)]
              ELSE IF i <= Len(seen) THEN Columns(present[i], seen[i], new[i])
              ELSE present[i]

LEMMA MergedRows ==
  ASSUME NEW R, NEW S, NEW present \in Seq(R), NEW seen \in Seq(S), NEW new \in Seq(R),
         Len(seen) <= Len(present), Len(seen) <= Len(new),
         Columned(R), NEW m, m = Merged(present, seen, new)
  PROVE  IsMerged(m, R, present, seen, new)
  <1> DEFINE n == Len(present) + Len(new) - Len(seen)
  <1>1. n \in Nat /\ Len(present) \in Nat /\ Len(seen) \in Nat /\ Len(new) \in Nat
    OBVIOUS
  <1>2. DOMAIN m = 1 .. n
    BY DEF Merged
  <1>3. \A i \in 1 .. n :
          m[i] = IF i > Len(present) THEN new[i + Len(seen) - Len(present)]
                 ELSE IF i <= Len(seen) THEN Columns(present[i], seen[i], new[i])
                 ELSE present[i]
    BY DEF Merged
  <1>4. \A i \in 1 .. n : m[i] \in R
    <2> SUFFICES ASSUME NEW i \in 1 .. n PROVE m[i] \in R
      OBVIOUS
    <2>1. CASE i > Len(present)
      <3>1. i + Len(seen) - Len(present) \in DOMAIN new
        BY <1>1, <2>1
      <3> QED BY <1>3, <2>1, <3>1
    <2>2. CASE ~(i > Len(present)) /\ i <= Len(seen)
      BY <1>1, <1>3, <2>2 DEF Columned
    <2>3. CASE ~(i > Len(present)) /\ ~(i <= Len(seen))
      BY <1>1, <1>3, <2>3
    <2> QED BY <2>1, <2>2, <2>3
  <1>5. m = [i \in 1 .. n |-> m[i]]
    BY DEF Merged
  <1> HIDE DEF n
  <1>6. m \in [1 .. n -> R]
    BY <1>4, <1>5
  <1>7. m \in Seq(R) /\ Len(m) = n
    BY <1>1, <1>6
  <1> QED BY <1>2, <1>3, <1>7 DEF n, IsMerged

(* What is written over the rows that are there is what was written.       *)
LEMMA MergedPrompt ==
  ASSUME NEW R, NEW present \in Seq(R), NEW seen, seen = present,
         NEW new \in Seq(R), Len(present) <= Len(new), Columned(R)
  PROVE  Merged(present, seen, new) = new
  <1> DEFINE m == Merged(present, seen, new)
  <1>1. Len(present) \in Nat /\ Len(new) \in Nat
    OBVIOUS
  <1>2. /\ m \in Seq(R) /\ Len(m) = Len(present) + Len(new) - Len(seen)
        /\ \A i \in DOMAIN m :
             m[i] = IF i > Len(present) THEN new[i + Len(seen) - Len(present)]
                    ELSE IF i <= Len(seen) THEN Columns(present[i], seen[i], new[i])
                    ELSE present[i]
    <2>1. seen \in Seq(R) /\ Len(seen) <= Len(present) /\ Len(seen) <= Len(new)
      BY <1>1
    <2>2. IsMerged(m, R, present, seen, new)
      BY <2>1, MergedRows
    <2> QED BY <2>2 DEF IsMerged
  <1> HIDE DEF m
  <1>3. Len(m) = Len(new)
    BY <1>1, <1>2
  <1>4. ASSUME NEW i \in 1 .. Len(new) PROVE m[i] = new[i]
    <2>1. i + Len(present) - Len(present) = i /\ i \in DOMAIN m /\ new[i] \in R
      BY <1>1, <1>2, <1>3
    <2>2. CASE i > Len(present)
      BY <1>2, <2>1, <2>2
    <2>3. CASE ~(i > Len(present))
      <3>1. i <= Len(present) /\ present[i] \in R
        BY <1>1, <2>3
      <3>2. m[i] = Columns(present[i], present[i], new[i])
        BY <1>2, <2>1, <2>3, <3>1
      <3> QED BY <2>1, <3>1, <3>2 DEF Columned
    <2> QED BY <2>2, <2>3
  <1>5. m = [i \in 1 .. Len(m) |-> m[i]] /\ new = [i \in 1 .. Len(new) |-> new[i]]
    BY <1>2
  <1> QED BY <1>3, <1>4, <1>5 DEF m

LEMMA ColumnedRows ==
  ASSUME NEW n \in Nat, NEW k \in Nat
  PROVE  Columned(ThreadRows(n)) /\ Columned(MessageRows(n, k))
  BY ThreadColumns, MessageColumns DEF Columned

-----------------------------------------------------------------------------
(* Commits.                                                                *)

(* Rows that a request may write, given those that it loaded.              *)
Writable(v, ts, ms, tasks) ==
  /\ ts \in Seq(ThreadRows(tasks)) /\ Len(v.threads) <= Len(ts)
  /\ ms \in Seq(MessageRows(Len(ts), accepted)) /\ Len(v.messages) <= Len(ms)
  /\ \A i \in DOMAIN v.messages :
       ms[i].thread = v.messages[i].thread /\ ms[i].mail = v.messages[i].mail

(* Numbers of rows behind others.                                          *)
LEMMA Behind ==
  ASSUME NEW a \in Nat, NEW b \in Nat, b <= a, NEW n \in Nat
  PROVE  /\ n <= n + a - b /\ n + a - b \in Nat
         /\ \A k \in 1 .. n : k + a - b \in 1 .. n + a - b /\ (a = b => k + a - b = k)
  OBVIOUS

LEMMA Before ==
  ASSUME NEW a \in Nat, NEW b \in Nat, NEW m \in Nat, NEW l \in Nat, l = a + m - b,
         NEW i \in 1 .. l, i > a
  PROVE  i + b - a \in 1 .. m /\ i + b - a > b
  OBVIOUS

(* The row that becomes the i-th is among those that were added.           *)
AddedAt(v, i) == i + Len(v.messages) - Len(messages)

Typed ==
  /\ threads' \in Seq(ThreadRows(Len(taskDone'))) /\ Len(threads) <= Len(threads')
  /\ messages' \in Seq(MessageRows(Len(threads'), accepted)) /\ Len(messages) <= Len(messages')
  /\ stale' \in BOOLEAN

(* What is in a mail's row stays, and no mail comes but those added.       *)
Mailed(v, ms) ==
  /\ \A i \in DOMAIN messages : messages'[i].mail = messages[i].mail
  /\ \A i \in DOMAIN messages' : i \notin DOMAIN messages =>
       /\ AddedAt(v, i) \in DOMAIN ms /\ AddedAt(v, i) > Len(v.messages)
       /\ messages'[i].mail = ms[AddedAt(v, i)].mail
  /\ Len(messages') = Len(messages) + Len(ms) - Len(v.messages)

Current(v, ts, ms) ==
  ~stale' => ~stale /\ v = Seen /\ threads' = ts /\ messages' = ms

(* The added messages as they are placed behind the present ones.          *)
PlacedRows(v, ms) == [i \in DOMAIN ms |-> IF i > Len(v.messages) THEN Placed(v, ms[i]) ELSE ms[i]]

LEMMA PlacedRow ==
  ASSUME TypeInv, NEW v, Loaded(v), NEW n \in Nat, Len(v.threads) <= n,
         NEW message \in MessageRows(n, accepted), NEW k, k = n + Len(threads) - Len(v.threads)
  PROVE  /\ Placed(v, message) \in MessageRows(k, accepted)
         /\ Placed(v, message).mail = message.mail
         /\ v.threads = threads => Placed(v, message) = message
  <1>1. /\ Len(v.threads) \in Nat /\ Len(threads) \in Nat /\ Len(v.threads) <= Len(threads)
        /\ accepted \in Nat /\ k \in Nat /\ n <= k
    BY DEF TypeInv, Loaded
  <1>2. message.thread \in 1 .. n
    BY DEF MessageRows
  <1>3. CASE message.thread <= Len(v.threads)
    <2>1. Placed(v, message) = message
      BY <1>3 DEF Placed
    <2>2. accepted <= accepted
      BY <1>1
    <2>3. MessageRows(n, accepted) \subseteq MessageRows(k, accepted)
      BY <1>1, <2>2, RowsGrow
    <2> QED BY <2>1, <2>3
  <1>4. CASE ~(message.thread <= Len(v.threads))
    <2> DEFINE to == message.thread + Len(threads) - Len(v.threads)
    <2>1. to \in 1 .. k
      BY <1>1, <1>2, Behind
    <2>2. Placed(v, message) = [message EXCEPT !.thread = to]
      BY <1>4 DEF Placed
    <2>3. v.threads = threads => to = message.thread
      BY <1>1, <1>2, Behind
    <2> HIDE DEF to
    <2>4. [message EXCEPT !.thread = to] \in MessageRows(k, accepted)
      BY <2>1 DEF MessageRows
    <2>5. [message EXCEPT !.thread = to].mail = message.mail
      BY DEF MessageRows
    <2>6. to = message.thread => [message EXCEPT !.thread = to] = message
      BY DEF MessageRows
    <2> QED BY <2>2, <2>3, <2>4, <2>5, <2>6
  <1> QED BY <1>3, <1>4

LEMMA Committing ==
  ASSUME TypeInv, NEW v, Loaded(v), NEW ts, NEW ms, Len(taskDone) <= Len(taskDone'),
         taskDone' \in Seq(BOOLEAN), Writable(v, ts, ms, Len(taskDone')), Commit(v, ts, ms)
  PROVE  Typed /\ Mailed(v, ms) /\ Current(v, ts, ms)
  <1> DEFINE q == PlacedRows(v, ms)
             n == Len(threads')
             R == MessageRows(n, accepted)
             T == ThreadRows(Len(taskDone'))
  <1>0. /\ Len(taskDone) \in Nat /\ Len(taskDone') \in Nat /\ accepted \in Nat /\ accepted <= accepted
        /\ Len(v.threads) \in Nat /\ Len(threads) \in Nat /\ Len(ts) \in Nat
        /\ Len(v.messages) \in Nat /\ Len(messages) \in Nat /\ Len(ms) \in Nat
        /\ Len(v.threads) <= Len(threads) /\ Len(v.threads) <= Len(ts)
        /\ Len(v.messages) <= Len(messages) /\ Len(v.messages) <= Len(ms)
    BY DEF TypeInv, Loaded, Writable
  <1>1. threads' = Merged(threads, v.threads, ts) /\ messages' = Merged(messages, v.messages, q)
    BY DEF Commit, PlacedRows
  <1>2. threads \in Seq(T) /\ v.threads \in Seq(T) /\ ts \in Seq(T)
    <2>1. ThreadRows(Len(taskDone)) \subseteq T
      BY <1>0, RowsGrow
    <2> QED BY <2>1 DEF TypeInv, Loaded, Writable
  <1>3. Columned(T)
    BY <1>0, ColumnedRows
  <1> HIDE DEF T
  <1>4. IsMerged(threads', T, threads, v.threads, ts)
    BY <1>0, <1>1, <1>2, <1>3, MergedRows
  <1>5. threads' \in Seq(T) /\ n = Len(threads) + Len(ts) - Len(v.threads) /\ n \in Nat
        /\ Len(threads) <= n /\ Len(ts) <= n /\ Len(v.threads) <= n
    BY <1>0, <1>4 DEF IsMerged
  <1>6. /\ DOMAIN q = DOMAIN ms
        /\ \A i \in DOMAIN ms : q[i] \in R /\ q[i].mail = ms[i].mail
        /\ \A i \in DOMAIN ms : v.threads = threads => q[i] = ms[i]
    <2> SUFFICES ASSUME NEW i \in DOMAIN ms
                 PROVE  /\ q[i] \in R /\ q[i].mail = ms[i].mail
                        /\ v.threads = threads => q[i] = ms[i]
      BY DEF PlacedRows
    <2>1. ms[i] \in MessageRows(Len(ts), accepted)
      BY DEF Writable
    <2>2. CASE i > Len(v.messages)
      <3>1. q[i] = Placed(v, ms[i])
        BY <2>2 DEF PlacedRows
      <3>2. n = Len(ts) + Len(threads) - Len(v.threads)
        BY <1>0, <1>5
      <3>3. Len(ts) \in Nat /\ Len(v.threads) <= Len(ts)
        BY <1>0
      <3> HIDE DEF q, n
      <3>4. /\ Placed(v, ms[i]) \in MessageRows(n, accepted)
            /\ Placed(v, ms[i]).mail = ms[i].mail
            /\ v.threads = threads => Placed(v, ms[i]) = ms[i]
        BY <2>1, <3>2, <3>3, PlacedRow
      <3> QED BY <3>1, <3>4
    <2>3. CASE ~(i > Len(v.messages))
      <3>1. q[i] = ms[i]
        BY <2>3 DEF PlacedRows
      <3>2. MessageRows(Len(ts), accepted) \subseteq R
        BY <1>0, <1>5, RowsGrow
      <3> QED BY <2>1, <3>1, <3>2
    <2> QED BY <2>2, <2>3
  <1>7. q \in Seq(R) /\ Len(q) = Len(ms) /\ (v.threads = threads => q = ms)
    <2>1. q = [i \in 1 .. Len(ms) |-> q[i]] /\ ms = [i \in 1 .. Len(ms) |-> ms[i]]
      BY DEF PlacedRows, Writable
    <2> HIDE DEF q, R
    <2>2. DOMAIN ms = 1 .. Len(ms)
      BY DEF Writable
    <2> QED BY <1>0, <1>6, <2>1, <2>2
  <1>8. messages \in Seq(R) /\ v.messages \in Seq(R) /\ Columned(R)
    <2>1. /\ MessageRows(Len(threads), accepted) \subseteq R
          /\ MessageRows(Len(v.threads), accepted) \subseteq R /\ Columned(R)
      BY <1>0, <1>5, RowsGrow, ColumnedRows
    <2> QED BY <2>1 DEF TypeInv, Loaded
  <1> HIDE DEF q, R, n
  <1>9. IsMerged(messages', R, messages, v.messages, q)
    BY <1>0, <1>1, <1>7, <1>8, MergedRows
  <1>10. /\ messages' \in Seq(R) /\ Len(messages) <= Len(messages')
         /\ Len(messages') = Len(messages) + Len(ms) - Len(v.messages)
    BY <1>0, <1>7, <1>9 DEF IsMerged
  <1>11. Typed
    BY <1>5, <1>10 DEF Typed, R, T, n, Commit, TypeInv
  <1>12. Mailed(v, ms)
    <2>1. ASSUME NEW i \in DOMAIN messages PROVE messages'[i].mail = messages[i].mail
      <3>1. i \in DOMAIN messages' /\ ~(i > Len(messages))
        BY <1>0, <1>10
      <3>2. CASE i <= Len(v.messages)
        <4>1. i \in DOMAIN ms /\ i \in DOMAIN v.messages
          BY <1>0, <3>1, <3>2 DEF Writable, Loaded
        <4>2. /\ messages'[i] = Columns(messages[i], v.messages[i], q[i])
              /\ messages[i] \in R /\ q[i] \in R
          BY <1>6, <1>8, <1>9, <3>1, <3>2, <4>1 DEF IsMerged
        <4>3. v.messages[i].mail = q[i].mail
          BY <1>6, <4>1 DEF Writable
        <4>4. messages[i] \in MessageRows(n, accepted) /\ q[i] \in MessageRows(n, accepted)
          BY <4>2 DEF R
        <4>5. n \in Nat /\ accepted \in Nat
          BY <1>0, <1>5
        <4>6. Columns(messages[i], v.messages[i], q[i]).mail = messages[i].mail
          BY <4>3, <4>4, <4>5, MessageColumns
        <4> QED BY <4>2, <4>6
      <3>3. CASE ~(i <= Len(v.messages))
        BY <1>9, <3>1, <3>3 DEF IsMerged
      <3> QED BY <3>2, <3>3
    <2>2. ASSUME NEW i \in DOMAIN messages', i \notin DOMAIN messages
          PROVE  /\ AddedAt(v, i) \in DOMAIN ms /\ AddedAt(v, i) > Len(v.messages)
                 /\ messages'[i].mail = ms[AddedAt(v, i)].mail
      <3>1. i \in 1 .. Len(messages') /\ i > Len(messages) /\ Len(messages') \in Nat
        <4>1. DOMAIN messages' = 1 .. Len(messages') /\ Len(messages') \in Nat
          <5>1. messages' \in Seq(R)
            BY <1>10
          <5> QED BY <5>1
        <4>2. DOMAIN messages = 1 .. Len(messages)
          BY <1>8
        <4> QED BY <1>0, <2>2, <4>1, <4>2
      <3>2. AddedAt(v, i) \in 1 .. Len(ms) /\ AddedAt(v, i) > Len(v.messages)
        BY <1>0, <1>10, <3>1, Before DEF AddedAt
      <3>3. DOMAIN ms = 1 .. Len(ms)
        BY DEF Writable
      <3>4. messages'[i] = q[AddedAt(v, i)]
        BY <1>9, <3>1 DEF IsMerged, AddedAt
      <3> QED BY <1>6, <3>2, <3>3, <3>4
    <2> QED BY <1>10, <2>1, <2>2 DEF Mailed
  <1>13. Current(v, ts, ms)
    <2> SUFFICES ASSUME ~stale' PROVE ~stale /\ v = Seen /\ threads' = ts /\ messages' = ms
      BY DEF Current
    <2>1. ~stale /\ v = Seen
      BY DEF Commit
    <2>2. v.threads = threads /\ v.messages = messages
      BY <2>1 DEF Seen
    <2>3. threads' = ts
      BY <1>0, <1>1, <1>2, <1>3, <2>2, MergedPrompt
    <2>4. q = ms /\ Len(messages) <= Len(q)
      BY <1>0, <1>7, <2>2
    <2>5. messages' = q
      BY <1>0, <1>1, <1>7, <1>8, <2>2, <2>4, MergedPrompt
    <2> QED BY <2>1, <2>3, <2>4, <2>5
  <1> QED BY <1>11, <1>12, <1>13

-----------------------------------------------------------------------------
(* What a step leaves of the rows.                                         *)

(* The history that a step adds to.                                        *)
Remembers ==
  /\ stale' \in BOOLEAN /\ (~stale' => ~stale)
  /\ strayed' \in BOOLEAN /\ (~strayed' => ~strayed)
  /\ recalled' \in BOOLEAN /\ (~recalled' => ~recalled)

SameInbox == \A m \in Mails : InboundOf(messages', m) = InboundOf(messages, m)

Step ==
  /\ Typed /\ Remembers
  /\ taskDone' \in Seq(BOOLEAN) /\ Len(taskDone) <= Len(taskDone')
  /\ ~stale' /\ ~strayed' /\ Waits(threads) => Waits(threads')

(* Sent messages keep their number and what was reported about them, and   *)
(* no message gets a number.                                               *)
KeepsSent(old, new) ==
  /\ Len(old) <= Len(new)
  /\ \A i \in DOMAIN old :
       /\ new[i].mid = old[i].mid
       /\ old[i].mid # 0 /\ old[i].state \in ReportedStates => new[i].state = old[i].state
  /\ \A i \in DOMAIN new : i > Len(old) => new[i].mid = 0

Quietly == ~stale' /\ ~recalled' => KeepsSent(messages, messages')

LEMMA WriteStep ==
  ASSUME TypeInv, MailAssumption, NEW v, Loaded(v), NEW ts, NEW ms,
         taskDone' \in Seq(BOOLEAN), Len(taskDone) <= Len(taskDone'),
         Writable(v, ts, ms, Len(taskDone')), Commit(v, ts, ms),
         strayed' \in BOOLEAN, ~strayed' => ~strayed,
         recalled' \in BOOLEAN, ~recalled' => ~recalled,
         ~strayed' /\ Waits(v.threads) => Waits(ts)
  PROVE  /\ Step
         /\ (\A i \in DOMAIN ms : i > Len(v.messages) => ms[i].mail = None) => SameInbox
         /\ (~recalled' => KeepsSent(v.messages, ms)) => Quietly
  <1>1. Typed /\ Mailed(v, ms) /\ Current(v, ts, ms)
    BY Committing
  <1>2. v = Seen => v.threads = threads /\ v.messages = messages
    BY DEF Seen
  <1>3. ~stale' /\ ~strayed' /\ Waits(threads) => Waits(threads')
    BY <1>1, <1>2 DEF Current
  <1>4. Step
    BY <1>1, <1>3 DEF Step, Remembers, Current, Typed
  <1>5. ASSUME \A i \in DOMAIN ms : i > Len(v.messages) => ms[i].mail = None
        PROVE  SameInbox
    <2> SUFFICES ASSUME NEW m \in Mails PROVE InboundOf(messages', m) = InboundOf(messages, m)
      BY DEF SameInbox
    <2>1. m # None
      BY DEF MailAssumption
    <2>2. DOMAIN messages \subseteq DOMAIN messages'
      <3>1. /\ DOMAIN messages = 1 .. Len(messages) /\ DOMAIN messages' = 1 .. Len(messages')
            /\ Len(messages) \in Nat /\ Len(messages') \in Nat /\ Len(messages) <= Len(messages')
        BY <1>1 DEF TypeInv, Typed
      <3> QED BY <3>1
    <2>3. \A i \in DOMAIN messages' : i \notin DOMAIN messages => messages'[i].mail = None
      BY <1>1, <1>5 DEF Mailed
    <2> QED BY <1>1, <2>1, <2>2, <2>3 DEF Mailed, InboundOf
  <1>6. ASSUME ~recalled' => KeepsSent(v.messages, ms) PROVE Quietly
    BY <1>1, <1>2, <1>6 DEF Current, Quietly
  <1> QED BY <1>4, <1>5, <1>6

-----------------------------------------------------------------------------
(* Sequences of rows.                                                      *)

(* One row was put in another's place.                                     *)
IsReplaced(new, R, s, i, x) ==
  /\ new \in Seq(R) /\ Len(new) = Len(s) /\ Len(s) \in Nat
  /\ DOMAIN new = DOMAIN s /\ DOMAIN s = 1 .. Len(s)
  /\ new[i] = x /\ \A j \in DOMAIN s : j # i => new[j] = s[j]

LEMMA ReplacedRows ==
  ASSUME NEW R, NEW s, s \in Seq(R), NEW i, i \in DOMAIN s, NEW x, x \in R
  PROVE  IsReplaced(Replaced(s, i, x), R, s, i, x)
  BY DEF Replaced, IsReplaced

LEMMA AppendedRows ==
  ASSUME NEW R, NEW s \in Seq(R), NEW x \in R, NEW t, t = Append(s, x)
  PROVE  /\ t \in Seq(R) /\ Len(t) = Len(s) + 1 /\ Len(s) <= Len(t)
         /\ t[Len(s) + 1] = x /\ \A j \in DOMAIN s : j \in DOMAIN t /\ t[j] = s[j]
         /\ \A j \in DOMAIN t : j \notin DOMAIN s => j = Len(s) + 1 /\ t[j] = x
         /\ \A j \in DOMAIN t : j > Len(s) => t[j] = x
  OBVIOUS

RowWaits(thread) == thread.paused <=> (Pauses /\ thread.status = "waiting_reply")

LEMMA ReplacedThread ==
  ASSUME NEW n, NEW s, s \in Seq(ThreadRows(n)), NEW t, t \in DOMAIN s,
         NEW x, x \in ThreadRows(n)
  PROVE  /\ IsReplaced(Replaced(s, t, x), ThreadRows(n), s, t, x)
         /\ Waits(s) /\ RowWaits(x) => Waits(Replaced(s, t, x))
  <1> DEFINE R == ThreadRows(n)
             new == Replaced(s, t, x)
  <1>1. s \in Seq(R) /\ x \in R
    OBVIOUS
  <1> HIDE DEF R
  <1>2. IsReplaced(new, R, s, t, x)
    BY <1>1, ReplacedRows
  <1> HIDE DEF new
  <1>3. Waits(s) /\ RowWaits(x) => Waits(new)
    BY <1>2 DEF Waits, RowWaits, IsReplaced
  <1> QED BY <1>2, <1>3 DEF R, new

LEMMA AddedThread ==
  ASSUME NEW n, NEW s \in Seq(ThreadRows(n)), NEW x \in ThreadRows(n), RowWaits(x),
         NEW new, new = Append(s, x)
  PROVE  /\ new \in Seq(ThreadRows(n)) /\ Len(new) = Len(s) + 1 /\ Len(s) \in Nat
         /\ Waits(s) => Waits(new)
  <1> DEFINE R == ThreadRows(n)
  <1>1. s \in Seq(R) /\ x \in R
    OBVIOUS
  <1> HIDE DEF R
  <1>2. /\ new \in Seq(R) /\ Len(new) = Len(s) + 1 /\ Len(s) <= Len(new)
        /\ \A j \in DOMAIN s : j \in DOMAIN new /\ new[j] = s[j]
        /\ \A j \in DOMAIN new : j \notin DOMAIN s => j = Len(s) + 1 /\ new[j] = x
    BY <1>1, AppendedRows
  <1>3. Waits(s) => Waits(new)
    BY <1>2 DEF Waits, RowWaits
  <1>4. Len(s) \in Nat
    BY <1>1
  <1> QED BY <1>2, <1>3, <1>4 DEF R

(* Messages of which one was replaced, or to which one was added.          *)
MayWrite(v, ms, n) ==
  /\ ms \in Seq(MessageRows(n, accepted)) /\ Len(v.messages) <= Len(ms)
  /\ \A i \in DOMAIN v.messages :
       ms[i].thread = v.messages[i].thread /\ ms[i].mail = v.messages[i].mail

NoMailAdded(v, ms) == \A i \in DOMAIN ms : i > Len(v.messages) => ms[i].mail = None

LEMMA LoadedMessages ==
  ASSUME TypeInv, NEW v, Loaded(v), NEW n \in Nat, Len(v.threads) <= n
  PROVE  /\ v.messages \in Seq(MessageRows(n, accepted)) /\ Len(v.messages) \in Nat
         /\ Len(v.threads) \in Nat /\ accepted \in Nat
         /\ DOMAIN v.messages = 1 .. Len(v.messages)
  <1>1. Len(v.threads) \in Nat /\ accepted \in Nat /\ accepted <= accepted
    BY DEF TypeInv, Loaded
  <1>2. MessageRows(Len(v.threads), accepted) \subseteq MessageRows(n, accepted)
    BY <1>1, RowsGrow
  <1>3. v.messages \in Seq(MessageRows(n, accepted))
    BY <1>2 DEF Loaded
  <1> QED BY <1>1, <1>3

LEMMA SameMessages ==
  ASSUME TypeInv, NEW v, Loaded(v), NEW n \in Nat, Len(v.threads) <= n
  PROVE  /\ MayWrite(v, v.messages, n) /\ NoMailAdded(v, v.messages)
         /\ KeepsSent(v.messages, v.messages)
  <1>1. /\ v.messages \in Seq(MessageRows(n, accepted)) /\ Len(v.messages) \in Nat
        /\ DOMAIN v.messages = 1 .. Len(v.messages)
    BY LoadedMessages
  <1> QED BY <1>1 DEF MayWrite, NoMailAdded, KeepsSent

AddsMessage(v, ms, x) ==
  /\ Len(ms) = Len(v.messages) + 1 /\ ms[Len(v.messages) + 1] = x
  /\ \A j \in DOMAIN v.messages : j \in DOMAIN ms /\ ms[j] = v.messages[j]
  /\ x.mail = None => NoMailAdded(v, ms)
  /\ x.mid = 0 => KeepsSent(v.messages, ms)

LEMMA AddedMessage ==
  ASSUME TypeInv, NEW v, Loaded(v), NEW n, n \in Nat, Len(v.threads) <= n,
         NEW x, x \in MessageRows(n, accepted)
  PROVE  MayWrite(v, Append(v.messages, x), n) /\ AddsMessage(v, Append(v.messages, x), x)
  <1> DEFINE R == MessageRows(n, accepted)
             ms == Append(v.messages, x)
  <1>1. /\ v.messages \in Seq(R) /\ Len(v.messages) \in Nat
        /\ DOMAIN v.messages = 1 .. Len(v.messages) /\ x \in R
    BY LoadedMessages
  <1>2. ms = Append(v.messages, x)
    OBVIOUS
  <1> HIDE DEF R, ms
  <1>3. /\ ms \in Seq(R) /\ Len(ms) = Len(v.messages) + 1 /\ Len(v.messages) <= Len(ms)
        /\ ms[Len(v.messages) + 1] = x
        /\ \A j \in DOMAIN v.messages : j \in DOMAIN ms /\ ms[j] = v.messages[j]
        /\ \A j \in DOMAIN ms : j > Len(v.messages) => ms[j] = x
    BY <1>1, <1>2, AppendedRows
  <1>4. MayWrite(v, ms, n)
    BY <1>3 DEF MayWrite, R
  <1>5. x.mail = None => NoMailAdded(v, ms)
    BY <1>3 DEF NoMailAdded
  <1>6. x.mid = 0 => KeepsSent(v.messages, ms)
    BY <1>3 DEF KeepsSent
  <1>7. AddsMessage(v, ms, x)
    BY <1>3, <1>5, <1>6 DEF AddsMessage
  <1> QED BY <1>4, <1>7 DEF ms

(* What a request may do to a message without recalling it.                *)
Harmless(old, new) ==
  /\ new.mid = old.mid
  /\ old.mid # 0 /\ old.state \in ReportedStates => new.state = old.state

LEMMA ReplacedMessage ==
  ASSUME TypeInv, NEW v, Loaded(v), NEW n, n \in Nat, Len(v.threads) <= n,
         NEW i, i \in DOMAIN v.messages, NEW x, x \in MessageRows(n, accepted),
         x.thread = v.messages[i].thread, x.mail = v.messages[i].mail
  PROVE  /\ MayWrite(v, Replaced(v.messages, i, x), n) /\ NoMailAdded(v, Replaced(v.messages, i, x))
         /\ IsReplaced(Replaced(v.messages, i, x), MessageRows(n, accepted), v.messages, i, x)
         /\ Harmless(v.messages[i], x) => KeepsSent(v.messages, Replaced(v.messages, i, x))
  <1> DEFINE R == MessageRows(n, accepted)
             ms == Replaced(v.messages, i, x)
  <1>1. /\ v.messages \in Seq(R) /\ Len(v.messages) \in Nat
        /\ DOMAIN v.messages = 1 .. Len(v.messages) /\ x \in R
    BY LoadedMessages
  <1> HIDE DEF R
  <1>2. IsReplaced(ms, R, v.messages, i, x)
    BY <1>1, ReplacedRows
  <1> HIDE DEF ms
  <1>3. MayWrite(v, ms, n)
    BY <1>1, <1>2 DEF MayWrite, R, IsReplaced
  <1>4. \A j \in DOMAIN ms : ~(j > Len(v.messages))
    BY <1>1, <1>2 DEF IsReplaced
  <1>5. NoMailAdded(v, ms)
    BY <1>4 DEF NoMailAdded
  <1>6. Len(v.messages) <= Len(ms)
    BY <1>1, <1>2 DEF IsReplaced
  <1>7. ASSUME Harmless(v.messages[i], x) PROVE KeepsSent(v.messages, ms)
    BY <1>2, <1>4, <1>6, <1>7 DEF KeepsSent, Harmless, IsReplaced
  <1> QED BY <1>2, <1>3, <1>5, <1>7 DEF R, ms

LEMMA WritableRows ==
  ASSUME TypeInv, NEW v, NEW ts, NEW ms, NEW n, ts \in Seq(ThreadRows(n)),
         Len(v.threads) <= Len(ts), MayWrite(v, ms, Len(ts))
  PROVE  Writable(v, ts, ms, n)
  BY DEF Writable, MayWrite

-----------------------------------------------------------------------------
(* The operators on a conversation.                                        *)

WithStatus(th, s) == [th EXCEPT !.status = s]

LEMMA PutThread ==
  ASSUME NEW n, n \in Nat, NEW th, th \in ThreadRows(n), NEW s, s \in StatusLabels
  PROVE  /\ WithStatus(th, s) \in ThreadRows(n) /\ WithStatus(th, s).status = s
         /\ WithStatus(th, s).paused = th.paused
  BY DEF ThreadRows, WithStatus

LEMMA ResumedThread ==
  ASSUME NEW n \in Nat, NEW th \in ThreadRows(n), NEW x, x = Resumed(th)
  PROVE  x \in ThreadRows(n) /\ x.status = th.status /\ ~x.paused
  BY DEF ThreadRows, Resumed

LEMMA WaitingThread ==
  ASSUME Pauses \in BOOLEAN, NEW n \in Nat, NEW th \in ThreadRows(n), NEW x, x = Waiting(th)
  PROVE  x \in ThreadRows(n) /\ x.status = th.status /\ (x.paused <=> th.paused \/ Pauses)
  <1> DEFINE p == th.paused \/ Pauses
  <1>1. p \in BOOLEAN
    BY DEF ThreadRows
  <1>2. x = [th EXCEPT !.paused = p]
    BY DEF Waiting
  <1> HIDE DEF p
  <1>3. x \in ThreadRows(n) /\ x.status = th.status /\ x.paused = p
    BY <1>1, <1>2 DEF ThreadRows
  <1> QED BY <1>3 DEF p

LEMMA ResolvedThread ==
  ASSUME NEW n \in Nat, NEW th \in ThreadRows(n), NEW x, x = Resolved(th)
  PROVE  x \in ThreadRows(n) /\ x.status = th.status /\ (x.paused => th.paused)
  <1>1. CASE th.resolved
    BY <1>1 DEF Resolved
  <1>2. CASE ~th.resolved
    BY <1>2 DEF Resolved, Resumed, ThreadRows
  <1> QED BY <1>1, <1>2

LEMMA OpenedThread ==
  ASSUME NEW n \in Nat, NEW s \in StatusLabels, NEW x, x = NewThread(s)
  PROVE  x \in ThreadRows(n) /\ x.status = s /\ ~x.paused
  BY DEF ThreadRows, NewThread

LEMMA ReopenedThread ==
  ASSUME NEW n \in Nat, NEW th \in ThreadRows(n), NEW x, x = Reopened(th)
  PROVE  x \in ThreadRows(n) /\ (RowWaits(th) => RowWaits(x))
  <1>1. CASE th.status \in {"waiting_reply", "resolved", "archived"}
    <2> DEFINE y == Resumed(th)
    <2>1. y \in ThreadRows(n) /\ ~y.paused
      BY ResumedThread
    <2>2. x = WithStatus(y, "new_reply") /\ "new_reply" \in StatusLabels
      BY <1>1 DEF Reopened, StatusLabels, WithStatus
    <2> HIDE DEF y
    <2>3. x \in ThreadRows(n) /\ x.status = "new_reply" /\ x.paused = y.paused
      BY <2>1, <2>2, PutThread
    <2> QED BY <2>1, <2>3 DEF RowWaits
  <1>2. CASE th.status \notin {"waiting_reply", "resolved", "archived"}
    BY <1>2 DEF Reopened
  <1> QED BY <1>1, <1>2

LEMMA WaitingForReply ==
  ASSUME Pauses \in BOOLEAN, NEW n \in Nat, NEW th \in ThreadRows(n), NEW x, x = AsWaiting(th)
  PROVE  x \in ThreadRows(n) /\ (RowWaits(th) => RowWaits(x))
  <1> DEFINE y == Waiting(th)
  <1>1. y \in ThreadRows(n) /\ (y.paused <=> th.paused \/ Pauses)
    BY WaitingThread
  <1>2. x = WithStatus(y, "waiting_reply") /\ "waiting_reply" \in StatusLabels
    BY DEF AsWaiting, StatusLabels, WithStatus
  <1> HIDE DEF y
  <1>3. x \in ThreadRows(n) /\ x.status = "waiting_reply" /\ x.paused = y.paused
    BY <1>1, <1>2, PutThread
  <1> QED BY <1>1, <1>3 DEF RowWaits

-----------------------------------------------------------------------------
(* The requests of users.                                                  *)

(* What every request leaves, and one that stores no mail.                 *)
Served == Step /\ Quietly /\ SameInbox

KeepsHistory ==
  /\ strayed' \in BOOLEAN /\ (~strayed' => ~strayed)
  /\ recalled' \in BOOLEAN /\ (~recalled' => ~recalled)

KeepsTasks == taskDone' \in Seq(BOOLEAN) /\ Len(taskDone) <= Len(taskDone')

LEMMA ServedStep ==
  ASSUME TypeInv, MailAssumption, NEW v, Loaded(v), NEW ts, NEW ms, Commit(v, ts, ms),
         KeepsTasks, KeepsHistory,
         ts \in Seq(ThreadRows(Len(taskDone'))), Len(v.threads) <= Len(ts),
         MayWrite(v, ms, Len(ts)), NoMailAdded(v, ms), ~recalled' => KeepsSent(v.messages, ms),
         ~strayed' /\ Waits(v.threads) => Waits(ts)
  PROVE  Served
  <1>1. Writable(v, ts, ms, Len(taskDone'))
    BY WritableRows
  <1> QED BY <1>1, WriteStep DEF Served, KeepsTasks, KeepsHistory, NoMailAdded

LEMMA Lengths ==
  ASSUME TypeInv, NEW v, Loaded(v)
  PROVE  /\ Len(taskDone) \in Nat /\ Len(threads) \in Nat /\ Len(v.threads) \in Nat
         /\ Len(v.messages) \in Nat /\ accepted \in Nat
         /\ v.threads \in Seq(ThreadRows(Len(taskDone)))
         /\ \A t \in DOMAIN v.threads : v.threads[t] \in ThreadRows(Len(taskDone))
         /\ DOMAIN v.threads = 1 .. Len(v.threads)
  BY DEF TypeInv, Loaded

LEMMA SameHistory ==
  ASSUME TypeInv
  PROVE  /\ UNCHANGED <<strayed, recalled>> => KeepsHistory
         /\ UNCHANGED taskDone => KeepsTasks
  <1>1. Len(taskDone) \in Nat /\ Len(taskDone) <= Len(taskDone)
    BY DEF TypeInv
  <1> QED BY <1>1 DEF TypeInv, KeepsHistory, KeepsTasks

LEMMA StrayHistory ==
  ASSUME TypeInv, NEW v, NEW ts, Stray(v, ts), UNCHANGED recalled
  PROVE  KeepsHistory /\ (~strayed' => ~LeftPaused(v, ts))
  BY DEF TypeInv, KeepsHistory, Stray

(* A step that writes one conversation and no message.                     *)
LEMMA ThreadStep ==
  ASSUME TypeInv, MailAssumption, NEW v, Loaded(v), NEW t \in DOMAIN v.threads,
         KeepsTasks, KeepsHistory,
         NEW x \in ThreadRows(Len(taskDone')), NEW ts, ts = Replaced(v.threads, t, x),
         Commit(v, ts, v.messages), ~strayed' /\ Waits(v.threads) => RowWaits(x)
  PROVE  Served
  <1>0. /\ Len(taskDone) \in Nat /\ Len(taskDone') \in Nat /\ Len(taskDone) <= Len(taskDone')
        /\ Len(v.threads) \in Nat
    BY Lengths DEF KeepsTasks
  <1>1. v.threads \in Seq(ThreadRows(Len(taskDone')))
    <2>1. 0 \in Nat /\ 0 <= 0
      OBVIOUS
    <2>2. ThreadRows(Len(taskDone)) \subseteq ThreadRows(Len(taskDone'))
      BY <1>0, <2>1, RowsGrow
    <2> QED BY <2>2, Lengths
  <1>2. /\ ts \in Seq(ThreadRows(Len(taskDone'))) /\ Len(ts) = Len(v.threads)
        /\ Waits(v.threads) /\ RowWaits(x) => Waits(ts)
    <2>1. /\ IsReplaced(Replaced(v.threads, t, x), ThreadRows(Len(taskDone')), v.threads, t, x)
          /\ Waits(v.threads) /\ RowWaits(x) => Waits(Replaced(v.threads, t, x))
      BY <1>1, ReplacedThread
    <2> QED BY <2>1 DEF IsReplaced
  <1>3. Len(ts) \in Nat /\ Len(v.threads) <= Len(ts)
    BY <1>0, <1>2
  <1>4. /\ MayWrite(v, v.messages, Len(ts)) /\ NoMailAdded(v, v.messages)
        /\ KeepsSent(v.messages, v.messages)
    BY <1>3, SameMessages
  <1> QED BY <1>2, <1>3, <1>4, ServedStep

(* A step that writes messages and no conversation.                        *)
LEMMA MessageStep ==
  ASSUME TypeInv, MailAssumption, NEW v, Loaded(v), UNCHANGED taskDone, KeepsHistory,
         NEW ms, Commit(v, v.threads, ms), MayWrite(v, ms, Len(v.threads)), NoMailAdded(v, ms),
         ~recalled' => KeepsSent(v.messages, ms)
  PROVE  Served
  <1>1. v.threads \in Seq(ThreadRows(Len(taskDone'))) /\ Len(v.threads) <= Len(v.threads)
    <2>1. v.threads \in Seq(ThreadRows(Len(taskDone))) /\ Len(v.threads) \in Nat
      BY Lengths
    <2> QED BY <2>1
  <1>2. KeepsTasks
    BY SameHistory
  <1> QED BY <1>1, <1>2, ServedStep

LEMMA OutboundRow ==
  ASSUME NEW n \in Nat, accepted \in Nat, NEW t \in 1 .. n, NEW state \in MessageStates
  PROVE  /\ Outbound(t, state) \in MessageRows(n, accepted)
         /\ Outbound(t, state).mail = None /\ Outbound(t, state).mid = 0
  BY DEF MessageRows, Outbound

(* What a step writes with a message behind those it loaded.               *)
Writes(v, ts, ms) ==
  /\ ts \in Seq(ThreadRows(Len(taskDone'))) /\ Len(v.threads) <= Len(ts)
  /\ MayWrite(v, ms, Len(ts))

LEMMA LaterThreads ==
  ASSUME TypeInv, NEW v, Loaded(v), KeepsTasks
  PROVE  v.threads \in Seq(ThreadRows(Len(taskDone'))) /\ Len(v.threads) \in Nat
  <1>0. /\ Len(taskDone) \in Nat /\ Len(taskDone') \in Nat /\ Len(taskDone) <= Len(taskDone')
        /\ Len(v.threads) \in Nat /\ 0 \in Nat /\ 0 <= 0
    BY Lengths DEF KeepsTasks
  <1>1. ThreadRows(Len(taskDone)) \subseteq ThreadRows(Len(taskDone'))
    BY <1>0, RowsGrow
  <1> QED BY <1>0, <1>1, Lengths

(* A message in a conversation that is there.                              *)
LEMMA Answering ==
  ASSUME TypeInv, NEW v, Loaded(v), KeepsTasks, NEW t \in DOMAIN v.threads,
         NEW x \in ThreadRows(Len(taskDone')), NEW y \in MessageRows(Len(v.threads), accepted),
         NEW ts, ts = Replaced(v.threads, t, x), NEW ms, ms = Append(v.messages, y)
  PROVE  /\ Writes(v, ts, ms) /\ AddsMessage(v, ms, y)
         /\ IsReplaced(ts, ThreadRows(Len(taskDone')), v.threads, t, x)
         /\ Waits(v.threads) /\ RowWaits(x) => Waits(ts)
  <1>1. v.threads \in Seq(ThreadRows(Len(taskDone'))) /\ Len(v.threads) \in Nat
    BY LaterThreads
  <1>2. /\ IsReplaced(Replaced(v.threads, t, x), ThreadRows(Len(taskDone')), v.threads, t, x)
        /\ Waits(v.threads) /\ RowWaits(x) => Waits(Replaced(v.threads, t, x))
    BY <1>1, ReplacedThread
  <1>3. Len(v.threads) <= Len(v.threads)
    BY <1>1
  <1>4. MayWrite(v, ms, Len(v.threads)) /\ AddsMessage(v, ms, y)
    BY <1>1, <1>3, AddedMessage
  <1>5. ts \in Seq(ThreadRows(Len(taskDone'))) /\ Len(ts) = Len(v.threads)
    BY <1>2 DEF IsReplaced
  <1> QED BY <1>2, <1>3, <1>4, <1>5 DEF Writes

(* A message with which its conversation begins.                           *)
LEMMA Opening ==
  ASSUME TypeInv, NEW v, Loaded(v), KeepsTasks,
         NEW x \in ThreadRows(Len(taskDone')), RowWaits(x),
         NEW y \in MessageRows(Len(v.threads) + 1, accepted),
         NEW ts, ts = Append(v.threads, x), NEW ms, ms = Append(v.messages, y)
  PROVE  /\ Writes(v, ts, ms) /\ AddsMessage(v, ms, y)
         /\ Waits(v.threads) => Waits(ts)
  <1>1. v.threads \in Seq(ThreadRows(Len(taskDone'))) /\ Len(v.threads) \in Nat
    BY LaterThreads
  <1>2. /\ ts \in Seq(ThreadRows(Len(taskDone'))) /\ Len(ts) = Len(v.threads) + 1
        /\ Waits(v.threads) => Waits(ts)
    BY <1>1, AddedThread
  <1> DEFINE n == Len(v.threads) + 1
  <1>3. n \in Nat /\ Len(v.threads) <= n
    BY <1>1
  <1> HIDE DEF n
  <1>4. y \in MessageRows(n, accepted)
    BY DEF n
  <1>5. MayWrite(v, ms, n) /\ AddsMessage(v, ms, y)
    BY <1>3, <1>4, AddedMessage
  <1>6. Len(ts) = n
    BY <1>2 DEF n
  <1> QED BY <1>2, <1>3, <1>5, <1>6 DEF Writes

LEMMA WritesServed ==
  ASSUME TypeInv, MailAssumption, NEW v, Loaded(v), KeepsTasks, KeepsHistory,
         NEW ts, NEW ms, NEW y, y.mail = None, y.mid = 0,
         Writes(v, ts, ms), AddsMessage(v, ms, y), Commit(v, ts, ms),
         ~strayed' /\ Waits(v.threads) => Waits(ts)
  PROVE  Served
  <1>1. NoMailAdded(v, ms) /\ KeepsSent(v.messages, ms)
    BY DEF AddsMessage
  <1>2. ts \in Seq(ThreadRows(Len(taskDone'))) /\ Len(v.threads) <= Len(ts) /\ MayWrite(v, ms, Len(ts))
    BY DEF Writes
  <1> QED BY <1>1, <1>2, ServedStep

LEMMA WrittenStatus ==
  ASSUME NEW state \in {"draft", "pending_approval"}
  PROVE  /\ StatusFor(state) \in StatusLabels /\ StatusFor(state) # "waiting_reply"
         /\ state \in MessageStates
  BY DEF StatusFor, StatusLabels, MessageStates

(* A status other than the wait, written over what was loaded.             *)
LEMMA TakenOver ==
  ASSUME TypeInv, MailAssumption, NEW v, Loaded(v), NEW t \in DOMAIN v.threads, UNCHANGED taskDone,
         NEW status \in StatusLabels, status # "waiting_reply",
         NEW ts, ts = [v.threads EXCEPT ![t].status = status], Stray(v, ts), UNCHANGED recalled,
         NEW state \in MessageStates, NEW ms, ms = Append(v.messages, Outbound(t, state)),
         Commit(v, ts, ms)
  PROVE  Served
  <1> DEFINE n == Len(taskDone)
             x == WithStatus(v.threads[t], status)
             y == Outbound(t, state)
  <1>1. KeepsHistory /\ (~strayed' => ~LeftPaused(v, ts)) /\ KeepsTasks
    BY StrayHistory, SameHistory
  <1>2. /\ n \in Nat /\ accepted \in Nat /\ Len(v.threads) \in Nat
        /\ v.threads[t] \in ThreadRows(n) /\ t \in 1 .. Len(v.threads)
    BY Lengths
  <1>3. x \in ThreadRows(n) /\ x.paused = v.threads[t].paused /\ x.status # "waiting_reply"
    BY <1>2, PutThread
  <1>4. y \in MessageRows(Len(v.threads), accepted) /\ y.mail = None /\ y.mid = 0
    BY <1>2, OutboundRow
  <1>5. ts = Replaced(v.threads, t, x) /\ ms = Append(v.messages, y)
    BY DEF Replaced, WithStatus
  <1>6. x \in ThreadRows(Len(taskDone'))
    BY <1>3
  <1> HIDE DEF x, y, n
  <1>7. /\ Writes(v, ts, ms) /\ AddsMessage(v, ms, y)
        /\ IsReplaced(ts, ThreadRows(Len(taskDone')), v.threads, t, x)
        /\ Waits(v.threads) /\ RowWaits(x) => Waits(ts)
    BY <1>1, <1>4, <1>5, <1>6, Answering
  <1>8. ts[t] = x
    BY <1>7 DEF IsReplaced
  <1>9. ~strayed' /\ Waits(v.threads) => Waits(ts)
    BY <1>1, <1>3, <1>7, <1>8 DEF LeftPaused, RowWaits, Waits
  <1> QED BY <1>1, <1>4, <1>7, <1>9, WritesServed

LEMMA WriteServed ==
  ASSUME TypeInv, MailAssumption, NEW v, Loaded(v), Write(v)
  PROVE  Served
  <1>1. PICK t \in DOMAIN v.threads, state \in {"draft", "pending_approval"} :
          LET ts == [v.threads EXCEPT ![t].status = StatusFor(state)] IN
          /\ Commit(v, ts, Append(v.messages, Outbound(t, state))) /\ Stray(v, ts)
          /\ UNCHANGED <<taskDone, recalled>>
    BY DEF Write
  <1> DEFINE ts == [v.threads EXCEPT ![t].status = StatusFor(state)]
             ms == Append(v.messages, Outbound(t, state))
  <1>2. Commit(v, ts, ms) /\ Stray(v, ts) /\ UNCHANGED taskDone /\ UNCHANGED recalled
    BY <1>1
  <1>3. ts = [v.threads EXCEPT ![t].status = StatusFor(state)] /\ ms = Append(v.messages, Outbound(t, state))
    OBVIOUS
  <1> HIDE DEF ts, ms
  <1> QED BY <1>2, <1>3, WrittenStatus, TakenOver

LEMMA OpenedServed ==
  ASSUME TypeInv, MailAssumption, NEW v, Loaded(v), UNCHANGED <<taskDone, strayed, recalled>>,
         NEW status \in StatusLabels, status # "waiting_reply",
         NEW ts, ts = Append(v.threads, NewThread(status)), NEW state \in MessageStates,
         NEW ms, ms = Append(v.messages, Outbound(Len(v.threads) + 1, state)), Commit(v, ts, ms)
  PROVE  Served
  <1> DEFINE n == Len(v.threads) + 1
             x == NewThread(status)
             y == Outbound(n, state)
  <1>1. KeepsHistory /\ KeepsTasks
    BY SameHistory
  <1>2. Len(taskDone) \in Nat /\ accepted \in Nat /\ n \in Nat /\ n \in 1 .. n
    BY Lengths
  <1>3. x \in ThreadRows(Len(taskDone')) /\ RowWaits(x)
    BY <1>2, OpenedThread DEF RowWaits
  <1>4. ts = Append(v.threads, x) /\ ms = Append(v.messages, y)
    OBVIOUS
  <1> HIDE DEF n
  <1>5. y \in MessageRows(n, accepted) /\ y.mail = None /\ y.mid = 0
    BY <1>2, OutboundRow
  <1>6. y \in MessageRows(Len(v.threads) + 1, accepted)
    BY <1>5 DEF n
  <1> HIDE DEF x, y
  <1>7. Writes(v, ts, ms) /\ AddsMessage(v, ms, y) /\ (Waits(v.threads) => Waits(ts))
    BY <1>1, <1>3, <1>4, <1>6, Opening
  <1> QED BY <1>1, <1>5, <1>7, WritesServed

LEMMA WriteNewServed ==
  ASSUME TypeInv, MailAssumption, NEW v, Loaded(v), WriteNew(v)
  PROVE  Served
  <1>1. PICK state \in {"draft", "pending_approval"} :
          /\ Commit(v, Append(v.threads, NewThread(StatusFor(state))),
                    Append(v.messages, Outbound(Len(v.threads) + 1, state)))
          /\ UNCHANGED <<taskDone, strayed, recalled>>
    BY DEF WriteNew
  <1> QED BY <1>1, WrittenStatus, OpenedServed

(* One message is written, and no conversation.                            *)
LEMMA RewrittenServed ==
  ASSUME TypeInv, MailAssumption, NEW v, Loaded(v), UNCHANGED taskDone, KeepsHistory,
         NEW i \in DOMAIN v.messages, NEW x \in MessageRows(Len(v.threads), accepted),
         x.thread = v.messages[i].thread, x.mail = v.messages[i].mail,
         ~recalled' => Harmless(v.messages[i], x),
         Commit(v, v.threads, Replaced(v.messages, i, x))
  PROVE  Served
  <1>1. Len(v.threads) \in Nat /\ Len(v.threads) <= Len(v.threads)
    BY Lengths
  <1> DEFINE ms == Replaced(v.messages, i, x)
  <1>2. /\ MayWrite(v, ms, Len(v.threads)) /\ NoMailAdded(v, ms)
        /\ Harmless(v.messages[i], x) => KeepsSent(v.messages, ms)
    BY <1>1, ReplacedMessage
  <1>3. Commit(v, v.threads, ms)
    OBVIOUS
  <1> HIDE DEF ms
  <1> QED BY <1>2, <1>3, MessageStep

LEMMA MessageRow ==
  ASSUME TypeInv, NEW v, Loaded(v), NEW i \in DOMAIN v.messages
  PROVE  v.messages[i] \in MessageRows(Len(v.threads), accepted)
  BY DEF Loaded

LEMMA EditDraftServed ==
  ASSUME TypeInv, MailAssumption, NEW v, Loaded(v), EditDraft(v)
  PROVE  Served
  <1>1. PICK i \in Outgoing(v.messages) :
          /\ v.messages[i].state \in {"draft", "pending_approval"}
          /\ Commit(v, v.threads, [v.messages EXCEPT ![i].state = "draft", ![i].approvable = FALSE])
          /\ UNCHANGED <<taskDone, strayed, recalled>>
    BY DEF EditDraft
  <1> DEFINE row == v.messages[i]
             x == [row EXCEPT !.state = "draft", !.approvable = FALSE]
  <1>2. i \in DOMAIN v.messages
    BY DEF Outgoing
  <1>3. row \in MessageRows(Len(v.threads), accepted)
    BY <1>2, MessageRow
  <1>4. [v.messages EXCEPT ![i].state = "draft", ![i].approvable = FALSE] = Replaced(v.messages, i, x)
    BY <1>2 DEF Replaced
  <1> HIDE DEF row
  <1>5. /\ x \in MessageRows(Len(v.threads), accepted) /\ x.thread = row.thread
        /\ x.mail = row.mail /\ x.mid = row.mid
    BY <1>3 DEF MessageRows, MessageStates
  <1>6. row.state \notin ReportedStates
    BY <1>1 DEF ReportedStates, row
  <1> HIDE DEF x
  <1>7. Harmless(row, x)
    BY <1>5, <1>6 DEF Harmless
  <1>8. KeepsHistory /\ UNCHANGED taskDone
    BY <1>1, SameHistory
  <1>9. Commit(v, v.threads, Replaced(v.messages, i, x))
    BY <1>1, <1>4
  <1> QED BY <1>2, <1>5, <1>7, <1>8, <1>9, RewrittenServed DEF row

LEMMA ApproveInVainServed ==
  ASSUME TypeInv, MailAssumption, NEW v, Loaded(v), ApproveInVain(v)
  PROVE  Served
  <1>1. PICK i \in DOMAIN v.messages :
          /\ Commit(v, v.threads, [v.messages EXCEPT ![i].state = "draft"])
          /\ recalled' = (recalled \/ v.messages[i].mid # 0)
          /\ UNCHANGED <<taskDone, strayed>>
    BY DEF ApproveInVain
  <1> DEFINE row == v.messages[i]
             x == [row EXCEPT !.state = "draft"]
  <1>3. row \in MessageRows(Len(v.threads), accepted)
    BY MessageRow
  <1>4. [v.messages EXCEPT ![i].state = "draft"] = Replaced(v.messages, i, x)
    BY DEF Replaced
  <1>6. recalled' \in BOOLEAN /\ (~recalled' => ~recalled /\ row.mid = 0)
    BY <1>1 DEF TypeInv
  <1> HIDE DEF row
  <1>5. /\ x \in MessageRows(Len(v.threads), accepted) /\ x.thread = row.thread
        /\ x.mail = row.mail /\ x.mid = row.mid
    BY <1>3 DEF MessageRows, MessageStates
  <1> HIDE DEF x
  <1>7. ~recalled' => Harmless(row, x)
    BY <1>5, <1>6 DEF Harmless
  <1>8. KeepsHistory /\ UNCHANGED taskDone
    BY <1>1, <1>6 DEF KeepsHistory, TypeInv
  <1>9. Commit(v, v.threads, Replaced(v.messages, i, x))
    BY <1>1, <1>4
  <1> QED BY <1>5, <1>7, <1>8, <1>9, RewrittenServed DEF row

LEMMA MarkReadServed ==
  ASSUME TypeInv, MailAssumption, NEW v, Loaded(v), MarkRead(v)
  PROVE  Served
  <1>1. PICK t \in DOMAIN v.threads :
          /\ Commit(v, v.threads,
                    [i \in DOMAIN v.messages |->
                       IF v.messages[i].thread = t /\ v.messages[i].state = "received"
                       THEN [v.messages[i] EXCEPT !.state = "read"] ELSE v.messages[i]])
          /\ UNCHANGED <<taskDone, strayed, recalled>>
    BY DEF MarkRead
  <1> DEFINE ms == [i \in DOMAIN v.messages |->
                      IF v.messages[i].thread = t /\ v.messages[i].state = "received"
                      THEN [v.messages[i] EXCEPT !.state = "read"] ELSE v.messages[i]]
             R == MessageRows(Len(v.threads), accepted)
  <1>2. Len(v.threads) \in Nat /\ Len(v.threads) <= Len(v.threads)
    BY Lengths
  <1>3. v.messages \in Seq(R) /\ DOMAIN v.messages = 1 .. Len(v.messages) /\ Len(v.messages) \in Nat
    BY <1>2, LoadedMessages
  <1>4. ASSUME NEW i \in DOMAIN v.messages
        PROVE  ms[i] \in R /\ Harmless(v.messages[i], ms[i])
               /\ ms[i].thread = v.messages[i].thread /\ ms[i].mail = v.messages[i].mail
    <2> DEFINE row == v.messages[i]
               x == [row EXCEPT !.state = "read"]
    <2>1. row \in R
      BY MessageRow
    <2>2. ms[i] = IF row.thread = t /\ row.state = "received" THEN x ELSE row
      OBVIOUS
    <2> HIDE DEF row, ms
    <2>3. x \in R /\ x.thread = row.thread /\ x.mail = row.mail /\ x.mid = row.mid
      BY <2>1 DEF MessageRows, MessageStates
    <2> HIDE DEF x, R
    <2>4. CASE row.thread = t /\ row.state = "received"
      <3>1. row.state \notin ReportedStates /\ ms[i] = x
        BY <2>2, <2>4 DEF ReportedStates
      <3> QED BY <2>3, <3>1 DEF Harmless, row
    <2>5. CASE ~(row.thread = t /\ row.state = "received")
      <3>1. ms[i] = row
        BY <2>2, <2>5
      <3> QED BY <2>1, <3>1 DEF Harmless, row
    <2> QED BY <2>4, <2>5
  <1>5. ms = [i \in 1 .. Len(v.messages) |-> ms[i]] /\ DOMAIN ms = 1 .. Len(v.messages)
    BY <1>3
  <1>6. Commit(v, v.threads, ms) /\ KeepsHistory /\ UNCHANGED taskDone
    BY <1>1, SameHistory
  <1> HIDE DEF ms, R
  <1>7. ms \in [1 .. Len(v.messages) -> R]
    BY <1>3, <1>4, <1>5
  <1>8. ms \in Seq(R) /\ Len(ms) = Len(v.messages)
    BY <1>3, <1>7
  <1>9. Len(v.messages) <= Len(ms) /\ \A i \in DOMAIN ms : ~(i > Len(v.messages))
    BY <1>3, <1>5, <1>8
  <1>10. MayWrite(v, ms, Len(v.threads)) /\ NoMailAdded(v, ms) /\ KeepsSent(v.messages, ms)
    BY <1>4, <1>8, <1>9 DEF MayWrite, NoMailAdded, KeepsSent, R, Harmless
  <1> QED BY <1>6, <1>10, MessageStep

(* Resolving and reopening by hand.                                        *)
MovedTo(thread, status) ==
  IF status = "resolved" THEN Resolved(thread)
  ELSE IF thread.status = "resolved" THEN [thread EXCEPT !.resolved = FALSE] ELSE thread

ClockedTo(thread, status) ==
  IF thread.status = "waiting_reply" /\ status # "waiting_reply"
  THEN Resumed(MovedTo(thread, status))
  ELSE IF status = "waiting_reply" /\ thread.status # "waiting_reply"
  THEN Waiting(MovedTo(thread, status)) ELSE MovedTo(thread, status)

LEMMA MovedThread ==
  ASSUME NEW n \in Nat, NEW th \in ThreadRows(n), NEW status
  PROVE  /\ MovedTo(th, status) \in ThreadRows(n) /\ MovedTo(th, status).status = th.status
         /\ MovedTo(th, status).paused => th.paused
         /\ status = "waiting_reply" /\ th.status = "waiting_reply" => MovedTo(th, status) = th
  <1> DEFINE x == MovedTo(th, status)
  <1>1. CASE status = "resolved"
    <2>1. x = Resolved(th)
      BY <1>1 DEF MovedTo
    <2> QED BY <1>1, <2>1, ResolvedThread
  <1>2. CASE status # "resolved" /\ th.status = "resolved"
    <2>1. x = [th EXCEPT !.resolved = FALSE]
      BY <1>2 DEF MovedTo
    <2> HIDE DEF x
    <2>2. x \in ThreadRows(n) /\ x.status = th.status /\ x.paused = th.paused
      BY <2>1 DEF ThreadRows
    <2> QED BY <1>2, <2>2 DEF x
  <1>3. CASE status # "resolved" /\ th.status # "resolved"
    BY <1>3 DEF MovedTo
  <1> QED BY <1>1, <1>2, <1>3

LEMMA ClockedThread ==
  ASSUME Pauses \in BOOLEAN, NEW n \in Nat, NEW th \in ThreadRows(n), NEW status \in StatusLabels,
         NEW x, x = WithStatus(ClockedTo(th, status), status)
  PROVE  x \in ThreadRows(n) /\ (RowWaits(th) => RowWaits(x))
  <1> DEFINE m == MovedTo(th, status)
             c == ClockedTo(th, status)
  <1>1. /\ m \in ThreadRows(n) /\ m.status = th.status /\ (m.paused => th.paused)
        /\ status = "waiting_reply" /\ th.status = "waiting_reply" => m = th
    BY MovedThread
  <1>2. CASE th.status = "waiting_reply" /\ status # "waiting_reply"
    <2>1. c = Resumed(m)
      BY <1>2 DEF ClockedTo
    <2> HIDE DEF m, c
    <2>2. c \in ThreadRows(n) /\ ~c.paused
      BY <1>1, <2>1, ResumedThread
    <2>3. x = WithStatus(c, status)
      BY DEF c
    <2>4. x \in ThreadRows(n) /\ x.status = status /\ x.paused = c.paused
      BY <2>2, <2>3, PutThread
    <2> QED BY <1>2, <2>2, <2>4 DEF RowWaits
  <1>3. CASE th.status # "waiting_reply" /\ status = "waiting_reply"
    <2>1. c = Waiting(m)
      BY <1>3 DEF ClockedTo
    <2> HIDE DEF m, c
    <2>2. c \in ThreadRows(n) /\ (c.paused <=> m.paused \/ Pauses)
      BY <1>1, <2>1, WaitingThread
    <2>3. x = WithStatus(c, status)
      BY DEF c
    <2>4. x \in ThreadRows(n) /\ x.status = status /\ x.paused = c.paused
      BY <2>2, <2>3, PutThread
    <2> QED BY <1>1, <1>3, <2>2, <2>4 DEF RowWaits
  <1>4. CASE th.status = "waiting_reply" <=> status = "waiting_reply"
    <2>1. c = m
      BY <1>4 DEF ClockedTo
    <2> HIDE DEF m, c
    <2>2. x = WithStatus(c, status)
      BY DEF c
    <2>3. x \in ThreadRows(n) /\ x.status = status /\ x.paused = c.paused
      BY <1>1, <2>1, <2>2, PutThread
    <2> QED BY <1>1, <1>4, <2>1, <2>3 DEF RowWaits
  <1> QED BY <1>2, <1>3, <1>4

LEMMA ThreadRow ==
  ASSUME TypeInv, NEW v, Loaded(v), NEW t \in DOMAIN v.threads
  PROVE  /\ v.threads[t] \in ThreadRows(Len(taskDone)) /\ Len(taskDone) \in Nat
         /\ Waits(v.threads) => RowWaits(v.threads[t])
  BY Lengths DEF Waits, RowWaits

LEMMA SetStatusServed ==
  ASSUME TypeInv, MailAssumption, StatusesAssumption, NEW v, Loaded(v), SetStatus(v)
  PROVE  Served
  <1>1. PICK t \in DOMAIN v.threads, status \in Statuses :
          /\ Commit(v, Replaced(v.threads, t, WithStatus(ClockedTo(v.threads[t], status), status)),
                    v.messages)
          /\ UNCHANGED <<taskDone, strayed, recalled>>
    BY Zenon DEF SetStatus, ClockedTo, MovedTo, WithStatus
  <1> DEFINE x == WithStatus(ClockedTo(v.threads[t], status), status)
             ts == Replaced(v.threads, t, x)
  <1>2. KeepsHistory /\ KeepsTasks
    BY <1>1, SameHistory
  <1>3. /\ v.threads[t] \in ThreadRows(Len(taskDone)) /\ Len(taskDone) \in Nat
        /\ Waits(v.threads) => RowWaits(v.threads[t])
    BY ThreadRow
  <1>4. Pauses \in BOOLEAN /\ status \in StatusLabels
    BY DEF MailAssumption, StatusesAssumption
  <1>5. x \in ThreadRows(Len(taskDone)) /\ (RowWaits(v.threads[t]) => RowWaits(x))
    BY <1>3, <1>4, ClockedThread
  <1>6. Commit(v, ts, v.messages) /\ ts = Replaced(v.threads, t, x) /\ x \in ThreadRows(Len(taskDone'))
    BY <1>1, <1>5
  <1> HIDE DEF x, ts
  <1> QED BY <1>2, <1>3, <1>5, <1>6, ThreadStep

LEMMA TriageServed ==
  ASSUME TypeInv, MailAssumption, NEW v, Loaded(v), Triage(v)
  PROVE  Served
  <1>1. PICK t \in DOMAIN v.threads, validate \in BOOLEAN :
          LET thread == v.threads[t]
              status == IF validate /\ thread.status = "triage" THEN "in_progress" ELSE thread.status
          IN
          /\ Commit(v, Replaced(v.threads, t, [thread EXCEPT !.validated = validate, !.status = status]),
                    v.messages)
          /\ UNCHANGED <<taskDone, strayed, recalled>>
    BY Zenon DEF Triage
  <1> DEFINE th == v.threads[t]
             status == IF validate /\ th.status = "triage" THEN "in_progress" ELSE th.status
             x == [th EXCEPT !.validated = validate, !.status = status]
             ts == Replaced(v.threads, t, x)
  <1>2. KeepsHistory /\ KeepsTasks
    BY <1>1, SameHistory
  <1>3. /\ th \in ThreadRows(Len(taskDone)) /\ Len(taskDone) \in Nat
        /\ Waits(v.threads) => RowWaits(th)
    BY ThreadRow
  <1>4. Commit(v, ts, v.messages) /\ ts = Replaced(v.threads, t, x)
    BY <1>1
  <1> HIDE DEF th
  <1>5. status \in StatusLabels /\ (status = "waiting_reply" <=> th.status = "waiting_reply")
    BY <1>3 DEF ThreadRows, StatusLabels
  <1> HIDE DEF status
  <1>6. x \in ThreadRows(Len(taskDone)) /\ x.status = status /\ x.paused = th.paused
    BY <1>3, <1>5 DEF ThreadRows
  <1>7. RowWaits(th) => RowWaits(x)
    BY <1>5, <1>6 DEF RowWaits
  <1>8. x \in ThreadRows(Len(taskDone'))
    BY <1>1, <1>6
  <1> HIDE DEF x, ts
  <1> QED BY <1>2, <1>3, <1>4, <1>7, <1>8, ThreadStep

LEMMA MarkSpamServed ==
  ASSUME TypeInv, MailAssumption, NEW v, Loaded(v), MarkSpam(v)
  PROVE  Served
  <1>1. PICK t \in DOMAIN v.threads :
          LET ts == [v.threads EXCEPT ![t].status = "archived"] IN
          /\ Commit(v, ts, v.messages) /\ Stray(v, ts)
          /\ UNCHANGED <<taskDone, recalled>>
    BY DEF MarkSpam
  <1> DEFINE ts == [v.threads EXCEPT ![t].status = "archived"]
             x == WithStatus(v.threads[t], "archived")
  <1>2. Commit(v, ts, v.messages) /\ Stray(v, ts) /\ UNCHANGED taskDone /\ UNCHANGED recalled
    BY <1>1
  <1>3. ts = Replaced(v.threads, t, x)
    BY DEF Replaced, WithStatus
  <1>4. v.threads[t] \in ThreadRows(Len(taskDone)) /\ Len(taskDone) \in Nat
    BY ThreadRow
  <1>5. x \in ThreadRows(Len(taskDone)) /\ x.status = "archived" /\ x.paused = v.threads[t].paused
    BY <1>4, PutThread DEF StatusLabels
  <1>6. ts[t] = x
    BY DEF WithStatus
  <1> HIDE DEF x, ts
  <1>7. KeepsHistory /\ KeepsTasks /\ (~strayed' => ~LeftPaused(v, ts))
    BY <1>2, StrayHistory, SameHistory
  <1>8. ~strayed' /\ Waits(v.threads) => RowWaits(x)
    BY <1>5, <1>6, <1>7 DEF LeftPaused, RowWaits
  <1>9. x \in ThreadRows(Len(taskDone'))
    BY <1>2, <1>5
  <1> QED BY <1>2, <1>3, <1>7, <1>8, <1>9, ThreadStep

LEMMA CreateTaskServed ==
  ASSUME TypeInv, MailAssumption, NEW v, Loaded(v), CreateTask(v)
  PROVE  Served
  <1>1. PICK t \in DOMAIN v.threads, outcome \in {"wait", "complete"} :
          LET linked == [v.threads[t] EXCEPT !.task = Len(taskDone) + 1]
              ts == Replaced(v.threads, t,
                      IF outcome = "wait" THEN [linked EXCEPT !.status = "task_created"]
                      ELSE [Resolved(linked) EXCEPT !.status = "resolved"])
          IN
          /\ taskDone' = Append(taskDone, FALSE)
          /\ Commit(v, ts, v.messages) /\ Stray(v, ts) /\ UNCHANGED recalled
    BY Zenon DEF CreateTask
  <1> DEFINE th == v.threads[t]
             n == Len(taskDone) + 1
             linked == [th EXCEPT !.task = n]
             x == IF outcome = "wait" THEN [linked EXCEPT !.status = "task_created"]
                  ELSE [Resolved(linked) EXCEPT !.status = "resolved"]
             ts == Replaced(v.threads, t, x)
  <1>2. taskDone' = Append(taskDone, FALSE) /\ Commit(v, ts, v.messages) /\ Stray(v, ts)
        /\ UNCHANGED recalled /\ ts = Replaced(v.threads, t, x)
    BY <1>1
  <1>3. th \in ThreadRows(Len(taskDone)) /\ Len(taskDone) \in Nat /\ taskDone \in Seq(BOOLEAN)
    BY ThreadRow DEF TypeInv
  <1>4. taskDone' \in Seq(BOOLEAN) /\ Len(taskDone') = n /\ n \in Nat /\ Len(taskDone) <= n
    BY <1>2, <1>3
  <1>5. th \in ThreadRows(n) /\ n \in 0 .. n
    <2>1. 0 \in Nat /\ 0 <= 0
      OBVIOUS
    <2>2. ThreadRows(Len(taskDone)) \subseteq ThreadRows(n)
      BY <1>3, <1>4, <2>1, RowsGrow
    <2> QED BY <1>3, <1>4, <2>2
  <1>6. ts[t] = x
    BY DEF Replaced
  <1> HIDE DEF th, n
  <1>7. linked \in ThreadRows(n) /\ linked.paused = th.paused
    BY <1>5 DEF ThreadRows
  <1> HIDE DEF linked
  <1>8. x \in ThreadRows(n) /\ (x.paused => th.paused) /\ x.status # "waiting_reply"
    <2>1. CASE outcome = "wait"
      <3>1. x = WithStatus(linked, "task_created")
        BY <2>1 DEF WithStatus
      <3> HIDE DEF x
      <3>2. x \in ThreadRows(n) /\ x.status = "task_created" /\ x.paused = linked.paused
        BY <1>4, <1>7, <3>1, PutThread DEF StatusLabels
      <3> QED BY <1>7, <3>2
    <2>2. CASE outcome # "wait"
      <3> DEFINE r == Resolved(linked)
      <3>1. x = WithStatus(r, "resolved")
        BY <2>2 DEF WithStatus
      <3>2. r \in ThreadRows(n) /\ (r.paused => linked.paused)
        BY <1>4, <1>7, ResolvedThread
      <3> HIDE DEF x, r
      <3>3. x \in ThreadRows(n) /\ x.status = "resolved" /\ x.paused = r.paused
        BY <1>4, <3>1, <3>2, PutThread DEF StatusLabels
      <3> QED BY <1>7, <3>2, <3>3
    <2> QED BY <2>1, <2>2
  <1> HIDE DEF x, ts
  <1>9. KeepsHistory /\ KeepsTasks /\ (~strayed' => ~LeftPaused(v, ts))
    BY <1>2, <1>4, StrayHistory DEF KeepsTasks
  <1>10. ~strayed' /\ Waits(v.threads) => RowWaits(x)
    BY <1>6, <1>8, <1>9 DEF LeftPaused, RowWaits, th
  <1>11. x \in ThreadRows(Len(taskDone'))
    BY <1>4, <1>8
  <1> QED BY <1>2, <1>9, <1>10, <1>11, ThreadStep

LEMMA OpenInboxServed ==
  ASSUME TypeInv, MailAssumption, NEW v, Loaded(v), OpenInbox(v)
  PROVE  Served
  <1> DEFINE ts == [t \in DOMAIN v.threads |->
                      IF t \in Returning(v) THEN [v.threads[t] EXCEPT !.status = "triage"]
                      ELSE v.threads[t]]
             R == ThreadRows(Len(taskDone))
  <1>1. Commit(v, ts, v.messages) /\ UNCHANGED <<taskDone, strayed, recalled>>
    BY DEF OpenInbox
  <1>2. /\ Len(v.threads) \in Nat /\ Len(v.threads) <= Len(v.threads)
        /\ DOMAIN v.threads = 1 .. Len(v.threads)
    BY Lengths
  <1>3. ASSUME NEW t \in DOMAIN v.threads
        PROVE  ts[t] \in R /\ (RowWaits(v.threads[t]) => RowWaits(ts[t]))
    <2> DEFINE th == v.threads[t]
    <2>1. th \in ThreadRows(Len(taskDone)) /\ Len(taskDone) \in Nat
      BY ThreadRow
    <2>2. ts[t] = IF t \in Returning(v) THEN WithStatus(th, "triage") ELSE th
      BY DEF WithStatus
    <2>3. t \in Returning(v) => th.status = "task_created"
      BY DEF Returning
    <2> HIDE DEF th, ts
    <2>4. CASE t \in Returning(v)
      <3>1. ts[t] = WithStatus(th, "triage")
        BY <2>2, <2>4
      <3>2. ts[t] \in R /\ ts[t].status = "triage" /\ ts[t].paused = th.paused
        BY <2>1, <3>1, PutThread DEF StatusLabels
      <3> QED BY <2>3, <2>4, <3>2 DEF RowWaits, th
    <2>5. CASE t \notin Returning(v)
      BY <2>1, <2>2, <2>5 DEF th
    <2> QED BY <2>4, <2>5
  <1>4. ts = [t \in 1 .. Len(v.threads) |-> ts[t]] /\ DOMAIN ts = DOMAIN v.threads
    BY <1>2
  <1> HIDE DEF ts, R
  <1>5. ts \in [1 .. Len(v.threads) -> R]
    BY <1>2, <1>3, <1>4
  <1>6. ts \in Seq(R) /\ Len(ts) = Len(v.threads)
    BY <1>2, <1>5
  <1>7. ts \in Seq(ThreadRows(Len(taskDone'))) /\ Len(ts) \in Nat /\ Len(v.threads) <= Len(ts)
    BY <1>1, <1>2, <1>6 DEF R
  <1>8. Waits(v.threads) => Waits(ts)
    BY <1>3, <1>4 DEF Waits, RowWaits
  <1>9. /\ MayWrite(v, v.messages, Len(ts)) /\ NoMailAdded(v, v.messages)
        /\ KeepsSent(v.messages, v.messages)
    BY <1>7, SameMessages
  <1>10. KeepsHistory /\ KeepsTasks
    BY <1>1, SameHistory
  <1> QED BY <1>1, <1>7, <1>8, <1>9, <1>10, ServedStep

(* Nothing of the rows changes but tasks.                                  *)
LEMMA IdleServed ==
  ASSUME TypeInv, UNCHANGED <<threads, messages, stale, strayed, recalled, accepted>>,
         taskDone' \in Seq(BOOLEAN), Len(taskDone') = Len(taskDone)
  PROVE  Served
  <1>1. /\ threads \in Seq(ThreadRows(Len(taskDone))) /\ messages \in Seq(MessageRows(Len(threads), accepted))
        /\ Len(threads) \in Nat /\ Len(messages) \in Nat /\ Len(taskDone) \in Nat
        /\ stale \in BOOLEAN /\ strayed \in BOOLEAN /\ recalled \in BOOLEAN
        /\ DOMAIN messages = 1 .. Len(messages)
    BY DEF TypeInv
  <1>2. Typed
    BY <1>1 DEF Typed
  <1>3. Step
    BY <1>1, <1>2 DEF Step, Remembers
  <1>4. Len(messages) <= Len(messages) /\ \A i \in DOMAIN messages : ~(i > Len(messages))
    BY <1>1
  <1>5. Quietly
    BY <1>4 DEF Quietly, KeepsSent
  <1>6. SameInbox
    BY DEF SameInbox
  <1> QED BY <1>3, <1>5, <1>6 DEF Served

LEMMA RefuseServed ==
  ASSUME TypeInv, MailAssumption, NEW r \in Slow, Loaded(view[r].rows), view[r].job # None,
         Job(view[r].rows, view[r].job), Refuse(r)
  PROVE  Served
  <1> DEFINE v == view[r].rows
             of == view[r].job.of
             kind == view[r].job.job
  <1>1. UNCHANGED <<taskDone, recalled, accepted>>
    BY DEF Refuse, provider
  <1>2. CASE kind = "approve"
    <2>1. UNCHANGED <<threads, messages, stale, strayed>>
      BY <1>2, Zenon DEF Refuse
    <2>2. taskDone' \in Seq(BOOLEAN) /\ Len(taskDone') = Len(taskDone)
      BY <1>1 DEF TypeInv
    <2> QED BY <1>1, <2>1, <2>2, IdleServed
  <1>3. CASE kind = "answer"
    <2> DEFINE ts == [v.threads EXCEPT ![of].status = "in_progress"]
               ms == Append(v.messages, Outbound(of, "approved"))
    <2>0. Refuse(r) => Commit(v, ts, ms) /\ Stray(v, ts)
      BY <1>3 DEF Refuse
    <2>1. Commit(v, ts, ms) /\ Stray(v, ts)
      BY <2>0
    <2>2. of \in DOMAIN v.threads
      BY <1>3 DEF Job
    <2>3. ts = [v.threads EXCEPT ![of].status = "in_progress"] /\ ms = Append(v.messages, Outbound(of, "approved"))
      OBVIOUS
    <2>4. "in_progress" \in StatusLabels /\ "approved" \in MessageStates /\ "in_progress" # "waiting_reply"
      BY DEF StatusLabels, MessageStates
    <2> HIDE DEF ts, ms
    <2> QED BY <1>1, <2>1, <2>2, <2>3, <2>4, TakenOver
  <1>4. CASE kind = "new"
    <2> DEFINE ts == Append(v.threads, NewThread("in_progress"))
               ms == Append(v.messages, Outbound(Len(v.threads) + 1, "approved"))
    <2>0. Refuse(r) => Commit(v, ts, ms) /\ UNCHANGED strayed
      BY <1>4 DEF Refuse
    <2>1. Commit(v, ts, ms) /\ UNCHANGED <<taskDone, strayed, recalled>>
      BY <1>1, <2>0
    <2>3. /\ ts = Append(v.threads, NewThread("in_progress"))
          /\ ms = Append(v.messages, Outbound(Len(v.threads) + 1, "approved"))
      OBVIOUS
    <2>4. "in_progress" \in StatusLabels /\ "approved" \in MessageStates /\ "in_progress" # "waiting_reply"
      BY DEF StatusLabels, MessageStates
    <2> HIDE DEF ts, ms
    <2> QED BY <2>1, <2>3, <2>4, OpenedServed
  <1> QED BY <1>2, <1>3, <1>4 DEF Job

LEMMA ByUserServed ==
  ASSUME TypeInv, MailAssumption, StatusesAssumption, NEW v, Loaded(v), ByUser(v)
  PROVE  Served
  <1>1. \/ Write(v) \/ WriteNew(v) \/ EditDraft(v) \/ ApproveInVain(v)
        \/ SetStatus(v) \/ Triage(v) \/ MarkRead(v) \/ MarkSpam(v) \/ CreateTask(v)
    BY DEF ByUser
  <1> QED BY <1>1, WriteServed, WriteNewServed, EditDraftServed, ApproveInVainServed,
          SetStatusServed, TriageServed, MarkReadServed, MarkSpamServed, CreateTaskServed

-----------------------------------------------------------------------------
(* The calls of the provider.                                              *)

(* One mail more.                                                          *)
StoresOne(m) ==
  /\ InboundOf(messages, m) = {}
  /\ \E i : InboundOf(messages', m) = {i}
  /\ \A k \in Mails \ {m} : InboundOf(messages', k) = InboundOf(messages, k)

LEMMA OneBehind ==
  ASSUME NEW a \in Nat, NEW b \in Nat
  PROVE  a + 1 + b - a = b + 1
  OBVIOUS

LEMMA StoredInbox ==
  ASSUME TypeInv, MailAssumption, NEW v, Loaded(v), Typed, NEW ms, NEW y, Mailed(v, ms),
         AddsMessage(v, ms, y), y.mail \in Mails, InboundOf(messages, y.mail) = {}
  PROVE  StoresOne(y.mail)
  <1> DEFINE l == Len(messages)
  <1>1. /\ l \in Nat /\ Len(v.messages) \in Nat /\ DOMAIN messages = 1 .. l
        /\ DOMAIN messages' = 1 .. Len(messages') /\ Len(messages') \in Nat
    BY Lengths DEF TypeInv, Typed
  <1>2. Len(messages') = l + 1
    BY <1>1 DEF Mailed, AddsMessage
  <1>3. DOMAIN messages' = DOMAIN messages \cup {l + 1} /\ l + 1 \notin DOMAIN messages
    BY <1>1, <1>2
  <1>4. AddedAt(v, l + 1) = Len(v.messages) + 1
    <2>1. Len(messages) \in Nat /\ Len(v.messages) \in Nat
      BY <1>1
    <2>2. Len(messages) + 1 + Len(v.messages) - Len(messages) = Len(v.messages) + 1
      BY <2>1, OneBehind
    <2> QED BY <2>2 DEF AddedAt
  <1>5. messages'[l + 1].mail = y.mail
    BY <1>3, <1>4 DEF Mailed, AddsMessage
  <1>6. \A i \in DOMAIN messages : messages'[i].mail = messages[i].mail
    BY DEF Mailed
  <1> HIDE DEF l
  <1>7. \A k \in Mails : k # None
    BY DEF MailAssumption
  <1>8. InboundOf(messages', y.mail) = {l + 1}
    BY <1>3, <1>5, <1>6, <1>7 DEF InboundOf
  <1>9. \A k \in Mails \ {y.mail} : InboundOf(messages', k) = InboundOf(messages, k)
    BY <1>3, <1>5, <1>6, <1>7 DEF InboundOf
  <1> QED BY <1>8, <1>9 DEF StoresOne

(* A set of numbers of rows has a last one.                                *)
LEMMA LatestOf ==
  ASSUME NEW n \in Nat, NEW S, S \subseteq 1 .. n, S # {}
  PROVE  \E i \in S : \A j \in S : j <= i
  <1> DEFINE R == OpToRel(<, Nat)
             T == {n - i : i \in S}
  <1>1. IsWellFoundedOn(R, Nat)
    BY NatLessThanWellFounded
  <1>2. T \subseteq Nat /\ T # {}
    <2>1. PICK i \in S : TRUE
      OBVIOUS
    <2>2. n - i \in T
      OBVIOUS
    <2>3. ASSUME NEW j \in S PROVE n - j \in Nat
      <3>1. j \in 1 .. n
        OBVIOUS
      <3> QED BY <3>1
    <2> QED BY <2>2, <2>3
  <1> HIDE DEF R, T
  <1>3. PICK x \in T : \A y \in T : ~(<<y, x>> \in R)
    BY <1>1, <1>2, WFMin
  <1>4. PICK i \in S : x = n - i
    BY DEF T
  <1>5. ASSUME NEW j \in S PROVE j <= i
    <2>1. n - j \in T /\ n - j \in Nat /\ x \in Nat
      BY <1>2 DEF T
    <2>2. ~(n - j < x)
      BY <1>3, <2>1 DEF R, OpToRel
    <2> QED BY <1>4, <2>1, <2>2
  <1> QED BY <1>5

LEMMA InboundRow ==
  ASSUME NEW n, n \in Nat, accepted \in Nat, NEW t, t \in 1 .. n, NEW mail, mail \in Mails
  PROVE  /\ Inbound(mail, t) \in MessageRows(n, accepted)
         /\ Inbound(mail, t).mail = mail /\ Inbound(mail, t).mid = 0
  BY DEF MessageRows, Inbound, MessageStates

LEMMA WritesStored ==
  ASSUME TypeInv, MailAssumption, NEW v, Loaded(v), KeepsTasks, KeepsHistory,
         NEW ts, NEW ms, NEW y, y.mail \in Mails, y.mid = 0, InboundOf(messages, y.mail) = {},
         Writes(v, ts, ms), AddsMessage(v, ms, y), Commit(v, ts, ms),
         Waits(v.threads) => Waits(ts)
  PROVE  Step /\ Quietly /\ StoresOne(y.mail)
  <1>1. KeepsSent(v.messages, ms)
    BY DEF AddsMessage
  <1>2. Writable(v, ts, ms, Len(taskDone'))
    BY WritableRows DEF Writes
  <1>3. Typed /\ Mailed(v, ms)
    BY <1>2, Committing DEF KeepsTasks
  <1>4. StoresOne(y.mail)
    BY <1>3, StoredInbox
  <1> QED BY <1>1, <1>2, <1>4, WriteStep DEF KeepsTasks, KeepsHistory

LEMMA OpenedWithTask ==
  ASSUME TypeInv, NEW mode \in {"open", "complete", None}, NEW status,
         status = CASE mode = "open" -> "task_created" [] mode = "complete" -> "resolved"
                    [] OTHER -> "triage",
         taskDone' = IF mode = None THEN taskDone ELSE Append(taskDone, mode = "complete"),
         NEW x, x = [NewThread(status) EXCEPT !.task = IF mode = None THEN 0 ELSE Len(taskDone) + 1]
  PROVE  KeepsTasks /\ x \in ThreadRows(Len(taskDone')) /\ RowWaits(x)
  <1> DEFINE R == BOOLEAN
             k == IF mode = None THEN 0 ELSE Len(taskDone) + 1
             new == NewThread(status)
  <1>1. PICK b \in R : b = (mode = "complete")
    OBVIOUS
  <1>2. status \in {"task_created", "resolved", "triage"}
    OBVIOUS
  <1>3. taskDone' = IF mode = None THEN taskDone ELSE Append(taskDone, b)
    BY <1>1
  <1>4. taskDone \in Seq(R) /\ Len(taskDone) \in Nat
    BY DEF TypeInv
  <1> HIDE DEF R
  <1>5. /\ taskDone' \in Seq(R) /\ Len(taskDone) <= Len(taskDone') /\ Len(taskDone') \in Nat
        /\ k \in 0 .. Len(taskDone')
    <2>1. CASE mode = None
      BY <1>3, <1>4, <2>1
    <2>2. CASE mode # None
      <3>1. taskDone' = Append(taskDone, b) /\ k = Len(taskDone) + 1
        BY <1>3, <2>2
      <3> HIDE DEF k
      <3>2. taskDone' \in Seq(R) /\ Len(taskDone') = Len(taskDone) + 1
        BY <1>4, <3>1
      <3> QED BY <1>4, <3>1, <3>2
    <2> QED BY <2>1, <2>2
  <1>6. x = [new EXCEPT !.task = k]
    OBVIOUS
  <1>7. new \in ThreadRows(Len(taskDone')) /\ new.status = status /\ ~new.paused
    BY <1>2, <1>5, OpenedThread DEF StatusLabels
  <1> HIDE DEF new, k
  <1>8. x \in ThreadRows(Len(taskDone')) /\ x.status = status /\ x.paused = new.paused
    BY <1>5, <1>6, <1>7 DEF ThreadRows
  <1> QED BY <1>2, <1>5, <1>7, <1>8 DEF KeepsTasks, RowWaits, R

LEMMA AddedStored ==
  ASSUME TypeInv, MailAssumption, NEW v, Loaded(v), NEW mail \in Mails, Added(v, mail),
         InboundOf(messages, mail) = {}, UNCHANGED <<strayed, recalled>>
  PROVE  Step /\ Quietly /\ StoresOne(mail)
  <1> DEFINE parents == IF Parent[mail] = Ours THEN {i \in Outgoing(v.messages) : v.messages[i].mid # 0}
                        ELSE InboundOf(v.messages, Parent[mail])
             mode == AutoTask[mail]
             status == CASE mode = "open" -> "task_created" [] mode = "complete" -> "resolved"
                         [] OTHER -> "triage"
             opened == [NewThread(status) EXCEPT !.task = IF mode = None THEN 0 ELSE Len(taskDone) + 1]
             n == Len(v.threads) + 1
             i == CHOOSE i \in parents : \A j \in parents : j <= i
             t == v.messages[i].thread
  <1>1. KeepsHistory
    BY SameHistory
  <1>2. CASE parents = {}
    <2> DEFINE ts == Append(v.threads, opened)
               y == Inbound(mail, n)
               ms == Append(v.messages, y)
    <2>1. /\ Commit(v, ts, ms)
          /\ taskDone' = IF mode = None THEN taskDone ELSE Append(taskDone, mode = "complete")
      BY <1>2 DEF Added
    <2>2. mode \in {"open", "complete", None}
      BY DEF MailAssumption
    <2>3. /\ status = CASE mode = "open" -> "task_created" [] mode = "complete" -> "resolved"
                        [] OTHER -> "triage"
          /\ opened = [NewThread(status) EXCEPT !.task = IF mode = None THEN 0 ELSE Len(taskDone) + 1]
      OBVIOUS
    <2>4. n \in Nat /\ n \in 1 .. n /\ accepted \in Nat
      BY Lengths
    <2>5. ts = Append(v.threads, opened) /\ ms = Append(v.messages, y)
      OBVIOUS
    <2> HIDE DEF mode, status, opened, n
    <2>6. KeepsTasks /\ opened \in ThreadRows(Len(taskDone')) /\ RowWaits(opened)
      BY <2>1, <2>2, <2>3, OpenedWithTask
    <2>7. y \in MessageRows(n, accepted) /\ y.mail = mail /\ y.mid = 0
      BY <2>4, InboundRow
    <2>8. y \in MessageRows(Len(v.threads) + 1, accepted)
      BY <2>7 DEF n
    <2> HIDE DEF y, ts, ms
    <2>9. Writes(v, ts, ms) /\ AddsMessage(v, ms, y) /\ (Waits(v.threads) => Waits(ts))
      BY <2>5, <2>6, <2>8, Opening
    <2> QED BY <1>1, <2>1, <2>6, <2>7, <2>9, WritesStored
  <1>3. CASE parents # {}
    <2>0. /\ Len(v.messages) \in Nat /\ parents \subseteq 1 .. Len(v.messages)
          /\ DOMAIN v.messages = 1 .. Len(v.messages)
      BY DEF Outgoing, InboundOf, Loaded
    <2>1. i \in parents
      BY <1>3, <2>0, LatestOf
    <2>2. v.messages[i] \in MessageRows(Len(v.threads), accepted)
      BY <2>0, <2>1, MessageRow
    <2> DEFINE x == Reopened(v.threads[t])
               ts == Replaced(v.threads, t, x)
               y == Inbound(mail, t)
               ms == Append(v.messages, y)
    <2>3. Commit(v, ts, ms) /\ UNCHANGED taskDone
      BY <1>3, Zenon DEF Added
    <2>4. t \in 1 .. Len(v.threads)
      BY <2>2 DEF MessageRows
    <2>5. ts = Replaced(v.threads, t, x) /\ ms = Append(v.messages, y)
      OBVIOUS
    <2> HIDE DEF t
    <2>6. t \in DOMAIN v.threads /\ Len(v.threads) \in Nat /\ accepted \in Nat
      BY <2>4, Lengths
    <2>7. /\ v.threads[t] \in ThreadRows(Len(taskDone)) /\ Len(taskDone) \in Nat
          /\ Waits(v.threads) => RowWaits(v.threads[t])
      BY <2>6, ThreadRow
    <2>8. x \in ThreadRows(Len(taskDone)) /\ (RowWaits(v.threads[t]) => RowWaits(x))
      BY <2>7, ReopenedThread
    <2>9. y \in MessageRows(Len(v.threads), accepted) /\ y.mail = mail /\ y.mid = 0
      BY <2>4, <2>6, InboundRow
    <2>10. KeepsTasks /\ x \in ThreadRows(Len(taskDone'))
      BY <2>3, <2>8, SameHistory
    <2> HIDE DEF x, y, ts, ms
    <2>11. /\ Writes(v, ts, ms) /\ AddsMessage(v, ms, y)
           /\ Waits(v.threads) /\ RowWaits(x) => Waits(ts)
      BY <2>5, <2>6, <2>9, <2>10, Answering
    <2>12. Waits(v.threads) => Waits(ts)
      BY <2>7, <2>8, <2>11
    <2> QED BY <1>1, <2>3, <2>9, <2>10, <2>11, <2>12, WritesStored
  <1> QED BY <1>2, <1>3

LEMMA IngestServed ==
  ASSUME TypeInv, MailAssumption, NEW v, Loaded(v), NEW c \in Copies, Ingest(v, c)
  PROVE  /\ Step /\ Quietly /\ (SameInbox \/ \E m \in Mails : StoresOne(m))
         /\ ingested' \subseteq Copies /\ UNCHANGED <<counted, accepted, raised, work>>
         /\ failures' \in 0 .. MaxFailures
  <1> DEFINE mail == MailOf[c]
  <1>0. mail \in Mails
    BY DEF Mails
  <1>1. /\ UNCHANGED <<accepted, raised, work, strayed, recalled>> /\ Answer(c)
        /\ \/ UNCHANGED <<rows, stale>>
           \/ /\ ingested' = ingested \cup {c} /\ UNCHANGED counted
              /\ \/ UNCHANGED <<threads, messages, taskDone, stale>>
                 \/ FirstDelivery(messages, mail) /\ Added(v, mail)
    BY DEF Ingest
  <1>2. failures' \in 0 .. MaxFailures
    BY <1>1 DEF Answer, TypeInv, MailAssumption
  <1>3. ingested' \subseteq Copies /\ UNCHANGED counted
    BY <1>1 DEF TypeInv, rows
  <1>4. CASE UNCHANGED <<threads, messages, taskDone, stale>>
    <2>1. taskDone' \in Seq(BOOLEAN) /\ Len(taskDone') = Len(taskDone)
      BY <1>4 DEF TypeInv
    <2> QED BY <1>1, <1>2, <1>3, <1>4, <2>1, IdleServed DEF Served
  <1>5. CASE FirstDelivery(messages, mail) /\ Added(v, mail)
    <2>1. InboundOf(messages, mail) = {}
      BY <1>5 DEF FirstDelivery
    <2>2. UNCHANGED <<strayed, recalled>>
      BY <1>1
    <2> HIDE DEF mail
    <2> QED BY <1>0, <1>1, <1>2, <1>3, <1>5, <2>1, <2>2, AddedStored
  <1> QED BY <1>1, <1>4, <1>5 DEF rows

-----------------------------------------------------------------------------
(* What is reported about sent mail.                                       *)

LEMMA Ranks ==
  ASSUME NEW state
  PROVE  Rank(state) \in Nat
  BY DEF Rank

LEMMA Targets ==
  ASSUME MailAssumption, NEW kind, kind \in Kinds
  PROVE  Target(kind) \in ReportedStates /\ Target(kind) \in MessageStates
  <1>1. kind \in {"delivery", "soft", "hard", "spam"}
    BY DEF MailAssumption
  <1> QED BY <1>1 DEF Target, ReportedStates, MessageStates

LEMMA ReportsAre ==
  ASSUME TypeInv, NEW report \in Counted(counted)
  PROVE  report[1] \in 1 .. accepted /\ report[2] \in Kinds
  BY DEF TypeInv, Counted

LEMMA FatesAre ==
  ASSUME TypeInv, MailAssumption, NEW mid
  PROVE  Fates(counted, mid) \subseteq ReportedStates
  <1>1. "sent" \in ReportedStates
    BY DEF ReportedStates
  <1>2. \A report \in Counted(counted) : Target(report[2]) \in ReportedStates
    BY ReportsAre, Targets
  <1> QED BY <1>1, <1>2 DEF Fates

(* No request gets a number, and those that have one may end.              *)
NoNewSending == \A r \in Slow : InFlight(r)' => InFlight(r) /\ view'[r].mid = view[r].mid

LEMMA QuietFated ==
  ASSUME TypeInv, MailAssumption, Fated, KeepsSent(messages, messages'), UNCHANGED counted, Typed,
         NoNewSending
  PROVE  Fated'
  <1>1. /\ DOMAIN messages = 1 .. Len(messages) /\ DOMAIN messages' = 1 .. Len(messages')
        /\ Len(messages) \in Nat /\ Len(messages') \in Nat /\ Len(messages) <= Len(messages')
    BY DEF TypeInv, Typed
  <1>2. \A i \in DOMAIN messages' : messages'[i].mid # 0 => i \in DOMAIN messages
    BY <1>1 DEF KeepsSent
  <1>3. \A i \in DOMAIN messages : i \in DOMAIN messages' /\ messages'[i].mid = messages[i].mid
    BY <1>1 DEF KeepsSent
  <1>4. MidsAreOnes'
    <2>1. \A i, j \in DOMAIN messages' :
            messages'[i].mid # 0 /\ messages'[i].mid = messages'[j].mid => i = j
      BY <1>2, <1>3 DEF Fated, MidsAreOnes
    <2>2. ASSUME NEW r \in Slow, NEW i \in DOMAIN messages', InFlight(r)'
          PROVE  view'[r].mid # messages'[i].mid
      <3>1. InFlight(r) /\ view'[r].mid = view[r].mid /\ view[r].mid # 0
        BY <2>2 DEF NoNewSending, InFlight
      <3>2. CASE messages'[i].mid = 0
        BY <3>1, <3>2
      <3>3. CASE messages'[i].mid # 0
        BY <1>2, <1>3, <3>1, <3>3 DEF Fated, MidsAreOnes
      <3> QED BY <3>2, <3>3
    <2>3. \A r, s \in Slow :
            InFlight(r)' /\ InFlight(s)' /\ view'[r].mid = view'[s].mid => r = s
      BY DEF NoNewSending, Fated, MidsAreOnes
    <2>4. \A k \in DOMAIN counted' : \E i \in DOMAIN messages' : messages'[i].mid = counted'[k][1]
      BY <1>3 DEF Fated, MidsAreOnes
    <2> QED BY <2>1, <2>2, <2>3, <2>4 DEF MidsAreOnes
  <1>5. ASSUME NEW i \in DOMAIN messages', messages'[i].mid # 0
        PROVE  ShowsWorst(messages'[i], counted')
    <2>1. i \in DOMAIN messages /\ messages'[i].mid = messages[i].mid
      BY <1>2, <1>3, <1>5
    <2>2. ShowsWorst(messages[i], counted)
      BY <1>5, <2>1 DEF Fated
    <2>3. messages[i].state \in ReportedStates
      BY <2>2, FatesAre DEF ShowsWorst
    <2>4. messages'[i].state = messages[i].state
      BY <1>5, <2>1, <2>3 DEF KeepsSent
    <2> QED BY <2>1, <2>2, <2>4 DEF ShowsWorst
  <1> QED BY <1>4, <1>5 DEF Fated

LEMMA CountedMore ==
  ASSUME TypeInv, NEW report, report \in raised, counted' = Append(counted, report)
  PROVE  /\ counted' \in Seq(raised) /\ Counted(counted') = Counted(counted) \cup {report}
         /\ \A k \in DOMAIN counted' : \/ k \in DOMAIN counted /\ counted'[k] = counted[k]
                                       \/ counted'[k] = report
  <1> DEFINE R == raised
  <1>1. counted \in Seq(R) /\ report \in R
    BY DEF TypeInv
  <1>2. counted' \in Seq(raised)
    BY <1>1
  <1> HIDE DEF R
  <1>3. /\ Len(counted) + 1 \in DOMAIN counted' /\ counted'[Len(counted) + 1] = report
        /\ \A k \in DOMAIN counted : k \in DOMAIN counted' /\ counted'[k] = counted[k]
        /\ \A k \in DOMAIN counted' : k \notin DOMAIN counted => counted'[k] = report
    BY <1>1
  <1> QED BY <1>2, <1>3 DEF Counted

(* One report more, about that mail.                                       *)
LogGrew(new, log, mid, kind) == Counted(new) = Counted(log) \cup {<<mid, kind>>}

LEMMA FatesMore ==
  ASSUME NEW log, NEW new, NEW mid, NEW kind, LogGrew(new, log, mid, kind), NEW other
  PROVE  /\ Fates(new, mid) = Fates(log, mid) \cup {Target(kind)}
         /\ other # mid => Fates(new, other) = Fates(log, other)
  <1>1. <<mid, kind>>[1] = mid /\ <<mid, kind>>[2] = kind
    OBVIOUS
  <1> QED BY <1>1 DEF Fates, LogGrew

(* What a report does to the message that it is about.                     *)
Reported(message, kind) == [message EXCEPT !.state = WorstReported(@, Target(kind))]

LEMMA ReportedRow ==
  ASSUME MailAssumption, NEW n, NEW k, NEW message \in MessageRows(n, k), NEW kind, kind \in Kinds
  PROVE  /\ Reported(message, kind) \in MessageRows(n, k)
         /\ Reported(message, kind).thread = message.thread
         /\ Reported(message, kind).mail = message.mail /\ Reported(message, kind).mid = message.mid
         /\ Reported(message, kind).state = WorstReported(message.state, Target(kind))
  <1> DEFINE s == WorstReported(message.state, Target(kind))
  <1>1. s \in MessageStates
    BY Targets DEF WorstReported, MessageRows
  <1> HIDE DEF s
  <1>2. Reported(message, kind) = [message EXCEPT !.state = s]
    BY DEF Reported, s
  <1>3. /\ [message EXCEPT !.state = s] \in MessageRows(n, k)
        /\ [message EXCEPT !.state = s].thread = message.thread
        /\ [message EXCEPT !.state = s].mail = message.mail
        /\ [message EXCEPT !.state = s].mid = message.mid
        /\ [message EXCEPT !.state = s].state = s
    BY <1>1 DEF MessageRows
  <1> QED BY <1>2, <1>3 DEF s

IsWorst(s, F) == s \in F /\ \A fate \in F : Rank(fate) <= Rank(s)

LEMMA WorstIsWorst ==
  ASSUME NEW F, NEW s, NEW t, IsWorst(s, F)
  PROVE  IsWorst(WorstReported(s, t), F \cup {t})
  <1>1. \A x : Rank(x) \in Nat
    BY Ranks
  <1>2. CASE Rank(t) >= Rank(s)
    <2>1. WorstReported(s, t) = t
      BY <1>2 DEF WorstReported
    <2>2. Rank(s) <= Rank(t) /\ Rank(t) <= Rank(t)
      BY <1>1, <1>2
    <2>3. \A fate \in F : Rank(fate) <= Rank(t)
      BY <1>1, <2>2 DEF IsWorst
    <2> QED BY <2>1, <2>2, <2>3 DEF IsWorst
  <1>3. CASE ~(Rank(t) >= Rank(s))
    <2>1. WorstReported(s, t) = s
      BY <1>3 DEF WorstReported
    <2>2. Rank(t) <= Rank(s)
      BY <1>1, <1>3
    <2> QED BY <2>1, <2>2 DEF IsWorst
  <1> QED BY <1>2, <1>3

LEMMA ReportFated ==
  ASSUME TypeInv, MailAssumption, Fated, NEW mid, NEW kind, <<mid, kind>> \in raised,
         NEW i \in DOMAIN messages, messages[i].mid = mid,
         counted' = Append(counted, <<mid, kind>>), DOMAIN messages' = DOMAIN messages,
         messages'[i] = Reported(messages[i], kind),
         \A j \in DOMAIN messages : j # i => messages'[j] = messages[j], NoNewSending
  PROVE  Fated'
  <1>1. mid \in 1 .. accepted /\ kind \in Kinds /\ mid # 0
    BY DEF TypeInv
  <1>2. /\ Counted(counted') = Counted(counted) \cup {<<mid, kind>>}
        /\ \A k \in DOMAIN counted' : \/ k \in DOMAIN counted /\ counted'[k] = counted[k]
                                      \/ counted'[k] = <<mid, kind>>
    BY CountedMore
  <1>3. /\ messages'[i].mid = mid
        /\ messages'[i].state = WorstReported(messages[i].state, Target(kind))
    <2>1. messages[i] \in MessageRows(Len(threads), accepted)
      BY DEF TypeInv
    <2> QED BY <1>1, <2>1, ReportedRow
  <1>4. \A j \in DOMAIN messages : messages'[j].mid = messages[j].mid
    BY <1>3
  <1>5. MidsAreOnes'
    <2>1. \A k, j \in DOMAIN messages' :
            messages'[k].mid # 0 /\ messages'[k].mid = messages'[j].mid => k = j
      BY <1>4 DEF Fated, MidsAreOnes
    <2>2. \A r \in Slow, j \in DOMAIN messages' : InFlight(r)' => view'[r].mid # messages'[j].mid
      BY <1>4 DEF Fated, MidsAreOnes, NoNewSending
    <2>3. \A r, s \in Slow :
            InFlight(r)' /\ InFlight(s)' /\ view'[r].mid = view'[s].mid => r = s
      BY DEF NoNewSending, Fated, MidsAreOnes
    <2>4. ASSUME NEW k \in DOMAIN counted'
          PROVE  \E j \in DOMAIN messages' : messages'[j].mid = counted'[k][1]
      <3>1. CASE k \in DOMAIN counted /\ counted'[k] = counted[k]
        <4>1. PICK j \in DOMAIN messages : messages[j].mid = counted[k][1]
          BY <3>1 DEF Fated, MidsAreOnes
        <4> QED BY <1>4, <3>1, <4>1
      <3>2. CASE counted'[k] = <<mid, kind>>
        BY <1>3, <3>2
      <3> QED BY <1>2, <3>1, <3>2
    <2> QED BY <2>1, <2>2, <2>3, <2>4 DEF MidsAreOnes
  <1>6. LogGrew(counted', counted, mid, kind)
    BY <1>2 DEF LogGrew
  <1>7. ASSUME NEW j \in DOMAIN messages', messages'[j].mid # 0
        PROVE  ShowsWorst(messages'[j], counted')
    <2>1. ShowsWorst(messages[j], counted)
      BY <1>4, <1>7 DEF Fated
    <2>2. CASE j = i
      <3>1. Fates(counted', mid) = Fates(counted, mid) \cup {Target(kind)}
        BY <1>6, FatesMore
      <3>2. IsWorst(messages[i].state, Fates(counted, mid))
        BY <2>1, <2>2 DEF ShowsWorst, IsWorst
      <3>3. IsWorst(messages'[i].state, Fates(counted', mid))
        BY <1>3, <3>1, <3>2, WorstIsWorst
      <3> QED BY <1>3, <2>2, <3>3 DEF ShowsWorst, IsWorst
    <2>3. CASE j # i
      <3>1. messages'[j] = messages[j] /\ messages[j].mid # mid
        BY <1>1, <1>7, <2>3 DEF Fated, MidsAreOnes
      <3>2. Fates(counted', messages[j].mid) = Fates(counted, messages[j].mid)
        BY <1>6, <3>1, FatesMore
      <3> QED BY <2>1, <3>1, <3>2 DEF ShowsWorst
    <2> QED BY <2>2, <2>3
  <1> QED BY <1>5, <1>7 DEF Fated

(* What a step does to fates, if it neither sends nor stores a sent mail.  *)
KeepsFate == NoNewSending /\ Fated /\ ~stale' /\ ~recalled' => Fated'

(* What a step adds to the inbox and to the log.                           *)
Delivers ==
  \/ SameInbox /\ UNCHANGED counted
  \/ UNCHANGED counted /\ \E m \in Mails : StoresOne(m)
  \/ SameInbox /\ \E report \in raised \ Counted(counted) : counted' = Append(counted, report)

LEMMA QuietKeepsFate ==
  ASSUME TypeInv, MailAssumption, Typed, Quietly, UNCHANGED counted
  PROVE  KeepsFate
  BY QuietFated DEF KeepsFate, Quietly

LEMMA TakeReportServed ==
  ASSUME TypeInv, MailAssumption, NEW v, Loaded(v), NEW mid, NEW kind, TakeReport(v, mid, kind)
  PROVE  /\ Step /\ KeepsFate /\ Delivers /\ counted' \in Seq(raised)
         /\ UNCHANGED <<ingested, accepted, raised, work>> /\ failures' \in 0 .. MaxFailures
  <1>1. /\ <<mid, kind>> \in raised /\ IsKnown(v, mid) /\ CountReport(v, mid, kind)
        /\ Answer(<<mid, kind>>) /\ UNCHANGED <<accepted, raised, work, strayed, recalled>>
    BY DEF TakeReport, Matched
  <1>2. failures' \in 0 .. MaxFailures
    BY <1>1 DEF Answer, TypeInv, MailAssumption
  <1>3. CASE UNCHANGED <<rows, stale>>
    <2>1. UNCHANGED <<threads, messages, stale, strayed, recalled, accepted>>
      BY <1>1, <1>3 DEF rows
    <2>2. taskDone' \in Seq(BOOLEAN) /\ Len(taskDone') = Len(taskDone)
      BY <1>3 DEF TypeInv, rows
    <2>3. Served
      BY <2>1, <2>2, IdleServed
    <2>4. UNCHANGED <<ingested, counted>> /\ counted' \in Seq(raised)
      BY <1>3 DEF rows, TypeInv
    <2>5. KeepsFate
      BY <2>3, <2>4, QuietKeepsFate DEF Served, Step
    <2> QED BY <1>1, <1>2, <2>3, <2>4, <2>5 DEF Served, Delivers
  <1>4. CASE /\ <<mid, kind>> \notin Counted(v.counted) \cup Counted(counted)
             /\ counted' = Append(counted, <<mid, kind>>)
             /\ Commit(v, v.threads, ReportedIn(v, mid, kind))
             /\ UNCHANGED <<taskDone, ingested>>
    <2> DEFINE i == CHOOSE i \in SentAs(v, mid) : TRUE
               row == v.messages[i]
               x == Reported(row, kind)
               ms == Replaced(v.messages, i, x)
    <2>1. i \in SentAs(v, mid)
      BY <1>1 DEF IsKnown
    <2>2. i \in DOMAIN v.messages /\ row.mid = mid
      BY <2>1 DEF SentAs
    <2>3. ReportedIn(v, mid, kind) = ms
      BY <2>2 DEF ReportedIn, Replaced, Reported
    <2> HIDE DEF i
    <2>4. row \in MessageRows(Len(v.threads), accepted) /\ kind \in Kinds
      BY <1>1, <2>2, MessageRow DEF TypeInv
    <2> HIDE DEF row
    <2>5. /\ x \in MessageRows(Len(v.threads), accepted) /\ x.thread = row.thread
          /\ x.mail = row.mail
      BY <2>4, ReportedRow
    <2> HIDE DEF x
    <2>6. Len(v.threads) \in Nat /\ Len(v.threads) <= Len(v.threads)
      BY Lengths
    <2>7. /\ MayWrite(v, ms, Len(v.threads)) /\ NoMailAdded(v, ms)
          /\ IsReplaced(ms, MessageRows(Len(v.threads), accepted), v.messages, i, x)
      BY <2>2, <2>5, <2>6, ReplacedMessage DEF row
    <2>8. Commit(v, v.threads, ms)
      BY <1>4, <2>3
    <2> HIDE DEF ms
    <2>9. v.threads \in Seq(ThreadRows(Len(taskDone'))) /\ KeepsTasks /\ KeepsHistory
      <3>1. v.threads \in Seq(ThreadRows(Len(taskDone)))
        BY Lengths
      <3> QED BY <1>1, <1>4, <3>1, SameHistory
    <2>10. Writable(v, v.threads, ms, Len(taskDone'))
      BY <2>6, <2>7, <2>9, WritableRows
    <2>11. Step /\ SameInbox
      BY <2>7, <2>8, <2>9, <2>10, WriteStep DEF KeepsTasks, KeepsHistory, NoMailAdded
    <2>12. Current(v, v.threads, ms)
      BY <2>8, <2>9, <2>10, Committing DEF KeepsTasks
    <2>13. counted' \in Seq(raised)
      BY <1>1, <1>4, CountedMore
    <2>14. Delivers
      BY <1>1, <1>4, <2>11 DEF Delivers
    <2>15. KeepsFate
      <3> SUFFICES ASSUME NoNewSending, Fated, ~stale', ~recalled' PROVE Fated'
        BY DEF KeepsFate
      <3>1. v.messages = messages /\ messages' = ms
        BY <2>12 DEF Current, Seen
      <3>2. /\ i \in DOMAIN messages /\ messages[i].mid = mid /\ DOMAIN messages' = DOMAIN messages
            /\ messages'[i] = Reported(messages[i], kind)
            /\ \A j \in DOMAIN messages : j # i => messages'[j] = messages[j]
        BY <2>2, <2>7, <3>1 DEF IsReplaced, row, x
      <3> QED BY <1>1, <1>4, <3>2, ReportFated
    <2> QED BY <1>1, <1>2, <1>4, <2>11, <2>13, <2>14, <2>15
  <1> QED BY <1>1, <1>3, <1>4 DEF CountReport

-----------------------------------------------------------------------------
(* Mail that the provider accepted.                                        *)

(* A message has become, or was added as, the one that was sent.           *)
StoresSent(mid) ==
  \E i \in DOMAIN messages' :
    /\ messages'[i].mid = mid /\ messages'[i].state = "sent"
    /\ \A j \in DOMAIN messages' : j # i => j \in DOMAIN messages /\ messages'[j] = messages[j]
    /\ DOMAIN messages \subseteq DOMAIN messages'
    /\ i \in DOMAIN messages => messages[i].state \notin ReportedStates

Ends(r) == DOMAIN view' = Slow /\ view'[r] = Gone /\ \A s \in Slow : s # r => view'[s] = view[s]

LEMMA SentFated ==
  ASSUME TypeInv, MailAssumption, Fated, NEW r \in Slow, InFlight(r), StoresSent(view[r].mid),
         UNCHANGED counted, Ends(r)
  PROVE  Fated'
  <1> DEFINE mid == view[r].mid
  <1>0. mid # 0 /\ \A s \in Slow : InFlight(s)' => InFlight(s) /\ s # r /\ view'[s] = view[s]
    BY DEF InFlight, Ends
  <1>1. PICK i \in DOMAIN messages' :
          /\ messages'[i].mid = mid /\ messages'[i].state = "sent"
          /\ \A j \in DOMAIN messages' : j # i => j \in DOMAIN messages /\ messages'[j] = messages[j]
          /\ DOMAIN messages \subseteq DOMAIN messages'
          /\ i \in DOMAIN messages => messages[i].state \notin ReportedStates
    BY DEF StoresSent
  <1>2. \A j \in DOMAIN messages : messages[j].mid # mid
    BY DEF Fated, MidsAreOnes
  <1>3. i \in DOMAIN messages => messages[i].mid = 0
    BY <1>1, FatesAre DEF Fated, ShowsWorst
  <1>4. \A report \in Counted(counted) : report[1] # mid
    BY <1>2 DEF Fated, MidsAreOnes, Counted
  <1>5. MidsAreOnes'
    <2>1. ASSUME NEW k \in DOMAIN messages', NEW j \in DOMAIN messages',
                 messages'[k].mid # 0, messages'[k].mid = messages'[j].mid
          PROVE  k = j
      <3>1. CASE k = i \/ j = i
        BY <1>1, <1>2, <2>1, <3>1
      <3>2. CASE k # i /\ j # i
        <4>1. /\ k \in DOMAIN messages /\ j \in DOMAIN messages
              /\ messages[k].mid # 0 /\ messages[k].mid = messages[j].mid
          BY <1>1, <2>1, <3>2
        <4> QED BY <4>1 DEF Fated, MidsAreOnes
      <3> QED BY <3>1, <3>2
    <2>2. ASSUME NEW s \in Slow, NEW j \in DOMAIN messages', InFlight(s)'
          PROVE  view'[s].mid # messages'[j].mid
      <3>1. InFlight(s) /\ s # r /\ view'[s] = view[s]
        BY <1>0, <2>2
      <3>2. CASE j = i
        BY <1>1, <3>1, <3>2 DEF Fated, MidsAreOnes
      <3>3. CASE j # i
        BY <1>1, <3>1, <3>3 DEF Fated, MidsAreOnes
      <3> QED BY <3>2, <3>3
    <2>3. \A s, t \in Slow :
            InFlight(s)' /\ InFlight(t)' /\ view'[s].mid = view'[t].mid => s = t
      BY <1>0 DEF Fated, MidsAreOnes
    <2>4. ASSUME NEW k \in DOMAIN counted'
          PROVE  \E j \in DOMAIN messages' : messages'[j].mid = counted'[k][1]
      <3>1. k \in DOMAIN counted /\ counted'[k] = counted[k]
        BY <2>4
      <3>2. PICK j \in DOMAIN messages : messages[j].mid = counted[k][1]
        BY <3>1 DEF Fated, MidsAreOnes
      <3>3. counted[k][1] # 0
        <4>1. counted[k] \in Counted(counted)
          BY <3>1 DEF Counted
        <4> QED BY <4>1, ReportsAre DEF TypeInv
      <3>4. j # i
        BY <1>3, <3>2, <3>3
      <3> QED BY <1>1, <3>1, <3>2, <3>4
    <2> QED BY <2>1, <2>2, <2>3, <2>4 DEF MidsAreOnes
  <1>6. ASSUME NEW j \in DOMAIN messages', messages'[j].mid # 0
        PROVE  ShowsWorst(messages'[j], counted')
    <2>1. CASE j = i
      <3>1. Fates(counted', mid) = {"sent"}
        BY <1>4 DEF Fates
      <3>2. Rank("sent") <= Rank("sent")
        BY Ranks
      <3> QED BY <1>1, <2>1, <3>1, <3>2 DEF ShowsWorst
    <2>2. CASE j # i
      <3>1. j \in DOMAIN messages /\ messages'[j] = messages[j] /\ counted' = counted
        BY <1>1, <2>2
      <3>2. ShowsWorst(messages[j], counted)
        BY <1>6, <3>1 DEF Fated
      <3> QED BY <3>1, <3>2
    <2> QED BY <2>1, <2>2
  <1> QED BY <1>5, <1>6 DEF Fated

LEMMA SentRow ==
  ASSUME accepted \in Nat, NEW mid, mid \in 0 .. accepted, NEW n, NEW row, row \in MessageRows(n, accepted)
  PROVE  /\ AsSent(row, mid) \in MessageRows(n, accepted)
         /\ AsSent(row, mid).thread = row.thread /\ AsSent(row, mid).mail = row.mail
         /\ AsSent(row, mid).mid = mid /\ AsSent(row, mid).state = "sent"
  BY DEF AsSent, MessageRows, MessageStates

LEMMA WritesSent ==
  ASSUME TypeInv, MailAssumption, NEW v, Loaded(v), UNCHANGED <<taskDone, strayed, recalled>>,
         NEW ts, NEW ms, Writes(v, ts, ms), Commit(v, ts, ms), Waits(v.threads) => Waits(ts),
         NoMailAdded(v, ms)
  PROVE  Step /\ SameInbox /\ Current(v, ts, ms)
  <1>1. Writable(v, ts, ms, Len(taskDone'))
    BY WritableRows DEF Writes
  <1>2. KeepsTasks /\ KeepsHistory
    BY SameHistory
  <1>3. Current(v, ts, ms)
    BY <1>1, <1>2, Committing DEF KeepsTasks
  <1> QED BY <1>1, <1>2, <1>3, WriteStep DEF KeepsTasks, KeepsHistory, NoMailAdded

LEMMA AddedSent ==
  ASSUME TypeInv, NEW v, Loaded(v), NEW ts, NEW ms, Current(v, ts, ms), NEW y, AddsMessage(v, ms, y),
         MayWrite(v, ms, Len(ts)), NEW mid, y.mid = mid, y.state = "sent"
  PROVE  ~stale' => StoresSent(mid)
  <1> SUFFICES ASSUME ~stale' PROVE StoresSent(mid)
    OBVIOUS
  <1>1. v.messages = messages /\ messages' = ms
    BY DEF Current, Seen
  <1> DEFINE i == Len(messages) + 1
  <1>2. /\ Len(messages) \in Nat /\ DOMAIN messages = 1 .. Len(messages)
        /\ DOMAIN ms = 1 .. Len(ms)
    BY DEF TypeInv, MayWrite
  <1>3. Len(ms) = i /\ ms[i] = y /\ \A j \in DOMAIN messages : ms[j] = messages[j]
    BY <1>1 DEF AddsMessage
  <1>4. /\ i \in DOMAIN ms /\ i \notin DOMAIN messages /\ DOMAIN messages \subseteq DOMAIN ms
        /\ \A j \in DOMAIN ms : j # i => j \in DOMAIN messages
    BY <1>2, <1>3
  <1> HIDE DEF i
  <1> QED BY <1>1, <1>3, <1>4 DEF StoresSent

LEMMA ConcludeServed ==
  ASSUME TypeInv, MailAssumption, NEW r \in Slow, Loaded(view[r].rows),
         Job(view[r].rows, view[r].job), view[r].mid \in 0 .. accepted, Conclude(r)
  PROVE  Step /\ SameInbox /\ (~stale' => StoresSent(view[r].mid))
  <1> DEFINE v == view[r].rows
             of == view[r].job.of
             kind == view[r].job.job
             mid == view[r].mid
  <1>1. UNCHANGED <<taskDone, strayed, recalled>> /\ KeepsTasks
    BY SameHistory DEF Conclude
  <1>2. /\ Len(taskDone) \in Nat /\ accepted \in Nat /\ Len(v.threads) \in Nat
        /\ Len(v.threads) <= Len(v.threads) /\ DOMAIN v.threads = 1 .. Len(v.threads)
    BY Lengths
  <1>3. Pauses \in BOOLEAN
    BY DEF MailAssumption
  <1>4. CASE kind = "approve"
    <2> DEFINE row == v.messages[of]
               t == row.thread
               x == AsWaiting(v.threads[t])
               ts == Replaced(v.threads, t, x)
               y == AsSent(row, mid)
               ms == Replaced(v.messages, of, y)
    <2>0. Conclude(r) => Commit(v, ts, ms)
      BY <1>4 DEF Conclude
    <2>1. Commit(v, ts, ms) /\ of \in DOMAIN v.messages /\ row.state = "pending_approval"
      BY <1>4, <2>0 DEF Job, Approvable
    <2>2. row \in MessageRows(Len(v.threads), accepted)
      BY <2>1, MessageRow
    <2>3. t \in DOMAIN v.threads
      BY <1>2, <2>2 DEF MessageRows
    <2> HIDE DEF row
    <2>4. /\ y \in MessageRows(Len(v.threads), accepted) /\ y.thread = row.thread /\ y.mail = row.mail
          /\ y.mid = mid /\ y.state = "sent"
      BY <1>2, <2>2, SentRow
    <2> HIDE DEF y, t
    <2>5. /\ v.threads[t] \in ThreadRows(Len(taskDone))
          /\ Waits(v.threads) => RowWaits(v.threads[t])
      BY <2>3, ThreadRow
    <2>6. x \in ThreadRows(Len(taskDone)) /\ (RowWaits(v.threads[t]) => RowWaits(x))
      BY <1>2, <1>3, <2>5, WaitingForReply
    <2> HIDE DEF x
    <2>7. v.threads \in Seq(ThreadRows(Len(taskDone))) /\ taskDone' = taskDone
      BY <1>1, Lengths
    <2>8. /\ IsReplaced(ts, ThreadRows(Len(taskDone)), v.threads, t, x)
          /\ Waits(v.threads) /\ RowWaits(x) => Waits(ts)
      BY <2>3, <2>6, <2>7, ReplacedThread
    <2>9. /\ MayWrite(v, ms, Len(v.threads)) /\ NoMailAdded(v, ms)
          /\ IsReplaced(ms, MessageRows(Len(v.threads), accepted), v.messages, of, y)
      BY <1>2, <2>1, <2>4, ReplacedMessage DEF row
    <2> HIDE DEF ts, ms
    <2>10. Writes(v, ts, ms)
      <3>1. ts \in Seq(ThreadRows(Len(taskDone))) /\ Len(ts) = Len(v.threads)
        BY <2>8 DEF IsReplaced
      <3> QED BY <1>2, <2>7, <2>9, <3>1 DEF Writes
    <2>11. Step /\ SameInbox /\ Current(v, ts, ms)
      BY <1>1, <2>1, <2>5, <2>6, <2>8, <2>9, <2>10, WritesSent
    <2>12. ASSUME ~stale' PROVE StoresSent(mid)
      <3>1. v.messages = messages /\ messages' = ms
        BY <2>11, <2>12 DEF Current, Seen
      <3>2. "pending_approval" \notin ReportedStates
        BY DEF ReportedStates
      <3>3. /\ of \in DOMAIN messages' /\ DOMAIN messages' = DOMAIN messages /\ messages'[of] = y
            /\ \A j \in DOMAIN messages : j # of => messages'[j] = messages[j]
        BY <2>1, <2>9, <3>1 DEF IsReplaced
      <3> QED BY <2>1, <2>4, <3>1, <3>2, <3>3 DEF StoresSent, row
    <2> QED BY <2>11, <2>12
  <1>5. CASE kind = "answer"
    <2> DEFINE x == AsWaiting(v.threads[of])
               ts == Replaced(v.threads, of, x)
               row == Outbound(of, "approved")
               y == AsSent(row, mid)
               ms == Append(v.messages, y)
    <2>0. Conclude(r) => Commit(v, ts, ms)
      BY <1>5 DEF Conclude
    <2>1. Commit(v, ts, ms) /\ of \in DOMAIN v.threads
      BY <1>5, <2>0 DEF Job
    <2>2. row \in MessageRows(Len(v.threads), accepted) /\ row.mail = None
      BY <1>2, <2>1, OutboundRow DEF MessageStates
    <2>3. ts = Replaced(v.threads, of, x) /\ ms = Append(v.messages, y)
      OBVIOUS
    <2> HIDE DEF row
    <2>4. /\ y \in MessageRows(Len(v.threads), accepted) /\ y.mail = None
          /\ y.mid = mid /\ y.state = "sent"
      BY <1>2, <2>2, SentRow
    <2>5. /\ v.threads[of] \in ThreadRows(Len(taskDone))
          /\ Waits(v.threads) => RowWaits(v.threads[of])
      BY <2>1, ThreadRow
    <2>6. x \in ThreadRows(Len(taskDone)) /\ (RowWaits(v.threads[of]) => RowWaits(x))
      BY <1>2, <1>3, <2>5, WaitingForReply
    <2>7. x \in ThreadRows(Len(taskDone'))
      BY <1>1, <2>6
    <2> HIDE DEF x, y, ts, ms
    <2>8. /\ Writes(v, ts, ms) /\ AddsMessage(v, ms, y)
          /\ Waits(v.threads) /\ RowWaits(x) => Waits(ts)
      <3>1. KeepsTasks /\ of \in DOMAIN v.threads
        BY <1>1, <2>1
      <3>2. y \in MessageRows(Len(v.threads), accepted)
        BY <2>4
      <3> QED BY <2>3, <2>7, <3>1, <3>2, Answering
    <2>9. NoMailAdded(v, ms) /\ MayWrite(v, ms, Len(ts)) /\ (Waits(v.threads) => Waits(ts))
      BY <2>4, <2>5, <2>6, <2>8 DEF AddsMessage, Writes
    <2>10. Step /\ SameInbox /\ Current(v, ts, ms)
      BY <1>1, <2>1, <2>8, <2>9, WritesSent
    <2> QED BY <2>4, <2>8, <2>9, <2>10, AddedSent
  <1>6. CASE kind = "new"
    <2> DEFINE n == Len(v.threads) + 1
               th == NewThread("in_progress")
               x == AsWaiting(th)
               ts == Append(v.threads, x)
               row == Outbound(n, "approved")
               y == AsSent(row, mid)
               ms == Append(v.messages, y)
    <2>0. Conclude(r) => Commit(v, ts, ms)
      BY <1>6 DEF Conclude
    <2>1. Commit(v, ts, ms)
      BY <2>0
    <2>2. n \in Nat /\ n \in 1 .. n
      BY <1>2
    <2>3. ts = Append(v.threads, x) /\ ms = Append(v.messages, y)
      OBVIOUS
    <2> HIDE DEF n
    <2>4. row \in MessageRows(n, accepted) /\ row.mail = None
      BY <1>2, <2>2, OutboundRow DEF MessageStates
    <2> HIDE DEF row
    <2>5. /\ y \in MessageRows(n, accepted) /\ y.mail = None /\ y.mid = mid /\ y.state = "sent"
      BY <1>2, <2>4, SentRow
    <2>6. th \in ThreadRows(Len(taskDone)) /\ RowWaits(th)
      <3>1. th \in ThreadRows(Len(taskDone)) /\ th.status = "in_progress" /\ ~th.paused
        BY <1>2, OpenedThread DEF StatusLabels
      <3> QED BY <3>1 DEF RowWaits
    <2> HIDE DEF th
    <2>7. x \in ThreadRows(Len(taskDone)) /\ RowWaits(x)
      BY <1>2, <1>3, <2>6, WaitingForReply
    <2>8. x \in ThreadRows(Len(taskDone')) /\ y \in MessageRows(Len(v.threads) + 1, accepted)
      BY <1>1, <2>5, <2>7 DEF n
    <2> HIDE DEF x, y, ts, ms
    <2>9. Writes(v, ts, ms) /\ AddsMessage(v, ms, y) /\ (Waits(v.threads) => Waits(ts))
      BY <1>1, <2>3, <2>7, <2>8, Opening
    <2>10. NoMailAdded(v, ms) /\ MayWrite(v, ms, Len(ts))
      BY <2>5, <2>9 DEF AddsMessage, Writes
    <2>11. Step /\ SameInbox /\ Current(v, ts, ms)
      BY <1>1, <2>1, <2>9, <2>10, WritesSent
    <2> QED BY <2>5, <2>9, <2>10, <2>11, AddedSent
  <1> QED BY <1>4, <1>5, <1>6 DEF Job

-----------------------------------------------------------------------------
(* The requests in progress.                                               *)

Grows ==
  /\ Len(taskDone) \in Nat /\ Len(taskDone') \in Nat /\ Len(taskDone) <= Len(taskDone')
  /\ Len(threads) \in Nat /\ Len(threads') \in Nat /\ Len(threads) <= Len(threads')
  /\ Len(messages) \in Nat /\ Len(messages') \in Nat /\ Len(messages) <= Len(messages')
  /\ accepted \in Nat /\ accepted' \in Nat /\ accepted <= accepted'

(* What was loaded stays a request's to decide by.                         *)
LEMMA StaysLoaded ==
  ASSUME Grows, NEW v, Loaded(v)
  PROVE  Loaded(v)'
  <1>1. /\ Len(taskDone) \in Nat /\ Len(taskDone') \in Nat /\ Len(taskDone) <= Len(taskDone')
        /\ accepted \in Nat /\ accepted' \in Nat /\ accepted <= accepted'
        /\ Len(threads) \in Nat /\ Len(threads') \in Nat /\ Len(threads) <= Len(threads')
        /\ Len(messages) \in Nat /\ Len(messages') \in Nat /\ Len(messages) <= Len(messages')
    BY DEF Grows
  <1>2. Len(v.threads) \in Nat /\ Len(v.messages) \in Nat /\ Len(v.threads) <= Len(v.threads)
    BY DEF Loaded
  <1>3. /\ ThreadRows(Len(taskDone)) \subseteq ThreadRows(Len(taskDone'))
        /\ MessageRows(Len(v.threads), accepted) \subseteq MessageRows(Len(v.threads), accepted')
    BY <1>1, <1>2, RowsGrow
  <1>4. /\ v.threads \in Seq(ThreadRows(Len(taskDone')))
        /\ v.messages \in Seq(MessageRows(Len(v.threads), accepted'))
    BY <1>3 DEF Loaded
  <1>5. Len(v.threads) <= Len(threads') /\ Len(v.messages) <= Len(messages')
    BY <1>1, <1>2 DEF Loaded
  <1> QED BY <1>4, <1>5 DEF Loaded

LEMMA StaysRunning ==
  ASSUME Grows, NEW w, Running(w)
  PROVE  Running(w)'
  <1>1. Loaded(w.rows)'
    BY StaysLoaded DEF Running
  <1>2. w.mid \in 0 .. accepted'
    BY DEF Running, Grows
  <1> QED BY <1>1, <1>2 DEF Running

LEMMA RunsOn ==
  ASSUME NEW r \in Slow, NEW w, view'[r] = w, Running(w)'
  PROVE  Running(view[r])'
  BY DEF Running, Loaded, Job, Approvable

(* Requests stay as they are or end.                                       *)
OnlyEnds == DOMAIN view' = Slow /\ \A r \in Slow : view'[r] \in {view[r], Gone}

LEMMA ViewsEnd ==
  ASSUME TypeInv, Grows, OnlyEnds
  PROVE  ViewsTyped' /\ NoNewSending
  <1>1. ASSUME NEW r \in Slow PROVE view'[r] \in {None, Gone} \/ Running(view[r])'
    <2>1. view'[r] = Gone \/ view'[r] = view[r]
      BY DEF OnlyEnds
    <2>2. view[r] \in {None, Gone} \/ Running(view[r])
      BY DEF TypeInv, ViewsTyped
    <2>3. \A w : Running(w) => Running(w)'
      BY StaysRunning
    <2> QED BY <2>1, <2>2, <2>3, RunsOn
  <1>2. NoNewSending
    BY DEF NoNewSending, OnlyEnds, InFlight
  <1>3. DOMAIN view' = Slow
    BY DEF OnlyEnds
  <1> QED BY <1>1, <1>2, <1>3 DEF ViewsTyped

LEMMA GrowsBy ==
  ASSUME TypeInv, Typed, KeepsTasks, accepted' \in Nat, accepted <= accepted'
  PROVE  Grows
  BY DEF TypeInv, Typed, KeepsTasks, Grows

LEMMA SeenLoaded ==
  ASSUME TypeInv
  PROVE  Loaded(Seen)
  BY DEF TypeInv, Loaded, Seen

LEMMA RunningView ==
  ASSUME TypeInv, NEW r \in Slow, IsRunning(r)
  PROVE  Running(view[r]) /\ view[r] # None /\ view[r] # Gone
  BY DEF TypeInv, ViewsTyped, IsRunning

LEMMA EndsView ==
  ASSUME TypeInv, NEW r \in Slow, view' = [view EXCEPT ![r] = Gone]
  PROVE  OnlyEnds /\ Ends(r)
  BY DEF TypeInv, ViewsTyped, OnlyEnds, Ends

LEMMA SameView ==
  ASSUME TypeInv, UNCHANGED view
  PROVE  OnlyEnds
  BY DEF TypeInv, ViewsTyped, OnlyEnds

-----------------------------------------------------------------------------
(* Steps.                                                                  *)

(* What a step leaves of all but the requests in progress.                 *)
Outcome ==
  /\ Step /\ Delivers
  /\ ingested' \subseteq Copies /\ UNCHANGED accepted
  /\ raised' \subseteq (1 .. accepted) \X Kinds /\ counted' \in Seq(raised')
  /\ work' \in 0 .. MaxWork /\ failures' \in 0 .. MaxFailures

(* Every step either sends one mail more, or delivers.                     *)
Sends == accepted' = accepted + 1 /\ UNCHANGED <<messages, counted>>

Kept == IndInv' /\ (Outcome \/ Sends)

LEMMA OutcomeKept ==
  ASSUME IndInv, Outcome, ViewsTyped',
         Fated /\ ~stale' /\ ~recalled' => Fated'
  PROVE  Kept
  <1>1. TypeInv'
    BY DEF Outcome, Step, Typed, Remembers, TypeInv, IndInv
  <1>2. (~stale /\ ~strayed => Waits(threads))'
    BY DEF Outcome, Step, Remembers, IndInv
  <1>3. (~stale /\ ~recalled => Fated)'
    BY DEF Outcome, Step, Remembers, IndInv
  <1> QED BY <1>1, <1>2, <1>3 DEF IndInv, Kept

LEMMA OutcomeGrows ==
  ASSUME TypeInv, Outcome
  PROVE  Grows
  <1>1. Typed /\ KeepsTasks /\ accepted' \in Nat /\ accepted <= accepted'
    BY DEF Outcome, Step, KeepsTasks, TypeInv
  <1> QED BY <1>1, GrowsBy

LEMMA EndingKept ==
  ASSUME IndInv, Outcome, KeepsFate, OnlyEnds
  PROVE  Kept
  <1>1. ViewsTyped' /\ NoNewSending
    BY OutcomeGrows, ViewsEnd DEF IndInv
  <1> QED BY <1>1, OutcomeKept DEF KeepsFate

(* A request that leaves the log alone.                                    *)
LEMMA ServedOutcome ==
  ASSUME TypeInv, MailAssumption, Served, UNCHANGED <<ingested, counted, accepted, raised>>,
         work' \in 0 .. MaxWork, failures' \in 0 .. MaxFailures
  PROVE  Outcome /\ KeepsFate
  <1>1. Step /\ Quietly /\ SameInbox
    BY DEF Served
  <1>2. KeepsFate
    BY <1>1, QuietKeepsFate DEF Step
  <1> QED BY <1>1, <1>2 DEF Outcome, Delivers, TypeInv

LEMMA Worked ==
  ASSUME TypeInv, MailAssumption, Works
  PROVE  /\ work' \in 0 .. MaxWork /\ failures' \in 0 .. MaxFailures
         /\ UNCHANGED <<ingested, counted, accepted, raised>>
  BY DEF Works, TypeInv, MailAssumption, provider

LEMMA UserWorks ==
  ASSUME NEW v, ByUser(v)
  PROVE  Works
  BY DEF ByUser, Write, WriteNew, EditDraft, ApproveInVain, SetStatus, Triage, MarkRead, MarkSpam,
         CreateTask

LEMMA ByUserOutcome ==
  ASSUME TypeInv, MailAssumption, StatusesAssumption, NEW v, Loaded(v), ByUser(v)
  PROVE  Outcome /\ KeepsFate
  BY ByUserServed, UserWorks, Worked, ServedOutcome

LEMMA ByProviderOutcome ==
  ASSUME TypeInv, MailAssumption, NEW v, Loaded(v), ByProvider(v)
  PROVE  Outcome /\ KeepsFate
  <1>1. CASE \E c \in Copies : Ingest(v, c)
    <2>1. PICK c \in Copies : Ingest(v, c)
      BY <1>1
    <2>2. /\ Step /\ Quietly /\ (SameInbox \/ \E m \in Mails : StoresOne(m))
          /\ ingested' \subseteq Copies /\ UNCHANGED <<counted, accepted, raised, work>>
          /\ failures' \in 0 .. MaxFailures
      BY <2>1, IngestServed
    <2>3. KeepsFate
      BY <2>2, QuietKeepsFate DEF Step
    <2> QED BY <2>2, <2>3 DEF Outcome, Delivers, TypeInv
  <1>2. CASE \E report \in raised : TakeReport(v, report[1], report[2])
    <2>1. PICK report \in raised : TakeReport(v, report[1], report[2])
      BY <1>2
    <2>2. /\ Step /\ KeepsFate /\ Delivers /\ counted' \in Seq(raised)
          /\ UNCHANGED <<ingested, accepted, raised, work>> /\ failures' \in 0 .. MaxFailures
      BY <2>1, TakeReportServed
    <2> QED BY <2>2 DEF Outcome, TypeInv
  <1> QED BY <1>1, <1>2 DEF ByProvider

LEMMA PromptKept ==
  ASSUME IndInv, MailAssumption, StatusesAssumption, Prompt
  PROVE  Kept
  <1>1. TypeInv /\ OnlyEnds /\ Loaded(Seen)
    BY SameView, SeenLoaded DEF IndInv, Prompt
  <1>2. ByUser(Seen) \/ ByProvider(Seen)
    BY DEF Prompt
  <1>3. Outcome /\ KeepsFate
    BY <1>1, <1>2, ByUserOutcome, ByProviderOutcome
  <1> QED BY <1>1, <1>3, EndingKept

LEMMA OvertakenKept ==
  ASSUME IndInv, MailAssumption, StatusesAssumption, NEW r \in Slow, Overtaken(r)
  PROVE  Kept
  <1>1. TypeInv /\ OnlyEnds
    BY EndsView DEF IndInv, Overtaken
  <1>2. Loaded(view[r].rows)
    BY <1>1, RunningView DEF Running, Overtaken
  <1>3. ByUser(view[r].rows) \/ ByProvider(view[r].rows)
    BY DEF Overtaken
  <1>4. Outcome /\ KeepsFate
    BY <1>1, <1>2, <1>3, ByUserOutcome, ByProviderOutcome
  <1> QED BY <1>1, <1>4, EndingKept

LEMMA PageKept ==
  ASSUME IndInv, MailAssumption, Page
  PROVE  Kept
  <1>1. TypeInv /\ OnlyEnds /\ Loaded(Seen)
    BY SameView, SeenLoaded DEF IndInv, Page
  <1>2. Served
    BY <1>1, OpenInboxServed DEF Page
  <1>3. /\ UNCHANGED <<ingested, counted, accepted, raised>>
        /\ work' \in 0 .. MaxWork /\ failures' \in 0 .. MaxFailures
    BY <1>1 DEF Page, OpenInbox, provider, TypeInv
  <1>4. Outcome /\ KeepsFate
    BY <1>1, <1>2, <1>3, ServedOutcome
  <1> QED BY <1>1, <1>4, EndingKept

LEMMA RefuseKept ==
  ASSUME IndInv, MailAssumption, NEW r \in Slow, Refuse(r)
  PROVE  Kept
  <1>1. TypeInv /\ OnlyEnds
    BY EndsView DEF IndInv, Refuse
  <1>2. Running(view[r]) /\ view[r].job # None
    BY <1>1, RunningView DEF Refuse
  <1>3. Served
    BY <1>1, <1>2, RefuseServed DEF Running
  <1>4. /\ UNCHANGED <<ingested, counted, accepted, raised>>
        /\ work' \in 0 .. MaxWork /\ failures' \in 0 .. MaxFailures
    <2>1. failures < MaxFailures /\ failures' = failures + 1
      BY DEF Refuse
    <2>2. UNCHANGED <<ingested, counted, accepted, raised, work>>
      BY DEF Refuse, provider
    <2> QED BY <1>1, <2>1, <2>2 DEF TypeInv, MailAssumption
  <1>5. Outcome /\ KeepsFate
    BY <1>1, <1>3, <1>4, ServedOutcome
  <1> QED BY <1>1, <1>5, EndingKept

LEMMA ConcludeKept ==
  ASSUME IndInv, MailAssumption, NEW r \in Slow, Conclude(r)
  PROVE  Kept
  <1>1. TypeInv /\ OnlyEnds /\ Ends(r)
    BY EndsView DEF IndInv, Conclude
  <1>2. Running(view[r]) /\ InFlight(r)
    BY <1>1, RunningView DEF Conclude, InFlight
  <1>3. Step /\ SameInbox /\ (~stale' => StoresSent(view[r].mid))
    BY <1>1, <1>2, ConcludeServed DEF Running, InFlight
  <1>4. UNCHANGED <<ingested, counted, accepted, raised, work, failures>>
    BY DEF Conclude, provider
  <1>5. Outcome
    BY <1>1, <1>3, <1>4 DEF Outcome, Delivers, TypeInv
  <1>6. ViewsTyped'
    BY <1>1, <1>5, OutcomeGrows, ViewsEnd
  <1>7. Fated /\ ~stale' => Fated'
    BY <1>1, <1>2, <1>3, <1>4, SentFated
  <1> QED BY <1>5, <1>6, <1>7, OutcomeKept

LEMMA DieKept ==
  ASSUME IndInv, MailAssumption, NEW r \in Slow, Die(r)
  PROVE  Kept
  <1>1. TypeInv /\ OnlyEnds
    BY EndsView DEF IndInv, Die
  <1>2. UNCHANGED <<threads, messages, taskDone, ingested, counted, accepted, raised, work,
                    stale, strayed, recalled>>
    BY DEF Die, rows, provider, history
  <1>3. Served
    BY <1>1, <1>2, IdleServed DEF TypeInv
  <1>4. work' \in 0 .. MaxWork /\ failures' \in 0 .. MaxFailures
    <2>1. failures < MaxFailures /\ failures' = failures + 1
      BY DEF Die
    <2> QED BY <1>1, <1>2, <2>1 DEF TypeInv, MailAssumption
  <1>5. Outcome /\ KeepsFate
    BY <1>1, <1>2, <1>3, <1>4, ServedOutcome
  <1> QED BY <1>1, <1>5, EndingKept

LEMMA RaiseKept ==
  ASSUME IndInv, MailAssumption, Raise
  PROVE  Kept
  <1>1. PICK mid \in 1 .. accepted, kind \in Kinds : raised' = raised \cup {<<mid, kind>>}
    BY DEF Raise
  <1>2. UNCHANGED <<threads, messages, taskDone, ingested, counted, accepted, work, failures,
                    stale, strayed, recalled, view>>
    BY DEF Raise, rows, history
  <1>3. TypeInv /\ OnlyEnds
    BY <1>2, SameView DEF IndInv
  <1>4. Served
    BY <1>2, <1>3, IdleServed DEF TypeInv
  <1>5. raised' \subseteq (1 .. accepted) \X Kinds /\ counted' \in Seq(raised')
    BY <1>1, <1>2, <1>3 DEF TypeInv
  <1>6. Outcome
    BY <1>2, <1>3, <1>4, <1>5 DEF Outcome, Delivers, Served, TypeInv
  <1>7. KeepsFate
    BY <1>2, <1>3, <1>4, QuietKeepsFate DEF Served, Step
  <1> QED BY <1>3, <1>6, <1>7, EndingKept

LEMMA TaskMovesKept ==
  ASSUME IndInv, MailAssumption, TaskMoves
  PROVE  Kept
  <1>1. PICK k \in DOMAIN taskDone : taskDone' = [taskDone EXCEPT ![k] = ~@]
    BY DEF TaskMoves
  <1>2. UNCHANGED <<threads, messages, ingested, counted, accepted, raised, work, failures,
                    stale, strayed, recalled, view>>
    BY DEF TaskMoves, provider, history
  <1>3. TypeInv /\ OnlyEnds
    BY <1>2, SameView DEF IndInv
  <1>4. taskDone' \in Seq(BOOLEAN) /\ Len(taskDone') = Len(taskDone)
    BY <1>1, <1>3 DEF TypeInv
  <1>5. Served
    BY <1>2, <1>3, <1>4, IdleServed
  <1>6. Outcome /\ KeepsFate
    BY <1>2, <1>3, <1>5, ServedOutcome DEF TypeInv
  <1> QED BY <1>3, <1>6, EndingKept

LEMMA LoadKept ==
  ASSUME IndInv, MailAssumption, NEW r \in Slow, Load(r)
  PROVE  Kept
  <1> DEFINE w == [rows |-> Seen, job |-> None, mid |-> 0]
  <1>1. view' = [view EXCEPT ![r] = w] /\ TypeInv
    BY DEF Load, IndInv
  <1>2. UNCHANGED <<threads, messages, taskDone, ingested, counted, accepted, raised, work, failures,
                    stale, strayed, recalled>>
    BY DEF Load, rows, provider, history
  <1>3. Served
    BY <1>1, <1>2, IdleServed DEF TypeInv
  <1>4. Outcome /\ KeepsFate
    BY <1>1, <1>2, <1>3, ServedOutcome DEF TypeInv
  <1>5. /\ w.rows = Seen /\ w.job = None /\ w.mid = 0
        /\ w = [rows |-> w.rows, job |-> w.job, mid |-> w.mid]
    OBVIOUS
  <1>6. Loaded(Seen) /\ accepted \in Nat
    BY <1>1, SeenLoaded DEF TypeInv
  <1> HIDE DEF w
  <1>7. Running(w)
    BY <1>5, <1>6 DEF Running
  <1>8. DOMAIN view' = Slow /\ view'[r] = w /\ \A s \in Slow : s # r => view'[s] = view[s]
    BY <1>1 DEF TypeInv, ViewsTyped
  <1>9. \A u : Running(u) => Running(u)'
    BY <1>1, <1>4, OutcomeGrows, StaysRunning
  <1>10. ViewsTyped'
    <2>1. ASSUME NEW s \in Slow PROVE view'[s] \in {None, Gone} \/ Running(view[s])'
      <3>1. view[s] \in {None, Gone} \/ Running(view[s])
        BY <1>1 DEF TypeInv, ViewsTyped
      <3> QED BY <1>7, <1>8, <1>9, <3>1, RunsOn
    <2> QED BY <1>8, <2>1 DEF ViewsTyped
  <1>11. NoNewSending
    BY <1>5, <1>8 DEF NoNewSending, InFlight
  <1> QED BY <1>4, <1>10, <1>11, OutcomeKept DEF KeepsFate

LEMMA DispatchKept ==
  ASSUME IndInv, MailAssumption, NEW r \in Slow, Dispatch(r)
  PROVE  Kept
  <1>1. PICK job \in Sendable(view[r].rows) :
          Works /\ view' = [view EXCEPT ![r].job = job]
          /\ UNCHANGED <<threads, messages, taskDone, history>>
    BY DEF Dispatch
  <1>2. TypeInv /\ Running(view[r]) /\ view[r] # None /\ view[r] # Gone /\ view[r].job = None
    BY RunningView DEF IndInv, Dispatch
  <1>3. /\ UNCHANGED <<ingested, counted, accepted, raised>>
        /\ work' \in 0 .. MaxWork /\ failures' \in 0 .. MaxFailures
    BY <1>1, <1>2, Worked
  <1>4. Served
    BY <1>1, <1>2, <1>3, IdleServed DEF history, TypeInv
  <1>5. Outcome /\ KeepsFate
    BY <1>2, <1>3, <1>4, ServedOutcome
  <1> DEFINE w == [view[r] EXCEPT !.job = job]
  <1>6. /\ DOMAIN view' = Slow /\ view'[r] = w
        /\ \A s \in Slow : s # r => view'[s] = view[s]
    BY <1>1, <1>2 DEF TypeInv, ViewsTyped
  <1>7. Job(view[r].rows, job)
    BY DEF Sendable, Job
  <1>8. /\ w.rows = view[r].rows /\ w.job = job /\ w.mid = view[r].mid
        /\ w = [rows |-> w.rows, job |-> w.job, mid |-> w.mid]
    BY <1>2 DEF Running
  <1> HIDE DEF w
  <1>9. view[r].mid = 0
    BY <1>2 DEF Running
  <1>10. Running(w)
    BY <1>2, <1>7, <1>8, <1>9 DEF Running
  <1>11. \A u : Running(u) => Running(u)'
    BY <1>2, <1>5, OutcomeGrows, StaysRunning
  <1>12. ViewsTyped'
    <2>1. ASSUME NEW s \in Slow PROVE view'[s] \in {None, Gone} \/ Running(view[s])'
      <3>1. view[s] \in {None, Gone} \/ Running(view[s])
        BY <1>2 DEF TypeInv, ViewsTyped
      <3> QED BY <1>6, <1>10, <1>11, <3>1, RunsOn
    <2> QED BY <1>6, <2>1 DEF ViewsTyped
  <1>13. NoNewSending
    BY <1>6, <1>8, <1>9 DEF NoNewSending, InFlight
  <1> QED BY <1>5, <1>12, <1>13, OutcomeKept DEF KeepsFate

LEMMA AcceptKept ==
  ASSUME IndInv, MailAssumption, NEW r \in Slow, Accept(r)
  PROVE  Kept
  <1> DEFINE n == accepted + 1
  <1>0. PICK w : w = [view[r] EXCEPT !.mid = n]
    OBVIOUS
  <1>1. /\ accepted' = n /\ view' = [view EXCEPT ![r] = w]
        /\ UNCHANGED <<threads, messages, taskDone, ingested, counted, raised, work, failures,
                       stale, strayed, recalled>>
    BY <1>0 DEF Accept, rows, history
  <1>2. TypeInv /\ Running(view[r]) /\ view[r].job # None /\ view[r].mid = 0
    BY RunningView DEF IndInv, Accept
  <1>3. /\ accepted \in Nat /\ n \in Nat /\ accepted <= n /\ 0 .. accepted \subseteq 0 .. n
        /\ 1 .. accepted \subseteq 1 .. n /\ n # 0 /\ n \notin 0 .. accepted /\ n \in 0 .. n
    BY <1>2 DEF TypeInv
  <1> HIDE DEF n
  <1>4. /\ w.rows = view[r].rows /\ w.job = view[r].job /\ w.mid = n
        /\ w = [rows |-> w.rows, job |-> w.job, mid |-> w.mid]
    BY <1>0, <1>2 DEF Running
  <1>5. Grows
    <2>1. /\ Len(taskDone) \in Nat /\ Len(threads) \in Nat /\ Len(messages) \in Nat
          /\ Len(taskDone) <= Len(taskDone) /\ Len(threads) <= Len(threads)
          /\ Len(messages) <= Len(messages)
      BY <1>2 DEF TypeInv
    <2> QED BY <1>1, <1>3, <2>1 DEF Grows
  <1>6. /\ DOMAIN view' = Slow /\ view'[r] = w
        /\ \A s \in Slow : s # r => view'[s] = view[s]
    BY <1>1, <1>2 DEF TypeInv, ViewsTyped
  <1>7. Running(w)'
    <2>1. Loaded(w.rows)'
      <3>1. Loaded(w.rows)
        BY <1>2, <1>4 DEF Running
      <3> QED BY <1>5, <3>1, StaysLoaded
    <2>2. Job(w.rows, w.job)
      BY <1>2, <1>4 DEF Running
    <2> QED BY <1>1, <1>2, <1>3, <1>4, <2>1, <2>2 DEF Running
  <1>8. ViewsTyped'
    <2>1. ASSUME NEW s \in Slow PROVE view'[s] \in {None, Gone} \/ Running(view[s])'
      <3>1. view[s] \in {None, Gone} \/ Running(view[s])
        BY <1>2 DEF TypeInv, ViewsTyped
      <3>2. \A u : Running(u) => Running(u)'
        BY <1>5, StaysRunning
      <3> QED BY <1>6, <1>7, <3>1, <3>2, RunsOn
    <2> QED BY <1>6, <2>1 DEF ViewsTyped
  <1>9. TypeInv'
    <2>1. /\ messages' \in Seq(MessageRows(Len(threads'), accepted'))
          /\ raised' \subseteq (1 .. accepted') \X Kinds
      <3>1. Len(threads) \in Nat /\ Len(threads) <= Len(threads)
        BY <1>5 DEF Grows
      <3>2. MessageRows(Len(threads), accepted) \subseteq MessageRows(Len(threads), n)
        BY <1>3, <3>1, RowsGrow
      <3>3. messages \in Seq(MessageRows(Len(threads), n))
        BY <1>2, <3>2 DEF TypeInv
      <3>4. raised \subseteq (1 .. n) \X Kinds
        BY <1>2, <1>3 DEF TypeInv
      <3> QED BY <1>1, <3>3, <3>4
    <2> QED BY <1>1, <1>2, <1>3, <1>8, <2>1 DEF TypeInv
  <1>10. \A i \in DOMAIN messages : messages[i].mid # n
    <2>1. \A i \in DOMAIN messages : messages[i] \in MessageRows(Len(threads), accepted)
      BY <1>2 DEF TypeInv
    <2> QED BY <1>3, <2>1 DEF MessageRows
  <1>11. \A s \in Slow : InFlight(s) => view[s].mid # n
    <2>1. \A s \in Slow : InFlight(s) => Running(view[s])
      BY <1>2 DEF TypeInv, ViewsTyped, InFlight
    <2> QED BY <1>3, <2>1 DEF Running
  <1>12. Fated => Fated'
    <2> SUFFICES ASSUME Fated PROVE Fated'
      OBVIOUS
    <2>1. \A s \in Slow : InFlight(s)' => s = r \/ (s # r /\ InFlight(s) /\ view'[s] = view[s])
      BY <1>6 DEF InFlight
    <2>2. \A s \in Slow, i \in DOMAIN messages' : InFlight(s)' => view'[s].mid # messages'[i].mid
      BY <1>1, <1>4, <1>6, <1>10, <2>1 DEF Fated, MidsAreOnes
    <2>3. \A s, t \in Slow :
            InFlight(s)' /\ InFlight(t)' /\ view'[s].mid = view'[t].mid => s = t
      BY <1>4, <1>6, <1>11, <2>1 DEF Fated, MidsAreOnes
    <2>4. MidsAreOnes'
      BY <1>1, <2>2, <2>3 DEF Fated, MidsAreOnes
    <2> QED BY <1>1, <2>4 DEF Fated
  <1>13. IndInv'
    BY <1>1, <1>9, <1>12 DEF IndInv
  <1> QED BY <1>1, <1>13 DEF Kept, Sends, n

-----------------------------------------------------------------------------
(* The invariant.                                                          *)

LEMMA InitIndInv ==
  ASSUME MailAssumption, Init
  PROVE  IndInv
  <1>1. DOMAIN threads = {} /\ DOMAIN messages = {} /\ DOMAIN counted = {}
    BY DEF Init
  <1>2. /\ threads \in Seq(ThreadRows(Len(taskDone))) /\ messages \in Seq(MessageRows(Len(threads), accepted))
        /\ taskDone \in Seq(BOOLEAN) /\ counted \in Seq(raised)
    BY DEF Init
  <1>3. ViewsTyped /\ \A r \in Slow : ~InFlight(r)
    BY DEF Init, ViewsTyped, InFlight
  <1>4. TypeInv
    <2>1. accepted \in Nat /\ work \in 0 .. MaxWork /\ failures \in 0 .. MaxFailures
      BY DEF Init, MailAssumption
    <2>2. ingested \subseteq Copies /\ raised \subseteq (1 .. accepted) \X Kinds
      BY DEF Init
    <2>3. stale \in BOOLEAN /\ strayed \in BOOLEAN /\ recalled \in BOOLEAN
      BY DEF Init
    <2> QED BY <1>2, <1>3, <2>1, <2>2, <2>3 DEF TypeInv
  <1>5. Waits(threads)
    BY <1>1 DEF Waits
  <1>6. Fated
    BY <1>1, <1>3 DEF Fated, MidsAreOnes
  <1> QED BY <1>4, <1>5, <1>6 DEF IndInv

LEMMA NextKept ==
  ASSUME IndInv, MailAssumption, StatusesAssumption, Next
  PROVE  Kept
  <1>1. \/ Prompt \/ Raise \/ TaskMoves \/ Page
        \/ \E r \in Slow : Load(r) \/ Die(r) \/ Overtaken(r)
        \/ \E r \in Slow : Dispatch(r) \/ Accept(r) \/ Refuse(r) \/ Conclude(r)
    BY DEF Next
  <1> QED BY <1>1, PromptKept, RaiseKept, TaskMovesKept, PageKept, LoadKept, DieKept, OvertakenKept,
          DispatchKept, AcceptKept, RefuseKept, ConcludeKept

LEMMA StutterKeeps ==
  ASSUME IndInv, UNCHANGED vars
  PROVE  IndInv'
  <1>1. UNCHANGED <<threads, messages, taskDone, ingested, counted, accepted, raised, view, work,
                    failures, stale, strayed, recalled>>
    BY DEF vars, rows, provider, history
  <1>2. ViewsTyped'
    BY <1>1 DEF IndInv, TypeInv, ViewsTyped, Running, Loaded, Job, Approvable
  <1>3. TypeInv'
    BY <1>1, <1>2 DEF IndInv, TypeInv
  <1>4. Fated => Fated'
    BY <1>1 DEF Fated, MidsAreOnes, InFlight
  <1> QED BY <1>1, <1>3, <1>4 DEF IndInv

(* The inductive invariant of the e-mail desk: the rows, the requests in   *)
(* progress and what they loaded fit together; a conversation's clock      *)
(* stands while it waits; and the number that the provider gave to a mail  *)
(* names one message, or one request that has not stored it yet            *)
(* (email_postmark.py, web/email.py).                                      *)
THEOREM Inductive == Spec => []IndInv
  <1>1. Init => IndInv
    BY MailAssumption, InitIndInv
  <1>2. IndInv /\ [Next]_vars => IndInv'
    BY MailAssumption, StatusesAssumption, NextKept, StutterKeeps DEF Kept
  <1> QED BY <1>1, <1>2, PTL DEF Spec

(* Columns keep their types and references their rows, whatever requests   *)
(* overtake each other and die (the tables of the e-mail desk).            *)
THEOREM TypesPreserved == Spec => []TypeOK
  <1>1. IndInv => TypeOK
    <2> SUFFICES ASSUME IndInv PROVE TypeOK
      OBVIOUS
    <2>1. TypeInv
      BY DEF IndInv
    <2>2. ASSUME NEW t \in DOMAIN threads
          PROVE  /\ threads[t].status \in StatusLabels
                 /\ threads[t].task \in 0 .. Len(taskDone)
                 /\ {threads[t].paused, threads[t].resolved, threads[t].validated} \subseteq BOOLEAN
      <3>1. threads[t] \in ThreadRows(Len(taskDone))
        BY <2>1 DEF TypeInv
      <3> QED BY <3>1 DEF ThreadRows
    <2>3. ASSUME NEW i \in DOMAIN messages
          PROVE  /\ messages[i].thread \in DOMAIN threads
                 /\ messages[i].mail \in Mails \cup {None}
                 /\ messages[i].state \in MessageStates
                 /\ messages[i].mid \in 0 .. accepted
      <3>1. messages[i] \in MessageRows(Len(threads), accepted) /\ DOMAIN threads = 1 .. Len(threads)
        BY <2>1 DEF TypeInv
      <3> QED BY <3>1 DEF MessageRows
    <2>4. \A k \in DOMAIN counted : counted[k] \in raised
      BY <2>1 DEF TypeInv
    <2> QED BY <2>1, <2>2, <2>3, <2>4 DEF TypeOK, TypeInv
  <1> QED BY <1>1, Inductive, PTL

(* Whatever order the reports about a sent message come in, and however    *)
(* often each is repeated, the message shows the worst of them             *)
(* (ingest_outbound_event).                                                *)
THEOREM WorstReportStays == Spec => []FateIsWorstReported
  <1>1. IndInv => FateIsWorstReported
    BY DEF IndInv, FateIsWorstReported, Fated, ShowsWorst, Fates
  <1> QED BY <1>1, Inductive, PTL

(* The service-level clock of a conversation stands exactly while it waits *)
(* for the customer, while no request decides by old rows and no other     *)
(* step took the conversation out of its wait.                             *)
THEOREM ClockStandsWhileWaiting == Spec => []PausedIsWaiting
  <1>1. IndInv => PausedIsWaiting
    BY DEF IndInv, PausedIsWaiting, Waits
  <1> QED BY <1>1, Inductive, PTL

-----------------------------------------------------------------------------
(* The promise to the provider.                                            *)

LEMMA StoreStep ==
  ASSUME NEW m \in Mails, StoresOne(m), UNCHANGED <<accepted, counted>>
  PROVE  Promise!Store(m)
  <1>1. /\ Cardinality(InboundOf(messages, m)) = 0
        /\ Cardinality(InboundOf(messages', m)) = 1
    BY FS_EmptySet, FS_Singleton DEF StoresOne
  <1>2. \A k \in Mails \ {m} :
          Cardinality(InboundOf(messages', k)) = Cardinality(InboundOf(messages, k))
    BY DEF StoresOne
  <1>3. TimesStored' = [TimesStored EXCEPT ![m] = 1]
    BY <1>1, <1>2 DEF TimesStored
  <1>4. TimesStored[m] = 0
    BY <1>1 DEF TimesStored
  <1> QED BY <1>3, <1>4 DEF Promise!Store

LEMMA PromiseStep ==
  ASSUME IndInv, Outcome \/ Sends
  PROVE  [Promise!Next]_<<TimesStored, accepted, counted>>
  <1>1. CASE Sends
    <2>1. TimesStored' = TimesStored
      BY <1>1 DEF Sends, TimesStored
    <2> QED BY <1>1, <2>1 DEF Sends, Promise!Next, Promise!Send
  <1>2. CASE Outcome
    <2>1. SameInbox => TimesStored' = TimesStored
      BY DEF SameInbox, TimesStored
    <2>2. accepted' = accepted
      BY <1>2 DEF Outcome
    <2>3. CASE SameInbox /\ UNCHANGED counted
      BY <2>1, <2>2, <2>3
    <2>4. CASE UNCHANGED counted /\ \E m \in Mails : StoresOne(m)
      BY <2>2, <2>4, StoreStep DEF Promise!Next
    <2>5. CASE SameInbox /\ \E report \in raised \ Counted(counted) : counted' = Append(counted, report)
      <3>1. PICK report \in raised \ Counted(counted) : counted' = Append(counted, report)
        BY <2>5
      <3>2. PICK mid \in 1 .. accepted, kind \in Kinds : report = <<mid, kind>>
        BY <3>1 DEF IndInv, TypeInv
      <3>3. \A k \in DOMAIN counted : counted[k] # <<mid, kind>>
        BY <3>1, <3>2 DEF Counted
      <3>4. Promise!Report(mid, kind)
        BY <2>1, <2>2, <2>5, <3>1, <3>2, <3>3 DEF Promise!Report, Promise!IsNew
      <3> QED BY <3>4 DEF Promise!Next
    <2> QED BY <1>2, <2>3, <2>4, <2>5 DEF Outcome, Delivers
  <1> QED BY <1>1, <1>2

(* The desk implements what it promises its provider: however its calls    *)
(* are repeated, overlap and are cut off, a mail is stored at most once, a *)
(* report counts at most once, and only about a mail that was sent.        *)
THEOREM KeepsPromise == Spec => MailPromise
  <1>1. Init => Promise!Init
    <2> SUFFICES ASSUME Init PROVE Promise!Init
      OBVIOUS
    <2>1. \A m : InboundOf(messages, m) = {}
      BY DEF Init, InboundOf
    <2>2. TimesStored = [m \in Mails |-> 0]
      BY <2>1, FS_EmptySet DEF TimesStored
    <2> QED BY <2>2 DEF Init, Promise!Init
  <1>2. IndInv /\ [Next]_vars => [Promise!Next]_<<TimesStored, accepted, counted>>
    <2> SUFFICES ASSUME IndInv, [Next]_vars PROVE [Promise!Next]_<<TimesStored, accepted, counted>>
      OBVIOUS
    <2>1. CASE Next
      BY <2>1, MailAssumption, StatusesAssumption, NextKept, PromiseStep DEF Kept
    <2>2. CASE UNCHANGED vars
      <3>1. UNCHANGED <<messages, accepted, counted>>
        BY <2>2 DEF vars, rows, provider
      <3> QED BY <3>1 DEF TimesStored
    <2> QED BY <2>1, <2>2
  <1> QED BY <1>1, <1>2, Inductive, PTL DEF Spec, MailPromise, Promise!Spec

=============================================================================
