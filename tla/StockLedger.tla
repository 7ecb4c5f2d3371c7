---------------------------- MODULE StockLedger ----------------------------
(***************************************************************************)
(* The stock ledger of app/services/stock.py and its callers in            *)
(* app/web/stock.py and app/api/routes/stock.py.                           *)
(*                                                                         *)
(* A request runs in one database transaction at READ COMMITTED.  It is    *)
(* two steps here: the request reads, checks its guards and computes the   *)
(* cells it will write; then it commits them, over whatever the others     *)
(* committed in between, or aborts (a unique constraint refuses a row, or  *)
(* the process dies).  The ORM session writes only columns whose value     *)
(* changed, and writes absolute values.                                    *)
(***************************************************************************)
EXTENDS Integers, Sequences, FiniteSets, FiniteSetsExt, Functions

CONSTANTS
  Workers,          \* concurrent requests
  NumArticles,      \* stock_articles have ids 1..NumArticles
  Locations,        \* stock_locations; no route ever deactivates one
  MaxAmount,        \* the largest value of a NUMERIC(14, 3) quantity column
  Quantities,       \* the quantities users type
  Counts,           \* the quantities counters type
  Keys,             \* receipt idempotency keys
  Lines,            \* purchase order line -> [order, article, location, ordered]
  NumOrders,        \* purchase orders have numbers 1..NumOrders
  Needs,            \* workshop material need -> [request, quantity, direct]
  NumSessions,      \* inventory sessions, each with its own idempotency key
  Retirable,        \* the articles users deactivate and reactivate
  ManualTypes,      \* movement types the manual form is used for
  MaxReceiptLines,  \* bound on the lines of one receipt
  MaxMovements,     \* bound on the ledger
  None

ASSUME NumAssumption ==
  /\ NumArticles \in Nat /\ NumOrders \in Nat /\ NumSessions \in Nat
  /\ MaxReceiptLines \in Nat /\ MaxMovements \in Nat /\ MaxAmount \in Nat

Amounts == -MaxAmount .. MaxAmount    \* a value out of range fails its statement

ASSUME AmountAssumption == Quantities \subseteq 1 .. MaxAmount /\ Counts \subseteq Amounts

ASSUME NoneAssumption == None \notin Locations \cup Keys \cup Int

ASSUME InputsAssumption ==
  /\ Retirable \subseteq 1 .. NumArticles
  /\ ManualTypes \subseteq {"entry", "exit", "return", "transfer", "adjustment"}

Articles == 1 .. NumArticles
Orders == 1 .. NumOrders
Sessions == 1 .. NumSessions
OrderLines == DOMAIN Lines
Requests == {Needs[n].request : n \in DOMAIN Needs}
Rows == Sessions \X Articles          \* stock_inventory_counts

ASSUME LinesAssumption ==
  /\ None \notin OrderLines
  /\ \A l \in OrderLines : Lines[l] \in
       [order : Orders, article : Articles, location : Locations, ordered : Quantities]

ASSUME NeedsAssumption ==
  /\ IsFiniteSet(DOMAIN Needs)
  /\ \A n \in DOMAIN Needs : Needs[n].quantity \in Quantities /\ Needs[n].direct \in BOOLEAN

VARIABLES
  movements,      \* committed stock_movements, by id
  discrepancies,  \* committed stock_discrepancies, by id
  receiptKeys,    \* idempotency keys of committed receipts
  active,         \* article -> stock_articles.active
  received,       \* order line -> received_quantity
  receiving,      \* order -> receiving_status
  status,         \* inventory session -> status
  location,       \* inventory session -> counted location
  snapshot,       \* <<session, article>> -> expected_snapshot
  counted,        \* <<session, article>> -> counted_quantity
  adjusted,       \* <<session, article>> -> has an adjustment_movement_id
  needStatus,     \* material need -> stock_status
  tx              \* worker -> what its open transaction will write

db == <<movements, discrepancies, receiptKeys, active, received, receiving,
        status, location, snapshot, counted, adjusted, needStatus>>
vars == <<movements, discrepancies, receiptKeys, active, received, receiving,
          status, location, snapshot, counted, adjusted, needStatus, tx>>

-----------------------------------------------------------------------------
(* Types.                                                                  *)

MovementTypes == {"entry", "exit", "return", "transfer", "adjustment", "reversal"}
SourceTypes == {"manual", "receipt", "inventory", "discrepancy", "need"}
SourceIds == Keys \cup Sessions \cup Nat \cup DOMAIN Needs \cup {None}

Movement == [article : Articles, type : MovementTypes, quantity : Amounts,
             from : Locations \cup {None}, to : Locations \cup {None},
             source : [type : SourceTypes, id : SourceIds],
             line : OrderLines \cup {None},   \* the order line its receipt line names
             reverses : Nat \cup {None}]

Discrepancy == [article : Articles, location : Locations, line : OrderLines,
                difference : Amounts, status : {"open", "regularized"}]

SessionStatus == {"none", "draft", "counting", "review", "completed", "cancelled",
                  "archived_completed", "archived_cancelled"}

ReceivingStatus == {"none", "pending", "partial", "complete"}

NeedStatus == {"requested", "usage_reported", "delivered", "applied"}

(* An open transaction: rows to insert, cells to update (partial           *)
(* functions) and needs it holds FOR UPDATE.                               *)
Nothing == [movements |-> <<>>, discrepancies |-> <<>>, keys |-> {}, locked |-> {},
            active |-> <<>>, received |-> <<>>, receiving |-> <<>>,
            regularized |-> {}, status |-> <<>>, location |-> <<>>,
            snapshot |-> <<>>, counted |-> <<>>, adjusted |-> <<>>, need |-> <<>>]

Init ==
  /\ movements = <<>> /\ discrepancies = <<>> /\ receiptKeys = {}
  /\ active = [a \in Articles |-> TRUE]
  /\ received = [l \in OrderLines |-> 0]
  /\ receiving = [o \in Orders |-> "none"]
  /\ status = [s \in Sessions |-> "none"]
  /\ location = [s \in Sessions |-> None]
  /\ snapshot = [r \in Rows |-> None]
  /\ counted = [r \in Rows |-> None]
  /\ adjusted = [r \in Rows |-> FALSE]
  /\ needStatus = [n \in DOMAIN Needs |->
                     IF Needs[n].direct THEN "usage_reported" ELSE "requested"]
  /\ tx = [w \in Workers |-> Nothing]

-----------------------------------------------------------------------------
(* Balances.                                                               *)

IsReversal(m) == m.type = "reversal"

(* What a posting adds to location l.                                      *)
BaseEffect(m, l) ==
  CASE m.type = "entry" -> IF m.to = l THEN m.quantity ELSE 0
    [] m.type \in {"exit", "return"} -> IF m.from = l THEN -m.quantity ELSE 0
    [] m.type = "transfer" -> (IF m.to = l THEN m.quantity ELSE 0)
                            - (IF m.from = l THEN m.quantity ELSE 0)
    [] m.type = "adjustment" ->
         IF l = (IF m.to # None THEN m.to ELSE m.from) THEN m.quantity ELSE 0
    [] OTHER -> 0

(* Mutant: a reversal forgets the destination of a transfer.               *)
EffectOriginOnly(log, i, l) ==
  IF log[i].type = "reversal"
  THEN IF log[log[i].reverses].to = l THEN 0 ELSE -BaseEffect(log[log[i].reverses], l)
  ELSE BaseEffect(log[i], l)

(* A reversal undoes what the movement it names did.                       *)
Effect(log, i, l) ==
  IF log[i].type = "reversal"
  THEN -BaseEffect(log[log[i].reverses], l)
  ELSE BaseEffect(log[i], l)

Balance(log, a, l) ==
  SumFunctionOnSet([i \in DOMAIN log |-> Effect(log, i, l)],
                   {i \in DOMAIN log : log[i].article = a})

-----------------------------------------------------------------------------
(* Postings.                                                               *)

Posting(a, type, q, from, to, source) ==
  [article |-> a, type |-> type, quantity |-> q, from |-> from, to |-> to,
   source |-> source, line |-> None, reverses |-> None]

Source(type, id) == [type |-> type, id |-> id]

(* The locations each movement type requires; an entry may also name an    *)
(* origin and an exit a destination, which are stored and have no effect.  *)
LocationsMatchType(type, from, to) ==
  CASE type = "entry" -> to # None
    [] type \in {"exit", "return"} -> from # None
    [] type = "transfer" -> from # None /\ to # None /\ from # to
    [] type = "adjustment" -> (from = None) # (to = None)

(* The guards of create_manual_movement over the ledger it reads.          *)
MayPost(log, m) ==
  /\ active[m.article]
  /\ m.quantity \in Amounts
  /\ m.type \in {"exit", "return", "transfer"} => Balance(log, m.article, m.from) >= m.quantity
  /\ m.type = "adjustment" /\ m.quantity < 0 =>
       Balance(log, m.article, IF m.to # None THEN m.to ELSE m.from) + m.quantity >= 0

(* Mutant: the postings of one request do not see each other.              *)
MayPostAllUnflushed(batch) ==
  /\ Len(movements) + Len(batch) <= MaxMovements
  /\ \A i \in DOMAIN batch : MayPost(movements, batch[i])

(* Postings of one request: each sees the ones flushed before it.          *)
MayPostAll(batch) ==
  /\ Len(movements) + Len(batch) <= MaxMovements
  /\ \A i \in DOMAIN batch : MayPost(movements \o SubSeq(batch, 1, i - 1), batch[i])

(* The adjustment that inventory and regularisation post: it names the     *)
(* location it takes from, or the one it adds to.                          *)
Adjustment(a, q, l, source) ==
  Posting(a, "adjustment", q, IF q < 0 THEN l ELSE None, IF q > 0 THEN l ELSE None, source)

(* The rows of a query ORDER BY id.                                        *)
InIdOrder(ids) ==
  {f \in [1 .. Cardinality(ids) -> ids] :
     \A i, j \in DOMAIN f : i < j => f[i] < f[j]}

(* The cells of `new` whose value differs from what the session loaded.    *)
Changed(new, loaded) ==
  [x \in {y \in DOMAIN new : new[y] # loaded[y]} |-> new[x]]

-----------------------------------------------------------------------------
(* First step of a request: it reads, and leaves its writes pending.       *)

Begin(w, writes) ==
  /\ tx[w] = Nothing
  /\ tx' = [tx EXCEPT ![w] = writes]
  /\ UNCHANGED db

PostMovement(w) ==
  \E a \in Articles, type \in ManualTypes, q \in Quantities, sign \in {1, -1},
     from, to \in Locations \cup {None} :
    LET m == Posting(a, type, sign * q, from, to, Source("manual", None)) IN
    /\ type # "adjustment" => sign = 1
    /\ LocationsMatchType(type, from, to)
    /\ MayPostAll(<<m>>)
    /\ Begin(w, [Nothing EXCEPT !.movements = <<m>>])

Reversible(i) ==
  /\ ~IsReversal(movements[i])
  /\ \A j \in DOMAIN movements : movements[j].reverses # i

Reverse(w) ==
  \E i \in DOMAIN movements :
    /\ Reversible(i)
    /\ Len(movements) < MaxMovements
    /\ Begin(w, [Nothing EXCEPT !.movements =
                   <<[movements[i] EXCEPT !.type = "reversal", !.reverses = i, !.line = None,
                                          !.source = Source("manual", None)]>>])

ReceiptLine == [article : Articles, quantity : Quantities, line : OrderLines \cup {None}]

LinesOf(o) == {l \in OrderLines : Lines[l].order = o}

(* The schema and the loop of create_physical_receipt: no article twice,   *)
(* and an order line only under its order, article and location.           *)
ValidReceipt(o, l, items) ==
  /\ \A i, j \in DOMAIN items : items[i].article = items[j].article => i = j
  /\ \A i \in DOMAIN items :
       /\ active[items[i].article]
       /\ items[i].line \in LinesOf(o) \cup {None}
       /\ items[i].line # None => /\ Lines[items[i].line].article = items[i].article
                                  /\ Lines[items[i].line].location = l

(* Mutant: the quantity received overwrites what was received before.      *)
ReceivedWithOverwrite(items) ==
  [x \in {items[i].line : i \in DOMAIN items} \ {None} |->
     items[CHOOSE i \in DOMAIN items : items[i].line = x].quantity]

(* received_quantity of the order lines a receipt touches.                 *)
ReceivedWith(items) ==
  [x \in {items[i].line : i \in DOMAIN items} \ {None} |->
     received[x] + items[CHOOSE i \in DOMAIN items : items[i].line = x].quantity]

Overlay(f, g) == [x \in DOMAIN f |-> IF x \in DOMAIN g THEN g[x] ELSE f[x]]

ReceivingAfter(o, taken) ==
  IF LinesOf(o) # {} /\ \A x \in LinesOf(o) : Overlay(received, taken)[x] >= Lines[x].ordered
  THEN "complete" ELSE "partial"

(* Mutant: a receipt that completes a line counts as an excess.            *)
ExcessiveAtLimit(items) ==
  {i \in DOMAIN items : /\ items[i].line # None
                        /\ items[i].quantity >= Lines[items[i].line].ordered - received[items[i].line]}

(* Lines of a receipt that exceed what their order line still expected.    *)
Excessive(items) ==
  {i \in DOMAIN items : /\ items[i].line # None
                        /\ items[i].quantity > Lines[items[i].line].ordered - received[items[i].line]}

(* Mutant: a discrepancy is created with a status no query knows.          *)
ExcessOfUnopened(item, l) ==
  [article |-> item.article, location |-> l, line |-> item.line, status |-> "pending",
   difference |-> item.quantity - (Lines[item.line].ordered - received[item.line])]

ExcessOf(item, l) ==
  [article |-> item.article, location |-> l, line |-> item.line, status |-> "open",
   difference |-> item.quantity - (Lines[item.line].ordered - received[item.line])]

(* A receipt without a key can be told from no other.                      *)
ReceiptSource(key) == IF key = None THEN Source("manual", None) ELSE Source("receipt", key)

Receipt(key, l, o, items, excess) ==
  LET taken == ReceivedWith(items) IN
  [Nothing EXCEPT
    !.keys = {key} \ {None},
    !.movements = [i \in DOMAIN items |->
      [Posting(items[i].article, "entry", items[i].quantity, None, l, ReceiptSource(key))
         EXCEPT !.line = items[i].line]],
    !.received = taken,
    !.discrepancies = [k \in DOMAIN excess |-> ExcessOf(items[excess[k]], l)],
    !.receiving = Changed([x \in {o} \ {None} |-> ReceivingAfter(x, taken)], receiving)]

Receive(w) ==
  \E key \in Keys \cup {None}, l \in Locations, o \in Orders \cup {None},
     n \in 1 .. MaxReceiptLines :
    /\ key \notin receiptKeys
    /\ o # None => receiving[o] # "none"
    /\ Len(movements) + n <= MaxMovements
    /\ \E items \in [1 .. n -> ReceiptLine] :
         /\ ValidReceipt(o, l, items)
         /\ \A x \in DOMAIN ReceivedWith(items) : ReceivedWith(items)[x] \in Amounts
         /\ \E excess \in InIdOrder(Excessive(items)) :
              Begin(w, Receipt(key, l, o, items, excess))

(* The order number is the count of orders plus one, read unlocked.        *)
CreateOrder(w) ==
  LET o == Cardinality({x \in Orders : receiving[x] # "none"}) + 1 IN
  /\ o \in Orders
  /\ receiving[o] = "none"
  /\ \A l \in LinesOf(o) : active[Lines[l].article]
  /\ Begin(w, [Nothing EXCEPT !.receiving = [x \in {o} |-> "pending"]])

-----------------------------------------------------------------------------
(* Blind inventory.                                                        *)

RowsOf(s) == {a \in Articles : snapshot[<<s, a>>] # None}

(* The scope is every active article, or the active ones of a category.    *)
CreateInventory(w) ==
  \E s \in Sessions, l \in Locations, scope \in SUBSET Articles \ {{}} :
    LET expected == [r \in {s} \X scope |-> Balance(movements, r[2], l)] IN
    /\ status[s] = "none"
    /\ \A a \in scope : active[a]
    /\ \A r \in DOMAIN expected : expected[r] \in Amounts
    /\ Begin(w, [Nothing EXCEPT !.status = [x \in {s} |-> "draft"],
                                !.location = [x \in {s} |-> l],
                                !.snapshot = expected])

(* Mutant: a session accepts counts whatever its status.                   *)
AcceptsCountsAlways(s) == status[s] # "none"

AcceptsCounts(s) == status[s] \in {"draft", "counting"}

SaveCounts(w) ==
  \E s \in Sessions, close \in BOOLEAN :
  \E entered \in UNION {[{s} \X scope -> Counts] : scope \in SUBSET RowsOf(s)} :
    /\ AcceptsCounts(s)
    /\ close => \A a \in RowsOf(s) : <<s, a>> \in DOMAIN entered \/ counted[<<s, a>>] # None
    /\ Begin(w, [Nothing EXCEPT
         !.counted = Changed(entered, counted),
         !.status = Changed([x \in {s} |-> IF close THEN "review" ELSE "counting"], status)])

CancelInventory(w) ==
  \E s \in Sessions :
    /\ AcceptsCounts(s)
    /\ Begin(w, [Nothing EXCEPT !.status = [x \in {s} |-> "cancelled"]])

ArchiveInventory(w) ==
  \E s \in Sessions :
    /\ status[s] \in {"completed", "cancelled"}
    /\ Begin(w, [Nothing EXCEPT !.status = [x \in {s} |->
          IF status[s] = "completed" THEN "archived_completed" ELSE "archived_cancelled"]])

Difference(s, a) == counted[<<s, a>>] - snapshot[<<s, a>>]

(* Rows that still need an adjustment when the session is confirmed.       *)
Unadjusted(s) == {a \in RowsOf(s) : Difference(s, a) # 0 /\ ~adjusted[<<s, a>>]}

(* Mutant: the outcome of the confirmation is not saved.                   *)
ConfirmationUnsaved(s, batch) == [Nothing EXCEPT !.movements = batch]

(* What a confirmation saves along with the adjustments.                   *)
Confirmation(s, batch) ==
  [Nothing EXCEPT !.movements = batch,
                  !.adjusted = [r \in {s} \X Unadjusted(s) |-> TRUE],
                  !.status = [x \in {s} |-> "completed"]]

ConfirmInventory(w) ==
  \E s \in Sessions :
    /\ status[s] = "review"
    /\ \A a \in RowsOf(s) : counted[<<s, a>>] # None
    /\ \E rows \in InIdOrder(Unadjusted(s)) :
         LET batch == [i \in DOMAIN rows |->
               Adjustment(rows[i], Difference(s, rows[i]), location[s], Source("inventory", s))] IN
         /\ MayPostAll(batch)
         /\ Begin(w, Confirmation(s, batch))

(* Mutant: a regularised discrepancy can be regularised again.             *)
IsOpenAlways(d) == TRUE

IsOpen(d) == discrepancies[d].status # "regularized"

RegularizeDiscrepancy(w) ==
  \E d \in DOMAIN discrepancies, q \in Quantities, sign \in {1, -1} :
    LET batch == <<Adjustment(discrepancies[d].article, sign * q,
                              discrepancies[d].location, Source("discrepancy", d))>> IN
    /\ IsOpen(d)
    /\ MayPostAll(batch)
    /\ Begin(w, [Nothing EXCEPT !.movements = batch, !.regularized = {d}])

-----------------------------------------------------------------------------
(* Workshop material.                                                      *)

NeedsOf(r) == {n \in DOMAIN Needs : Needs[n].request = r}

(* The locked query has no ORDER BY.                                       *)
InAnyOrder(ids) ==
  {f \in [1 .. Cardinality(ids) -> ids] :
     /\ \A i, j \in DOMAIN f : f[i] = f[j] => i = j
     /\ \A x \in ids : \E i \in DOMAIN f : f[i] = x}

Undelivered(r) == {n \in NeedsOf(r) : needStatus[n] \notin {"delivered", "applied"}}

(* Mutant: the needs are read without FOR UPDATE.                          *)
UnlockedNoWait(r) == TRUE

(* FOR UPDATE makes a second delivery of a request wait for the first.     *)
Unlocked(r) == \A v \in Workers : tx[v].locked \cap NeedsOf(r) = {}

(* The whole request is delivered from one location or not at all; the     *)
(* operator picks the article of each need.                                *)
DeliverRequest(w) ==
  \E r \in Requests, l \in Locations, choice \in [DOMAIN Needs -> Articles] :
    /\ Unlocked(r)
    /\ \E rows \in InAnyOrder(Undelivered(r)) :
         LET batch == [i \in DOMAIN rows |->
               Posting(choice[rows[i]], "exit", Needs[rows[i]].quantity, l, None,
                       Source("need", rows[i]))] IN
         /\ MayPostAll(batch)
         /\ Begin(w, [Nothing EXCEPT
              !.locked = NeedsOf(r),
              !.movements = batch,
              !.need = [n \in Undelivered(r) |->
                          IF Needs[n].direct THEN "applied" ELSE "delivered"]])

(* The workshop confirms that a delivered material was used.               *)
ConfirmApplied(w) ==
  \E n \in DOMAIN Needs :
    /\ needStatus[n] = "delivered"
    /\ Begin(w, [Nothing EXCEPT !.need = [x \in {n} |-> "applied"]])

UpdateArticle(w) ==
  \E a \in Retirable :
    Begin(w, [Nothing EXCEPT !.active = [x \in {a} |-> ~active[a]]])

-----------------------------------------------------------------------------
(* Second step of a request.                                               *)

(* The unique constraints that two overlapping requests can run into.      *)

(* Mutant: reverses_movement_id is not unique.                             *)
ReversedFreely(t) == FALSE

ReversedTwice(t) ==
  \E i \in DOMAIN t.movements, j \in DOMAIN movements :
    t.movements[i].reverses # None /\ movements[j].reverses = t.movements[i].reverses

(* Mutant: the receipts' idempotency_key is not unique.                    *)
AnyReceiptKey(t) == FALSE

ReceiptKeyTaken(t) == t.keys \cap receiptKeys # {}

SessionKeyTaken(t) == \E s \in DOMAIN t.location : location[s] # None

OrderNumberTaken(t) ==
  \E o \in DOMAIN t.receiving : t.receiving[o] = "pending" /\ receiving[o] # "none"

Conflicts(t) ==
  ReversedTwice(t) \/ ReceiptKeyTaken(t) \/ SessionKeyTaken(t) \/ OrderNumberTaken(t)

Commit(w) ==
  LET t == tx[w] IN
  /\ t # Nothing
  /\ ~Conflicts(t)
  /\ movements' = movements \o t.movements
  /\ discrepancies' =
       [d \in DOMAIN discrepancies |->
          IF d \in t.regularized THEN [discrepancies[d] EXCEPT !.status = "regularized"]
          ELSE discrepancies[d]] \o t.discrepancies
  /\ receiptKeys' = receiptKeys \cup t.keys
  /\ active' = Overlay(active, t.active)
  /\ received' = Overlay(received, t.received)
  /\ receiving' = Overlay(receiving, t.receiving)
  /\ status' = Overlay(status, t.status)
  /\ location' = Overlay(location, t.location)
  /\ snapshot' = Overlay(snapshot, t.snapshot)
  /\ counted' = Overlay(counted, t.counted)
  /\ adjusted' = Overlay(adjusted, t.adjusted)
  /\ needStatus' = Overlay(needStatus, t.need)
  /\ tx' = [tx EXCEPT ![w] = Nothing]

(* A refused row, a lost connection or a dead process: nothing is kept.    *)
Abort(w) ==
  /\ tx[w] # Nothing
  /\ tx' = [tx EXCEPT ![w] = Nothing]
  /\ UNCHANGED db

Request(w) ==
  \/ PostMovement(w)
  \/ Reverse(w)
  \/ CreateOrder(w)
  \/ Receive(w)
  \/ CreateInventory(w)
  \/ SaveCounts(w)
  \/ CancelInventory(w)
  \/ ArchiveInventory(w)
  \/ ConfirmInventory(w)
  \/ RegularizeDiscrepancy(w)
  \/ DeliverRequest(w)
  \/ ConfirmApplied(w)
  \/ UpdateArticle(w)

Next == \E w \in Workers : Request(w) \/ Commit(w) \/ Abort(w)

Spec == Init /\ [][Next]_vars

-----------------------------------------------------------------------------
(* Types of the state.                                                     *)

Partial(f, D, V) == DOMAIN f \subseteq D /\ \A x \in DOMAIN f : f[x] \in V

TxOK(t) ==
  /\ t.movements \in Seq(Movement)
  /\ t.discrepancies \in Seq(Discrepancy)
  /\ t.keys \subseteq Keys
  /\ t.locked \subseteq DOMAIN Needs
  /\ t.regularized \subseteq DOMAIN discrepancies
  /\ Partial(t.active, Articles, BOOLEAN)
  /\ Partial(t.received, OrderLines, Amounts)
  /\ Partial(t.receiving, Orders, ReceivingStatus)
  /\ Partial(t.status, Sessions, SessionStatus)
  /\ Partial(t.location, Sessions, Locations)
  /\ Partial(t.snapshot, Rows, Amounts)
  /\ Partial(t.counted, Rows, Counts)
  /\ Partial(t.adjusted, Rows, BOOLEAN)
  /\ Partial(t.need, DOMAIN Needs, {"delivered", "applied"})

(* Every row and every pending write has the type of its column; only      *)
(* fulfilment is ever written to a need, in particular it is never reset.  *)
TypeOK ==
  /\ movements \in Seq(Movement)
  /\ discrepancies \in Seq(Discrepancy)
  /\ receiptKeys \subseteq Keys
  /\ active \in [Articles -> BOOLEAN]
  /\ received \in [OrderLines -> Amounts]
  /\ receiving \in [Orders -> ReceivingStatus]
  /\ status \in [Sessions -> SessionStatus]
  /\ location \in [Sessions -> Locations \cup {None}]
  /\ snapshot \in [Rows -> Amounts \cup {None}]
  /\ counted \in [Rows -> Counts \cup {None}]
  /\ adjusted \in [Rows -> BOOLEAN]
  /\ needStatus \in [DOMAIN Needs -> NeedStatus]
  /\ DOMAIN tx = Workers /\ \A w \in Workers : TxOK(tx[w])

-----------------------------------------------------------------------------
(* Safety under any interleaving of requests.                              *)

(* A movement is reversed at most once, after it was committed, and a      *)
(* reversal is never itself reversed (services/stock.py, reverse_movement  *)
(* and the unique reverses_movement_id), whoever races to reverse it.      *)
ReversedAtMostOnce ==
  \A i \in DOMAIN movements : IsReversal(movements[i]) =>
    /\ movements[i].reverses \in 1 .. i - 1
    /\ ~IsReversal(movements[movements[i].reverses])
    /\ \A j \in DOMAIN movements :
         IsReversal(movements[j]) /\ movements[j].reverses = movements[i].reverses => i = j

(* A workshop need is marked delivered or applied exactly when one exit    *)
(* was booked for it, even when two operators deliver the same request     *)
(* (web/stock.py, deliver_stock_workshop_request and its FOR UPDATE).      *)
NeedDeliveredOnce ==
  \A n \in DOMAIN Needs :
    LET exits == {i \in DOMAIN movements : movements[i].source = Source("need", n)} IN
    /\ \A i, j \in exits : i = j
    /\ needStatus[n] \in {"delivered", "applied"} <=> exits # {}

(* The balance shown to users is that of the movements nobody reversed:    *)
(* a reversal cancels exactly one posting, in every location it touched.   *)
BalanceIgnoresReversed ==
  \A a \in Articles, l \in Locations :
    Balance(movements, a, l) =
      SumFunctionOnSet([i \in DOMAIN movements |-> BaseEffect(movements[i], l)],
        {i \in DOMAIN movements :
           /\ movements[i].article = a
           /\ ~IsReversal(movements[i])
           /\ \A j \in DOMAIN movements : movements[j].reverses # i})

(* The ledger implements its abstract specification under concurrency for  *)
(* keyed receipts and workshop needs.                                      *)
Racing == INSTANCE StockLedgerSpec WITH OnceTypes <- {"receipt", "need"}
LedgerPromise == Racing!Spec

-----------------------------------------------------------------------------
(* The inductive invariant behind the ledger's promise: what is known of   *)
(* the writes a request still holds while others commit.                   *)

(* Exactly the reversals name the movement they reverse.                   *)
Tagged(batch) == \A i \in DOMAIN batch : IsReversal(batch[i]) <=> batch[i].reverses # None

(* A pending reversal is alone in its request and names a committed        *)
(* posting.                                                                *)
PendingReversal(t) ==
  \A i \in DOMAIN t.movements : IsReversal(t.movements[i]) =>
    /\ Len(t.movements) = 1
    /\ t.movements[i].reverses \in DOMAIN movements
    /\ ~IsReversal(movements[t.movements[i].reverses])

(* One request books a receipt or a need at most once per article.         *)
DistinctPostings(t) ==
  \A i, j \in DOMAIN t.movements :
    /\ i # j
    /\ t.movements[i].source.type \in {"receipt", "need"}
    /\ t.movements[i].source = t.movements[j].source
    => t.movements[i].article # t.movements[j].article

(* A request that books a receipt inserts its key.                         *)
PendingReceipt(t) ==
  \A i \in DOMAIN t.movements :
    t.movements[i].source.type = "receipt" => t.movements[i].source.id \in t.keys

(* A request that books the exit of a need holds the need's row lock, is   *)
(* the only one to, and nothing was booked for the need so far.  A need's  *)
(* status changes only with its exit or after it.                          *)
PendingNeed(t) ==
  /\ \A i \in DOMAIN t.movements : t.movements[i].source.type = "need" =>
       /\ t.movements[i].source.id \in t.locked \cap DOMAIN t.need
       /\ \A j \in DOMAIN movements : movements[j].source # t.movements[i].source
       /\ \A j \in DOMAIN t.movements : t.movements[j].source = t.movements[i].source => i = j
  /\ \A n \in DOMAIN t.need :
       \/ \E i \in DOMAIN t.movements : t.movements[i].source = Source("need", n)
       \/ needStatus[n] \in {"delivered", "applied"}

SoundTx(t) ==
  /\ Tagged(t.movements)
  /\ PendingReversal(t)
  /\ DistinctPostings(t)
  /\ PendingReceipt(t)
  /\ PendingNeed(t)

PendingSound ==
  /\ Tagged(movements)
  /\ \A i \in DOMAIN movements :
       movements[i].source.type = "receipt" => movements[i].source.id \in receiptKeys
  /\ \A w \in Workers : SoundTx(tx[w])
  /\ \A v, w \in Workers : v # w => tx[v].locked \cap tx[w].locked = {}

IndInv == TypeOK /\ ReversedAtMostOnce /\ NeedDeliveredOnce /\ PendingSound

-----------------------------------------------------------------------------
(* Safety when requests do not overlap (one worker).                       *)

(* With requests one at a time, inventory sessions and discrepancies are   *)
(* booked at most once too.                                                *)
Serial == INSTANCE StockLedgerSpec
            WITH OnceTypes <- {"receipt", "need", "inventory", "discrepancy"}
SerialLedgerPromise == Serial!Spec

(* No request other than a reversal ever takes an existence it lowers      *)
(* below zero, across all the postings of one delivery or confirmation.    *)
NoOverdraw ==
  [][\A a \in Articles, l \in Locations :
       /\ Balance(movements', a, l) < Balance(movements, a, l)
       /\ \A i \in DOMAIN movements' \ DOMAIN movements : ~IsReversal(movements'[i])
       => Balance(movements', a, l) >= 0]_vars

(* A session books at most one adjustment per article: confirming it again *)
(* changes nothing.  Two overlapping confirmations break this.             *)
InventoryAdjustedOnce ==
  \A i, j \in DOMAIN movements :
    /\ movements[i].source.type = "inventory"
    /\ movements[i].source = movements[j].source
    /\ movements[i].article = movements[j].article
    => i = j

(* What a set of movements booked together.                                *)
Booked(ids) == SumFunctionOnSet([i \in DOMAIN movements |-> movements[i].quantity], ids)

(* A completed inventory session booked, per article, exactly the          *)
(* difference between what was counted and the snapshot.                   *)
AdjustmentMatchesCount ==
  \A s \in Sessions : status[s] \in {"completed", "archived_completed"} =>
    \A a \in RowsOf(s) :
      Booked({i \in DOMAIN movements : /\ movements[i].article = a
                                       /\ movements[i].source = Source("inventory", s)})
      = Difference(s, a)

(* The received quantity of an order line is what its receipts booked.     *)
ReceivedMatchesEntries ==
  \A x \in OrderLines :
    received[x] = Booked({i \in DOMAIN movements : movements[i].line = x})

(* An order is complete exactly when every line got what was ordered, and  *)
(* pending only while nothing was received on any line.                    *)
ReceivingStatusFaithful ==
  \A o \in Orders :
    /\ receiving[o] = "complete" <=>
         LinesOf(o) # {} /\ \A x \in LinesOf(o) : received[x] >= Lines[x].ordered
    /\ receiving[o] \in {"none", "pending"} => \A x \in LinesOf(o) : received[x] = 0

(* A line has a discrepancy exactly when it was over-received, and its     *)
(* newest one states the whole excess.                                     *)
DiscrepancyTracksExcess ==
  \A x \in OrderLines :
    LET found == {d \in DOMAIN discrepancies : discrepancies[d].line = x} IN
    /\ received[x] > Lines[x].ordered <=> found # {}
    /\ found # {} => discrepancies[Max(found)].difference = received[x] - Lines[x].ordered

(* What an order and its discrepancies say follows from what was received. *)
OrdersTellReceipts == ReceivingStatusFaithful /\ DiscrepancyTracksExcess

=============================================================================
