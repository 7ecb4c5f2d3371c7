------------------------- MODULE StockLedgerProofs -------------------------
(***************************************************************************)
(* Proofs about StockLedger, for every number of concurrent requests,      *)
(* article, location, order and workshop need.                             *)
(***************************************************************************)
EXTENDS StockLedger, FiniteSetTheorems, WellFoundedInduction, TLAPS

-----------------------------------------------------------------------------
(* Lemmas on the operators.                                                *)

(* A concatenation has the elements of both parts, in place.               *)
LEMMA ConcatIndex ==
  ASSUME NEW S, NEW a \in Seq(S), NEW b \in Seq(S)
  PROVE  /\ a \o b \in Seq(S)
         /\ Len(a \o b) = Len(a) + Len(b)
         /\ DOMAIN a = 1 .. Len(a) /\ DOMAIN b = 1 .. Len(b)
         /\ DOMAIN (a \o b) = 1 .. Len(a) + Len(b)
         /\ \A i \in DOMAIN a : i \in DOMAIN (a \o b) /\ (a \o b)[i] = a[i]
         /\ \A i \in DOMAIN b : /\ Len(a) + i \in DOMAIN (a \o b)
                                /\ (a \o b)[Len(a) + i] = b[i]
         /\ \A k \in DOMAIN (a \o b) :
              \/ k \in DOMAIN a /\ (a \o b)[k] = a[k]
              \/ /\ k - Len(a) \in DOMAIN b /\ k \notin DOMAIN a
                 /\ (a \o b)[k] = b[k - Len(a)]
  OBVIOUS

(* Committing well-typed cells over a well-typed column keeps its type.    *)
LEMMA OverlayType ==
  ASSUME NEW D, NEW V, NEW f \in [D -> V], NEW g, Partial(g, D, V)
  PROVE  Overlay(f, g) \in [D -> V]
  BY DEF Overlay, Partial

(* Only changed cells are written, hence no others.                        *)
LEMMA ChangedType ==
  ASSUME NEW D, NEW V, NEW new, NEW loaded, Partial(new, D, V)
  PROVE  Partial(Changed(new, loaded), D, V)
  BY DEF Changed, Partial

(* Every posting of a checked batch fits its quantity column.              *)
LEMMA MayPostAmounts ==
  ASSUME NEW batch, MayPostAll(batch)
  PROVE  \A i \in DOMAIN batch : batch[i].quantity \in Amounts
  BY DEF MayPostAll, MayPost

(* A query over finitely many ids returns a sequence of them.              *)
LEMMA OrderedRows ==
  ASSUME NEW ids, IsFiniteSet(ids), NEW f, f \in InIdOrder(ids) \/ f \in InAnyOrder(ids)
  PROVE  /\ Cardinality(ids) \in Nat
         /\ f \in [1 .. Cardinality(ids) -> ids]
         /\ f \in Seq(ids)
         /\ DOMAIN f = 1 .. Cardinality(ids)
  <1>1. Cardinality(ids) \in Nat
    BY FS_CardinalityType
  <1>2. f \in [1 .. Cardinality(ids) -> ids]
    BY DEF InIdOrder, InAnyOrder
  <1> QED
    BY <1>1, <1>2

-----------------------------------------------------------------------------
(* Sums.  The library's induction theorems take an operator; an induction  *)
(* over sets of numbers, which takes none, is enough here.                 *)

(* Induction on the numbers in a set.                                      *)
LEMMA Numbers ==
  ASSUME NEW T \in SUBSET Nat, 0 \in T, \A n \in T : n + 1 \in T
  PROVE  T = Nat
  <1> DEFINE R == OpToRel(<, Nat)
             Bad == Nat \ T
  <1>1. IsWellFoundedOn(R, Nat)
    BY NatLessThanWellFounded
  <1>2. SUFFICES ASSUME Bad # {} PROVE FALSE
    OBVIOUS
  <1>3. PICK x \in Bad : \A y \in Bad : ~(<<y, x>> \in R)
    <2> HIDE DEF R
    <2> QED BY <1>1, <1>2, WFMin
  <1>4. x \in Nat /\ x # 0 /\ x \notin T
    BY <1>3
  <1>5. x - 1 \in Nat /\ x - 1 < x
    BY <1>4
  <1>6. x - 1 \in T
    BY <1>3, <1>4, <1>5 DEF OpToRel
  <1>7. x - 1 + 1 \in T
    BY <1>6
  <1> QED BY <1>4, <1>7

(* Induction on the subsets of a finite set.                               *)
LEMMA Subsets ==
  ASSUME NEW S, IsFiniteSet(S), NEW T \in SUBSET SUBSET S, {} \in T,
         \A s \in SUBSET S : s # {} /\ (\A x \in s : s \ {x} \in T) => s \in T
  PROVE  T = SUBSET S
  <1> DEFINE N == {n \in Nat : \A s \in SUBSET S : Cardinality(s) <= n => s \in T}
  <1>1. \A s \in SUBSET S : IsFiniteSet(s) /\ Cardinality(s) \in Nat
    BY FS_Subset, FS_CardinalityType
  <1>2. 0 \in N
    <2>1. \A s \in SUBSET S : Cardinality(s) <= 0 => s = {}
      BY <1>1, FS_EmptySet
    <2> QED BY <2>1
  <1>3. ASSUME NEW n \in N PROVE n + 1 \in N
    <2>1. ASSUME NEW s \in SUBSET S, Cardinality(s) <= n + 1, s # {} PROVE s \in T
      <3>1. ASSUME NEW x \in s PROVE s \ {x} \in T
        <4>1. Cardinality(s \ {x}) = Cardinality(s) - 1
          BY <1>1, FS_RemoveElement
        <4> QED BY <1>1, <2>1, <4>1
      <3> QED BY <2>1, <3>1
    <2>2. \A s \in SUBSET S : Cardinality(s) <= n + 1 => s \in T
      BY <2>1
    <2> QED BY <2>2
  <1>4. N = Nat
    <2> HIDE DEF N
    <2>1. N \in SUBSET Nat
      BY DEF N
    <2> QED BY <1>2, <1>3, <2>1, Numbers
  <1> QED BY <1>1, <1>4

(* The definition of a sum.                                                *)
Pick(S) == CHOOSE x \in S : TRUE

Adds(f, S, g) ==
  g = [s \in SUBSET S |-> IF s = {} THEN 0 ELSE f[Pick(s)] + g[s \ {Pick(s)}]]

LEMMA SumIs ==
  ASSUME NEW f, NEW S
  PROVE  SumFunctionOnSet(f, S) = (CHOOSE g : Adds(f, S, g))[S]
  BY DEF SumFunctionOnSet, FoldFunctionOnSet, MapThenFoldSet, Adds, Pick

LEMMA PickIn == ASSUME NEW S, S # {} PROVE Pick(S) \in S
  BY DEF Pick

LEMMA SumExists ==
  ASSUME NEW f, NEW S, IsFiniteSet(S)
  PROVE  \E g : Adds(f, S, g)
  <1> DEFINE Small(n) == {s \in SUBSET S : Cardinality(s) <= n}
             Upto(n, g) == g = [s \in Small(n) |->
                                  IF s = {} THEN 0 ELSE f[Pick(s)] + g[s \ {Pick(s)}]]
             T == {n \in Nat : \E g : Upto(n, g)}
  <1>0. \A s \in SUBSET S : IsFiniteSet(s) /\ Cardinality(s) \in Nat
    BY FS_Subset, FS_CardinalityType
  <1>1. 0 \in T
    <2>1. \A s \in Small(0) : s = {}
      BY <1>0, FS_EmptySet
    <2>2. Upto(0, [s \in Small(0) |-> 0])
      BY <2>1
    <2> QED BY <2>2
  <1>2. ASSUME NEW n \in T PROVE n + 1 \in T
    <2>1. PICK g : Upto(n, g)
      OBVIOUS
    <2> DEFINE h == [s \in Small(n + 1) |-> IF s = {} THEN 0 ELSE f[Pick(s)] + g[s \ {Pick(s)}]]
    <2>2. ASSUME NEW s \in Small(n + 1), s # {}
          PROVE  h[s \ {Pick(s)}] = g[s \ {Pick(s)}]
      <3> DEFINE r == s \ {Pick(s)}
      <3>1. Pick(s) \in s
        BY <2>2, PickIn
      <3>2. Cardinality(r) = Cardinality(s) - 1
        BY <1>0, <3>1, FS_RemoveElement
      <3>3. r \in Small(n) /\ r \in Small(n + 1)
        BY <1>0, <3>2
      <3>4. h[r] = IF r = {} THEN 0 ELSE f[Pick(r)] + g[r \ {Pick(r)}]
        BY <3>3
      <3>5. g[r] = IF r = {} THEN 0 ELSE f[Pick(r)] + g[r \ {Pick(r)}]
        <4> HIDE DEF r
        <4> QED BY <2>1, <3>3
      <3> QED BY <3>4, <3>5
    <2>3. Upto(n + 1, h)
      BY <2>2
    <2>4. n + 1 \in Nat
      OBVIOUS
    <2> HIDE DEF h
    <2> QED BY <2>3, <2>4
  <1>3. T = Nat
    <2> HIDE DEF T
    <2>1. T \in SUBSET Nat
      BY DEF T
    <2> QED BY <1>1, <1>2, <2>1, Numbers
  <1>4. Cardinality(S) \in T
    BY <1>0, <1>3
  <1>5. PICK g : Upto(Cardinality(S), g)
    BY <1>4
  <1>6. Small(Cardinality(S)) = SUBSET S
    BY FS_Subset
  <1> QED BY <1>5, <1>6 DEF Adds

LEMMA SumUnique ==
  ASSUME NEW f, NEW S, IsFiniteSet(S), NEW g, Adds(f, S, g), NEW Q \in SUBSET S, NEW h, Adds(f, Q, h)
  PROVE  \A s \in SUBSET Q : g[s] = h[s]
  <1> DEFINE T == {s \in SUBSET Q : g[s] = h[s]}
  <1>1. {} \in T
    BY DEF Adds
  <1>2. ASSUME NEW s \in SUBSET Q, s # {}, \A x \in s : s \ {x} \in T
        PROVE  s \in T
    <2>1. Pick(s) \in s
      BY <1>2, PickIn
    <2>2. g[s] = f[Pick(s)] + g[s \ {Pick(s)}] /\ h[s] = f[Pick(s)] + h[s \ {Pick(s)}]
      BY <1>2 DEF Adds
    <2> QED BY <1>2, <2>1, <2>2
  <1>3. IsFiniteSet(Q)
    BY FS_Subset
  <1> HIDE DEF T
  <1>4. T \in SUBSET SUBSET Q
    BY DEF T
  <1>5. T = SUBSET Q
    BY <1>1, <1>2, <1>3, <1>4, Subsets
  <1> QED BY <1>5 DEF T

(* A sum takes one element after another.                                  *)
LEMMA SumStep ==
  ASSUME NEW f, NEW S, IsFiniteSet(S)
  PROVE  SumFunctionOnSet(f, S) =
           IF S = {} THEN 0
           ELSE f[Pick(S)] + SumFunctionOnSet(f, S \ {Pick(S)})
  <1> DEFINE Q == S \ {Pick(S)}
             g == CHOOSE x : Adds(f, S, x)
             h == CHOOSE x : Adds(f, Q, x)
  <1>1. IsFiniteSet(Q) /\ Q \in SUBSET S
    BY FS_RemoveElement
  <1>2. Adds(f, S, g) /\ Adds(f, Q, h)
    BY <1>1, SumExists
  <1>3. SumFunctionOnSet(f, S) = g[S] /\ SumFunctionOnSet(f, Q) = h[Q]
    BY SumIs
  <1> HIDE DEF g, h
  <1>4. g[Q] = h[Q]
    <2> HIDE DEF Q
    <2> QED BY <1>1, <1>2, SumUnique
  <1>5. g[S] = IF S = {} THEN 0 ELSE f[Pick(S)] + g[Q]
    BY <1>2 DEF Adds
  <1> QED BY <1>3, <1>4, <1>5

LEMMA SumNone ==
  ASSUME NEW f PROVE SumFunctionOnSet(f, {}) = 0
  BY SumStep, FS_EmptySet

(* Sums of integers are integers.                                          *)
LEMMA SumType ==
  ASSUME NEW f, NEW S, IsFiniteSet(S), \A x \in S : f[x] \in Int
  PROVE  SumFunctionOnSet(f, S) \in Int
  <1> DEFINE T == {s \in SUBSET S : SumFunctionOnSet(f, s) \in Int}
  <1>1. {} \in T
    BY SumNone
  <1>2. ASSUME NEW s \in SUBSET S, s # {}, \A x \in s : s \ {x} \in T
        PROVE  s \in T
    <2>1. Pick(s) \in s /\ IsFiniteSet(s)
      BY <1>2, PickIn, FS_Subset
    <2>2. SumFunctionOnSet(f, s) = f[Pick(s)] + SumFunctionOnSet(f, s \ {Pick(s)})
      BY <1>2, <2>1, SumStep
    <2> QED BY <1>2, <2>1, <2>2
  <1> HIDE DEF T
  <1>3. T \in SUBSET SUBSET S
    BY DEF T
  <1>4. T = SUBSET S
    BY <1>1, <1>2, <1>3, Subsets
  <1> QED BY <1>4 DEF T

(* Whichever element is taken first.                                       *)
LEMMA SumTakes ==
  ASSUME NEW f, NEW S, IsFiniteSet(S), \A x \in S : f[x] \in Int, NEW x \in S
  PROVE  SumFunctionOnSet(f, S) = f[x] + SumFunctionOnSet(f, S \ {x})
  <1> DEFINE Takes(s) == \A y \in s :
               SumFunctionOnSet(f, s) = f[y] + SumFunctionOnSet(f, s \ {y})
             T == {s \in SUBSET S : Takes(s)}
  <1>1. {} \in T
    OBVIOUS
  <1>2. ASSUME NEW s \in SUBSET S, s # {}, \A z \in s : s \ {z} \in T, NEW y \in s
        PROVE  SumFunctionOnSet(f, s) = f[y] + SumFunctionOnSet(f, s \ {y})
    <2>0. \A q \in SUBSET S : IsFiniteSet(q) /\ SumFunctionOnSet(f, q) \in Int
      BY FS_Subset, SumType
    <2>1. PICK p \in s : SumFunctionOnSet(f, s) = f[p] + SumFunctionOnSet(f, s \ {p})
      <3>1. Pick(s) \in s
        BY <1>2, PickIn
      <3>2. SumFunctionOnSet(f, s) = f[Pick(s)] + SumFunctionOnSet(f, s \ {Pick(s)})
        BY <1>2, <2>0, SumStep
      <3> QED BY <3>1, <3>2
    <2>2. CASE y = p
      BY <2>1, <2>2
    <2>3. CASE y # p
      <3> DEFINE q == (s \ {p}) \ {y}
      <3>1. q = (s \ {y}) \ {p} /\ q \in SUBSET S /\ p \in s \ {y} /\ y \in s \ {p}
        BY <2>1, <2>3
      <3>2. SumFunctionOnSet(f, s \ {p}) = f[y] + SumFunctionOnSet(f, q)
        BY <1>2, <2>1, <3>1
      <3>3. SumFunctionOnSet(f, s \ {y}) = f[p] + SumFunctionOnSet(f, q)
        BY <1>2, <2>1, <3>1
      <3> HIDE DEF q
      <3>4. f[y] \in Int /\ f[p] \in Int
        BY <1>2, <2>1
      <3>5. SumFunctionOnSet(f, q) \in Int
        BY <2>0, <3>1
      <3> QED BY <2>1, <3>2, <3>3, <3>4, <3>5
    <2> QED BY <2>2, <2>3
  <1>3. ASSUME NEW s \in SUBSET S, s # {}, \A z \in s : s \ {z} \in T
        PROVE  s \in T
    BY <1>2, <1>3
  <1> HIDE DEF T
  <1>4. T \in SUBSET SUBSET S
    BY DEF T
  <1>5. T = SUBSET S
    BY <1>1, <1>3, <1>4, Subsets
  <1>6. S \in T
    BY <1>5
  <1> QED BY <1>6 DEF T

(* A sum depends on its own terms only.                                    *)
LEMMA SumSame ==
  ASSUME NEW f, NEW g, NEW S, IsFiniteSet(S), \A x \in S : f[x] = g[x]
  PROVE  SumFunctionOnSet(f, S) = SumFunctionOnSet(g, S)
  <1> DEFINE T == {s \in SUBSET S : SumFunctionOnSet(f, s) = SumFunctionOnSet(g, s)}
  <1>1. {} \in T
    BY SumNone
  <1>2. ASSUME NEW s \in SUBSET S, s # {}, \A x \in s : s \ {x} \in T
        PROVE  s \in T
    <2>1. Pick(s) \in s /\ IsFiniteSet(s)
      BY <1>2, PickIn, FS_Subset
    <2>2. /\ SumFunctionOnSet(f, s) = f[Pick(s)] + SumFunctionOnSet(f, s \ {Pick(s)})
          /\ SumFunctionOnSet(g, s) = g[Pick(s)] + SumFunctionOnSet(g, s \ {Pick(s)})
      BY <1>2, <2>1, SumStep
    <2> QED BY <1>2, <2>1, <2>2
  <1> HIDE DEF T
  <1>3. T \in SUBSET SUBSET S
    BY DEF T
  <1>4. T = SUBSET S
    BY <1>1, <1>2, <1>3, Subsets
  <1> QED BY <1>4 DEF T

(* Terms that cancel in pairs do not count.                                *)
LEMMA SumCancels ==
  ASSUME NEW f, NEW S, IsFiniteSet(S), \A x \in S : f[x] \in Int,
         NEW R \in SUBSET S, NEW r, \A x \in R : r[x] \in S \ R /\ f[r[x]] = -f[x],
         \A x, y \in R : r[x] = r[y] => x = y
  PROVE  SumFunctionOnSet(f, S) = SumFunctionOnSet(f, S \ (R \cup {r[x] : x \in R}))
  <1> DEFINE Rest(Q) == S \ (Q \cup {r[x] : x \in Q})
             T == {Q \in SUBSET R : SumFunctionOnSet(f, S) = SumFunctionOnSet(f, Rest(Q))}
  <1>1. {} \in T
    <2>1. Rest({}) = S
      OBVIOUS
    <2> QED BY <2>1
  <1>2. ASSUME NEW Q \in SUBSET R, Q # {}, \A x \in Q : Q \ {x} \in T
        PROVE  Q \in T
    <2>1. PICK x \in Q : TRUE
      BY <1>2
    <2> DEFINE s == Rest(Q \ {x})
               q == (s \ {x}) \ {r[x]}
    <2>2. SumFunctionOnSet(f, S) = SumFunctionOnSet(f, s)
      BY <1>2, <2>1
    <2>3. x \in R /\ r[x] \in S \ R /\ f[r[x]] = -f[x] /\ f[x] \in Int
      BY <2>1
    <2>4. x \in s
      BY <2>1, <2>3
    <2>5. r[x] \in s \ {x}
      BY <2>1, <2>3
    <2>6. q = Rest(Q)
      BY <2>1, <2>3
    <2>7. s \in SUBSET S /\ s \ {x} \in SUBSET S /\ q \in SUBSET S
      OBVIOUS
    <2>8. \A z \in SUBSET S : IsFiniteSet(z) /\ SumFunctionOnSet(f, z) \in Int
      BY FS_Subset, SumType
    <2> HIDE DEF s
    <2>9. SumFunctionOnSet(f, s) = f[x] + SumFunctionOnSet(f, s \ {x})
      BY <2>4, <2>7, <2>8, SumTakes
    <2>10. SumFunctionOnSet(f, s \ {x}) = f[r[x]] + SumFunctionOnSet(f, q)
      BY <2>5, <2>7, <2>8, SumTakes
    <2> HIDE DEF q
    <2>11. SumFunctionOnSet(f, q) \in Int
      BY <2>7, <2>8
    <2>12. SumFunctionOnSet(f, S) = SumFunctionOnSet(f, q)
      BY <2>2, <2>3, <2>9, <2>10, <2>11
    <2> QED BY <2>6, <2>12
  <1>3. IsFiniteSet(R)
    BY FS_Subset
  <1> HIDE DEF T
  <1>4. T \in SUBSET SUBSET R
    BY DEF T
  <1>5. T = SUBSET R
    BY <1>1, <1>2, <1>3, <1>4, Subsets
  <1>6. R \in T
    BY <1>5
  <1> QED BY <1>6 DEF T

-----------------------------------------------------------------------------
(* The inductive invariant: first steps and aborts.                        *)

(* A request may begin with well-typed and sound writes, if the needs it   *)
(* locks are free: it leaves the committed rows alone.                     *)
LEMMA BeginKeeps ==
  ASSUME IndInv, NEW w \in Workers, NEW t, TxOK(t), SoundTx(t),
         \A v \in Workers : tx[v].locked \cap t.locked = {},
         tx' = [tx EXCEPT ![w] = t], UNCHANGED db
  PROVE  IndInv'
  <1> USE DEF db
  <1>1. TypeOK'
    BY DEF IndInv, TypeOK, TxOK, Partial
  <1>2. ReversedAtMostOnce' /\ NeedDeliveredOnce'
    BY DEF IndInv, ReversedAtMostOnce, NeedDeliveredOnce
  <1>3. \A v \in Workers : tx'[v] = IF v = w THEN t ELSE tx[v]
    BY DEF IndInv, TypeOK
  <1>4. \A v \in Workers : SoundTx(tx'[v])
    BY <1>3 DEF IndInv, PendingSound
  <1>5. (\A v \in Workers : SoundTx(tx[v]))'
    BY <1>4 DEF SoundTx, Tagged, PendingReversal, DistinctPostings, PendingReceipt, PendingNeed
  <1>6. PendingSound'
    BY <1>3, <1>5 DEF IndInv, PendingSound, Tagged
  <1> QED
    BY <1>1, <1>2, <1>6 DEF IndInv

(* Writes without postings, locks or needs are sound.                      *)
LEMMA QuietIsSound ==
  ASSUME NEW t, t.movements = <<>>, t.locked = {}, t.need = <<>>
  PROVE  SoundTx(t)
  BY DEF SoundTx, Tagged, PendingReversal, DistinctPostings, PendingReceipt, PendingNeed

(* A batch that books neither receipt nor need nor reversal is sound.      *)
LEMMA PlainIsSound ==
  ASSUME NEW t, t.locked = {}, t.need = <<>>,
         \A i \in DOMAIN t.movements :
           /\ t.movements[i].type # "reversal" /\ t.movements[i].reverses = None
           /\ t.movements[i].source.type \notin {"receipt", "need"}
  PROVE  SoundTx(t)
  BY DEF SoundTx, Tagged, IsReversal, PendingReversal, DistinctPostings, PendingReceipt,
         PendingNeed

LEMMA AbortKeeps ==
  ASSUME IndInv, NEW w \in Workers, Abort(w)
  PROVE  IndInv'
  <1>1. TxOK(Nothing)
    BY DEF TxOK, Nothing, Partial
  <1>2. SoundTx(Nothing)
    BY QuietIsSound DEF Nothing
  <1>3. \A v \in Workers : tx[v].locked \cap Nothing.locked = {}
    BY DEF Nothing
  <1> QED
    BY <1>1, <1>2, <1>3, BeginKeeps DEF Abort

(* The steps that write cells only.                                        *)
LEMMA CellStepsKeep ==
  ASSUME IndInv, NEW w \in Workers,
         \/ CreateOrder(w) \/ CreateInventory(w) \/ SaveCounts(w) \/ CancelInventory(w)
         \/ ArchiveInventory(w) \/ UpdateArticle(w)
  PROVE  IndInv'
  <1>1. ASSUME NEW t, Begin(w, t), TxOK(t), t.movements = <<>>, t.locked = {}, t.need = <<>>
        PROVE  IndInv'
    <2>1. SoundTx(t)
      BY <1>1, QuietIsSound
    <2> QED
      BY <1>1, <2>1, BeginKeeps DEF Begin
  <1>2. CASE CreateOrder(w)
    <2> DEFINE o == Cardinality({x \in Orders : receiving[x] # "none"}) + 1
               f == [x \in {o} |-> "pending"]
               t == [Nothing EXCEPT !.receiving = f]
    <2>1. Begin(w, t) /\ Partial(f, Orders, ReceivingStatus)
      BY <1>2 DEF CreateOrder, Partial, ReceivingStatus
    <2> HIDE DEF f
    <2>2. TxOK(t) /\ t.movements = <<>> /\ t.locked = {} /\ t.need = <<>>
      BY <2>1 DEF Nothing, TxOK, Partial
    <2> QED
      BY <1>1, <2>1, <2>2
  <1>3. CASE CreateInventory(w)
    <2>1. PICK s \in Sessions, l \in Locations, scope \in SUBSET Articles \ {{}} :
            LET expected == [r \in {s} \X scope |-> Balance(movements, r[2], l)] IN
            /\ \A r \in DOMAIN expected : expected[r] \in Amounts
            /\ Begin(w, [Nothing EXCEPT !.status = [x \in {s} |-> "draft"],
                                        !.location = [x \in {s} |-> l],
                                        !.snapshot = expected])
      BY <1>3 DEF CreateInventory
    <2> DEFINE e == [r \in {s} \X scope |-> Balance(movements, r[2], l)]
               f == [x \in {s} |-> "draft"]
               g == [x \in {s} |-> l]
               t == [Nothing EXCEPT !.status = f, !.location = g, !.snapshot = e]
    <2>2. /\ Begin(w, t) /\ Partial(e, Rows, Amounts)
          /\ Partial(f, Sessions, SessionStatus) /\ Partial(g, Sessions, Locations)
      BY <2>1 DEF Partial, SessionStatus, Rows
    <2> HIDE DEF e, f, g
    <2>3. TxOK(t) /\ t.movements = <<>> /\ t.locked = {} /\ t.need = <<>>
      BY <2>2 DEF Nothing, TxOK, Partial
    <2> QED
      BY <1>1, <2>2, <2>3
  <1>4. CASE SaveCounts(w)
    <2>0. PICK s \in Sessions, close \in BOOLEAN :
            \E entered \in UNION {[{s} \X scope -> Counts] : scope \in SUBSET RowsOf(s)} :
              Begin(w, [Nothing EXCEPT
                !.counted = Changed(entered, counted),
                !.status = Changed([x \in {s} |-> IF close THEN "review" ELSE "counting"],
                                   status)])
      BY <1>4 DEF SaveCounts
    <2>1. PICK entered \in UNION {[{s} \X scope -> Counts] : scope \in SUBSET RowsOf(s)} :
            Begin(w, [Nothing EXCEPT
              !.counted = Changed(entered, counted),
              !.status = Changed([x \in {s} |-> IF close THEN "review" ELSE "counting"], status)])
      BY <2>0
    <2> DEFINE e == Changed(entered, counted)
               f == Changed([x \in {s} |-> IF close THEN "review" ELSE "counting"], status)
               t == [Nothing EXCEPT !.counted = e, !.status = f]
    <2>2. Partial(e, Rows, Counts)
      <3>1. Partial(entered, Rows, Counts)
        <4>1. PICK scope \in SUBSET RowsOf(s) : entered \in [{s} \X scope -> Counts]
          OBVIOUS
        <4>2. {s} \X scope \subseteq Rows
          BY DEF Rows, RowsOf
        <4> QED
          BY <4>1, <4>2 DEF Partial
      <3> QED
        BY <3>1, ChangedType
    <2>3. Partial(f, Sessions, SessionStatus)
      <3>1. Partial([x \in {s} |-> IF close THEN "review" ELSE "counting"],
                    Sessions, SessionStatus)
        BY DEF Partial, SessionStatus
      <3> QED
        BY <3>1, ChangedType
    <2>4. Begin(w, t)
      BY <2>1
    <2> HIDE DEF e, f
    <2>5. TxOK(t) /\ t.movements = <<>> /\ t.locked = {} /\ t.need = <<>>
      BY <2>2, <2>3 DEF Nothing, TxOK, Partial
    <2> QED
      BY <1>1, <2>4, <2>5
  <1>5. CASE CancelInventory(w) \/ ArchiveInventory(w)
    <2>1. PICK s \in Sessions, z \in SessionStatus :
            Begin(w, [Nothing EXCEPT !.status = [x \in {s} |-> z]])
      BY <1>5 DEF CancelInventory, ArchiveInventory, SessionStatus
    <2> DEFINE f == [x \in {s} |-> z]
               t == [Nothing EXCEPT !.status = f]
    <2>2. Begin(w, t) /\ Partial(f, Sessions, SessionStatus)
      BY <2>1 DEF Partial
    <2> HIDE DEF f
    <2>3. TxOK(t) /\ t.movements = <<>> /\ t.locked = {} /\ t.need = <<>>
      BY <2>2 DEF Nothing, TxOK, Partial
    <2> QED
      BY <1>1, <2>2, <2>3
  <1>6. CASE UpdateArticle(w)
    <2>1. PICK a \in Retirable : Begin(w, [Nothing EXCEPT !.active = [x \in {a} |-> ~active[a]]])
      BY <1>6 DEF UpdateArticle
    <2> DEFINE f == [x \in {a} |-> ~active[a]]
               t == [Nothing EXCEPT !.active = f]
    <2>2. Begin(w, t)
      BY <2>1
    <2>3. Partial(f, Articles, BOOLEAN)
      BY InputsAssumption, Zenon DEF Partial, Articles
    <2> HIDE DEF f
    <2>4. TxOK(t) /\ t.movements = <<>> /\ t.locked = {} /\ t.need = <<>>
      BY <2>3 DEF Nothing, TxOK, Partial
    <2> QED
      BY <1>1, <2>2, <2>4
  <1> QED
    BY <1>2, <1>3, <1>4, <1>5, <1>6

(* The steps that post plain movements.                                    *)
LEMMA PlainStepsKeep ==
  ASSUME IndInv, NEW w \in Workers,
         PostMovement(w) \/ ConfirmInventory(w) \/ RegularizeDiscrepancy(w)
  PROVE  IndInv'
  <1>1. ASSUME NEW t, Begin(w, t), TxOK(t), t.locked = {}, t.need = <<>>,
               \A i \in DOMAIN t.movements :
                 /\ t.movements[i].type # "reversal" /\ t.movements[i].reverses = None
                 /\ t.movements[i].source.type \notin {"receipt", "need"}
        PROVE  IndInv'
    <2>1. SoundTx(t)
      BY <1>1, PlainIsSound
    <2> QED
      BY <1>1, <2>1, BeginKeeps DEF Begin
  <1>2. CASE PostMovement(w)
    <2>1. PICK a \in Articles, type \in ManualTypes, q \in Quantities, sign \in {1, -1},
               from \in Locations \cup {None}, to \in Locations \cup {None} :
            LET m == Posting(a, type, sign * q, from, to, Source("manual", None)) IN
            /\ type # "adjustment" => sign = 1
            /\ LocationsMatchType(type, from, to)
            /\ MayPostAll(<<m>>)
            /\ Begin(w, [Nothing EXCEPT !.movements = <<m>>])
      BY <1>2, Zenon DEF PostMovement
    <2> DEFINE m == Posting(a, type, sign * q, from, to, Source("manual", None))
               t == [Nothing EXCEPT !.movements = <<m>>]
    <2>2. m.quantity \in Amounts
      <3>1. <<m>>[1].quantity \in Amounts
        BY <2>1, MayPostAmounts
      <3> QED
        BY <3>1
    <2>3. /\ m \in Movement
          /\ m.type # "reversal" /\ m.reverses = None /\ m.source.type = "manual"
      BY <2>2, InputsAssumption
         DEF Posting, Source, Movement, MovementTypes, SourceTypes, SourceIds
    <2>4. Begin(w, t)
      BY <2>1
    <2> HIDE DEF m
    <2>5. TxOK(t) /\ t.movements = <<m>> /\ t.locked = {} /\ t.need = <<>>
      BY <2>3 DEF Nothing, TxOK, Partial
    <2> HIDE DEF t
    <2>6. \A i \in DOMAIN t.movements : t.movements[i] = m
      BY <2>5
    <2> QED
      BY <1>1, <2>3, <2>4, <2>5, <2>6
  <1>3. CASE ConfirmInventory(w)
    <2>1. PICK s \in Sessions :
            \E rows \in InIdOrder(Unadjusted(s)) :
              LET batch == [i \in DOMAIN rows |->
                    Adjustment(rows[i], Difference(s, rows[i]), location[s],
                               Source("inventory", s))] IN
              MayPostAll(batch) /\ Begin(w, Confirmation(s, batch))
      BY <1>3 DEF ConfirmInventory
    <2>2. PICK rows \in InIdOrder(Unadjusted(s)) :
            LET batch == [i \in DOMAIN rows |->
                  Adjustment(rows[i], Difference(s, rows[i]), location[s],
                             Source("inventory", s))] IN
            MayPostAll(batch) /\ Begin(w, Confirmation(s, batch))
      BY <2>1
    <2> DEFINE batch == [i \in DOMAIN rows |->
                  Adjustment(rows[i], Difference(s, rows[i]), location[s],
                             Source("inventory", s))]
               f == [r \in {s} \X Unadjusted(s) |-> TRUE]
               g == [x \in {s} |-> "completed"]
               t == [Nothing EXCEPT !.movements = batch, !.adjusted = f, !.status = g]
    <2>3. /\ Cardinality(Unadjusted(s)) \in Nat
          /\ rows \in [1 .. Cardinality(Unadjusted(s)) -> Unadjusted(s)]
      <3>1. IsFiniteSet(Articles)
        BY FS_Interval, NumAssumption DEF Articles
      <3>2. IsFiniteSet(Unadjusted(s))
        BY <3>1, FS_Subset DEF Unadjusted, RowsOf
      <3> QED
        BY <3>2, OrderedRows
    <2>4. \A i \in DOMAIN batch :
            /\ batch[i] \in Movement
            /\ batch[i].type # "reversal" /\ batch[i].reverses = None
            /\ batch[i].source.type = "inventory"
      <3>1. \A i \in DOMAIN batch : batch[i].quantity \in Amounts
        BY <2>2, MayPostAmounts
      <3>2. \A i \in DOMAIN rows : rows[i] \in Articles
        BY <2>3 DEF Unadjusted, RowsOf
      <3>3. location[s] \in Locations \cup {None}
        BY DEF IndInv, TypeOK
      <3> QED
        BY <3>1, <3>2, <3>3
           DEF Adjustment, Posting, Source, Movement, MovementTypes, SourceTypes, SourceIds
    <2>5. batch \in Seq(Movement)
      BY <2>3, <2>4
    <2>6. Partial(f, Rows, BOOLEAN) /\ Partial(g, Sessions, SessionStatus)
      BY DEF Partial, Rows, SessionStatus, Unadjusted, RowsOf
    <2>7. Begin(w, t)
      BY <2>2 DEF Confirmation
    <2> HIDE DEF batch, f, g
    <2>8. TxOK(t) /\ t.movements = batch /\ t.locked = {} /\ t.need = <<>>
      BY <2>5, <2>6 DEF Nothing, TxOK, Partial
    <2> QED
      BY <1>1, <2>4, <2>7, <2>8
  <1>4. CASE RegularizeDiscrepancy(w)
    <2>1. PICK d \in DOMAIN discrepancies, q \in Quantities, sign \in {1, -1} :
            LET batch == <<Adjustment(discrepancies[d].article, sign * q,
                                      discrepancies[d].location, Source("discrepancy", d))>> IN
            /\ MayPostAll(batch)
            /\ Begin(w, [Nothing EXCEPT !.movements = batch, !.regularized = {d}])
      BY <1>4 DEF RegularizeDiscrepancy
    <2> DEFINE m == Adjustment(discrepancies[d].article, sign * q, discrepancies[d].location,
                               Source("discrepancy", d))
               t == [Nothing EXCEPT !.movements = <<m>>, !.regularized = {d}]
    <2>2. m.quantity \in Amounts
      <3>1. <<m>>[1].quantity \in Amounts
        BY <2>1, MayPostAmounts
      <3> QED
        BY <3>1
    <2>3. discrepancies[d] \in Discrepancy /\ d \in Nat
      BY DEF IndInv, TypeOK
    <2>4. /\ m \in Movement
          /\ m.type # "reversal" /\ m.reverses = None /\ m.source.type = "discrepancy"
      BY <2>2, <2>3 DEF Adjustment, Posting, Source, Discrepancy, Movement, MovementTypes,
                        SourceTypes, SourceIds
    <2>5. Begin(w, t)
      BY <2>1
    <2> HIDE DEF m
    <2>6. TxOK(t) /\ t.movements = <<m>> /\ t.locked = {} /\ t.need = <<>>
      BY <2>4 DEF Nothing, TxOK, Partial
    <2> HIDE DEF t
    <2>7. \A i \in DOMAIN t.movements : t.movements[i] = m
      BY <2>6
    <2> QED
      BY <1>1, <2>4, <2>5, <2>6, <2>7
  <1> QED
    BY <1>2, <1>3, <1>4

LEMMA ReverseKeeps ==
  ASSUME IndInv, NEW w \in Workers, Reverse(w)
  PROVE  IndInv'
  <1>1. PICK i \in DOMAIN movements :
          /\ ~IsReversal(movements[i])
          /\ Begin(w, [Nothing EXCEPT !.movements =
                  <<[movements[i] EXCEPT !.type = "reversal", !.reverses = i, !.line = None,
                                         !.source = Source("manual", None)]>>])
    BY DEF Reverse, Reversible
  <1> DEFINE m == [movements[i] EXCEPT !.type = "reversal", !.reverses = i, !.line = None,
                                       !.source = Source("manual", None)]
             t == [Nothing EXCEPT !.movements = <<m>>]
  <1>2. movements[i] \in Movement /\ i \in Nat
    BY DEF IndInv, TypeOK
  <1>3. /\ m \in Movement /\ m.type = "reversal" /\ m.reverses = i
        /\ m.source.type = "manual"
    BY <1>2 DEF Movement, MovementTypes, Source, SourceTypes, SourceIds
  <1>4. Begin(w, t)
    BY <1>1
  <1> HIDE DEF m
  <1>5. TxOK(t) /\ t.movements = <<m>> /\ t.locked = {} /\ t.need = <<>>
    BY <1>3 DEF Nothing, TxOK, Partial
  <1>6. i # None
    BY <1>2, NoneAssumption
  <1>7. SoundTx(t)
    BY <1>1, <1>3, <1>5, <1>6 DEF SoundTx, Tagged, IsReversal, PendingReversal,
                                  DistinctPostings, PendingReceipt, PendingNeed
  <1> QED
    BY <1>4, <1>5, <1>7, BeginKeeps DEF Begin

(* The columns of a receipt line.                                          *)
LEMMA ReceiptLineType ==
  ASSUME NEW item \in ReceiptLine
  PROVE  /\ item.article \in Articles /\ item.line \in OrderLines \cup {None}
         /\ item.quantity \in Amounts /\ item.quantity \in Int
  <1>1. item.article \in Articles /\ item.line \in OrderLines \cup {None}
    BY DEF ReceiptLine
  <1>2. item.quantity \in Quantities
    BY DEF ReceiptLine
  <1>3. item.quantity \in 1 .. MaxAmount
    BY <1>2, AmountAssumption
  <1> QED
    BY <1>1, <1>3, NumAssumption DEF Amounts

(* An excess fits the column that holds the quantity it is part of.        *)
LEMMA ExcessFits ==
  ASSUME NEW m \in Nat, NEW r \in Int, NEW q \in Int, NEW d \in 1 .. m,
         r + q \in -m .. m, q > d - r
  PROVE  q - (d - r) \in -m .. m
  OBVIOUS

(* The quantities a valid receipt writes are those of its own lines.       *)
LEMMA ReceiptWrites ==
  ASSUME IndInv, NEW o, NEW l \in Locations, NEW n \in Nat, NEW items \in [1 .. n -> ReceiptLine],
         ValidReceipt(o, l, items),
         \A x \in DOMAIN ReceivedWith(items) : ReceivedWith(items)[x] \in Amounts
  PROVE  /\ Partial(ReceivedWith(items), OrderLines, Amounts)
         /\ \A i \in Excessive(items) : ExcessOf(items[i], l) \in Discrepancy
  <1>1. \A i \in DOMAIN items : items[i].line \in OrderLines \cup {None}
    BY DEF ReceiptLine
  <1>2. Partial(ReceivedWith(items), OrderLines, Amounts)
    <2>1. DOMAIN ReceivedWith(items) = {items[i].line : i \in DOMAIN items} \ {None}
      BY DEF ReceivedWith
    <2> QED
      BY <1>1, <2>1 DEF Partial
  <1>3. ASSUME NEW i \in Excessive(items)
        PROVE  ExcessOf(items[i], l) \in Discrepancy
    <2> DEFINE x == items[i].line
               j == CHOOSE k \in DOMAIN items : items[k].line = x
    <2>1. i \in DOMAIN items /\ x \in OrderLines /\ x # None
      BY <1>1, <1>3 DEF Excessive
    <2>2. j \in DOMAIN items /\ items[j].line = x
      BY <2>1
    <2>3. items[i].article = Lines[x].article /\ items[j].article = Lines[x].article
      BY <2>1, <2>2 DEF ValidReceipt
    <2>4. j = i
      BY <2>1, <2>2, <2>3 DEF ValidReceipt
    <2>5. x \in DOMAIN ReceivedWith(items) /\ ReceivedWith(items)[x] = received[x] + items[i].quantity
      BY <2>1, <2>4 DEF ReceivedWith
    <2>6. received[x] + items[i].quantity \in Amounts
      BY <2>5
    <2>7. received[x] \in Int /\ items[i].quantity \in Int /\ Lines[x].ordered \in 1 .. MaxAmount
      <3>1. received[x] \in Int
        BY <2>1, NumAssumption DEF IndInv, TypeOK, Amounts
      <3>2. items[i] \in ReceiptLine
        BY <2>1
      <3>3. items[i].quantity \in Int
        BY <3>2, ReceiptLineType
      <3>4. Lines[x].ordered \in 1 .. MaxAmount
        BY <2>1, LinesAssumption, AmountAssumption
      <3> QED
        BY <3>1, <3>3, <3>4
    <2>8. items[i].quantity > Lines[x].ordered - received[x]
      BY <1>3 DEF Excessive
    <2>9. items[i].quantity - (Lines[x].ordered - received[x]) \in Amounts
      BY <2>6, <2>7, <2>8, NumAssumption, ExcessFits DEF Amounts
    <2>10. items[i].article \in Articles
      BY <2>1 DEF ReceiptLine
    <2> QED
      BY <2>1, <2>9, <2>10 DEF ExcessOf, Discrepancy
  <1> QED
    BY <1>2, <1>3

LEMMA ReceiveKeeps ==
  ASSUME IndInv, NEW w \in Workers, Receive(w)
  PROVE  IndInv'
  <1>1. PICK key \in Keys \cup {None}, l \in Locations, o \in Orders \cup {None},
             n \in 1 .. MaxReceiptLines :
          \E items \in [1 .. n -> ReceiptLine] :
            /\ ValidReceipt(o, l, items)
            /\ \A x \in DOMAIN ReceivedWith(items) : ReceivedWith(items)[x] \in Amounts
            /\ \E excess \in InIdOrder(Excessive(items)) :
                 Begin(w, Receipt(key, l, o, items, excess))
    BY DEF Receive
  <1>2. PICK items \in [1 .. n -> ReceiptLine] :
          /\ ValidReceipt(o, l, items)
          /\ \A x \in DOMAIN ReceivedWith(items) : ReceivedWith(items)[x] \in Amounts
          /\ \E excess \in InIdOrder(Excessive(items)) :
               Begin(w, Receipt(key, l, o, items, excess))
    BY <1>1
  <1>3. PICK excess \in InIdOrder(Excessive(items)) :
          Begin(w, Receipt(key, l, o, items, excess))
    BY <1>2
  <1> DEFINE taken == ReceivedWith(items)
             batch == [i \in DOMAIN items |->
                  [Posting(items[i].article, "entry", items[i].quantity, None, l,
                           ReceiptSource(key)) EXCEPT !.line = items[i].line]]
             rcv == Changed([x \in {o} \ {None} |-> ReceivingAfter(x, taken)], receiving)
             keys == {key} \ {None}
             found == [k \in DOMAIN excess |-> ExcessOf(items[excess[k]], l)]
             t == [Nothing EXCEPT !.keys = keys, !.movements = batch, !.received = taken,
                                  !.discrepancies = found, !.receiving = rcv]
  <1>4. n \in Nat
    BY NumAssumption
  <1>5. /\ Partial(taken, OrderLines, Amounts)
        /\ \A i \in Excessive(items) : ExcessOf(items[i], l) \in Discrepancy
    BY <1>2, <1>4, ReceiptWrites
  <1>6. found \in Seq(Discrepancy)
    <2>1. IsFiniteSet(1 .. n)
      BY <1>4, FS_Interval
    <2>2. IsFiniteSet(Excessive(items))
      BY <2>1, FS_Subset DEF Excessive
    <2>3. excess \in Seq(Excessive(items))
      BY <2>2, OrderedRows
    <2> QED
      BY <1>5, <2>3
  <1>7. \A i \in 1 .. n :
          /\ batch[i] \in Movement /\ batch[i].article = items[i].article
          /\ batch[i].type # "reversal" /\ batch[i].reverses = None
          /\ batch[i].source = ReceiptSource(key)
    <2> SUFFICES ASSUME NEW i \in 1 .. n
                 PROVE  /\ batch[i] \in Movement /\ batch[i].article = items[i].article
                        /\ batch[i].type # "reversal" /\ batch[i].reverses = None
                        /\ batch[i].source = ReceiptSource(key)
      OBVIOUS
    <2>1. /\ items[i].article \in Articles /\ items[i].quantity \in Amounts
          /\ items[i].line \in OrderLines \cup {None}
      <3>1. items[i] \in ReceiptLine
        OBVIOUS
      <3> QED
        BY <3>1, ReceiptLineType
    <2>2. ReceiptSource(key) \in [type : SourceTypes, id : SourceIds]
      BY DEF ReceiptSource, Source, SourceTypes, SourceIds
    <2> QED
      BY <2>1, <2>2 DEF Posting, Movement, MovementTypes
  <1>8. batch \in Seq(Movement)
    BY <1>4, <1>7
  <1>9. Partial(rcv, Orders, ReceivingStatus)
    <2>1. Partial([x \in {o} \ {None} |-> ReceivingAfter(x, taken)], Orders, ReceivingStatus)
      BY DEF Partial, ReceivingAfter, ReceivingStatus
    <2> QED
      BY <2>1, ChangedType
  <1>10. \A i, j \in 1 .. n : items[i].article = items[j].article => i = j
    BY <1>2 DEF ValidReceipt
  <1>11. ReceiptSource(key).type \in {"receipt", "manual"}
         /\ (ReceiptSource(key).type = "receipt" => ReceiptSource(key).id \in keys)
    BY DEF ReceiptSource, Source
  <1>12. keys \subseteq Keys /\ DOMAIN batch = 1 .. n
    OBVIOUS
  <1>13. Begin(w, t)
    BY <1>3 DEF Receipt
  <1> HIDE DEF taken, batch, rcv, found, keys
  <1>14. /\ TxOK(t) /\ t.movements = batch /\ t.keys = keys
         /\ t.locked = {} /\ t.need = <<>>
    BY <1>5, <1>6, <1>8, <1>9, <1>12 DEF Nothing, TxOK, Partial
  <1> HIDE DEF t
  <1>15. Tagged(t.movements) /\ PendingReversal(t)
    BY <1>7, <1>12, <1>14 DEF Tagged, IsReversal, PendingReversal
  <1>16. DistinctPostings(t)
    BY <1>7, <1>10, <1>12, <1>14 DEF DistinctPostings
  <1>17. PendingReceipt(t)
    BY <1>7, <1>11, <1>12, <1>14 DEF PendingReceipt
  <1>18. PendingNeed(t)
    BY <1>7, <1>11, <1>12, <1>14 DEF PendingNeed
  <1>19. SoundTx(t)
    BY <1>15, <1>16, <1>17, <1>18 DEF SoundTx
  <1> QED
    BY <1>13, <1>14, <1>19, BeginKeeps DEF Begin

LEMMA DeliverKeeps ==
  ASSUME IndInv, NEW w \in Workers, DeliverRequest(w)
  PROVE  IndInv'
  <1>1. PICK r \in Requests, l \in Locations, choice \in [DOMAIN Needs -> Articles] :
          /\ Unlocked(r)
          /\ \E rows \in InAnyOrder(Undelivered(r)) :
               LET batch == [i \in DOMAIN rows |->
                     Posting(choice[rows[i]], "exit", Needs[rows[i]].quantity, l, None,
                             Source("need", rows[i]))] IN
               /\ MayPostAll(batch)
               /\ Begin(w, [Nothing EXCEPT
                    !.locked = NeedsOf(r),
                    !.movements = batch,
                    !.need = [n \in Undelivered(r) |->
                                IF Needs[n].direct THEN "applied" ELSE "delivered"]])
    BY DEF DeliverRequest
  <1>2. PICK rows \in InAnyOrder(Undelivered(r)) :
          LET batch == [i \in DOMAIN rows |->
                Posting(choice[rows[i]], "exit", Needs[rows[i]].quantity, l, None,
                        Source("need", rows[i]))] IN
          /\ MayPostAll(batch)
          /\ Begin(w, [Nothing EXCEPT
               !.locked = NeedsOf(r),
               !.movements = batch,
               !.need = [n \in Undelivered(r) |->
                           IF Needs[n].direct THEN "applied" ELSE "delivered"]])
    BY <1>1
  <1> DEFINE batch == [i \in DOMAIN rows |->
                Posting(choice[rows[i]], "exit", Needs[rows[i]].quantity, l, None,
                        Source("need", rows[i]))]
             f == [n \in Undelivered(r) |-> IF Needs[n].direct THEN "applied" ELSE "delivered"]
             t == [Nothing EXCEPT !.locked = NeedsOf(r), !.movements = batch, !.need = f]
  <1>3. /\ Cardinality(Undelivered(r)) \in Nat
        /\ rows \in [1 .. Cardinality(Undelivered(r)) -> Undelivered(r)]
    <2>1. IsFiniteSet(Undelivered(r))
      BY NeedsAssumption, FS_Subset DEF Undelivered, NeedsOf
    <2> QED
      BY <2>1, OrderedRows
  <1>4. /\ \A i, j \in DOMAIN rows : rows[i] = rows[j] => i = j
        /\ \A n \in Undelivered(r) : \E i \in DOMAIN rows : rows[i] = n
    BY DEF InAnyOrder
  <1>5. Undelivered(r) \subseteq NeedsOf(r) /\ NeedsOf(r) \subseteq DOMAIN Needs
    BY DEF Undelivered, NeedsOf
  <1>6. \A i \in DOMAIN rows :
          /\ batch[i] \in Movement /\ batch[i].type # "reversal" /\ batch[i].reverses = None
          /\ batch[i].source = Source("need", rows[i])
    <2>1. \A i \in DOMAIN batch : batch[i].quantity \in Amounts
      BY <1>2, MayPostAmounts
    <2>2. \A i \in DOMAIN rows : rows[i] \in DOMAIN Needs /\ choice[rows[i]] \in Articles
      BY <1>3, <1>5
    <2> QED
      BY <2>1, <2>2 DEF Posting, Source, Movement, MovementTypes, SourceTypes, SourceIds
  <1>7. batch \in Seq(Movement) /\ DOMAIN batch = DOMAIN rows
    BY <1>3, <1>6
  <1>8. Partial(f, DOMAIN Needs, {"delivered", "applied"}) /\ DOMAIN f = Undelivered(r)
    BY <1>5 DEF Partial
  <1>9. Begin(w, t)
    BY <1>2
  <1> HIDE DEF batch, f
  <1>10. TxOK(t) /\ t.movements = batch /\ t.locked = NeedsOf(r) /\ t.need = f
    BY <1>5, <1>7, <1>8 DEF Nothing, TxOK, Partial
  <1> HIDE DEF t
  <1>11. \A i \in DOMAIN rows : /\ rows[i] \in Undelivered(r)
                                /\ batch[i].source.type = "need"
                                /\ batch[i].source.id = rows[i]
    <2>1. \A x : Source("need", x).type = "need" /\ Source("need", x).id = x
      BY DEF Source
    <2>2. \A i \in DOMAIN rows : rows[i] \in Undelivered(r)
      BY <1>3
    <2> QED
      BY <1>6, <2>1, <2>2
  <1>12. Tagged(t.movements) /\ PendingReversal(t) /\ PendingReceipt(t)
    BY <1>6, <1>7, <1>10, <1>11 DEF Tagged, IsReversal, PendingReversal, PendingReceipt
  <1>13. DistinctPostings(t)
    BY <1>4, <1>7, <1>10, <1>11 DEF DistinctPostings
  <1>14. PendingNeed(t)
    <2>1. ASSUME NEW i \in DOMAIN rows, NEW j \in DOMAIN movements
          PROVE  movements[j].source # batch[i].source
      <3>1. needStatus[rows[i]] \notin {"delivered", "applied"} /\ rows[i] \in DOMAIN Needs
        BY <1>5, <1>11 DEF Undelivered
      <3> QED
        BY <1>6, <3>1 DEF IndInv, NeedDeliveredOnce
    <2>2. \A i, j \in DOMAIN rows : batch[j].source = batch[i].source => i = j
      BY <1>4, <1>11
    <2>3. \A n \in DOMAIN f : \E i \in DOMAIN rows : batch[i].source = Source("need", n)
      BY <1>4, <1>6, <1>8
    <2> QED
      BY <1>5, <1>7, <1>8, <1>10, <1>11, <2>1, <2>2, <2>3 DEF PendingNeed
  <1>15. SoundTx(t)
    BY <1>12, <1>13, <1>14 DEF SoundTx
  <1>16. \A v \in Workers : tx[v].locked \cap t.locked = {}
    BY <1>1, <1>10 DEF Unlocked
  <1> QED
    BY <1>9, <1>10, <1>15, <1>16, BeginKeeps DEF Begin

LEMMA ConfirmAppliedKeeps ==
  ASSUME IndInv, NEW w \in Workers, ConfirmApplied(w)
  PROVE  IndInv'
  <1>1. PICK n \in DOMAIN Needs :
          /\ needStatus[n] = "delivered"
          /\ Begin(w, [Nothing EXCEPT !.need = [x \in {n} |-> "applied"]])
    BY DEF ConfirmApplied
  <1> DEFINE f == [x \in {n} |-> "applied"]
             t == [Nothing EXCEPT !.need = f]
  <1>2. Begin(w, t)
    BY <1>1
  <1>3. Partial(f, DOMAIN Needs, {"delivered", "applied"}) /\ DOMAIN f = {n}
    BY DEF Partial
  <1> HIDE DEF f
  <1>4. TxOK(t) /\ t.movements = <<>> /\ t.locked = {} /\ t.need = f
    BY <1>3 DEF Nothing, TxOK, Partial
  <1>5. SoundTx(t)
    BY <1>1, <1>3, <1>4 DEF SoundTx, Tagged, PendingReversal, DistinctPostings, PendingReceipt,
                            PendingNeed
  <1> QED
    BY <1>2, <1>4, <1>5, BeginKeeps DEF Begin

-----------------------------------------------------------------------------
(* The inductive invariant: commits.                                       *)

(* How the committed rows relate to those before: the ledger is extended,  *)
(* and the needs written become delivered or applied.                      *)
LEMMA CommitEffect ==
  ASSUME IndInv, NEW w \in Workers, Commit(w)
  PROVE  /\ movements' \in Seq(Movement)
         /\ \A i \in DOMAIN movements :
              i \in DOMAIN movements' /\ movements'[i] = movements[i]
         /\ \A i \in DOMAIN tx[w].movements :
              /\ Len(movements) + i \in DOMAIN movements'
              /\ movements'[Len(movements) + i] = tx[w].movements[i]
         /\ \A k \in DOMAIN movements' :
              \/ k \in DOMAIN movements /\ movements'[k] = movements[k]
              \/ /\ k - Len(movements) \in DOMAIN tx[w].movements /\ k \notin DOMAIN movements
                 /\ movements'[k] = tx[w].movements[k - Len(movements)]
         /\ needStatus' = Overlay(needStatus, tx[w].need)
         /\ tx' = [tx EXCEPT ![w] = Nothing]
         /\ movements \in Seq(Movement) /\ tx[w].movements \in Seq(Movement)
  <1>1. /\ movements' = movements \o tx[w].movements
        /\ needStatus' = Overlay(needStatus, tx[w].need)
        /\ tx' = [tx EXCEPT ![w] = Nothing]
    BY DEF Commit
  <1>2. movements \in Seq(Movement) /\ tx[w].movements \in Seq(Movement)
    BY DEF IndInv, TypeOK, TxOK
  <1>3. /\ movements \o tx[w].movements \in Seq(Movement)
        /\ \A i \in DOMAIN movements :
              /\ i \in DOMAIN (movements \o tx[w].movements)
              /\ (movements \o tx[w].movements)[i] = movements[i]
        /\ \A i \in DOMAIN tx[w].movements :
              /\ Len(movements) + i \in DOMAIN (movements \o tx[w].movements)
              /\ (movements \o tx[w].movements)[Len(movements) + i] = tx[w].movements[i]
        /\ \A k \in DOMAIN (movements \o tx[w].movements) :
             \/ k \in DOMAIN movements /\ (movements \o tx[w].movements)[k] = movements[k]
             \/ /\ k - Len(movements) \in DOMAIN tx[w].movements /\ k \notin DOMAIN movements
                /\ (movements \o tx[w].movements)[k] = tx[w].movements[k - Len(movements)]
    BY <1>2, ConcatIndex
  <1> QED
    BY <1>1, <1>2, <1>3

LEMMA CommitKeepsTypes ==
  ASSUME IndInv, NEW w \in Workers, Commit(w)
  PROVE  TypeOK'
  <1> DEFINE t == tx[w]
             old == [d \in DOMAIN discrepancies |->
                       IF d \in t.regularized
                       THEN [discrepancies[d] EXCEPT !.status = "regularized"]
                       ELSE discrepancies[d]]
  <1>1. TypeOK /\ TxOK(t)
    BY DEF IndInv, TypeOK
  <1>2. movements' \in Seq(Movement)
    BY CommitEffect
  <1>3. discrepancies' \in Seq(Discrepancy) /\ DOMAIN discrepancies \subseteq DOMAIN discrepancies'
    <2>1. discrepancies \in Seq(Discrepancy) /\ t.discrepancies \in Seq(Discrepancy)
      BY <1>1 DEF TypeOK, TxOK
    <2>2. old \in Seq(Discrepancy) /\ DOMAIN old = DOMAIN discrepancies
      <3>1. \A d \in DOMAIN discrepancies : discrepancies[d] \in Discrepancy
        BY <2>1
      <3>2. \A e \in Discrepancy : [e EXCEPT !.status = "regularized"] \in Discrepancy
        BY DEF Discrepancy
      <3>3. \A d \in DOMAIN discrepancies : old[d] \in Discrepancy
        BY <3>1, <3>2
      <3>4. DOMAIN old = 1 .. Len(discrepancies) /\ Len(discrepancies) \in Nat
        BY <2>1
      <3>5. old \in [1 .. Len(discrepancies) -> Discrepancy]
        BY <3>3, <3>4
      <3> QED
        BY <3>4, <3>5
    <2>3. discrepancies' = old \o t.discrepancies
      BY DEF Commit
    <2> HIDE DEF old
    <2>4. old \o t.discrepancies \in Seq(Discrepancy)
      BY <2>1, <2>2
    <2>5. DOMAIN old \subseteq DOMAIN (old \o t.discrepancies)
      BY <2>1, <2>2, ConcatIndex
    <2> QED
      BY <2>2, <2>3, <2>4, <2>5
  <1>4. receiptKeys' \subseteq Keys
    BY <1>1 DEF TypeOK, TxOK, Commit
  <1>5. /\ active' \in [Articles -> BOOLEAN]
        /\ received' \in [OrderLines -> Amounts]
        /\ receiving' \in [Orders -> ReceivingStatus]
        /\ status' \in [Sessions -> SessionStatus]
    <2>1. /\ active' = Overlay(active, t.active) /\ received' = Overlay(received, t.received)
          /\ receiving' = Overlay(receiving, t.receiving) /\ status' = Overlay(status, t.status)
      BY DEF Commit
    <2> QED
      BY <1>1, <2>1, OverlayType DEF TypeOK, TxOK
  <1>6. /\ location' \in [Sessions -> Locations \cup {None}]
        /\ snapshot' \in [Rows -> Amounts \cup {None}]
        /\ counted' \in [Rows -> Counts \cup {None}]
        /\ adjusted' \in [Rows -> BOOLEAN]
        /\ needStatus' \in [DOMAIN Needs -> NeedStatus]
    <2>1. /\ location' = Overlay(location, t.location) /\ snapshot' = Overlay(snapshot, t.snapshot)
          /\ counted' = Overlay(counted, t.counted) /\ adjusted' = Overlay(adjusted, t.adjusted)
          /\ needStatus' = Overlay(needStatus, t.need)
      BY DEF Commit
    <2>2. /\ Partial(t.location, Sessions, Locations \cup {None})
          /\ Partial(t.snapshot, Rows, Amounts \cup {None})
          /\ Partial(t.counted, Rows, Counts \cup {None})
          /\ Partial(t.adjusted, Rows, BOOLEAN)
          /\ Partial(t.need, DOMAIN Needs, NeedStatus)
      BY <1>1 DEF TxOK, Partial, NeedStatus
    <2>3. /\ location \in [Sessions -> Locations \cup {None}]
          /\ snapshot \in [Rows -> Amounts \cup {None}]
          /\ counted \in [Rows -> Counts \cup {None}]
          /\ adjusted \in [Rows -> BOOLEAN]
          /\ needStatus \in [DOMAIN Needs -> NeedStatus]
      BY <1>1 DEF TypeOK
    <2> QED
      BY <2>1, <2>2, <2>3, OverlayType
  <1>7. DOMAIN tx' = Workers /\ \A v \in Workers : (TxOK(tx[v]))'
    <2>1. DOMAIN tx' = Workers /\ \A v \in Workers : tx'[v] = IF v = w THEN Nothing ELSE tx[v]
      BY <1>1 DEF TypeOK, Commit
    <2>2. ASSUME NEW v \in Workers
          PROVE  TxOK(tx'[v])
      <3>1. CASE v = w
        <4>1. TxOK(Nothing)
          BY DEF TxOK, Nothing, Partial
        <4> QED
          BY <2>1, <3>1, <4>1
      <3>2. CASE v # w
        BY <1>1, <2>1, <3>2 DEF TypeOK
      <3> QED
        BY <3>1, <3>2
    <2> QED
      BY <1>3, <2>1, <2>2 DEF TxOK
  <1> QED
    BY <1>2, <1>3, <1>4, <1>5, <1>6, <1>7 DEF TypeOK

LEMMA CommitKeepsReversals ==
  ASSUME IndInv, NEW w \in Workers, Commit(w)
  PROVE  ReversedAtMostOnce'
  <1> DEFINE b == tx[w].movements
             Old(k) == k \in DOMAIN movements
  <1>1. /\ ReversedAtMostOnce /\ Tagged(movements) /\ Tagged(b) /\ PendingReversal(tx[w])
        /\ ~Conflicts(tx[w])
    BY DEF IndInv, PendingSound, SoundTx, Commit
  <1>2. /\ \A i \in DOMAIN movements : i \in DOMAIN movements' /\ movements'[i] = movements[i]
        /\ \A k \in DOMAIN movements' \ DOMAIN movements :
             k - Len(movements) \in DOMAIN b /\ movements'[k] = b[k - Len(movements)]
        /\ DOMAIN movements = 1 .. Len(movements) /\ Len(movements) \in Nat
        /\ DOMAIN b = 1 .. Len(b) /\ DOMAIN movements' \subseteq Nat
    <2>1. movements \in Seq(Movement) /\ b \in Seq(Movement) /\ movements' \in Seq(Movement)
      BY CommitEffect
    <2>2. /\ DOMAIN movements = 1 .. Len(movements) /\ Len(movements) \in Nat
          /\ DOMAIN b = 1 .. Len(b) /\ DOMAIN movements' \subseteq Nat
      BY <2>1
    <2>3. /\ \A i \in DOMAIN movements : i \in DOMAIN movements' /\ movements'[i] = movements[i]
          /\ \A k \in DOMAIN movements' \ DOMAIN movements :
               k - Len(movements) \in DOMAIN b /\ movements'[k] = b[k - Len(movements)]
      BY CommitEffect
    <2> QED
      BY <2>2, <2>3
  <1> SUFFICES ASSUME NEW i \in DOMAIN movements', IsReversal(movements'[i])
               PROVE  /\ movements'[i].reverses \in 1 .. i - 1
                      /\ ~IsReversal(movements'[movements'[i].reverses])
                      /\ \A j \in DOMAIN movements' :
                           /\ IsReversal(movements'[j])
                           /\ movements'[j].reverses = movements'[i].reverses
                           => i = j
    BY DEF ReversedAtMostOnce, IsReversal
  <1>3. ASSUME NEW k \in DOMAIN movements', ~Old(k), IsReversal(movements'[k])
        PROVE  /\ movements'[k].reverses \in DOMAIN movements
               /\ ~IsReversal(movements[movements'[k].reverses])
               /\ \A j \in DOMAIN movements : movements[j].reverses # movements'[k].reverses
               /\ \A j \in DOMAIN movements' \ DOMAIN movements : j = k
    <2>1. k - Len(movements) \in DOMAIN b /\ movements'[k] = b[k - Len(movements)]
      BY <1>2, <1>3
    <2>2. /\ b[k - Len(movements)].reverses \in DOMAIN movements /\ Len(b) = 1
          /\ ~IsReversal(movements[b[k - Len(movements)].reverses])
      BY <1>1, <1>3, <2>1 DEF PendingReversal
    <2>3. b[k - Len(movements)].reverses # None
      BY <1>1, <1>3, <2>1 DEF Tagged
    <2>4. \A j \in DOMAIN movements : movements[j].reverses # movements'[k].reverses
      BY <1>1, <2>1, <2>3 DEF Conflicts, ReversedTwice
    <2>5. \A j \in DOMAIN movements' \ DOMAIN movements : j - Len(movements) = 1 /\ j \in Nat
      BY <1>2, <2>2
    <2>6. \A j \in DOMAIN movements' \ DOMAIN movements : j = k
      BY <1>2, <1>3, <2>5
    <2> QED
      BY <2>1, <2>2, <2>4, <2>6
  <1>4. CASE Old(i)
    <2>1. /\ movements[i].reverses \in 1 .. i - 1
          /\ ~IsReversal(movements[movements[i].reverses])
          /\ \A j \in DOMAIN movements :
               IsReversal(movements[j]) /\ movements[j].reverses = movements[i].reverses => i = j
      BY <1>1, <1>2, <1>4 DEF ReversedAtMostOnce
    <2>2. movements[i].reverses \in DOMAIN movements
      BY <1>2, <1>4, <2>1
    <2>3. ASSUME NEW j \in DOMAIN movements', IsReversal(movements'[j]),
                 movements'[j].reverses = movements'[i].reverses
          PROVE  i = j
      <3>1. Old(j)
        BY <1>2, <1>3, <1>4, <2>3
      <3> QED
        BY <1>2, <1>4, <2>1, <2>3, <3>1
    <2> QED
      BY <1>2, <1>4, <2>1, <2>2, <2>3
  <1>5. CASE ~Old(i)
    <2>1. i > Len(movements) /\ i \in Nat
      BY <1>2, <1>5
    <2>2. movements'[i].reverses \in 1 .. i - 1
      BY <1>2, <1>3, <1>5, <2>1
    <2>3. ~IsReversal(movements'[movements'[i].reverses])
      BY <1>2, <1>3, <1>5
    <2>4. ASSUME NEW j \in DOMAIN movements', IsReversal(movements'[j]),
                 movements'[j].reverses = movements'[i].reverses
          PROVE  i = j
      <3>1. CASE Old(j)
        BY <1>2, <1>3, <1>5, <2>4, <3>1
      <3>2. CASE ~Old(j)
        BY <1>3, <1>5, <3>2
      <3> QED
        BY <3>1, <3>2
    <2> QED
      BY <2>2, <2>3, <2>4
  <1> QED
    BY <1>4, <1>5

LEMMA CommitKeepsNeeds ==
  ASSUME IndInv, NEW w \in Workers, Commit(w)
  PROVE  NeedDeliveredOnce'
  <1> DEFINE b == tx[w].movements
             D == {"delivered", "applied"}
  <1>1. NeedDeliveredOnce /\ PendingNeed(tx[w])
    BY DEF IndInv, PendingSound, SoundTx
  <1>2. /\ \A i \in DOMAIN movements : i \in DOMAIN movements' /\ movements'[i] = movements[i]
        /\ \A i \in DOMAIN b : /\ Len(movements) + i \in DOMAIN movements'
                                /\ movements'[Len(movements) + i] = b[i]
        /\ \A k \in DOMAIN movements' \ DOMAIN movements :
             k - Len(movements) \in DOMAIN b /\ movements'[k] = b[k - Len(movements)]
    BY CommitEffect
  <1>3. Len(movements) \in Nat /\ DOMAIN movements' \subseteq Int
    <2>1. movements \in Seq(Movement) /\ movements' \in Seq(Movement)
      BY CommitEffect
    <2> QED
      BY <2>1
  <1>4. \A n \in DOMAIN Needs :
          needStatus'[n] = IF n \in DOMAIN tx[w].need THEN tx[w].need[n] ELSE needStatus[n]
    <2>1. DOMAIN needStatus = DOMAIN Needs /\ needStatus' = Overlay(needStatus, tx[w].need)
      BY CommitEffect DEF IndInv, TypeOK
    <2> QED
      BY <2>1 DEF Overlay
  <1>5. \A n \in DOMAIN tx[w].need : tx[w].need[n] \in D
    BY DEF IndInv, TypeOK, TxOK, Partial
  <1> SUFFICES ASSUME NEW n \in DOMAIN Needs
               PROVE  LET exits == {i \in DOMAIN movements' :
                                      movements'[i].source = Source("need", n)} IN
                      /\ \A i, j \in exits : i = j
                      /\ needStatus'[n] \in D <=> exits # {}
    BY DEF NeedDeliveredOnce
  <1> DEFINE src == Source("need", n)
             exits == {i \in DOMAIN movements : movements[i].source = src}
             added == {i \in DOMAIN b : b[i].source = src}
  <1>6. src.type = "need" /\ src.id = n
    BY DEF Source
  <1>7. /\ \A i, j \in exits : i = j
        /\ needStatus[n] \in D <=> exits # {}
    BY <1>1 DEF NeedDeliveredOnce
  <1>8. /\ added # {} => n \in DOMAIN tx[w].need /\ exits = {}
        /\ \A i, j \in added : i = j
        /\ n \in DOMAIN tx[w].need => added # {} \/ needStatus[n] \in D
    BY <1>1, <1>6 DEF PendingNeed
  <1> HIDE DEF src
  <1>9. ASSUME NEW i \in DOMAIN movements', NEW j \in DOMAIN movements',
               movements'[i].source = src, movements'[j].source = src
        PROVE  i = j
    <2>1. CASE i \in DOMAIN movements /\ j \in DOMAIN movements
      BY <1>2, <1>7, <1>9, <2>1
    <2>2. CASE i \notin DOMAIN movements /\ j \notin DOMAIN movements
      <3>1. i - Len(movements) \in added /\ j - Len(movements) \in added
        BY <1>2, <1>9, <2>2
      <3>2. i - Len(movements) = j - Len(movements)
        BY <1>8, <3>1
      <3> QED
        BY <1>3, <3>2
    <2>3. CASE i \in DOMAIN movements /\ j \notin DOMAIN movements
      <3>1. i \in exits /\ j - Len(movements) \in added
        BY <1>2, <1>9, <2>3
      <3> QED
        BY <1>8, <3>1
    <2>4. CASE i \notin DOMAIN movements /\ j \in DOMAIN movements
      <3>1. j \in exits /\ i - Len(movements) \in added
        BY <1>2, <1>9, <2>4
      <3> QED
        BY <1>8, <3>1
    <2> QED
      BY <2>1, <2>2, <2>3, <2>4
  <1>10. (\E i \in DOMAIN movements' : movements'[i].source = src) <=> exits # {} \/ added # {}
    BY <1>2
  <1>11. needStatus'[n] \in D <=> exits # {} \/ added # {}
    BY <1>4, <1>5, <1>7, <1>8
  <1> QED
    BY <1>9, <1>10, <1>11 DEF src

LEMMA CommitKeepsPending ==
  ASSUME IndInv, NEW w \in Workers, Commit(w)
  PROVE  PendingSound'
  <1> DEFINE b == tx[w].movements
             D == {"delivered", "applied"}
  <1>1. /\ Tagged(movements) /\ \A v \in Workers : SoundTx(tx[v])
        /\ \A i \in DOMAIN movements :
             movements[i].source.type = "receipt" => movements[i].source.id \in receiptKeys
        /\ \A v, u \in Workers : v # u => tx[v].locked \cap tx[u].locked = {}
    BY DEF IndInv, PendingSound
  <1>2. /\ \A i \in DOMAIN movements : i \in DOMAIN movements' /\ movements'[i] = movements[i]
        /\ \A k \in DOMAIN movements' \ DOMAIN movements :
             k - Len(movements) \in DOMAIN b /\ movements'[k] = b[k - Len(movements)]
    BY CommitEffect
  <1>3. \A v \in Workers : tx'[v] = IF v = w THEN Nothing ELSE tx[v]
    BY CommitEffect DEF IndInv, TypeOK
  <1>4. receiptKeys' = receiptKeys \cup tx[w].keys
    BY DEF Commit
  <1>5. Tagged(movements')
    BY <1>1, <1>2 DEF Tagged, SoundTx
  <1>6. ASSUME NEW i \in DOMAIN movements', movements'[i].source.type = "receipt"
        PROVE  movements'[i].source.id \in receiptKeys'
    BY <1>1, <1>2, <1>4, <1>6 DEF SoundTx, PendingReceipt
  <1>7. ASSUME NEW v \in Workers, v # w
        PROVE  (SoundTx(tx[v]))'
    <2> DEFINE u == tx[v]
    <2>1. tx'[v] = u /\ SoundTx(u)
      BY <1>1, <1>3, <1>7
    <2>2. PendingReversal(u)'
      <3>1. ASSUME NEW i \in DOMAIN u.movements, IsReversal(u.movements[i])
            PROVE  /\ Len(u.movements) = 1
                   /\ u.movements[i].reverses \in DOMAIN movements'
                   /\ ~IsReversal(movements'[u.movements[i].reverses])
        BY <1>2, <2>1, <3>1 DEF SoundTx, PendingReversal
      <3> QED
        BY <2>1, <3>1 DEF PendingReversal, IsReversal
    <2>3. PendingNeed(u)'
      <3>1. PendingNeed(u) /\ PendingNeed(tx[w])
        BY <1>1, <2>1 DEF SoundTx
      <3>2. ASSUME NEW i \in DOMAIN u.movements, u.movements[i].source.type = "need",
                   NEW j \in DOMAIN movements', movements'[j].source = u.movements[i].source
            PROVE  FALSE
        <4>1. u.movements[i].source.id \in u.locked
          BY <3>1, <3>2 DEF PendingNeed
        <4>2. CASE j \in DOMAIN movements
          BY <1>2, <3>1, <3>2, <4>2 DEF PendingNeed
        <4>3. CASE j \notin DOMAIN movements
          <5>1. /\ j - Len(movements) \in DOMAIN b
                /\ b[j - Len(movements)].source = u.movements[i].source
            BY <1>2, <3>2, <4>3
          <5>2. u.movements[i].source.id \in tx[w].locked
            BY <3>1, <3>2, <5>1 DEF PendingNeed
          <5> QED
            BY <1>1, <1>7, <4>1, <5>2
        <4> QED
          BY <4>2, <4>3
      <3>3. ASSUME NEW n \in DOMAIN Needs, needStatus[n] \in D
            PROVE  needStatus'[n] \in D
        <4>1. /\ DOMAIN needStatus = DOMAIN Needs /\ needStatus' = Overlay(needStatus, tx[w].need)
              /\ \A x \in DOMAIN tx[w].need : tx[w].need[x] \in D
          BY CommitEffect DEF IndInv, TypeOK, TxOK, Partial
        <4> QED
          BY <3>3, <4>1 DEF Overlay
      <3>4. DOMAIN u.need \subseteq DOMAIN Needs
        BY DEF IndInv, TypeOK, TxOK, Partial
      <3>5. \A i \in DOMAIN u.movements : u.movements[i].source.type = "need" =>
              /\ u.movements[i].source.id \in u.locked \cap DOMAIN u.need
              /\ \A j \in DOMAIN movements' : movements'[j].source # u.movements[i].source
              /\ \A j \in DOMAIN u.movements :
                   u.movements[j].source = u.movements[i].source => i = j
        BY <3>1, <3>2 DEF PendingNeed
      <3>6. \A n \in DOMAIN u.need :
              \/ \E i \in DOMAIN u.movements : u.movements[i].source = Source("need", n)
              \/ needStatus'[n] \in D
        BY <3>1, <3>3, <3>4 DEF PendingNeed
      <3> QED
        BY <2>1, <3>5, <3>6 DEF PendingNeed
    <2> QED
      BY <2>1, <2>2, <2>3 DEF SoundTx, Tagged, DistinctPostings, PendingReceipt
  <1>8. (SoundTx(tx[w]))'
    <2>1. tx'[w].movements = <<>> /\ tx'[w].locked = {} /\ tx'[w].need = <<>>
      BY <1>3 DEF Nothing
    <2> QED
      BY <2>1 DEF SoundTx, Tagged, PendingReversal, DistinctPostings, PendingReceipt, PendingNeed
  <1>9. \A v, u \in Workers : v # u => tx'[v].locked \cap tx'[u].locked = {}
    BY <1>1, <1>3 DEF Nothing
  <1>10. \A v \in Workers : (SoundTx(tx[v]))'
    BY <1>7, <1>8
  <1> QED
    BY <1>5, <1>6, <1>9, <1>10 DEF PendingSound, Tagged

LEMMA CommitKeeps ==
  ASSUME IndInv, NEW w \in Workers, Commit(w)
  PROVE  IndInv'
  BY CommitKeepsTypes, CommitKeepsReversals, CommitKeepsNeeds, CommitKeepsPending DEF IndInv

-----------------------------------------------------------------------------
(* The theorems.                                                           *)

LEMMA InitIndInv ==
  ASSUME Init
  PROVE  IndInv
  <1> USE DEF Init
  <1>1. TxOK(Nothing)
    BY DEF TxOK, Nothing, Partial
  <1>2. TypeOK
    <2>1. 0 \in Amounts
      BY NumAssumption DEF Amounts
    <2>2. /\ needStatus \in [DOMAIN Needs -> NeedStatus]
          /\ receiving \in [Orders -> ReceivingStatus]
          /\ status \in [Sessions -> SessionStatus]
      BY DEF NeedStatus, ReceivingStatus, SessionStatus
    <2>3. movements \in Seq(Movement) /\ discrepancies \in Seq(Discrepancy)
      OBVIOUS
    <2>4. /\ receiptKeys \subseteq Keys
          /\ active \in [Articles -> BOOLEAN] /\ adjusted \in [Rows -> BOOLEAN]
          /\ location \in [Sessions -> Locations \cup {None}]
          /\ snapshot \in [Rows -> Amounts \cup {None}]
          /\ counted \in [Rows -> Counts \cup {None}]
      OBVIOUS
    <2>5. DOMAIN tx = Workers /\ \A w \in Workers : TxOK(tx[w])
      BY <1>1
    <2> QED
      BY <2>1, <2>2, <2>3, <2>4, <2>5 DEF TypeOK
  <1>3. ReversedAtMostOnce
    BY DEF ReversedAtMostOnce
  <1>4. NeedDeliveredOnce
    BY DEF NeedDeliveredOnce
  <1>5. SoundTx(Nothing)
    BY QuietIsSound DEF Nothing
  <1>6. PendingSound
    BY <1>5 DEF PendingSound, Tagged, Nothing
  <1> QED
    BY <1>2, <1>3, <1>4, <1>6 DEF IndInv

LEMMA StutterKeeps ==
  ASSUME IndInv, UNCHANGED vars
  PROVE  IndInv'
  <1> USE DEF vars
  <1>1. TypeOK'
    BY DEF IndInv, TypeOK, TxOK
  <1>2. ReversedAtMostOnce' /\ NeedDeliveredOnce'
    BY DEF IndInv, ReversedAtMostOnce, NeedDeliveredOnce
  <1>3. PendingSound'
    BY DEF IndInv, PendingSound, SoundTx, Tagged, PendingReversal, DistinctPostings,
           PendingReceipt, PendingNeed
  <1> QED
    BY <1>1, <1>2, <1>3 DEF IndInv

(* The inductive invariant: the types, the once-only facts and what is     *)
(* known of the pending writes of every open request hold together.        *)
THEOREM Inductive == Spec => []IndInv
  <1>1. Init => IndInv
    BY InitIndInv
  <1>2. IndInv /\ [Next]_vars => IndInv'
    <2> SUFFICES ASSUME IndInv, [Next]_vars
                 PROVE  IndInv'
      OBVIOUS
    <2>1. ASSUME NEW w \in Workers, Request(w)
          PROVE  IndInv'
      BY <2>1, PlainStepsKeep, ReverseKeeps, CellStepsKeep, ReceiveKeeps, DeliverKeeps,
         ConfirmAppliedKeeps DEF Request
    <2>2. ASSUME NEW w \in Workers, Commit(w)
          PROVE  IndInv'
      BY <2>2, CommitKeeps
    <2>3. ASSUME NEW w \in Workers, Abort(w)
          PROVE  IndInv'
      BY <2>3, AbortKeeps
    <2>4. CASE UNCHANGED vars
      BY <2>4, StutterKeeps
    <2> QED
      BY <2>1, <2>2, <2>3, <2>4 DEF Next
  <1> QED
    BY <1>1, <1>2, PTL DEF Spec

(* Every row and pending write keeps the type of its column.               *)
THEOREM TypesPreserved == Spec => []TypeOK
  <1>1. IndInv => TypeOK
    BY DEF IndInv
  <1> QED
    BY <1>1, Inductive, PTL

(* However many requests race to reverse a movement, one wins.             *)
THEOREM SingleReversal == Spec => []ReversedAtMostOnce
  <1>1. IndInv => ReversedAtMostOnce
    BY DEF IndInv
  <1> QED
    BY <1>1, Inductive, PTL

(* However many operators deliver a workshop request, each of its needs is *)
(* taken from stock once, and marked exactly when it is.                   *)
THEOREM SingleDelivery == Spec => []NeedDeliveredOnce
  <1>1. IndInv => NeedDeliveredOnce
    BY DEF IndInv
  <1> QED
    BY <1>1, Inductive, PTL

(* What an open request still intends to write stays compatible with       *)
(* everything the other requests commit meanwhile.                         *)
THEOREM PendingStaysSound == Spec => []PendingSound
  <1>1. IndInv => PendingSound
    BY DEF IndInv
  <1> QED
    BY <1>1, Inductive, PTL

-----------------------------------------------------------------------------
(* The ledger implements StockLedgerSpec.                                  *)

(* The rows a commit appends are the rows its request prepared.            *)
LEMMA AppendedBatch ==
  ASSUME NEW S, NEW a \in Seq(S), NEW b \in Seq(S)
  PROVE  SubSeq(a \o b, Len(a) + 1, Len(a \o b)) = b
  OBVIOUS

LEMMA CommitBooks ==
  ASSUME IndInv, NEW w \in Workers, Commit(w)
  PROVE  Racing!Next
  <1> DEFINE b == tx[w].movements
  <1>1. /\ SoundTx(tx[w]) /\ ~Conflicts(tx[w])
        /\ \A i \in DOMAIN movements :
             movements[i].source.type = "receipt" => movements[i].source.id \in receiptKeys
        /\ movements' = movements \o b
    BY DEF IndInv, PendingSound, Commit
  <1>2. movements \in Seq(Movement) /\ b \in Seq(Movement)
    BY CommitEffect
  <1>3. SubSeq(movements', Len(movements) + 1, Len(movements')) = b
    BY <1>1, <1>2, AppendedBatch
  <1>4. Racing!LegalReversals(movements, b)
    <2> SUFFICES ASSUME NEW i \in DOMAIN b, b[i].type = "reversal"
                 PROVE  /\ b[i].reverses \in DOMAIN movements
                        /\ movements[b[i].reverses].type # "reversal"
                        /\ \A j \in DOMAIN movements :
                             movements[j].type = "reversal" => movements[j].reverses # b[i].reverses
                        /\ \A j \in DOMAIN b \ {i} :
                             b[j].type = "reversal" => b[j].reverses # b[i].reverses
      BY DEF Racing!LegalReversals
    <2>1. /\ Len(b) = 1 /\ b[i].reverses \in DOMAIN movements
          /\ movements[b[i].reverses].type # "reversal"
      BY <1>1 DEF SoundTx, PendingReversal, IsReversal
    <2>2. b[i].reverses # None
      BY <1>1 DEF SoundTx, Tagged, IsReversal
    <2>3. \A j \in DOMAIN movements : movements[j].reverses # b[i].reverses
      BY <1>1, <2>2 DEF Conflicts, ReversedTwice
    <2>4. DOMAIN b = {i}
      BY <1>2, <2>1
    <2> QED
      BY <2>1, <2>3, <2>4
  <1>5. Racing!FreshSources(movements, b)
    <2> SUFFICES ASSUME NEW i \in DOMAIN b, b[i].source.type \in {"receipt", "need"}
                 PROVE  /\ \A j \in DOMAIN movements : movements[j].source # b[i].source
                        /\ \A j \in DOMAIN b \ {i} :
                             b[j].source = b[i].source => b[j].article # b[i].article
      BY DEF Racing!FreshSources
    <2>1. CASE b[i].source.type = "receipt"
      <3>1. b[i].source.id \notin receiptKeys
        BY <1>1, <2>1 DEF SoundTx, PendingReceipt, Conflicts, ReceiptKeyTaken
      <3>2. \A j \in DOMAIN movements : movements[j].source # b[i].source
        BY <1>1, <2>1, <3>1
      <3> QED
        BY <1>1, <3>2 DEF SoundTx, DistinctPostings
    <2>2. CASE b[i].source.type = "need"
      <3>1. \A j \in DOMAIN movements : movements[j].source # b[i].source
        BY <1>1, <2>2 DEF SoundTx, PendingNeed
      <3> QED
        BY <1>1, <3>1 DEF SoundTx, DistinctPostings
    <2> QED
      BY <2>1, <2>2
  <1> QED
    BY <1>1, <1>3, <1>4, <1>5 DEF Racing!Next, Racing!Book

(* First steps and aborts leave the ledger alone.                          *)
LEMMA OthersStutter ==
  ASSUME NEW w \in Workers, Request(w) \/ Abort(w)
  PROVE  UNCHANGED movements
  BY DEF Request, Abort, Begin, db, PostMovement, Reverse, CreateOrder, Receive,
         CreateInventory, SaveCounts, CancelInventory, ArchiveInventory, ConfirmInventory,
         RegularizeDiscrepancy, DeliverRequest, ConfirmApplied, UpdateArticle

(* Every behaviour of the racing requests is one of the abstract ledger:   *)
(* appended batches, single reversals, receipts and needs booked once.     *)
THEOREM KeepsLedgerPromise == Spec => LedgerPromise
  <1>1. Init => Racing!Init
    BY DEF Init, Racing!Init
  <1>2. IndInv /\ [Next]_vars => [Racing!Next]_movements
    BY CommitBooks, OthersStutter DEF Next, vars
  <1> QED
    BY <1>1, <1>2, Inductive, PTL DEF Spec, LedgerPromise, Racing!Spec

-----------------------------------------------------------------------------
(* Balances without what was reversed.                                     *)

(* A reversal is booked on the article of the movement it reverses.        *)
KeepsArticle(log, batch) ==
  \A i \in DOMAIN batch : IsReversal(batch[i]) => batch[i].article = log[batch[i].reverses].article

SameArticle ==
  /\ KeepsArticle(movements, movements)
  /\ \A w \in Workers : KeepsArticle(movements, tx[w].movements)

LEMMA QuantityInt ==
  ASSUME NEW m \in Movement
  PROVE  m.quantity \in Int /\ m.article \in Articles
  BY NumAssumption DEF Movement, Amounts

LEMMA BaseEffectInt ==
  ASSUME NEW m \in Movement, NEW l
  PROVE  BaseEffect(m, l) \in Int
  BY QuantityInt DEF BaseEffect

LEMMA RowsFinite ==
  ASSUME NEW log, log \in Seq(Movement), NEW S, S \subseteq DOMAIN log
  PROVE  IsFiniteSet(S) /\ DOMAIN log = 1 .. Len(log) /\ Len(log) \in Nat
  <1>1. DOMAIN log = 1 .. Len(log) /\ Len(log) \in Nat
    OBVIOUS
  <1>2. IsFiniteSet(1 .. Len(log))
    BY <1>1, FS_Interval
  <1> QED BY <1>1, <1>2, FS_Subset

LEMMA BalanceOfTheRest ==
  ASSUME IndInv, SameArticle
  PROVE  BalanceIgnoresReversed
  <1> SUFFICES ASSUME NEW a \in Articles, NEW l \in Locations
               PROVE  Balance(movements, a, l) =
                 SumFunctionOnSet([i \in DOMAIN movements |-> BaseEffect(movements[i], l)],
                   {i \in DOMAIN movements :
                      /\ movements[i].article = a
                      /\ ~IsReversal(movements[i])
                      /\ \A j \in DOMAIN movements : movements[j].reverses # i})
    BY DEF BalanceIgnoresReversed
  <1> DEFINE f == [i \in DOMAIN movements |-> Effect(movements, i, l)]
             g == [i \in DOMAIN movements |-> BaseEffect(movements[i], l)]
             S == {i \in DOMAIN movements : movements[i].article = a}
             R == {i \in S : IsReversal(movements[i])}
             r == [i \in R |-> movements[i].reverses]
             Q == {i \in DOMAIN movements :
                     /\ movements[i].article = a
                     /\ ~IsReversal(movements[i])
                     /\ \A j \in DOMAIN movements : movements[j].reverses # i}
  <1>1. /\ movements \in Seq(Movement) /\ ReversedAtMostOnce /\ Tagged(movements)
        /\ KeepsArticle(movements, movements)
    BY DEF IndInv, TypeOK, PendingSound, SameArticle
  <1>2. DOMAIN movements = 1 .. Len(movements) /\ Len(movements) \in Nat /\ IsFiniteSet(S)
    BY <1>1, RowsFinite
  <1>3. ASSUME NEW i \in DOMAIN movements, IsReversal(movements[i])
        PROVE  /\ movements[i].reverses \in DOMAIN movements
               /\ ~IsReversal(movements[movements[i].reverses])
               /\ movements[movements[i].reverses].article = movements[i].article
               /\ \A j \in DOMAIN movements :
                    /\ IsReversal(movements[j])
                    /\ movements[j].reverses = movements[i].reverses
                    => i = j
    BY <1>1, <1>2, <1>3 DEF ReversedAtMostOnce, KeepsArticle
  <1>4. ASSUME NEW i \in DOMAIN movements
        PROVE  /\ BaseEffect(movements[i], l) \in Int
               /\ IsReversal(movements[i]) =>
                    f[i] = -BaseEffect(movements[movements[i].reverses], l)
               /\ ~IsReversal(movements[i]) => f[i] = BaseEffect(movements[i], l)
    <2>1. movements[i] \in Movement
      BY <1>1
    <2> QED BY <2>1, BaseEffectInt DEF Effect, IsReversal
  <1> HIDE DEF f
  <1>5. \A i \in S : f[i] \in Int
    <2> SUFFICES ASSUME NEW i \in S PROVE f[i] \in Int
      OBVIOUS
    <2>1. CASE IsReversal(movements[i])
      BY <1>3, <1>4, <2>1
    <2>2. CASE ~IsReversal(movements[i])
      BY <1>4, <2>2
    <2> QED BY <2>1, <2>2
  <1>6. \A x \in R : r[x] \in S \ R /\ f[r[x]] = -f[x]
    <2> SUFFICES ASSUME NEW x \in R PROVE r[x] \in S \ R /\ f[r[x]] = -f[x]
      OBVIOUS
    <2>1. r[x] = movements[x].reverses /\ r[x] \in S \ R
      BY <1>3
    <2>2. f[x] = -BaseEffect(movements[r[x]], l) /\ f[r[x]] = BaseEffect(movements[r[x]], l)
      BY <1>4, <2>1
    <2>3. BaseEffect(movements[r[x]], l) \in Int
      BY <1>4, <2>1
    <2> QED BY <2>1, <2>2, <2>3
  <1>7. \A x, y \in R : r[x] = r[y] => x = y
    BY <1>3
  <1>8. R \in SUBSET S
    OBVIOUS
  <1>9. Q = S \ (R \cup {r[x] : x \in R})
    <2>1. ASSUME NEW i \in S, ~IsReversal(movements[i]), NEW j \in DOMAIN movements,
                 movements[j].reverses = i
          PROVE  j \in R
      <3>1. i # None
        BY <1>2, NoneAssumption
      <3>2. IsReversal(movements[j])
        BY <1>1, <2>1, <3>1 DEF Tagged
      <3> QED BY <1>3, <2>1, <3>2
    <2>2. \A x \in R : x \in DOMAIN movements /\ r[x] = movements[x].reverses
      OBVIOUS
    <2>3. ASSUME NEW i \in Q PROVE i \in S \ (R \cup {r[x] : x \in R})
      BY <2>2
    <2>4. ASSUME NEW i \in S \ (R \cup {r[x] : x \in R}) PROVE i \in Q
      BY <2>1
    <2> QED BY <2>3, <2>4
  <1>10. Balance(movements, a, l) = SumFunctionOnSet(f, S)
    BY DEF Balance, f
  <1>11. SumFunctionOnSet(f, S) = SumFunctionOnSet(f, S \ (R \cup {r[x] : x \in R}))
    <2> HIDE DEF S, R, r
    <2>1. \A x, y \in R : r[x] = r[y] => x = y
      BY <1>7
    <2>2. \A x \in S : f[x] \in Int
      BY <1>5
    <2>3. \A x \in R : r[x] \in S \ R /\ f[r[x]] = -f[x]
      BY <1>6
    <2>4. IsFiniteSet(S) /\ R \in SUBSET S
      BY <1>2, <1>8
    <2> QED BY ONLY <2>1, <2>2, <2>3, <2>4, SumCancels
  <1>12. SumFunctionOnSet(f, Q) = SumFunctionOnSet(g, Q)
    <2>1. Q \in SUBSET S /\ IsFiniteSet(Q)
      BY <1>2, FS_Subset
    <2>2. \A i \in Q : f[i] = g[i]
      BY <1>4
    <2> HIDE DEF Q, g
    <2> QED BY <2>1, <2>2, SumSame
  <1> QED BY <1>9, <1>10, <1>11, <1>12

(* Only a reversal books reversals.                                        *)
LEMMA OthersReverseNothing ==
  ASSUME NEW w \in Workers, Request(w), ~Reverse(w)
  PROVE  \E t : /\ Begin(w, t)
                /\ \A i \in DOMAIN t.movements : t.movements[i].type # "reversal"
  <1> DEFINE Found == \E t : /\ Begin(w, t)
                             /\ \A i \in DOMAIN t.movements : t.movements[i].type # "reversal"
  <1>1. CASE PostMovement(w)
    <2>1. PICK a \in Articles, type \in ManualTypes, q \in Quantities, sign \in {1, -1},
               from \in Locations \cup {None}, to \in Locations \cup {None} :
            Begin(w, [Nothing EXCEPT !.movements =
                        <<Posting(a, type, sign * q, from, to, Source("manual", None))>>])
      BY <1>1, Zenon DEF PostMovement
    <2> DEFINE m == Posting(a, type, sign * q, from, to, Source("manual", None))
               t == [Nothing EXCEPT !.movements = <<m>>]
    <2>2. m.type # "reversal"
      BY InputsAssumption DEF Posting
    <2> HIDE DEF m
    <2>3. t.movements = <<m>>
      BY DEF Nothing
    <2>4. \A i \in DOMAIN t.movements : t.movements[i].type # "reversal"
      BY <2>2, <2>3
    <2> QED BY <2>1, <2>4 DEF m
  <1>2. CASE Receive(w)
    <2>1. PICK key \in Keys \cup {None}, l \in Locations, o \in Orders \cup {None},
               n \in 1 .. MaxReceiptLines :
            \E items \in [1 .. n -> ReceiptLine] : \E excess :
              Begin(w, Receipt(key, l, o, items, excess))
      BY <1>2, Zenon DEF Receive
    <2>2. PICK items, excess : Begin(w, Receipt(key, l, o, items, excess))
      BY <2>1
    <2>3. \A i \in DOMAIN Receipt(key, l, o, items, excess).movements :
            Receipt(key, l, o, items, excess).movements[i].type = "entry"
      BY DEF Receipt, Nothing, Posting
    <2> QED BY <2>2, <2>3
  <1>3. CASE ConfirmInventory(w)
    <2>0. PICK s \in Sessions : \E rows :
            Begin(w, Confirmation(s, [i \in DOMAIN rows |->
                Adjustment(rows[i], Difference(s, rows[i]), location[s], Source("inventory", s))]))
      BY <1>3 DEF ConfirmInventory
    <2>1. PICK rows :
            Begin(w, Confirmation(s, [i \in DOMAIN rows |->
                Adjustment(rows[i], Difference(s, rows[i]), location[s], Source("inventory", s))]))
      BY <2>0
    <2> DEFINE batch == [i \in DOMAIN rows |->
                Adjustment(rows[i], Difference(s, rows[i]), location[s], Source("inventory", s))]
               t == Confirmation(s, batch)
    <2>2. \A i \in DOMAIN batch : batch[i].type # "reversal"
      BY DEF Adjustment, Posting
    <2> HIDE DEF batch
    <2>3. t.movements = batch
      BY DEF Confirmation, Nothing
    <2>4. Begin(w, t) /\ \A i \in DOMAIN t.movements : t.movements[i].type # "reversal"
      BY <2>1, <2>2, <2>3 DEF batch
    <2> QED BY <2>4
  <1>4. CASE RegularizeDiscrepancy(w)
    <2>1. PICK d \in DOMAIN discrepancies, q \in Quantities, sign \in {1, -1} :
            Begin(w, [Nothing EXCEPT
              !.movements = <<Adjustment(discrepancies[d].article, sign * q,
                                         discrepancies[d].location, Source("discrepancy", d))>>,
              !.regularized = {d}])
      BY <1>4 DEF RegularizeDiscrepancy
    <2> DEFINE m == Adjustment(discrepancies[d].article, sign * q, discrepancies[d].location,
                               Source("discrepancy", d))
               t == [Nothing EXCEPT !.movements = <<m>>, !.regularized = {d}]
    <2>2. m.type # "reversal"
      BY DEF Adjustment, Posting
    <2> HIDE DEF m
    <2>3. t.movements = <<m>>
      BY DEF Nothing
    <2>4. \A i \in DOMAIN t.movements : t.movements[i].type # "reversal"
      BY <2>2, <2>3
    <2> QED BY <2>1, <2>4 DEF m
  <1>5. CASE DeliverRequest(w)
    <2>0. PICK r \in Requests, l \in Locations, choice \in [DOMAIN Needs -> Articles] : \E rows :
            Begin(w, [Nothing EXCEPT
              !.locked = NeedsOf(r),
              !.movements = [i \in DOMAIN rows |->
                 Posting(choice[rows[i]], "exit", Needs[rows[i]].quantity, l, None,
                         Source("need", rows[i]))],
              !.need = [n \in Undelivered(r) |->
                          IF Needs[n].direct THEN "applied" ELSE "delivered"]])
      BY <1>5 DEF DeliverRequest
    <2>1. PICK rows :
            Begin(w, [Nothing EXCEPT
              !.locked = NeedsOf(r),
              !.movements = [i \in DOMAIN rows |->
                 Posting(choice[rows[i]], "exit", Needs[rows[i]].quantity, l, None,
                         Source("need", rows[i]))],
              !.need = [n \in Undelivered(r) |->
                          IF Needs[n].direct THEN "applied" ELSE "delivered"]])
      BY <2>0
    <2> DEFINE batch == [i \in DOMAIN rows |->
                 Posting(choice[rows[i]], "exit", Needs[rows[i]].quantity, l, None,
                         Source("need", rows[i]))]
               t == [Nothing EXCEPT
                      !.locked = NeedsOf(r), !.movements = batch,
                      !.need = [n \in Undelivered(r) |->
                                  IF Needs[n].direct THEN "applied" ELSE "delivered"]]
    <2>2. \A i \in DOMAIN batch : batch[i].type # "reversal"
      BY DEF Posting
    <2> HIDE DEF batch
    <2>3. t.movements = batch
      BY DEF Nothing
    <2>4. \A i \in DOMAIN t.movements : t.movements[i].type # "reversal"
      BY <2>2, <2>3
    <2> QED BY <2>1, <2>4 DEF batch
  <1>6. ASSUME \/ CreateOrder(w) \/ CreateInventory(w) \/ SaveCounts(w) \/ CancelInventory(w)
               \/ ArchiveInventory(w) \/ UpdateArticle(w) \/ ConfirmApplied(w)
        PROVE  \E t : Begin(w, t) /\ t.movements = <<>>
    <2>1. CASE CreateOrder(w)
      <3>1. PICK f : Begin(w, [Nothing EXCEPT !.receiving = f])
        BY <2>1 DEF CreateOrder
      <3> QED BY <3>1 DEF Nothing
    <2>2. CASE CreateInventory(w)
      <3>1. PICK s \in Sessions, l \in Locations, scope \in SUBSET Articles \ {{}} :
              LET expected == [r \in {s} \X scope |-> Balance(movements, r[2], l)] IN
              Begin(w, [Nothing EXCEPT !.status = [x \in {s} |-> "draft"],
                                       !.location = [x \in {s} |-> l], !.snapshot = expected])
        BY <2>2 DEF CreateInventory
      <3> DEFINE e == [r \in {s} \X scope |-> Balance(movements, r[2], l)]
                 f == [x \in {s} |-> "draft"]
                 g == [x \in {s} |-> l]
      <3>2. Begin(w, [Nothing EXCEPT !.status = f, !.location = g, !.snapshot = e])
        BY <3>1
      <3> HIDE DEF e, f, g
      <3>3. [Nothing EXCEPT !.status = f, !.location = g, !.snapshot = e].movements = <<>>
        BY DEF Nothing
      <3> QED BY <3>2, <3>3, Zenon
    <2>3. CASE SaveCounts(w)
      <3>1. PICK s \in Sessions, close \in BOOLEAN : \E entered :
              Begin(w, [Nothing EXCEPT
                !.counted = Changed(entered, counted),
                !.status = Changed([x \in {s} |-> IF close THEN "review" ELSE "counting"],
                                   status)])
        BY <2>3 DEF SaveCounts
      <3>2. PICK entered :
              Begin(w, [Nothing EXCEPT
                !.counted = Changed(entered, counted),
                !.status = Changed([x \in {s} |-> IF close THEN "review" ELSE "counting"],
                                   status)])
        BY <3>1
      <3> DEFINE e == Changed(entered, counted)
                 f == Changed([x \in {s} |-> IF close THEN "review" ELSE "counting"], status)
      <3>3. Begin(w, [Nothing EXCEPT !.counted = e, !.status = f])
        BY <3>2
      <3> HIDE DEF e, f
      <3>4. [Nothing EXCEPT !.counted = e, !.status = f].movements = <<>>
        BY DEF Nothing
      <3> QED BY <3>3, <3>4, Zenon
    <2>4. CASE CancelInventory(w) \/ ArchiveInventory(w)
      <3>1. PICK f : Begin(w, [Nothing EXCEPT !.status = f])
        BY <2>4 DEF CancelInventory, ArchiveInventory
      <3> QED BY <3>1 DEF Nothing
    <2>5. CASE UpdateArticle(w)
      <3>1. PICK f : Begin(w, [Nothing EXCEPT !.active = f])
        BY <2>5 DEF UpdateArticle
      <3> QED BY <3>1 DEF Nothing
    <2>6. CASE ConfirmApplied(w)
      <3>1. PICK f : Begin(w, [Nothing EXCEPT !.need = f])
        BY <2>6 DEF ConfirmApplied
      <3> QED BY <3>1 DEF Nothing
    <2> QED BY <1>6, <2>1, <2>2, <2>3, <2>4, <2>5, <2>6
  <1>7. (\E t : Begin(w, t) /\ t.movements = <<>>) => Found
    OBVIOUS
  <1> QED BY <1>1, <1>2, <1>3, <1>4, <1>5, <1>6, <1>7 DEF Request

(* What a request has decided to reverse stays on its article while others *)
(* commit.                                                                 *)
LEMMA ArticlesKept ==
  ASSUME IndInv, SameArticle, [Next]_vars
  PROVE  SameArticle'
  <1>1. ASSUME NEW w \in Workers, NEW t, KeepsArticle(movements, t.movements),
               tx' = [tx EXCEPT ![w] = t], UNCHANGED db
        PROVE  SameArticle'
    BY <1>1 DEF IndInv, TypeOK, db, SameArticle, KeepsArticle, IsReversal
  <1>2. ASSUME NEW w \in Workers, Request(w)
        PROVE  SameArticle'
    <2>1. CASE Reverse(w)
      <3>1. PICK i \in DOMAIN movements :
              Begin(w, [Nothing EXCEPT !.movements =
                      <<[movements[i] EXCEPT !.type = "reversal", !.reverses = i, !.line = None,
                                             !.source = Source("manual", None)]>>])
        BY <2>1 DEF Reverse
      <3> DEFINE m == [movements[i] EXCEPT !.type = "reversal", !.reverses = i, !.line = None,
                                           !.source = Source("manual", None)]
                 t == [Nothing EXCEPT !.movements = <<m>>]
      <3>2. movements[i] \in Movement
        BY DEF IndInv, TypeOK
      <3>3. m.article = movements[i].article /\ m.reverses = i
        BY <3>2 DEF Movement
      <3> HIDE DEF m
      <3>4. t.movements = <<m>>
        BY DEF Nothing
      <3>5. KeepsArticle(movements, t.movements)
        BY <3>3, <3>4 DEF KeepsArticle
      <3>6. Begin(w, t)
        BY <3>1 DEF m
      <3> QED BY <1>1, <3>5, <3>6 DEF Begin
    <2>2. CASE ~Reverse(w)
      <3>1. PICK t : /\ Begin(w, t)
                     /\ \A i \in DOMAIN t.movements : t.movements[i].type # "reversal"
        BY <1>2, <2>2, OthersReverseNothing
      <3> QED BY <1>1, <3>1 DEF Begin, KeepsArticle, IsReversal
    <2> QED BY <2>1, <2>2
  <1>3. ASSUME NEW w \in Workers, Abort(w)
        PROVE  SameArticle'
    <2>1. KeepsArticle(movements, Nothing.movements)
      BY DEF KeepsArticle, Nothing
    <2> QED BY <1>1, <1>3, <2>1 DEF Abort
  <1>4. ASSUME NEW w \in Workers, Commit(w)
        PROVE  SameArticle'
    <2> DEFINE b == tx[w].movements
    <2>1. /\ \A i \in DOMAIN movements : i \in DOMAIN movements' /\ movements'[i] = movements[i]
          /\ \A k \in DOMAIN movements' :
               \/ k \in DOMAIN movements /\ movements'[k] = movements[k]
               \/ /\ k - Len(movements) \in DOMAIN b /\ k \notin DOMAIN movements
                  /\ movements'[k] = b[k - Len(movements)]
          /\ tx' = [tx EXCEPT ![w] = Nothing]
      BY <1>4, CommitEffect
    <2>2. ASSUME NEW i \in DOMAIN movements, IsReversal(movements[i])
          PROVE  movements[i].reverses \in DOMAIN movements
      <3>1. movements[i].reverses \in 1 .. i - 1 /\ i \in 1 .. Len(movements) /\ Len(movements) \in Nat
        BY <2>2 DEF IndInv, ReversedAtMostOnce, TypeOK
      <3> QED BY <3>1
    <2>3. ASSUME NEW v \in Workers, NEW i \in DOMAIN tx[v].movements,
                 IsReversal(tx[v].movements[i])
          PROVE  /\ tx[v].movements[i].reverses \in DOMAIN movements
                 /\ tx[v].movements[i].article = movements'[tx[v].movements[i].reverses].article
      <3>1. tx[v].movements[i].reverses \in DOMAIN movements
        BY <2>3 DEF IndInv, PendingSound, SoundTx, PendingReversal
      <3> QED BY <2>1, <2>3, <3>1 DEF SameArticle, KeepsArticle
    <2>4. KeepsArticle(movements', movements')
      <3> SUFFICES ASSUME NEW k \in DOMAIN movements', IsReversal(movements'[k])
                   PROVE  movements'[k].article = movements'[movements'[k].reverses].article
        BY DEF KeepsArticle
      <3>1. CASE k \in DOMAIN movements
        BY <2>1, <2>2, <3>1 DEF SameArticle, KeepsArticle
      <3>2. CASE k \notin DOMAIN movements
        BY <2>1, <2>3, <3>2
      <3> QED BY <3>1, <3>2
    <2>5. ASSUME NEW v \in Workers PROVE KeepsArticle(movements', tx'[v].movements)
      <3>1. CASE v = w
        <4>1. tx'[v].movements = <<>>
          BY <2>1, <3>1 DEF IndInv, TypeOK, Nothing
        <4> QED BY <4>1 DEF KeepsArticle
      <3>2. CASE v # w
        <4>1. tx'[v] = tx[v]
          BY <2>1, <3>2 DEF IndInv, TypeOK
        <4> QED BY <2>3, <4>1 DEF KeepsArticle
      <3> QED BY <3>1, <3>2
    <2> QED BY <2>4, <2>5 DEF SameArticle, KeepsArticle, IsReversal
  <1>5. CASE UNCHANGED vars
    BY <1>5 DEF vars, SameArticle, KeepsArticle, IsReversal
  <1> QED BY <1>2, <1>3, <1>4, <1>5 DEF Next

(* The balance that users see is that of the postings nobody reversed,     *)
(* whoever races to book and to reverse (stock_balances).                  *)
THEOREM ReversalsCancel == Spec => []BalanceIgnoresReversed
  <1>1. Init => SameArticle
    BY DEF Init, SameArticle, KeepsArticle, Nothing
  <1>2. IndInv /\ SameArticle /\ [Next]_vars => SameArticle'
    BY ArticlesKept
  <1>3. IndInv /\ SameArticle => BalanceIgnoresReversed
    BY BalanceOfTheRest
  <1> QED BY <1>1, <1>2, <1>3, Inductive, PTL DEF Spec

-----------------------------------------------------------------------------
(* Requests one at a time: what is known of the writes of the only open    *)
(* request, which nobody overtakes.                                        *)

(* A receipt adds what it books to the order lines it names, once each.    *)
LineWrites(t) ==
  /\ \A x \in DOMAIN t.received : \E i \in DOMAIN t.movements :
       /\ t.movements[i].line = x
       /\ t.received[x] = received[x] + t.movements[i].quantity
  /\ \A i \in DOMAIN t.movements : t.movements[i].line # None =>
       /\ t.movements[i].line \in DOMAIN t.received /\ t.movements[i].quantity > 0
       /\ \A j \in DOMAIN t.movements : t.movements[j].line = t.movements[i].line => i = j

(* It opens a discrepancy for exactly the lines that it over-delivers.     *)
ExcessWrites(t) ==
  /\ \A k \in DOMAIN t.discrepancies :
       LET x == t.discrepancies[k].line IN
       /\ x \in DOMAIN t.received /\ t.received[x] > Lines[x].ordered
       /\ t.discrepancies[k].difference = t.received[x] - Lines[x].ordered
  /\ \A x \in DOMAIN t.received : t.received[x] > Lines[x].ordered =>
       \E k \in DOMAIN t.discrepancies : t.discrepancies[k].line = x

(* And it leaves its order with the status that follows.                   *)
OrderWrites(t) ==
  /\ \A x \in DOMAIN t.received :
       Overlay(receiving, t.receiving)[Lines[x].order] = ReceivingAfter(Lines[x].order, t.received)
  /\ \A o \in DOMAIN t.receiving :
       \/ t.receiving[o] = ReceivingAfter(o, t.received)
       \/ t.receiving[o] = "pending" /\ receiving[o] = "none" /\ DOMAIN t.received = {}

(* A posting takes no more than there is before it.                        *)
Backed(log, m) ==
  /\ m.type # "adjustment" => m.quantity > 0
  /\ m.type = "transfer" => m.from # m.to
  /\ m.type \in {"exit", "return", "transfer"} => Balance(log, m.article, m.from) >= m.quantity
  /\ m.type = "adjustment" /\ m.quantity < 0 =>
       Balance(log, m.article, IF m.to # None THEN m.to ELSE m.from) + m.quantity >= 0

Affordable(t) ==
  \A i \in DOMAIN t.movements :
    \/ IsReversal(t.movements[i])
    \/ Backed(movements \o SubSeq(t.movements, 1, i - 1), t.movements[i])

(* A session that is to be completed is in review, and each of its rows is *)
(* adjusted by its difference, if there is one.                            *)
Done == {"completed", "archived_completed"}

Settles(t, s) ==
  /\ status[s] = "review"
  /\ \A a \in RowsOf(s) :
       IF Difference(s, a) = 0
       THEN \A i \in DOMAIN t.movements :
              t.movements[i].source = Source("inventory", s) => t.movements[i].article # a
       ELSE \E i \in DOMAIN t.movements :
              /\ t.movements[i].source = Source("inventory", s)
              /\ t.movements[i].article = a /\ t.movements[i].quantity = Difference(s, a)

SessionWrites(t) ==
  /\ \A s \in DOMAIN t.status :
       /\ t.status[s] = "completed" => Settles(t, s)
       /\ t.status[s] = "archived_completed" => status[s] = "completed"
       /\ status[s] \in Done => t.status[s] \in Done
  /\ \A r \in DOMAIN t.snapshot \cup DOMAIN t.counted :
       /\ status[r[1]] \notin Done
       /\ r[1] \in DOMAIN t.status => t.status[r[1]] \notin Done
  /\ \A r \in DOMAIN t.adjusted : r[1] \in DOMAIN t.status /\ t.status[r[1]] = "completed"
  /\ \A i \in DOMAIN t.movements : t.movements[i].source.type = "inventory" =>
       LET s == t.movements[i].source.id IN
       /\ s \in DOMAIN t.status /\ t.status[s] = "completed"
       /\ \A j \in DOMAIN t.movements :
            /\ t.movements[j].source = t.movements[i].source
            /\ t.movements[j].article = t.movements[i].article
            => i = j

(* A discrepancy is regularised by one posting.                            *)
RegularizingWrites(t) ==
  \A i \in DOMAIN t.movements : t.movements[i].source.type = "discrepancy" =>
    /\ t.movements[i].source.id \in t.regularized
    /\ discrepancies[t.movements[i].source.id].status # "regularized"
    /\ Len(t.movements) = 1

(* What was booked for a session or a discrepancy has been recorded there. *)
BookedIsRecorded ==
  /\ \A i \in DOMAIN movements : movements[i].source.type = "inventory" =>
       movements[i].source.id \in Sessions /\ status[movements[i].source.id] \in Done
  /\ \A r \in Rows : adjusted[r] => status[r[1]] \in Done
  /\ \A i \in DOMAIN movements : movements[i].source.type = "discrepancy" =>
       /\ movements[i].source.id \in DOMAIN discrepancies
       /\ discrepancies[movements[i].source.id].status = "regularized"

Careful(t) ==
  /\ LineWrites(t) /\ ExcessWrites(t) /\ OrderWrites(t)
  /\ Affordable(t)
  /\ SessionWrites(t) /\ RegularizingWrites(t)

SerialInv ==
  /\ BookedIsRecorded
  /\ ReceivedMatchesEntries /\ ReceivingStatusFaithful /\ DiscrepancyTracksExcess
  /\ AdjustmentMatchesCount
  /\ \A w \in Workers : Careful(tx[w])

-----------------------------------------------------------------------------
(* The serial invariant: first steps.                                      *)

OneWorker == \A v, w \in Workers : v = w

(* Writes that touch no order, no discrepancy and no order line.           *)
LEMMA NoOrderCareful ==
  ASSUME NEW t, t.received = <<>>, t.receiving = <<>>, t.discrepancies = <<>>,
         \A i \in DOMAIN t.movements : t.movements[i].line = None
  PROVE  LineWrites(t) /\ ExcessWrites(t) /\ OrderWrites(t)
  BY DEF LineWrites, ExcessWrites, OrderWrites

(* Writes that touch no inventory session.                                 *)
LEMMA NoSessionCareful ==
  ASSUME NEW t, t.status = <<>>, t.snapshot = <<>>, t.counted = <<>>, t.adjusted = <<>>,
         \A i \in DOMAIN t.movements : t.movements[i].source.type # "inventory"
  PROVE  SessionWrites(t)
  BY DEF SessionWrites

LEMMA NoMovementCareful ==
  ASSUME NEW t, t.movements = <<>>
  PROVE  Affordable(t) /\ RegularizingWrites(t)
  BY DEF Affordable, RegularizingWrites

(* The guards of a posting make it affordable.                             *)
LEMMA CheckedIsAffordable ==
  ASSUME NEW t, MayPostAll(t.movements),
         \A i \in DOMAIN t.movements :
           /\ t.movements[i].type # "adjustment" => t.movements[i].quantity > 0
           /\ t.movements[i].type = "transfer" => t.movements[i].from # t.movements[i].to
  PROVE  Affordable(t)
  BY DEF Affordable, Backed, MayPostAll, MayPost

(* Only one request is open: what holds of its writes when it has decided  *)
(* holds until it ends.                                                    *)
LEMMA SerialBegin ==
  ASSUME OneWorker, IndInv, SerialInv, NEW w \in Workers, NEW t, Careful(t),
         tx' = [tx EXCEPT ![w] = t], UNCHANGED db
  PROVE  SerialInv'
  <1> USE DEF db
  <1>1. BookedIsRecorded' /\ ReceivedMatchesEntries' /\ ReceivingStatusFaithful'
    BY DEF SerialInv, BookedIsRecorded, ReceivedMatchesEntries, ReceivingStatusFaithful, Booked
  <1>2. DiscrepancyTracksExcess' /\ AdjustmentMatchesCount'
    BY DEF SerialInv, DiscrepancyTracksExcess, AdjustmentMatchesCount, Booked, RowsOf, Difference
  <1>3. \A v \in Workers : tx'[v] = t
    BY DEF OneWorker, IndInv, TypeOK
  <1>4. LineWrites(t)' /\ ExcessWrites(t)'
    BY DEF Careful, LineWrites, ExcessWrites
  <1>5. OrderWrites(t)'
    BY DEF Careful, OrderWrites, ReceivingAfter
  <1>6. Affordable(t)'
    BY DEF Careful, Affordable
  <1>7. SessionWrites(t)'
    BY DEF Careful, SessionWrites, Settles, RowsOf, Difference
  <1>8. RegularizingWrites(t)'
    BY DEF Careful, RegularizingWrites
  <1> QED BY <1>1, <1>2, <1>3, <1>4, <1>5, <1>6, <1>7, <1>8 DEF SerialInv, Careful

LEMMA NothingIsCareful == Careful(Nothing)
  <1> DEFINE t == Nothing
  <1>1. /\ t.movements = <<>> /\ t.received = <<>> /\ t.receiving = <<>>
        /\ t.discrepancies = <<>> /\ t.status = <<>> /\ t.snapshot = <<>>
        /\ t.counted = <<>> /\ t.adjusted = <<>>
    BY DEF Nothing
  <1>2. \A i : i \notin DOMAIN t.movements
    BY <1>1
  <1> HIDE DEF t
  <1>3. LineWrites(t) /\ ExcessWrites(t) /\ OrderWrites(t)
    BY <1>1, <1>2, NoOrderCareful
  <1>4. SessionWrites(t)
    BY <1>1, <1>2, NoSessionCareful
  <1>5. Affordable(t) /\ RegularizingWrites(t)
    BY <1>1, NoMovementCareful
  <1> QED BY <1>3, <1>4, <1>5 DEF Careful, t

(* Writes of sessions, articles and needs only.                            *)
LEMMA QuietCareful ==
  ASSUME NEW t, t.movements = <<>>, t.received = <<>>, t.receiving = <<>>,
         t.discrepancies = <<>>, SessionWrites(t)
  PROVE  Careful(t)
  <1>1. \A i : i \notin DOMAIN t.movements
    OBVIOUS
  <1>2. LineWrites(t) /\ ExcessWrites(t) /\ OrderWrites(t)
    BY <1>1, NoOrderCareful
  <1> QED BY <1>2, NoMovementCareful DEF Careful

LEMMA CellStepsCareful ==
  ASSUME IndInv, SerialInv, NEW w \in Workers,
         \/ CreateOrder(w) \/ CreateInventory(w) \/ SaveCounts(w) \/ CancelInventory(w)
         \/ ArchiveInventory(w) \/ UpdateArticle(w) \/ ConfirmApplied(w)
  PROVE  \E t : Begin(w, t) /\ Careful(t)
  <1>1. CASE CreateOrder(w)
    <2> DEFINE o == Cardinality({x \in Orders : receiving[x] # "none"}) + 1
               f == [x \in {o} |-> "pending"]
               t == [Nothing EXCEPT !.receiving = f]
    <2>1. Begin(w, t) /\ receiving[o] = "none"
      BY <1>1 DEF CreateOrder
    <2>2. DOMAIN f = {o} /\ f[o] = "pending"
      OBVIOUS
    <2> HIDE DEF f, o
    <2>3. /\ t.movements = <<>> /\ t.received = <<>> /\ t.receiving = f
          /\ t.discrepancies = <<>> /\ t.status = <<>> /\ t.snapshot = <<>>
          /\ t.counted = <<>> /\ t.adjusted = <<>>
      BY DEF Nothing
    <2> HIDE DEF t
    <2>4. \A i : i \notin DOMAIN t.movements
      BY <2>3
    <2>5. LineWrites(t) /\ ExcessWrites(t)
      BY <2>3, <2>4 DEF LineWrites, ExcessWrites
    <2>6. OrderWrites(t)
      BY <2>1, <2>2, <2>3 DEF OrderWrites
    <2>7. SessionWrites(t)
      BY <2>3, <2>4, NoSessionCareful
    <2> QED BY <2>1, <2>3, <2>5, <2>6, <2>7, NoMovementCareful DEF Careful
  <1>2. CASE CreateInventory(w)
    <2>1. PICK s \in Sessions, l \in Locations, scope \in SUBSET Articles \ {{}} :
            LET expected == [r \in {s} \X scope |-> Balance(movements, r[2], l)] IN
            /\ status[s] = "none"
            /\ Begin(w, [Nothing EXCEPT !.status = [x \in {s} |-> "draft"],
                                        !.location = [x \in {s} |-> l],
                                        !.snapshot = expected])
      BY <1>2 DEF CreateInventory
    <2> DEFINE e == [r \in {s} \X scope |-> Balance(movements, r[2], l)]
               f == [x \in {s} |-> "draft"]
               g == [x \in {s} |-> l]
               t == [Nothing EXCEPT !.status = f, !.location = g, !.snapshot = e]
    <2>2. /\ Begin(w, t) /\ \A r \in DOMAIN e : r[1] = s
          /\ DOMAIN f = {s} /\ f[s] = "draft"
      BY <2>1
    <2> HIDE DEF e, f, g
    <2>3. /\ t.movements = <<>> /\ t.received = <<>> /\ t.receiving = <<>>
          /\ t.discrepancies = <<>> /\ t.status = f /\ t.snapshot = e
          /\ t.counted = <<>> /\ t.adjusted = <<>>
      BY DEF Nothing
    <2> HIDE DEF t
    <2>4. SessionWrites(t)
      BY <2>1, <2>2, <2>3 DEF SessionWrites, Done
    <2> QED BY <2>2, <2>3, <2>4, QuietCareful
  <1>3. CASE SaveCounts(w)
    <2>0. PICK s \in Sessions, close \in BOOLEAN :
            \E entered \in UNION {[{s} \X scope -> Counts] : scope \in SUBSET RowsOf(s)} :
              /\ AcceptsCounts(s)
              /\ Begin(w, [Nothing EXCEPT
                   !.counted = Changed(entered, counted),
                   !.status = Changed([x \in {s} |-> IF close THEN "review" ELSE "counting"],
                                      status)])
      BY <1>3 DEF SaveCounts
    <2>1. PICK entered \in UNION {[{s} \X scope -> Counts] : scope \in SUBSET RowsOf(s)} :
            /\ AcceptsCounts(s)
            /\ Begin(w, [Nothing EXCEPT
                 !.counted = Changed(entered, counted),
                 !.status = Changed([x \in {s} |-> IF close THEN "review" ELSE "counting"],
                                    status)])
      BY <2>0
    <2> DEFINE e == Changed(entered, counted)
               f == Changed([x \in {s} |-> IF close THEN "review" ELSE "counting"], status)
               t == [Nothing EXCEPT !.counted = e, !.status = f]
    <2>2. \A r \in DOMAIN e : r[1] = s
      <3>1. PICK scope \in SUBSET RowsOf(s) : entered \in [{s} \X scope -> Counts]
        OBVIOUS
      <3>2. DOMAIN e \subseteq {s} \X scope
        BY <3>1 DEF Changed
      <3> QED BY <3>2
    <2>3. DOMAIN f \subseteq {s} /\ \A x \in DOMAIN f : f[x] \in {"review", "counting"}
      BY DEF Changed
    <2>4. Begin(w, t) /\ status[s] \in {"draft", "counting"}
      BY <2>1 DEF AcceptsCounts
    <2> HIDE DEF e, f
    <2>5. /\ t.movements = <<>> /\ t.received = <<>> /\ t.receiving = <<>>
          /\ t.discrepancies = <<>> /\ t.status = f /\ t.snapshot = <<>>
          /\ t.counted = e /\ t.adjusted = <<>>
      BY DEF Nothing
    <2> HIDE DEF t
    <2>6. SessionWrites(t)
      BY <2>2, <2>3, <2>4, <2>5 DEF SessionWrites, Done
    <2> QED BY <2>4, <2>5, <2>6, QuietCareful
  <1>4. CASE CancelInventory(w) \/ ArchiveInventory(w)
    <2>1. PICK s \in Sessions, z \in {"cancelled", "archived_completed", "archived_cancelled"} :
            /\ z = "archived_completed" => status[s] = "completed"
            /\ status[s] \in Done => z = "archived_completed"
            /\ Begin(w, [Nothing EXCEPT !.status = [x \in {s} |-> z]])
      BY <1>4 DEF CancelInventory, ArchiveInventory, AcceptsCounts, Done
    <2> DEFINE f == [x \in {s} |-> z]
               t == [Nothing EXCEPT !.status = f]
    <2>2. Begin(w, t) /\ DOMAIN f = {s} /\ f[s] = z
      BY <2>1
    <2> HIDE DEF f
    <2>3. /\ t.movements = <<>> /\ t.received = <<>> /\ t.receiving = <<>>
          /\ t.discrepancies = <<>> /\ t.status = f /\ t.snapshot = <<>>
          /\ t.counted = <<>> /\ t.adjusted = <<>>
      BY DEF Nothing
    <2> HIDE DEF t
    <2>4. SessionWrites(t)
      BY <2>1, <2>2, <2>3 DEF SessionWrites, Done
    <2> QED BY <2>2, <2>3, <2>4, QuietCareful
  <1>5. CASE UpdateArticle(w) \/ ConfirmApplied(w)
    <2>1. \/ \E f : Begin(w, [Nothing EXCEPT !.active = f])
          \/ \E f : Begin(w, [Nothing EXCEPT !.need = f])
      BY <1>5 DEF UpdateArticle, ConfirmApplied
    <2>2. PICK t : /\ Begin(w, t)
                   /\ t.movements = <<>> /\ t.received = <<>> /\ t.receiving = <<>>
                   /\ t.discrepancies = <<>> /\ t.status = <<>> /\ t.snapshot = <<>>
                   /\ t.counted = <<>> /\ t.adjusted = <<>>
      <3>1. CASE \E f : Begin(w, [Nothing EXCEPT !.active = f])
        BY <3>1 DEF Nothing
      <3>2. CASE \E f : Begin(w, [Nothing EXCEPT !.need = f])
        BY <3>2 DEF Nothing
      <3> QED BY <2>1, <3>1, <3>2
    <2>3. SessionWrites(t)
      BY <2>2, NoSessionCareful
    <2> QED BY <2>2, <2>3, QuietCareful
  <1> QED BY <1>1, <1>2, <1>3, <1>4, <1>5

(* Postings of no order line, session or discrepancy.                      *)
LEMMA PostingsCareful ==
  ASSUME NEW t, t.received = <<>>, t.receiving = <<>>, t.discrepancies = <<>>,
         t.status = <<>>, t.snapshot = <<>>, t.counted = <<>>, t.adjusted = <<>>,
         \A i \in DOMAIN t.movements :
           /\ t.movements[i].line = None
           /\ t.movements[i].source.type \notin {"inventory", "discrepancy"},
         Affordable(t)
  PROVE  Careful(t)
  <1>1. LineWrites(t) /\ ExcessWrites(t) /\ OrderWrites(t)
    BY NoOrderCareful
  <1>2. SessionWrites(t)
    BY NoSessionCareful
  <1>3. RegularizingWrites(t)
    BY DEF RegularizingWrites
  <1> QED BY <1>1, <1>2, <1>3 DEF Careful

(* What users type is positive.                                            *)
LEMMA QuantityPositive ==
  ASSUME NEW q \in Quantities PROVE q \in Int /\ q > 0
  BY AmountAssumption, NumAssumption

LEMMA ManualStepsCareful ==
  ASSUME IndInv, SerialInv, NEW w \in Workers, PostMovement(w) \/ Reverse(w)
  PROVE  \E t : Begin(w, t) /\ Careful(t)
  <1>1. CASE PostMovement(w)
    <2>1. PICK a \in Articles, type \in ManualTypes, q \in Quantities, sign \in {1, -1},
               from \in Locations \cup {None}, to \in Locations \cup {None} :
            LET m == Posting(a, type, sign * q, from, to, Source("manual", None)) IN
            /\ type # "adjustment" => sign = 1
            /\ LocationsMatchType(type, from, to)
            /\ MayPostAll(<<m>>)
            /\ Begin(w, [Nothing EXCEPT !.movements = <<m>>])
      BY <1>1, Zenon DEF PostMovement
    <2> DEFINE m == Posting(a, type, sign * q, from, to, Source("manual", None))
               t == [Nothing EXCEPT !.movements = <<m>>]
    <2>2. /\ m.line = None /\ m.source.type = "manual"
          /\ m.type # "adjustment" => m.quantity > 0
          /\ m.type = "transfer" => m.from # m.to
      <3>1. m.line = None /\ m.source.type = "manual" /\ m.type = type /\ m.quantity = sign * q
            /\ m.from = from /\ m.to = to
        BY DEF Posting, Source
      <3>2. q \in Int /\ q > 0
        BY QuantityPositive
      <3>3. type = "transfer" => from # to
        BY <2>1 DEF LocationsMatchType
      <3> QED BY <2>1, <3>1, <3>2, <3>3
    <2>3. Begin(w, t) /\ MayPostAll(<<m>>)
      BY <2>1
    <2> HIDE DEF m
    <2>4. /\ t.movements = <<m>> /\ t.received = <<>> /\ t.receiving = <<>>
          /\ t.discrepancies = <<>> /\ t.status = <<>> /\ t.snapshot = <<>>
          /\ t.counted = <<>> /\ t.adjusted = <<>>
      BY DEF Nothing
    <2> HIDE DEF t
    <2>5. \A i \in DOMAIN t.movements : t.movements[i] = m
      BY <2>4
    <2>6. MayPostAll(t.movements)
      BY <2>3, <2>4
    <2>7. Affordable(t)
      BY <2>2, <2>5, <2>6, CheckedIsAffordable
    <2>8. Careful(t)
      BY <2>2, <2>4, <2>5, <2>7, PostingsCareful
    <2> QED BY <2>3, <2>8
  <1>2. CASE Reverse(w)
    <2>1. PICK i \in DOMAIN movements :
            Begin(w, [Nothing EXCEPT !.movements =
                    <<[movements[i] EXCEPT !.type = "reversal", !.reverses = i, !.line = None,
                                           !.source = Source("manual", None)]>>])
      BY <1>2 DEF Reverse
    <2> DEFINE m == [movements[i] EXCEPT !.type = "reversal", !.reverses = i, !.line = None,
                                         !.source = Source("manual", None)]
               t == [Nothing EXCEPT !.movements = <<m>>]
    <2>2. movements[i] \in Movement
      BY DEF IndInv, TypeOK
    <2>3. m.line = None /\ m.source.type = "manual" /\ m.type = "reversal"
      BY <2>2 DEF Movement, Source
    <2>4. Begin(w, t)
      BY <2>1
    <2> HIDE DEF m
    <2>5. /\ t.movements = <<m>> /\ t.received = <<>> /\ t.receiving = <<>>
          /\ t.discrepancies = <<>> /\ t.status = <<>> /\ t.snapshot = <<>>
          /\ t.counted = <<>> /\ t.adjusted = <<>>
      BY DEF Nothing
    <2> HIDE DEF t
    <2>6. \A k \in DOMAIN t.movements : t.movements[k] = m
      BY <2>5
    <2>7. Affordable(t)
      BY <2>3, <2>6 DEF Affordable, IsReversal
    <2>8. Careful(t)
      BY <2>3, <2>5, <2>6, <2>7, PostingsCareful
    <2> QED BY <2>4, <2>8
  <1> QED BY <1>1, <1>2

LEMMA DeliverCareful ==
  ASSUME IndInv, SerialInv, NEW w \in Workers, DeliverRequest(w)
  PROVE  \E t : Begin(w, t) /\ Careful(t)
  <1>1. PICK r \in Requests, l \in Locations, choice \in [DOMAIN Needs -> Articles] :
          \E rows \in InAnyOrder(Undelivered(r)) :
               LET batch == [i \in DOMAIN rows |->
                     Posting(choice[rows[i]], "exit", Needs[rows[i]].quantity, l, None,
                             Source("need", rows[i]))] IN
               /\ MayPostAll(batch)
               /\ Begin(w, [Nothing EXCEPT
                    !.locked = NeedsOf(r),
                    !.movements = batch,
                    !.need = [n \in Undelivered(r) |->
                                IF Needs[n].direct THEN "applied" ELSE "delivered"]])
    BY DEF DeliverRequest
  <1>2. PICK rows \in InAnyOrder(Undelivered(r)) :
          LET batch == [i \in DOMAIN rows |->
                Posting(choice[rows[i]], "exit", Needs[rows[i]].quantity, l, None,
                        Source("need", rows[i]))] IN
          /\ MayPostAll(batch)
          /\ Begin(w, [Nothing EXCEPT
               !.locked = NeedsOf(r),
               !.movements = batch,
               !.need = [n \in Undelivered(r) |->
                           IF Needs[n].direct THEN "applied" ELSE "delivered"]])
    BY <1>1
  <1> DEFINE batch == [i \in DOMAIN rows |->
                Posting(choice[rows[i]], "exit", Needs[rows[i]].quantity, l, None,
                        Source("need", rows[i]))]
             f == [n \in Undelivered(r) |-> IF Needs[n].direct THEN "applied" ELSE "delivered"]
             t == [Nothing EXCEPT !.locked = NeedsOf(r), !.movements = batch, !.need = f]
  <1>3. rows \in [1 .. Cardinality(Undelivered(r)) -> Undelivered(r)]
    BY DEF InAnyOrder
  <1>4. \A i \in DOMAIN batch :
          /\ batch[i].line = None /\ batch[i].source.type = "need"
          /\ batch[i].type = "exit" /\ batch[i].quantity > 0
    <2>1. \A i \in DOMAIN rows : rows[i] \in DOMAIN Needs
      BY <1>3 DEF Undelivered, NeedsOf
    <2>2. \A i \in DOMAIN rows : Needs[rows[i]].quantity > 0
      BY <2>1, NeedsAssumption, QuantityPositive
    <2> QED BY <2>2 DEF Posting, Source
  <1>5. Begin(w, t) /\ MayPostAll(batch)
    BY <1>2
  <1> HIDE DEF batch, f
  <1>6. /\ t.movements = batch /\ t.received = <<>> /\ t.receiving = <<>>
        /\ t.discrepancies = <<>> /\ t.status = <<>> /\ t.snapshot = <<>>
        /\ t.counted = <<>> /\ t.adjusted = <<>>
    BY DEF Nothing
  <1> HIDE DEF t
  <1>7. Affordable(t)
    BY <1>4, <1>5, <1>6, CheckedIsAffordable
  <1>8. Careful(t)
    BY <1>4, <1>6, <1>7, PostingsCareful
  <1> QED BY <1>5, <1>8

LEMMA RegularizeCareful ==
  ASSUME IndInv, SerialInv, NEW w \in Workers, RegularizeDiscrepancy(w)
  PROVE  \E t : Begin(w, t) /\ Careful(t)
  <1>1. PICK d \in DOMAIN discrepancies, q \in Quantities, sign \in {1, -1} :
          LET batch == <<Adjustment(discrepancies[d].article, sign * q,
                                    discrepancies[d].location, Source("discrepancy", d))>> IN
          /\ IsOpen(d)
          /\ MayPostAll(batch)
          /\ Begin(w, [Nothing EXCEPT !.movements = batch, !.regularized = {d}])
    BY DEF RegularizeDiscrepancy
  <1> DEFINE m == Adjustment(discrepancies[d].article, sign * q, discrepancies[d].location,
                             Source("discrepancy", d))
             t == [Nothing EXCEPT !.movements = <<m>>, !.regularized = {d}]
  <1>2. /\ m.line = None /\ m.source.type = "discrepancy" /\ m.source.id = d
        /\ m.type = "adjustment"
    BY DEF Adjustment, Posting, Source
  <1>3. Begin(w, t) /\ MayPostAll(<<m>>) /\ discrepancies[d].status # "regularized"
    BY <1>1 DEF IsOpen
  <1> HIDE DEF m
  <1>4. /\ t.movements = <<m>> /\ t.received = <<>> /\ t.receiving = <<>>
        /\ t.discrepancies = <<>> /\ t.status = <<>> /\ t.snapshot = <<>>
        /\ t.counted = <<>> /\ t.adjusted = <<>> /\ t.regularized = {d}
    BY DEF Nothing
  <1> HIDE DEF t
  <1>5. Len(t.movements) = 1 /\ \A i \in DOMAIN t.movements : t.movements[i] = m
    BY <1>4
  <1>6. MayPostAll(t.movements)
    BY <1>3, <1>4
  <1>7. Affordable(t)
    BY <1>2, <1>5, <1>6, CheckedIsAffordable
  <1>8. LineWrites(t) /\ ExcessWrites(t) /\ OrderWrites(t)
    BY <1>2, <1>4, <1>5, NoOrderCareful
  <1>9. SessionWrites(t)
    BY <1>2, <1>4, <1>5, NoSessionCareful
  <1>10. RegularizingWrites(t)
    BY <1>2, <1>3, <1>4, <1>5 DEF RegularizingWrites
  <1> QED BY <1>3, <1>7, <1>8, <1>9, <1>10 DEF Careful

(* A query ORDER BY id returns every row, once.                            *)
LEMMA OrderedRowsAll ==
  ASSUME NEW ids, IsFiniteSet(ids), ids \subseteq Int, NEW f, f \in InIdOrder(ids)
  PROVE  /\ \A i, j \in DOMAIN f : f[i] = f[j] => i = j
         /\ \A x \in ids : \E i \in DOMAIN f : f[i] = x
  <1> DEFINE n == Cardinality(ids)
  <1>1. n \in Nat /\ f \in [1 .. n -> ids] /\ DOMAIN f = 1 .. n
    BY OrderedRows
  <1>2. \A i, j \in DOMAIN f : i < j => f[i] < f[j]
    BY DEF InIdOrder
  <1> HIDE DEF n
  <1>3. ASSUME NEW i \in DOMAIN f, NEW j \in DOMAIN f, f[i] = f[j] PROVE i = j
    <2>1. i \in 1 .. n /\ j \in 1 .. n /\ f[i] \in ids /\ f[j] \in ids
      BY <1>1
    <2>2. i \in Int /\ j \in Int
      BY <1>1, <2>1
    <2>9. f[i] \in Int
      BY <2>1
    <2>3. ~(i < j) /\ ~(j < i)
      BY <1>2, <1>3, <2>9
    <2> QED BY <2>2, <2>3
  <1>4. f \in Injection(1 .. n, ids)
    BY <1>1, <1>3 DEF Injection, IsInjective
  <1>5. Cardinality(1 .. n) = n
    BY <1>1, FS_Interval
  <1>6. f \in Surjection(1 .. n, ids)
    BY <1>4, <1>5, FS_Injection DEF n
  <1> QED BY <1>1, <1>3, <1>6 DEF Surjection

(* A confirmation settles its session: each row with a difference gets one *)
(* adjustment, for nothing was adjusted before.                            *)
LEMMA ConfirmCareful ==
  ASSUME IndInv, SerialInv, NEW w \in Workers, ConfirmInventory(w)
  PROVE  \E t : Begin(w, t) /\ Careful(t)
  <1>1. PICK s \in Sessions :
          /\ status[s] = "review"
          /\ \E rows \in InIdOrder(Unadjusted(s)) :
               LET batch == [i \in DOMAIN rows |->
                     Adjustment(rows[i], Difference(s, rows[i]), location[s],
                                Source("inventory", s))] IN
               MayPostAll(batch) /\ Begin(w, Confirmation(s, batch))
    BY DEF ConfirmInventory
  <1>2. PICK rows \in InIdOrder(Unadjusted(s)) :
          LET batch == [i \in DOMAIN rows |->
                Adjustment(rows[i], Difference(s, rows[i]), location[s],
                           Source("inventory", s))] IN
          MayPostAll(batch) /\ Begin(w, Confirmation(s, batch))
    BY <1>1
  <1> DEFINE batch == [i \in DOMAIN rows |->
                Adjustment(rows[i], Difference(s, rows[i]), location[s],
                           Source("inventory", s))]
             f == [r \in {s} \X Unadjusted(s) |-> TRUE]
             g == [x \in {s} |-> "completed"]
             t == [Nothing EXCEPT !.movements = batch, !.adjusted = f, !.status = g]
  <1>3. /\ rows \in [1 .. Cardinality(Unadjusted(s)) -> Unadjusted(s)]
        /\ \A i, j \in DOMAIN rows : rows[i] = rows[j] => i = j
        /\ \A a \in Unadjusted(s) : \E i \in DOMAIN rows : rows[i] = a
    <2>1. IsFiniteSet(Articles) /\ Articles \subseteq Int
      BY FS_Interval, NumAssumption DEF Articles
    <2>2. IsFiniteSet(Unadjusted(s)) /\ Unadjusted(s) \subseteq Int
      BY <2>1, FS_Subset DEF Unadjusted, RowsOf
    <2> QED BY <2>2, OrderedRows, OrderedRowsAll
  <1>4. Unadjusted(s) = {a \in RowsOf(s) : Difference(s, a) # 0}
    <2>1. \A a \in RowsOf(s) : ~adjusted[<<s, a>>]
      BY <1>1 DEF SerialInv, BookedIsRecorded, Rows, RowsOf, Done
    <2> QED BY <2>1 DEF Unadjusted
  <1>5. \A i \in DOMAIN rows :
          /\ batch[i].line = None /\ batch[i].source = Source("inventory", s)
          /\ batch[i].type = "adjustment" /\ batch[i].article = rows[i]
          /\ batch[i].quantity = Difference(s, rows[i])
    BY DEF Adjustment, Posting
  <1>6. Begin(w, t) /\ MayPostAll(batch) /\ DOMAIN batch = DOMAIN rows
    BY <1>2 DEF Confirmation
  <1>7. /\ DOMAIN g = {s} /\ g[s] = "completed"
        /\ \A r \in DOMAIN f : r[1] = s
    OBVIOUS
  <1> HIDE DEF batch, f, g
  <1>8. /\ t.movements = batch /\ t.received = <<>> /\ t.receiving = <<>>
        /\ t.discrepancies = <<>> /\ t.status = g /\ t.snapshot = <<>>
        /\ t.counted = <<>> /\ t.adjusted = f
    BY DEF Nothing
  <1> HIDE DEF t
  <1>9. Source("inventory", s).type = "inventory" /\ Source("inventory", s).id = s
    BY DEF Source
  <1>10. LineWrites(t) /\ ExcessWrites(t) /\ OrderWrites(t)
    BY <1>5, <1>6, <1>8, NoOrderCareful
  <1>11. Affordable(t)
    BY <1>5, <1>6, <1>8, CheckedIsAffordable
  <1>12. RegularizingWrites(t)
    BY <1>5, <1>6, <1>8, <1>9 DEF RegularizingWrites
  <1>13. Settles(t, s)
    <2> SUFFICES ASSUME NEW a \in RowsOf(s)
                 PROVE  IF Difference(s, a) = 0
                        THEN \A i \in DOMAIN t.movements :
                               t.movements[i].source = Source("inventory", s) =>
                                 t.movements[i].article # a
                        ELSE \E i \in DOMAIN t.movements :
                               /\ t.movements[i].source = Source("inventory", s)
                               /\ t.movements[i].article = a
                               /\ t.movements[i].quantity = Difference(s, a)
      BY <1>1 DEF Settles
    <2>1. CASE Difference(s, a) = 0
      <3>1. a \notin Unadjusted(s)
        BY <1>4, <2>1
      <3>2. \A i \in DOMAIN rows : rows[i] # a
        BY <1>3, <3>1
      <3> QED BY <1>5, <1>6, <1>8, <2>1, <3>2
    <2>2. CASE Difference(s, a) # 0
      <3>1. PICK i \in DOMAIN rows : rows[i] = a
        BY <1>3, <1>4, <2>2
      <3> QED BY <1>5, <1>6, <1>8, <2>2, <3>1
    <2> QED BY <2>1, <2>2
  <1>14. SessionWrites(t)
    BY <1>1, <1>3, <1>5, <1>6, <1>7, <1>8, <1>9, <1>13 DEF SessionWrites, Done
  <1> QED BY <1>6, <1>10, <1>11, <1>12, <1>14 DEF Careful

LEMMA ReceiveCareful ==
  ASSUME IndInv, SerialInv, NEW w \in Workers, Receive(w)
  PROVE  \E t : Begin(w, t) /\ Careful(t)
  <1>1. PICK key \in Keys \cup {None}, l \in Locations, o \in Orders \cup {None},
             n \in 1 .. MaxReceiptLines :
          \E items \in [1 .. n -> ReceiptLine] :
            /\ ValidReceipt(o, l, items)
            /\ \E excess \in InIdOrder(Excessive(items)) :
                 Begin(w, Receipt(key, l, o, items, excess))
    BY DEF Receive
  <1>2. PICK items \in [1 .. n -> ReceiptLine] :
          /\ ValidReceipt(o, l, items)
          /\ \E excess \in InIdOrder(Excessive(items)) :
               Begin(w, Receipt(key, l, o, items, excess))
    BY <1>1
  <1>3. PICK excess \in InIdOrder(Excessive(items)) :
          Begin(w, Receipt(key, l, o, items, excess))
    BY <1>2
  <1> DEFINE taken == ReceivedWith(items)
             batch == [i \in DOMAIN items |->
                  [Posting(items[i].article, "entry", items[i].quantity, None, l,
                           ReceiptSource(key)) EXCEPT !.line = items[i].line]]
             after == [x \in {o} \ {None} |-> ReceivingAfter(x, taken)]
             rcv == Changed(after, receiving)
             keys == {key} \ {None}
             found == [k \in DOMAIN excess |-> ExcessOf(items[excess[k]], l)]
             t == [Nothing EXCEPT !.keys = keys, !.movements = batch, !.received = taken,
                                  !.discrepancies = found, !.receiving = rcv]
  <1>4. /\ DOMAIN items = 1 .. n /\ n \in Nat
        /\ \A i \in DOMAIN items :
             /\ items[i].line \in OrderLines \cup {None}
             /\ items[i].quantity \in Int /\ items[i].quantity > 0
             /\ items[i].line # None => Lines[items[i].line].article = items[i].article
                                        /\ items[i].line \in LinesOf(o)
    <2>1. DOMAIN items = 1 .. n /\ n \in Nat
      BY NumAssumption
    <2>2. \A i \in DOMAIN items :
             /\ items[i].line \in OrderLines \cup {None}
             /\ items[i].quantity \in Quantities
      BY <2>1 DEF ReceiptLine
    <2>3. \A i \in DOMAIN items :
             items[i].line # None => Lines[items[i].line].article = items[i].article
                                        /\ items[i].line \in LinesOf(o)
      BY <1>2 DEF ValidReceipt
    <2> QED BY <2>1, <2>2, <2>3, QuantityPositive
  <1>5. \A i, j \in DOMAIN items : items[i].line = items[j].line /\ items[i].line # None => i = j
    BY <1>2, <1>4 DEF ValidReceipt
  <1>6. ASSUME NEW i \in DOMAIN items, items[i].line # None
        PROVE  /\ items[i].line \in DOMAIN taken
               /\ taken[items[i].line] = received[items[i].line] + items[i].quantity
    <2> DEFINE j == CHOOSE k \in DOMAIN items : items[k].line = items[i].line
    <2>1. j \in DOMAIN items /\ items[j].line = items[i].line
      OBVIOUS
    <2>2. j = i
      BY <1>5, <1>6, <2>1
    <2> QED BY <1>6, <2>2 DEF ReceivedWith
  <1>7. \A x \in DOMAIN taken : /\ x \in OrderLines /\ x # None
                                /\ \E i \in DOMAIN items : items[i].line = x
    BY <1>4 DEF ReceivedWith
  <1>8. \A x \in OrderLines : received[x] \in Int /\ Lines[x].ordered \in Int
                              /\ Lines[x].order \in Orders
    <2>1. ASSUME NEW x \in OrderLines
          PROVE  received[x] \in Int /\ Lines[x].ordered \in Int /\ Lines[x].order \in Orders
      <3>1. received[x] \in Int
        BY <2>1, NumAssumption DEF IndInv, TypeOK, Amounts
      <3> QED BY <2>1, <3>1, LinesAssumption, QuantityPositive
    <2> QED BY <2>1
  <1>9. /\ DOMAIN batch = DOMAIN items
        /\ \A i \in DOMAIN items :
             /\ batch[i].line = items[i].line /\ batch[i].quantity = items[i].quantity
             /\ batch[i].type = "entry" /\ batch[i].source.type \in {"manual", "receipt"}
    BY DEF Posting, ReceiptSource, Source
  <1>10. /\ DOMAIN found = DOMAIN excess
         /\ \A k \in DOMAIN excess :
              /\ found[k].line = items[excess[k]].line
              /\ found[k].difference = items[excess[k]].quantity
                   - (Lines[items[excess[k]].line].ordered - received[items[excess[k]].line])
    BY DEF ExcessOf
  <1>11. /\ \A k \in DOMAIN excess : excess[k] \in Excessive(items)
         /\ \A i \in Excessive(items) : \E k \in DOMAIN excess : excess[k] = i
    <2>1. IsFiniteSet(1 .. n)
      BY <1>4, FS_Interval
    <2>2. Excessive(items) \in SUBSET (1 .. n) /\ Excessive(items) \subseteq Int
      BY <1>4 DEF Excessive
    <2>3. IsFiniteSet(Excessive(items))
      BY <2>1, <2>2, FS_Subset
    <2> QED BY <2>2, <2>3, OrderedRows, OrderedRowsAll
  <1>12. Begin(w, t)
    BY <1>3 DEF Receipt
  <1>13. /\ DOMAIN after = {o} \ {None}
         /\ \A x \in DOMAIN after : after[x] = ReceivingAfter(x, taken)
    OBVIOUS
  <1>14. /\ DOMAIN rcv \subseteq DOMAIN after
         /\ \A x \in DOMAIN after :
              IF x \in DOMAIN rcv THEN rcv[x] = after[x] ELSE receiving[x] = after[x]
    BY DEF Changed
  <1> HIDE DEF taken, batch, after, rcv, keys, found
  <1>15. /\ t.movements = batch /\ t.received = taken /\ t.receiving = rcv
         /\ t.discrepancies = found /\ t.status = <<>> /\ t.snapshot = <<>>
         /\ t.counted = <<>> /\ t.adjusted = <<>>
    BY DEF Nothing
  <1> HIDE DEF t
  <1>16. LineWrites(t)
    BY <1>4, <1>5, <1>6, <1>7, <1>9, <1>15 DEF LineWrites
  <1>17. ExcessWrites(t)
    <2>1. ASSUME NEW i \in DOMAIN items, items[i].line # None
          PROVE  /\ i \in Excessive(items) <=> taken[items[i].line] > Lines[items[i].line].ordered
                 /\ items[i].quantity - (Lines[items[i].line].ordered - received[items[i].line])
                    = taken[items[i].line] - Lines[items[i].line].ordered
      <3> DEFINE x == items[i].line
      <3>1. taken[x] = received[x] + items[i].quantity
        BY <1>6, <2>1
      <3>2. x \in OrderLines
        BY <1>4, <2>1
      <3>3. received[x] \in Int /\ Lines[x].ordered \in Int /\ items[i].quantity \in Int
        BY <1>4, <1>8, <3>2
      <3>4. i \in Excessive(items) <=> items[i].quantity > Lines[x].ordered - received[x]
        BY <2>1 DEF Excessive
      <3> HIDE DEF x
      <3>5. /\ i \in Excessive(items) <=> taken[x] > Lines[x].ordered
            /\ items[i].quantity - (Lines[x].ordered - received[x]) = taken[x] - Lines[x].ordered
        BY <3>1, <3>3, <3>4
      <3> QED BY <3>5 DEF x
    <2>2. \A i \in Excessive(items) : i \in DOMAIN items /\ items[i].line # None
      BY DEF Excessive
    <2>3. ASSUME NEW k \in DOMAIN found
          PROVE  LET x == found[k].line IN
                 /\ x \in DOMAIN taken /\ taken[x] > Lines[x].ordered
                 /\ found[k].difference = taken[x] - Lines[x].ordered
      <3>1. /\ excess[k] \in Excessive(items) /\ excess[k] \in DOMAIN items
            /\ items[excess[k]].line # None
        BY <1>10, <1>11, <2>2
      <3> QED BY <1>6, <1>10, <2>1, <3>1
    <2>4. ASSUME NEW x \in DOMAIN taken, taken[x] > Lines[x].ordered
          PROVE  \E k \in DOMAIN found : found[k].line = x
      <3>1. PICK i \in DOMAIN items : items[i].line = x
        BY <1>7
      <3>2. i \in Excessive(items)
        BY <1>7, <2>1, <2>4, <3>1
      <3> QED BY <1>10, <1>11, <3>1, <3>2
    <2> QED BY <1>15, <2>3, <2>4 DEF ExcessWrites
  <1>18. OrderWrites(t)
    <2>1. ASSUME NEW x \in DOMAIN taken
          PROVE  Overlay(receiving, rcv)[Lines[x].order] = ReceivingAfter(Lines[x].order, taken)
      <3>1. x \in OrderLines /\ x \in LinesOf(o)
        BY <1>4, <1>7
      <3>2. Lines[x].order = o /\ o \in Orders
        BY <1>8, <3>1 DEF LinesOf
      <3>3. o \in DOMAIN after /\ DOMAIN receiving = Orders
        BY <1>13, <3>2, NoneAssumption DEF IndInv, TypeOK, Orders
      <3> QED BY <1>13, <1>14, <3>2, <3>3 DEF Overlay
    <2>2. \A x \in DOMAIN rcv : rcv[x] = ReceivingAfter(x, taken)
      BY <1>13, <1>14
    <2> QED BY <1>15, <2>1, <2>2 DEF OrderWrites
  <1>19. Affordable(t)
    BY <1>4, <1>9, <1>15 DEF Affordable, Backed
  <1>20. SessionWrites(t)
    BY <1>9, <1>15, NoSessionCareful
  <1>21. RegularizingWrites(t)
    BY <1>9, <1>15 DEF RegularizingWrites
  <1> QED BY <1>12, <1>16, <1>17, <1>18, <1>19, <1>20, <1>21 DEF Careful

-----------------------------------------------------------------------------
(* The serial invariant: commits.                                          *)

(* The discrepancies a commit adds follow those it found.                  *)
LEMMA CommitDiscrepancies ==
  ASSUME IndInv, NEW w \in Workers, Commit(w)
  PROVE  /\ DOMAIN discrepancies = 1 .. Len(discrepancies) /\ Len(discrepancies) \in Nat
         /\ DOMAIN discrepancies' \in SUBSET Nat /\ IsFiniteSet(DOMAIN discrepancies')
         /\ \A d \in DOMAIN discrepancies :
              /\ d \in DOMAIN discrepancies'
              /\ discrepancies'[d].line = discrepancies[d].line
              /\ discrepancies'[d].difference = discrepancies[d].difference
              /\ discrepancies'[d].status =
                   IF d \in tx[w].regularized THEN "regularized" ELSE discrepancies[d].status
         /\ \A k \in DOMAIN tx[w].discrepancies :
              /\ Len(discrepancies) + k \in DOMAIN discrepancies'
              /\ discrepancies'[Len(discrepancies) + k] = tx[w].discrepancies[k]
         /\ \A d \in DOMAIN discrepancies' \ DOMAIN discrepancies :
              /\ d - Len(discrepancies) \in DOMAIN tx[w].discrepancies
              /\ discrepancies'[d] = tx[w].discrepancies[d - Len(discrepancies)]
  <1> DEFINE t == tx[w]
             old == [d \in DOMAIN discrepancies |->
                       IF d \in t.regularized
                       THEN [discrepancies[d] EXCEPT !.status = "regularized"]
                       ELSE discrepancies[d]]
             n == Len(discrepancies)
  <1>1. discrepancies \in Seq(Discrepancy) /\ t.discrepancies \in Seq(Discrepancy)
    BY DEF IndInv, TypeOK, TxOK
  <1>2. \A d \in DOMAIN discrepancies :
          /\ old[d] \in Discrepancy
          /\ old[d].line = discrepancies[d].line
          /\ old[d].difference = discrepancies[d].difference
          /\ old[d].status = IF d \in t.regularized THEN "regularized" ELSE discrepancies[d].status
    <2> SUFFICES ASSUME NEW d \in DOMAIN discrepancies
                 PROVE  /\ old[d] \in Discrepancy
                        /\ old[d].line = discrepancies[d].line
                        /\ old[d].difference = discrepancies[d].difference
                        /\ old[d].status = IF d \in t.regularized THEN "regularized"
                                           ELSE discrepancies[d].status
      OBVIOUS
    <2>1. discrepancies[d] \in Discrepancy
      BY <1>1
    <2> QED BY <2>1 DEF Discrepancy
  <1>3. DOMAIN discrepancies = 1 .. n /\ n \in Nat
    BY <1>1
  <1>4. old \in Seq(Discrepancy) /\ Len(old) = n /\ DOMAIN old = DOMAIN discrepancies
    <2>1. old \in [1 .. n -> Discrepancy]
      BY <1>2, <1>3
    <2> QED BY <1>3, <2>1
  <1>5. discrepancies' = old \o t.discrepancies
    BY DEF Commit
  <1> HIDE DEF old
  <1> DEFINE new == t.discrepancies
             all == old \o new
  <1> HIDE DEF n, new, all
  <1>6. /\ \A i \in DOMAIN old : i \in DOMAIN all /\ all[i] = old[i]
        /\ \A i \in DOMAIN new :
             Len(old) + i \in DOMAIN all /\ all[Len(old) + i] = new[i]
        /\ \A k \in DOMAIN all :
             \/ k \in DOMAIN old /\ all[k] = old[k]
             \/ /\ k - Len(old) \in DOMAIN new /\ k \notin DOMAIN old
                /\ all[k] = new[k - Len(old)]
        /\ DOMAIN all = 1 .. Len(old) + Len(new)
    <2>1. old \in Seq(Discrepancy) /\ new \in Seq(Discrepancy)
      BY <1>1, <1>4 DEF new
    <2> QED BY <2>1, ConcatIndex DEF all
  <1>7. /\ \A i \in DOMAIN old : i \in DOMAIN discrepancies' /\ discrepancies'[i] = old[i]
        /\ \A i \in DOMAIN new :
             /\ n + i \in DOMAIN discrepancies'
             /\ discrepancies'[n + i] = new[i]
        /\ \A k \in DOMAIN discrepancies' \ DOMAIN old :
             k - n \in DOMAIN new /\ discrepancies'[k] = new[k - n]
        /\ DOMAIN discrepancies' = 1 .. n + Len(new)
    BY <1>4, <1>5, <1>6 DEF all, new
  <1>8. n + Len(new) \in Nat
    BY <1>1, <1>3 DEF n, new
  <1>9. DOMAIN discrepancies' \in SUBSET Nat /\ IsFiniteSet(DOMAIN discrepancies')
    <2> DEFINE m == n + Len(new)
    <2>1. DOMAIN discrepancies' = 1 .. m /\ m \in Nat
      BY <1>7, <1>8
    <2> HIDE DEF m
    <2>2. IsFiniteSet(1 .. m)
      BY <2>1, FS_Interval
    <2> QED BY <2>1, <2>2
  <1> QED BY <1>2, <1>3, <1>4, <1>7, <1>9 DEF n, new

(* How the cells change.                                                   *)
LEMMA CommitCells ==
  ASSUME IndInv, NEW w \in Workers, Commit(w)
  PROVE  /\ \A x \in OrderLines :
              received'[x] = IF x \in DOMAIN tx[w].received THEN tx[w].received[x] ELSE received[x]
         /\ \A o \in Orders : receiving'[o] = Overlay(receiving, tx[w].receiving)[o]
         /\ \A o \in Orders :
              receiving'[o] = IF o \in DOMAIN tx[w].receiving THEN tx[w].receiving[o]
                              ELSE receiving[o]
         /\ \A s \in Sessions :
              status'[s] = IF s \in DOMAIN tx[w].status THEN tx[w].status[s] ELSE status[s]
         /\ \A r \in Rows :
              /\ r \notin DOMAIN tx[w].snapshot => snapshot'[r] = snapshot[r]
              /\ r \notin DOMAIN tx[w].counted => counted'[r] = counted[r]
              /\ r \notin DOMAIN tx[w].adjusted => adjusted'[r] = adjusted[r]
         /\ DOMAIN tx[w].received \subseteq OrderLines /\ DOMAIN tx[w].status \subseteq Sessions
  <1>1. /\ received' = Overlay(received, tx[w].received)
        /\ receiving' = Overlay(receiving, tx[w].receiving)
        /\ status' = Overlay(status, tx[w].status)
        /\ snapshot' = Overlay(snapshot, tx[w].snapshot)
        /\ counted' = Overlay(counted, tx[w].counted)
        /\ adjusted' = Overlay(adjusted, tx[w].adjusted)
    BY DEF Commit
  <1>2. /\ DOMAIN received = OrderLines /\ DOMAIN receiving = Orders /\ DOMAIN status = Sessions
        /\ DOMAIN snapshot = Rows /\ DOMAIN counted = Rows /\ DOMAIN adjusted = Rows
        /\ DOMAIN tx[w].received \subseteq OrderLines /\ DOMAIN tx[w].status \subseteq Sessions
    BY DEF IndInv, TypeOK, TxOK, Partial
  <1> QED BY <1>1, <1>2 DEF Overlay

(* What is booked together changes by the one row, if any, that is added.  *)
LEMMA BookedSame ==
  ASSUME IndInv, NEW w \in Workers, Commit(w), NEW S \in SUBSET DOMAIN movements
  PROVE  Booked(S)' = Booked(S) /\ Booked(S) \in Int
  <1> DEFINE f == [i \in DOMAIN movements |-> movements[i].quantity]
             g == [i \in DOMAIN movements' |-> movements'[i].quantity]
  <1>1. \A i \in S : g[i] = f[i] /\ f[i] \in Int
    <2>1. \A i \in S : movements[i] \in Movement /\ i \in DOMAIN movements'
                       /\ movements'[i] = movements[i]
      BY CommitEffect
    <2> QED BY <2>1, QuantityInt
  <1>2. IsFiniteSet(S)
    BY CommitEffect, RowsFinite
  <1> HIDE DEF f, g
  <1>3. SumFunctionOnSet(g, S) = SumFunctionOnSet(f, S) /\ SumFunctionOnSet(f, S) \in Int
    BY <1>1, <1>2, SumSame, SumType
  <1> QED BY <1>3 DEF Booked, f, g

LEMMA BookedMore ==
  ASSUME IndInv, NEW w \in Workers, Commit(w), NEW S \in SUBSET DOMAIN movements,
         NEW k \in DOMAIN movements' \ DOMAIN movements
  PROVE  (Booked(S \cup {k}))' = movements'[k].quantity + Booked(S)
  <1> DEFINE g == [i \in DOMAIN movements' |-> movements'[i].quantity]
             T == S \cup {k}
  <1>1. T \subseteq DOMAIN movements' /\ movements' \in Seq(Movement)
    BY CommitEffect
  <1>2. \A i \in T : g[i] \in Int
    BY <1>1, QuantityInt
  <1>3. IsFiniteSet(T)
    BY <1>1, RowsFinite
  <1>4. T \ {k} = S /\ k \in T /\ g[k] = movements'[k].quantity
    OBVIOUS
  <1> HIDE DEF g, T
  <1>5. SumFunctionOnSet(g, T) = g[k] + SumFunctionOnSet(g, T \ {k})
    BY <1>2, <1>3, <1>4, SumTakes
  <1>6. Booked(S)' = Booked(S)
    BY BookedSame
  <1> QED BY <1>4, <1>5, <1>6 DEF Booked, g, T

LEMMA BookedNothing == Booked({}) = 0
  BY SumNone DEF Booked

LEMMA CommitKeepsRecords ==
  ASSUME IndInv, SerialInv, NEW w \in Workers, Commit(w)
  PROVE  BookedIsRecorded'
  <1> DEFINE t == tx[w]
             b == t.movements
  <1>1. /\ BookedIsRecorded /\ SessionWrites(t) /\ RegularizingWrites(t)
        /\ t.regularized \subseteq DOMAIN discrepancies
    BY DEF SerialInv, Careful, IndInv, TypeOK, TxOK
  <1>2. \A k \in DOMAIN movements' :
          \/ k \in DOMAIN movements /\ movements'[k] = movements[k]
          \/ /\ k - Len(movements) \in DOMAIN b /\ k \notin DOMAIN movements
             /\ movements'[k] = b[k - Len(movements)]
    BY CommitEffect
  <1>3. /\ \A s \in Sessions :
              status'[s] = IF s \in DOMAIN t.status THEN t.status[s] ELSE status[s]
        /\ \A r \in Rows : r \notin DOMAIN t.adjusted => adjusted'[r] = adjusted[r]
        /\ DOMAIN t.status \subseteq Sessions
    BY CommitCells
  <1>4. \A d \in DOMAIN discrepancies :
              /\ d \in DOMAIN discrepancies'
              /\ discrepancies'[d].status =
                   IF d \in t.regularized THEN "regularized" ELSE discrepancies[d].status
    BY CommitDiscrepancies
  <1>5. \A s \in Sessions : status[s] \in Done => status'[s] \in Done
    BY <1>1, <1>3 DEF SessionWrites
  <1>6. \A s \in DOMAIN t.status : t.status[s] = "completed" => s \in Sessions /\ status'[s] \in Done
    BY <1>3 DEF Done
  <1> HIDE DEF t
  <1>7. ASSUME NEW k \in DOMAIN movements', movements'[k].source.type = "inventory"
        PROVE  movements'[k].source.id \in Sessions /\ status'[movements'[k].source.id] \in Done
    <2>1. CASE k \in DOMAIN movements
      BY <1>1, <1>2, <1>5, <1>7, <2>1 DEF BookedIsRecorded
    <2>2. CASE k \notin DOMAIN movements
      BY <1>1, <1>2, <1>6, <1>7, <2>2 DEF SessionWrites
    <2> QED BY <2>1, <2>2
  <1>8. ASSUME NEW r \in Rows, adjusted'[r] PROVE status'[r[1]] \in Done
    <2>1. r[1] \in Sessions
      BY DEF Rows
    <2>2. CASE r \in DOMAIN t.adjusted
      BY <1>1, <1>6, <2>2 DEF SessionWrites
    <2>3. CASE r \notin DOMAIN t.adjusted
      BY <1>1, <1>3, <1>5, <1>8, <2>1, <2>3 DEF BookedIsRecorded
    <2> QED BY <2>2, <2>3
  <1>9. ASSUME NEW k \in DOMAIN movements', movements'[k].source.type = "discrepancy"
        PROVE  /\ movements'[k].source.id \in DOMAIN discrepancies'
               /\ discrepancies'[movements'[k].source.id].status = "regularized"
    <2>1. CASE k \in DOMAIN movements
      BY <1>1, <1>2, <1>4, <1>9, <2>1 DEF BookedIsRecorded
    <2>2. CASE k \notin DOMAIN movements
      BY <1>1, <1>2, <1>4, <1>9, <2>2 DEF RegularizingWrites
    <2> QED BY <2>1, <2>2
  <1> QED BY <1>7, <1>8, <1>9 DEF BookedIsRecorded

LEMMA CommitKeepsReceived ==
  ASSUME IndInv, SerialInv, NEW w \in Workers, Commit(w)
  PROVE  ReceivedMatchesEntries'
  <1> DEFINE t == tx[w]
             b == t.movements
             n == Len(movements)
  <1>1. LineWrites(t) /\ ReceivedMatchesEntries
    BY DEF SerialInv, Careful
  <1>2. /\ \A i \in DOMAIN movements : i \in DOMAIN movements' /\ movements'[i] = movements[i]
        /\ \A i \in DOMAIN b : n + i \in DOMAIN movements' /\ movements'[n + i] = b[i]
        /\ \A k \in DOMAIN movements' \ DOMAIN movements :
             k - n \in DOMAIN b /\ movements'[k] = b[k - n]
        /\ DOMAIN movements = 1 .. n /\ n \in Nat /\ DOMAIN b \subseteq Nat \ {0}
        /\ DOMAIN movements' \subseteq Nat
    <2>1. movements \in Seq(Movement) /\ b \in Seq(Movement) /\ movements' \in Seq(Movement)
      BY CommitEffect
    <2>2. /\ DOMAIN movements = 1 .. n /\ n \in Nat /\ DOMAIN b \subseteq Nat \ {0}
          /\ DOMAIN movements' \subseteq Nat
      BY <2>1
    <2> QED BY <2>2, CommitEffect
  <1> SUFFICES ASSUME NEW x \in OrderLines
               PROVE  received'[x] =
                        Booked({i \in DOMAIN movements : movements[i].line = x})'
    BY DEF ReceivedMatchesEntries
  <1> PICK S \in SUBSET DOMAIN movements : S = {i \in DOMAIN movements : movements[i].line = x}
    OBVIOUS
  <1> PICK T : T = {i \in DOMAIN movements' : movements'[i].line = x}
    OBVIOUS
  <1> SUFFICES received'[x] = Booked(T)'
    BY DEF Booked
  <1>3. /\ received'[x] = IF x \in DOMAIN t.received THEN t.received[x] ELSE received[x]
        /\ x # None /\ received[x] = Booked(S)
    BY <1>1, CommitCells, LinesAssumption DEF ReceivedMatchesEntries
  <1>4. Booked(S)' = Booked(S) /\ Booked(S) \in Int
    BY BookedSame
  <1> HIDE DEF t, n
  <1>5. CASE x \in DOMAIN t.received
    <2>1. PICK i \in DOMAIN b : b[i].line = x /\ t.received[x] = received[x] + b[i].quantity
      BY <1>1, <1>5 DEF LineWrites
    <2>2. \A j \in DOMAIN b : b[j].line = x => i = j
      BY <1>1, <1>3, <2>1 DEF LineWrites
    <2>3. PICK k \in DOMAIN movements' \ DOMAIN movements : k = n + i /\ movements'[k] = b[i]
      BY <1>2
    <2>4. T = S \cup {k}
      <3>1. \A j \in DOMAIN movements' \ DOMAIN movements : movements'[j].line = x => j = k
        BY <1>2, <2>2, <2>3
      <3> QED BY <1>2, <2>1, <2>3, <3>1
    <2>5. Booked(T)' = b[i].quantity + Booked(S)
      BY <2>3, <2>4, BookedMore
    <2>6. b[i].quantity \in Int
      BY CommitEffect, QuantityInt DEF t
    <2> QED BY <1>3, <1>4, <1>5, <2>1, <2>5, <2>6
  <1>6. CASE x \notin DOMAIN t.received
    <2>1. T = S
      BY <1>1, <1>2, <1>3, <1>6 DEF LineWrites
    <2> QED BY <1>3, <1>4, <1>6, <2>1
  <1> QED BY <1>5, <1>6

(* A receipt only adds to what it received.                                *)
LEMMA CommitReceives ==
  ASSUME IndInv, SerialInv, NEW w \in Workers, Commit(w)
  PROVE  \A x \in OrderLines :
           /\ received'[x] = IF x \in DOMAIN tx[w].received THEN tx[w].received[x] ELSE received[x]
           /\ received[x] \in Int /\ received'[x] \in Int /\ Lines[x].ordered \in Int
           /\ Lines[x].ordered > 0
           /\ x \in DOMAIN tx[w].received => received'[x] > received[x]
  <1> SUFFICES ASSUME NEW x \in OrderLines
               PROVE  /\ received'[x] = IF x \in DOMAIN tx[w].received THEN tx[w].received[x]
                                        ELSE received[x]
                      /\ received[x] \in Int /\ received'[x] \in Int /\ Lines[x].ordered \in Int
                      /\ Lines[x].ordered > 0
                      /\ x \in DOMAIN tx[w].received => received'[x] > received[x]
    OBVIOUS
  <1> DEFINE t == tx[w]
  <1>1. received'[x] = IF x \in DOMAIN t.received THEN t.received[x] ELSE received[x]
    BY CommitCells
  <1>2. received[x] \in Int
    BY NumAssumption DEF IndInv, TypeOK, Amounts
  <1>3. Lines[x].ordered \in Int /\ Lines[x].ordered > 0
    BY LinesAssumption, QuantityPositive
  <1>4. ASSUME x \in DOMAIN t.received
        PROVE  received'[x] \in Int /\ received'[x] > received[x]
    <2>1. LineWrites(t) /\ x # None
      BY LinesAssumption DEF SerialInv, Careful
    <2>2. PICK i \in DOMAIN t.movements :
            /\ t.movements[i].line = x
            /\ t.received[x] = received[x] + t.movements[i].quantity
      BY <1>4, <2>1 DEF LineWrites
    <2>3. t.movements[i].quantity > 0
      BY <2>1, <2>2 DEF LineWrites
    <2>4. t.movements[i].quantity \in Int
      BY CommitEffect, QuantityInt
    <2> QED BY <1>1, <1>2, <1>4, <2>2, <2>3, <2>4
  <1> QED BY <1>1, <1>2, <1>3, <1>4

LEMMA CommitKeepsOrders ==
  ASSUME IndInv, SerialInv, NEW w \in Workers, Commit(w)
  PROVE  ReceivingStatusFaithful'
  <1> DEFINE t == tx[w]
  <1>1. OrderWrites(t) /\ ReceivingStatusFaithful
    BY DEF SerialInv, Careful
  <1>2. /\ \A o \in Orders : receiving'[o] = Overlay(receiving, t.receiving)[o]
        /\ \A o \in Orders :
             receiving'[o] = IF o \in DOMAIN t.receiving THEN t.receiving[o] ELSE receiving[o]
        /\ \A x \in OrderLines :
             received'[x] = IF x \in DOMAIN t.received THEN t.received[x] ELSE received[x]
        /\ DOMAIN t.received \subseteq OrderLines
    BY CommitCells
  <1>3. received' = Overlay(received, t.received)
    BY DEF Commit
  <1> HIDE DEF t
  <1> SUFFICES ASSUME NEW o \in Orders
               PROVE  /\ receiving'[o] = "complete" <=>
                           LinesOf(o) # {} /\ \A x \in LinesOf(o) : received'[x] >= Lines[x].ordered
                      /\ receiving'[o] \in {"none", "pending"} =>
                           \A x \in LinesOf(o) : received'[x] = 0
    BY DEF ReceivingStatusFaithful
  <1>4. ASSUME receiving'[o] = ReceivingAfter(o, t.received)
        PROVE  /\ receiving'[o] = "complete" <=>
                    LinesOf(o) # {} /\ \A x \in LinesOf(o) : received'[x] >= Lines[x].ordered
               /\ receiving'[o] \notin {"none", "pending"}
    BY <1>3, <1>4 DEF ReceivingAfter
  <1>5. CASE \E x \in DOMAIN t.received : Lines[x].order = o
    <2>1. PICK x \in DOMAIN t.received : Lines[x].order = o
      BY <1>5
    <2>2. receiving'[o] = ReceivingAfter(o, t.received)
      BY <1>1, <1>2, <2>1 DEF OrderWrites
    <2> QED BY <1>4, <2>2
  <1>6. CASE ~\E x \in DOMAIN t.received : Lines[x].order = o
    <2>1. \A x \in LinesOf(o) : received'[x] = received[x]
      BY <1>2, <1>6 DEF LinesOf
    <2>2. /\ receiving[o] = "complete" <=>
               LinesOf(o) # {} /\ \A x \in LinesOf(o) : received[x] >= Lines[x].ordered
          /\ receiving[o] \in {"none", "pending"} => \A x \in LinesOf(o) : received[x] = 0
      BY <1>1 DEF ReceivingStatusFaithful
    <2>3. CASE o \notin DOMAIN t.receiving
      BY <1>2, <2>1, <2>2, <2>3
    <2>4. CASE o \in DOMAIN t.receiving /\ t.receiving[o] = ReceivingAfter(o, t.received)
      <3>1. receiving'[o] = ReceivingAfter(o, t.received)
        BY <1>2, <2>4
      <3> QED BY <1>4, <3>1
    <2>5. CASE o \in DOMAIN t.receiving /\ t.receiving[o] = "pending" /\ receiving[o] = "none"
      <3>1. receiving'[o] = "pending"
        BY <1>2, <2>5
      <3> QED BY <2>1, <2>2, <2>5, <3>1
    <2> QED BY <1>1, <2>3, <2>4, <2>5 DEF OrderWrites
  <1> QED BY <1>5, <1>6

(* A finite set of numbers has a greatest.                                 *)
LEMMA Greatest ==
  ASSUME NEW S, S \in SUBSET Int, IsFiniteSet(S), S # {}
  PROVE  Max(S) \in S /\ \A y \in S : Max(S) >= y
  <1> DEFINE T == {s \in SUBSET S : s = {} \/ \E x \in s : \A y \in s : x >= y}
  <1>1. {} \in T
    OBVIOUS
  <1>2. ASSUME NEW s \in SUBSET S, s # {}, \A x \in s : s \ {x} \in T
        PROVE  s \in T
    <2>1. PICK x \in s : TRUE
      BY <1>2
    <2>2. x \in Int /\ s \subseteq Int
      OBVIOUS
    <2>3. CASE s \ {x} = {}
      <3>1. \A y \in s : y = x
        BY <2>3
      <3>2. x >= x
        BY <2>2
      <3> QED BY <3>1, <3>2
    <2>4. CASE s \ {x} # {}
      <3>1. PICK z \in s \ {x} : \A y \in s \ {x} : z >= y
        BY <1>2, <2>4
      <3>2. z \in Int
        BY <2>2
      <3>3. CASE z >= x
        BY <3>1, <3>3
      <3>4. CASE ~(z >= x)
        <4>1. \A y \in s : x >= y
          <5> SUFFICES ASSUME NEW y \in s PROVE x >= y
            OBVIOUS
          <5>1. y \in Int /\ (y = x \/ z >= y)
            BY <2>2, <3>1
          <5> QED BY <2>2, <3>2, <3>4, <5>1
        <4> QED BY <4>1
      <3> QED BY <3>3, <3>4
    <2> QED BY <2>3, <2>4
  <1> HIDE DEF T
  <1>3. T \in SUBSET SUBSET S
    BY DEF T
  <1>4. T = SUBSET S
    BY <1>1, <1>2, <1>3, Subsets
  <1>5. S \in T
    BY <1>4
  <1>6. \E x \in S : \A y \in S : x >= y
    BY <1>5 DEF T
  <1> QED BY <1>6 DEF Max

LEMMA CommitKeepsExcess ==
  ASSUME IndInv, SerialInv, NEW w \in Workers, Commit(w)
  PROVE  DiscrepancyTracksExcess'
  <1> DEFINE t == tx[w]
             n == Len(discrepancies)
             new == t.discrepancies
  <1>1. ExcessWrites(t) /\ DiscrepancyTracksExcess
    BY DEF SerialInv, Careful
  <1>2. /\ DOMAIN discrepancies = 1 .. n /\ n \in Nat
        /\ DOMAIN discrepancies' \in SUBSET Nat /\ IsFiniteSet(DOMAIN discrepancies')
        /\ \A d \in DOMAIN discrepancies :
              /\ d \in DOMAIN discrepancies'
              /\ discrepancies'[d].line = discrepancies[d].line
              /\ discrepancies'[d].difference = discrepancies[d].difference
        /\ \A k \in DOMAIN new :
              /\ n + k \in DOMAIN discrepancies'
              /\ discrepancies'[n + k] = new[k]
        /\ \A d \in DOMAIN discrepancies' \ DOMAIN discrepancies :
              d - n \in DOMAIN new /\ discrepancies'[d] = new[d - n]
    BY CommitDiscrepancies
  <1>3. DOMAIN new \subseteq Nat \ {0}
    <2>1. new \in Seq(Discrepancy)
      BY DEF IndInv, TypeOK, TxOK
    <2> HIDE DEF new
    <2> QED BY <2>1
  <1> SUFFICES ASSUME NEW x \in OrderLines
               PROVE  LET found == {d \in DOMAIN discrepancies' : discrepancies'[d].line = x} IN
                      /\ received'[x] > Lines[x].ordered <=> found # {}
                      /\ found # {} => discrepancies'[Max(found)].difference
                                         = received'[x] - Lines[x].ordered
    BY DEF DiscrepancyTracksExcess
  <1> PICK old \in SUBSET DOMAIN discrepancies :
        old = {d \in DOMAIN discrepancies : discrepancies[d].line = x}
    OBVIOUS
  <1> PICK found : found = {d \in DOMAIN discrepancies' : discrepancies'[d].line = x}
    OBVIOUS
  <1> SUFFICES /\ received'[x] > Lines[x].ordered <=> found # {}
               /\ found # {} => discrepancies'[Max(found)].difference
                                  = received'[x] - Lines[x].ordered
    OBVIOUS
  <1>4. /\ received'[x] = IF x \in DOMAIN t.received THEN t.received[x] ELSE received[x]
        /\ received[x] \in Int /\ received'[x] \in Int /\ Lines[x].ordered \in Int
        /\ x \in DOMAIN t.received => received'[x] > received[x]
    BY CommitReceives
  <1>5. /\ received[x] > Lines[x].ordered <=> old # {}
        /\ old # {} => discrepancies[Max(old)].difference = received[x] - Lines[x].ordered
    BY <1>1 DEF DiscrepancyTracksExcess
  <1>6. IsFiniteSet(old) /\ IsFiniteSet(found) /\ old \in SUBSET Int /\ found \in SUBSET Int
    <2>1. found \in SUBSET DOMAIN discrepancies'
      OBVIOUS
    <2>2. old \in SUBSET DOMAIN discrepancies'
      BY <1>2
    <2> QED BY <1>2, <2>1, <2>2, FS_Subset
  <1>7. CASE x \in DOMAIN t.received
    <2>1. CASE received'[x] > Lines[x].ordered
      <3>1. PICK k \in DOMAIN new : new[k].line = x
        BY <1>1, <1>4, <1>7, <2>1 DEF ExcessWrites
      <3>2. n + k \in found /\ n + k > n /\ k \in Nat
        BY <1>2, <1>3, <3>1
      <3>3. Max(found) \in found /\ Max(found) >= n + k
        BY <1>6, <3>2, Greatest
      <3> DEFINE m == Max(found)
      <3> HIDE DEF m
      <3>4. m \in found /\ m \in Int /\ m >= n + k
        BY <1>6, <3>3 DEF m
      <3>5. m \in DOMAIN discrepancies' \ DOMAIN discrepancies
        BY <1>2, <3>2, <3>4
      <3>6. m - n \in DOMAIN new /\ discrepancies'[m] = new[m - n] /\ discrepancies'[m].line = x
        BY <1>2, <3>4, <3>5
      <3>7. discrepancies'[m].difference = t.received[x] - Lines[x].ordered
        BY <1>1, <3>6 DEF ExcessWrites
      <3> QED BY <1>4, <1>7, <2>1, <3>2, <3>7 DEF m
    <2>2. CASE ~(received'[x] > Lines[x].ordered)
      <3>1. old = {}
        BY <1>4, <1>5, <1>7, <2>2
      <3>2. \A k \in DOMAIN new : new[k].line # x
        BY <1>1, <1>4, <1>7, <2>2 DEF ExcessWrites
      <3>3. found = {}
        BY <1>2, <3>1, <3>2
      <3> QED BY <2>2, <3>3
    <2> QED BY <2>1, <2>2
  <1>8. CASE x \notin DOMAIN t.received
    <2>1. \A k \in DOMAIN new : new[k].line # x
      BY <1>1, <1>8 DEF ExcessWrites
    <2>2. found = old
      BY <1>2, <2>1
    <2>3. old # {} => Max(old) \in DOMAIN discrepancies
      BY <1>6, Greatest
    <2> QED BY <1>2, <1>4, <1>5, <1>8, <2>2, <2>3
  <1> QED BY <1>7, <1>8

LEMMA CommitKeepsAdjustments ==
  ASSUME IndInv, SerialInv, NEW w \in Workers, Commit(w)
  PROVE  AdjustmentMatchesCount'
  <1> DEFINE t == tx[w]
             b == t.movements
             n == Len(movements)
  <1>1. SessionWrites(t) /\ AdjustmentMatchesCount /\ BookedIsRecorded
    BY DEF SerialInv, Careful
  <1>2. /\ \A i \in DOMAIN movements : i \in DOMAIN movements' /\ movements'[i] = movements[i]
        /\ \A i \in DOMAIN b : n + i \in DOMAIN movements' /\ movements'[n + i] = b[i]
        /\ \A k \in DOMAIN movements' \ DOMAIN movements :
             k - n \in DOMAIN b /\ movements'[k] = b[k - n]
        /\ DOMAIN movements = 1 .. n /\ n \in Nat /\ DOMAIN b \subseteq Nat \ {0}
        /\ DOMAIN movements' \subseteq Nat
    <2>1. movements \in Seq(Movement) /\ b \in Seq(Movement) /\ movements' \in Seq(Movement)
      BY CommitEffect
    <2>2. /\ DOMAIN movements = 1 .. n /\ n \in Nat /\ DOMAIN b \subseteq Nat \ {0}
          /\ DOMAIN movements' \subseteq Nat
      BY <2>1
    <2> QED BY <2>2, CommitEffect
  <1>3. /\ \A s \in Sessions :
              status'[s] = IF s \in DOMAIN t.status THEN t.status[s] ELSE status[s]
        /\ \A r \in Rows :
              /\ r \notin DOMAIN t.snapshot => snapshot'[r] = snapshot[r]
              /\ r \notin DOMAIN t.counted => counted'[r] = counted[r]
    BY CommitCells
  <1> HIDE DEF t, n
  <1> SUFFICES ASSUME NEW s \in Sessions, status'[s] \in Done, NEW a \in RowsOf(s)'
               PROVE  Booked({i \in DOMAIN movements : /\ movements[i].article = a
                                                       /\ movements[i].source = Source("inventory", s)})'
                      = Difference(s, a)'
    BY DEF AdjustmentMatchesCount, Done
  <1> DEFINE src == Source("inventory", s)
  <1>4. src.type = "inventory" /\ src.id = s
    BY DEF Source
  <1> PICK S \in SUBSET DOMAIN movements :
        S = {i \in DOMAIN movements : movements[i].article = a /\ movements[i].source = src}
    OBVIOUS
  <1> PICK T :
        T = {i \in DOMAIN movements' : movements'[i].article = a /\ movements'[i].source = src}
    OBVIOUS
  <1> SUFFICES Booked(T)' = Difference(s, a)'
    BY DEF Booked
  <1> HIDE DEF src
  <1>5. Booked(S)' = Booked(S) /\ Booked(S) \in Int
    BY BookedSame
  <1>6. /\ \A i \in DOMAIN b : b[i].source = src =>
             /\ s \in DOMAIN t.status /\ t.status[s] = "completed"
             /\ \A j \in DOMAIN b : b[j].source = src /\ b[j].article = b[i].article => i = j
    BY <1>1, <1>4 DEF SessionWrites
  <1>7. \A r \in Rows : r[1] = s => r \notin DOMAIN t.snapshot /\ r \notin DOMAIN t.counted
    BY <1>1, <1>3 DEF SessionWrites
  <1>8. a \in RowsOf(s) /\ Difference(s, a)' = Difference(s, a)
    <2>1. a \in Articles /\ snapshot'[<<s, a>>] # None
      BY DEF RowsOf
    <2>2. <<s, a>> \in Rows
      BY <2>1 DEF Rows
    <2>3. snapshot'[<<s, a>>] = snapshot[<<s, a>>] /\ counted'[<<s, a>>] = counted[<<s, a>>]
      BY <1>3, <1>7, <2>2
    <2> QED BY <2>1, <2>3 DEF RowsOf, Difference
  <1>9. CASE status[s] \in Done
    <2>1. \A i \in DOMAIN b : b[i].source # src
      BY <1>1, <1>6, <1>9 DEF SessionWrites, Settles, Done
    <2>2. T = S
      BY <1>2, <2>1
    <2>3. Booked(S) = Difference(s, a)
      BY <1>1, <1>8, <1>9 DEF AdjustmentMatchesCount, Done, src
    <2> QED BY <1>5, <1>8, <2>2, <2>3
  <1>10. CASE status[s] \notin Done
    <2>1. Settles(t, s)
      BY <1>1, <1>3, <1>10 DEF SessionWrites, Done
    <2>2. S = {}
      BY <1>1, <1>4, <1>10 DEF BookedIsRecorded
    <2>3. CASE Difference(s, a) = 0
      <3>1. \A i \in DOMAIN b : b[i].source = src => b[i].article # a
        BY <1>8, <2>1, <2>3 DEF Settles, src
      <3>2. T = S
        BY <1>2, <3>1
      <3> QED BY <1>5, <1>8, <2>2, <2>3, <3>2, BookedNothing
    <2>4. CASE Difference(s, a) # 0
      <3>1. PICK i \in DOMAIN b : /\ b[i].source = src /\ b[i].article = a
                                  /\ b[i].quantity = Difference(s, a)
        BY <1>8, <2>1, <2>4 DEF Settles, src
      <3>2. \A j \in DOMAIN b : b[j].source = src /\ b[j].article = a => i = j
        BY <1>6, <3>1
      <3>3. PICK k \in DOMAIN movements' \ DOMAIN movements : k = n + i /\ movements'[k] = b[i]
        BY <1>2
      <3>4. T = S \cup {k}
        <4>1. \A j \in DOMAIN movements' \ DOMAIN movements :
                movements'[j].source = src /\ movements'[j].article = a => j = k
          BY <1>2, <3>2, <3>3
        <4> QED BY <1>2, <3>1, <3>3, <4>1
      <3>5. Booked(T)' = b[i].quantity + Booked(S)
        BY <3>3, <3>4, BookedMore
      <3>6. b[i].quantity \in Int
        BY CommitEffect, QuantityInt DEF t
      <3>7. Booked(S) = 0
        BY <2>2, BookedNothing
      <3>8. Booked(T)' = b[i].quantity
        BY <3>5, <3>6, <3>7
      <3> QED BY <1>8, <3>1, <3>8
    <2> QED BY <2>3, <2>4
  <1> QED BY <1>9, <1>10

LEMMA CommitSerial ==
  ASSUME OneWorker, IndInv, SerialInv, NEW w \in Workers, Commit(w)
  PROVE  SerialInv'
  <1>1. \A v \in Workers : tx'[v] = Nothing
    BY CommitEffect DEF OneWorker, IndInv, TypeOK
  <1>2. Careful(Nothing)'
    <2> DEFINE t == Nothing
    <2>1. /\ t.movements = <<>> /\ t.received = <<>> /\ t.receiving = <<>>
          /\ t.discrepancies = <<>> /\ t.status = <<>> /\ t.snapshot = <<>>
          /\ t.counted = <<>> /\ t.adjusted = <<>>
      BY DEF Nothing
    <2> HIDE DEF t
    <2>2. LineWrites(t)' /\ ExcessWrites(t)' /\ OrderWrites(t)'
      BY <2>1 DEF LineWrites, ExcessWrites, OrderWrites, t, Nothing
    <2>3. Affordable(t)' /\ RegularizingWrites(t)' /\ SessionWrites(t)'
      BY <2>1 DEF Affordable, RegularizingWrites, SessionWrites, t, Nothing
    <2> QED BY <2>2, <2>3 DEF Careful, t
  <1>3. BookedIsRecorded' /\ ReceivedMatchesEntries' /\ ReceivingStatusFaithful'
    BY CommitKeepsRecords, CommitKeepsReceived, CommitKeepsOrders
  <1>4. DiscrepancyTracksExcess' /\ AdjustmentMatchesCount'
    BY CommitKeepsExcess, CommitKeepsAdjustments
  <1> QED BY <1>1, <1>2, <1>3, <1>4 DEF SerialInv

LEMMA InitSerial ==
  ASSUME Init
  PROVE  SerialInv
  <1> USE DEF Init
  <1>1. BookedIsRecorded
    BY DEF BookedIsRecorded
  <1>2. ReceivedMatchesEntries
    <2>1. \A x \in OrderLines : {i \in DOMAIN movements : movements[i].line = x} = {}
      OBVIOUS
    <2> QED BY <2>1, BookedNothing DEF ReceivedMatchesEntries
  <1>3. ReceivingStatusFaithful /\ DiscrepancyTracksExcess
    <2>1. \A x \in OrderLines : Lines[x].ordered \in Int /\ Lines[x].ordered > 0
      BY LinesAssumption, QuantityPositive
    <2>2. \A o \in Orders : LinesOf(o) \subseteq OrderLines
      BY DEF LinesOf
    <2> QED BY <2>1, <2>2 DEF ReceivingStatusFaithful, DiscrepancyTracksExcess
  <1>4. AdjustmentMatchesCount
    BY DEF AdjustmentMatchesCount
  <1>5. \A w \in Workers : Careful(tx[w])
    BY NothingIsCareful
  <1> QED BY <1>1, <1>2, <1>3, <1>4, <1>5 DEF SerialInv

LEMMA SerialStep ==
  ASSUME OneWorker, IndInv, SerialInv, [Next]_vars
  PROVE  SerialInv'
  <1>1. ASSUME NEW w \in Workers, Request(w)
        PROVE  SerialInv'
    <2>1. PICK t : Begin(w, t) /\ Careful(t)
      BY <1>1, ManualStepsCareful, CellStepsCareful, ReceiveCareful, ConfirmCareful,
         RegularizeCareful, DeliverCareful DEF Request
    <2> QED BY <2>1, SerialBegin DEF Begin
  <1>2. ASSUME NEW w \in Workers, Commit(w)
        PROVE  SerialInv'
    BY <1>2, CommitSerial
  <1>3. ASSUME NEW w \in Workers, Abort(w)
        PROVE  SerialInv'
    BY <1>3, NothingIsCareful, SerialBegin DEF Abort
  <1>4. CASE UNCHANGED vars
    <2> USE DEF vars
    <2>1. BookedIsRecorded' /\ ReceivedMatchesEntries' /\ ReceivingStatusFaithful'
      BY <1>4 DEF SerialInv, BookedIsRecorded, ReceivedMatchesEntries, ReceivingStatusFaithful,
                  Booked
    <2>2. DiscrepancyTracksExcess' /\ AdjustmentMatchesCount'
      BY <1>4 DEF SerialInv, DiscrepancyTracksExcess, AdjustmentMatchesCount, Booked, RowsOf,
                  Difference
    <2>3. ASSUME NEW v \in Workers PROVE Careful(tx[v])'
      <3>0. Careful(tx[v])
        BY DEF SerialInv
      <3>1. LineWrites(tx[v])' /\ ExcessWrites(tx[v])'
        BY <1>4, <3>0 DEF Careful, LineWrites, ExcessWrites
      <3>2. OrderWrites(tx[v])'
        BY <1>4, <3>0 DEF Careful, OrderWrites, ReceivingAfter
      <3>3. Affordable(tx[v])'
        BY <1>4, <3>0 DEF Careful, Affordable
      <3>4. SessionWrites(tx[v])'
        BY <1>4, <3>0 DEF Careful, SessionWrites, Settles, RowsOf, Difference
      <3>5. RegularizingWrites(tx[v])'
        BY <1>4, <3>0 DEF Careful, RegularizingWrites
      <3> QED BY <3>1, <3>2, <3>3, <3>4, <3>5 DEF Careful
    <2> QED BY <2>1, <2>2, <2>3 DEF SerialInv
  <1> QED BY <1>1, <1>2, <1>3, <1>4 DEF Next

(* With requests one at a time the serial invariant holds throughout.      *)
THEOREM SerialInductive == ASSUME OneWorker PROVE Spec => []SerialInv
  <1>1. Init => SerialInv
    BY InitSerial
  <1>2. IndInv /\ SerialInv /\ [Next]_vars => SerialInv'
    BY SerialStep
  <1> QED BY <1>1, <1>2, Inductive, PTL DEF Spec

-----------------------------------------------------------------------------
(* Existences that no posting overdraws.                                   *)

(* A longer part of a batch is a shorter one and the next posting.         *)
LEMMA PrefixStep ==
  ASSUME NEW S, NEW a \in Seq(S), NEW b \in Seq(S), NEW k \in Nat, k + 1 <= Len(b)
  PROVE  LET p == a \o SubSeq(b, 1, k)
             q == a \o SubSeq(b, 1, k + 1) IN
         /\ p \in Seq(S) /\ q \in Seq(S)
         /\ Len(p) = Len(a) + k /\ Len(q) = Len(p) + 1
         /\ \A i \in 1 .. Len(p) : q[i] = p[i]
         /\ q[Len(p) + 1] = b[k + 1]
         /\ \A i \in 1 .. Len(a) : p[i] = a[i]
         /\ \A i \in Len(a) + 1 .. Len(p) : p[i] = b[i - Len(a)]
  <1>1. /\ SubSeq(b, 1, k) \in Seq(S) /\ Len(SubSeq(b, 1, k)) = k
        /\ \A i \in 1 .. k : SubSeq(b, 1, k)[i] = b[i]
    OBVIOUS
  <1>2. /\ SubSeq(b, 1, k + 1) \in Seq(S) /\ Len(SubSeq(b, 1, k + 1)) = k + 1
        /\ \A i \in 1 .. k + 1 : SubSeq(b, 1, k + 1)[i] = b[i]
    OBVIOUS
  <1> DEFINE x == SubSeq(b, 1, k)
             y == SubSeq(b, 1, k + 1)
  <1>3. /\ x \in Seq(S) /\ Len(x) = k /\ \A i \in 1 .. k : x[i] = b[i]
        /\ y \in Seq(S) /\ Len(y) = k + 1 /\ \A i \in 1 .. k + 1 : y[i] = b[i]
    BY <1>1, <1>2
  <1> DEFINE p == a \o x
             q == a \o y
             n == Len(a)
  <1> HIDE DEF x, y
  <1>4. /\ p \in Seq(S) /\ Len(p) = n + Len(x) /\ DOMAIN a = 1 .. n
        /\ \A i \in DOMAIN a : p[i] = a[i]
        /\ \A i \in DOMAIN x : p[n + i] = x[i]
    <2>1. x \in Seq(S)
      BY <1>3
    <2> QED BY <2>1, ConcatIndex
  <1>5. /\ q \in Seq(S) /\ Len(q) = n + Len(y)
        /\ \A i \in DOMAIN a : q[i] = a[i]
        /\ \A i \in DOMAIN y : q[n + i] = y[i]
    <2>1. y \in Seq(S)
      BY <1>3
    <2> QED BY <2>1, ConcatIndex
  <1>6. n \in Nat /\ DOMAIN x = 1 .. k /\ DOMAIN y = 1 .. k + 1
    BY <1>3
  <1>7. SUFFICES /\ p \in Seq(S) /\ q \in Seq(S)
                 /\ Len(p) = n + k /\ Len(q) = Len(p) + 1
                 /\ \A i \in 1 .. Len(p) : q[i] = p[i]
                 /\ q[Len(p) + 1] = b[k + 1]
                 /\ \A i \in 1 .. n : p[i] = a[i]
                 /\ \A i \in n + 1 .. Len(p) : p[i] = b[i - n]
    BY DEF x, y
  <1> HIDE DEF p, q, n
  <1>8. Len(p) = n + k /\ Len(q) = Len(p) + 1
    BY <1>3, <1>4, <1>5, <1>6
  <1>9. \A i \in n + 1 .. n + k : p[i] = b[i - n] /\ q[i] = b[i - n]
    <2> SUFFICES ASSUME NEW i \in n + 1 .. n + k PROVE p[i] = b[i - n] /\ q[i] = b[i - n]
      OBVIOUS
    <2>1. i - n \in 1 .. k /\ i - n \in 1 .. k + 1 /\ n + (i - n) = i
      BY <1>6
    <2> QED BY <1>3, <1>4, <1>5, <1>6, <2>1
  <1>10. q[n + k + 1] = b[k + 1]
    <2>1. k + 1 \in 1 .. k + 1 /\ n + k + 1 = n + (k + 1)
      BY <1>6
    <2> QED BY <1>3, <1>5, <1>6, <2>1
  <1>11. \A i \in 1 .. Len(p) : q[i] = p[i]
    <2>1. \A i \in 1 .. Len(p) : i \in 1 .. n \/ i \in n + 1 .. n + k
      BY <1>6, <1>8
    <2> QED BY <1>4, <1>5, <1>9, <2>1
  <1> QED BY <1>4, <1>5, <1>8, <1>9, <1>10, <1>11

(* The empty part of a batch adds nothing, the whole of it everything.     *)
LEMMA PartEnds ==
  ASSUME NEW S, NEW a \in Seq(S), NEW b \in Seq(S)
  PROVE  a \o SubSeq(b, 1, 0) = a /\ a \o SubSeq(b, 1, Len(b)) = a \o b
  <1>1. SubSeq(b, 1, 0) = <<>> /\ SubSeq(b, 1, Len(b)) = b
    OBVIOUS
  <1>2. a \o <<>> = a
    OBVIOUS
  <1> QED BY <1>1, <1>2

(* Every reversal names a row of the ledger.                               *)
Undoes(log) == \A i \in DOMAIN log : IsReversal(log[i]) => log[i].reverses \in DOMAIN log

(* What a row adds to a balance depends on the rows up to it.              *)
LEMMA EffectKept ==
  ASSUME NEW log \in Seq(Movement), Undoes(log), NEW i \in DOMAIN log, NEW l
  PROVE  /\ Effect(log, i, l) \in Int
         /\ \A more : (\A j \in DOMAIN log : more[j] = log[j]) =>
              Effect(more, i, l) = Effect(log, i, l)
  <1>1. \A j \in DOMAIN log : log[j] \in Movement
    OBVIOUS
  <1>2. CASE IsReversal(log[i])
    <2> DEFINE j == log[i].reverses
    <2>1. j \in DOMAIN log /\ log[j] \in Movement
      BY <1>1, <1>2 DEF Undoes
    <2>2. BaseEffect(log[j], l) \in Int
      BY <2>1, BaseEffectInt
    <2>3. Effect(log, i, l) = -BaseEffect(log[j], l)
      BY <1>2 DEF Effect, IsReversal
    <2>4. ASSUME NEW more, \A k \in DOMAIN log : more[k] = log[k]
          PROVE  Effect(more, i, l) = Effect(log, i, l)
      <3>1. more[i] = log[i] /\ more[j] = log[j]
        BY <2>1, <2>4
      <3> QED BY <1>2, <3>1 DEF Effect, IsReversal
    <2> HIDE DEF j
    <2> QED BY <2>2, <2>3, <2>4
  <1>3. CASE ~IsReversal(log[i])
    <2>1. BaseEffect(log[i], l) \in Int
      BY <1>1, BaseEffectInt
    <2>2. Effect(log, i, l) = BaseEffect(log[i], l)
      BY <1>3 DEF Effect, IsReversal
    <2>3. ASSUME NEW more, \A k \in DOMAIN log : more[k] = log[k]
          PROVE  Effect(more, i, l) = Effect(log, i, l)
      <3>1. more[i] = log[i]
        BY <2>3
      <3> QED BY <1>3, <3>1 DEF Effect, IsReversal
    <2> QED BY <2>1, <2>2, <2>3
  <1> QED BY <1>2, <1>3

LEMMA BalanceType ==
  ASSUME NEW log \in Seq(Movement), Undoes(log), NEW a, NEW l
  PROVE  Balance(log, a, l) \in Int
  <1> DEFINE f == [i \in DOMAIN log |-> Effect(log, i, l)]
             S == {i \in DOMAIN log : log[i].article = a}
  <1>1. IsFiniteSet(S)
    BY RowsFinite
  <1>2. \A i \in S : f[i] \in Int
    BY EffectKept
  <1> HIDE DEF f, S
  <1>3. SumFunctionOnSet(f, S) \in Int
    BY <1>1, <1>2, SumType
  <1> QED BY <1>3 DEF Balance, f, S

(* A posting changes the balance of its article by its effect.             *)
LEMMA BalanceStep ==
  ASSUME NEW log \in Seq(Movement), Undoes(log), NEW more \in Seq(Movement),
         Len(more) = Len(log) + 1, \A i \in 1 .. Len(log) : more[i] = log[i],
         NEW m, m = more[Len(log) + 1], ~IsReversal(m), NEW a, NEW l
  PROVE  /\ Balance(log, a, l) \in Int /\ BaseEffect(m, l) \in Int
         /\ Balance(more, a, l) =
              Balance(log, a, l) + (IF m.article = a THEN BaseEffect(m, l) ELSE 0)
  <1> DEFINE f == [i \in DOMAIN log |-> Effect(log, i, l)]
             g == [i \in DOMAIN more |-> Effect(more, i, l)]
             S == {i \in DOMAIN log : log[i].article = a}
             T == {i \in DOMAIN more : more[i].article = a}
             k == Len(log) + 1
  <1>1. /\ DOMAIN log = 1 .. Len(log) /\ DOMAIN more = 1 .. Len(log) + 1 /\ Len(log) \in Nat
        /\ k \in DOMAIN more /\ k \notin DOMAIN log /\ DOMAIN more = DOMAIN log \cup {k}
        /\ \A i \in DOMAIN log : log[i] \in Movement /\ i \in DOMAIN more /\ more[i] = log[i]
        /\ more[k] \in Movement
    OBVIOUS
  <1>2. IsFiniteSet(S) /\ IsFiniteSet(T)
    BY RowsFinite
  <1>3. \A i \in DOMAIN log : f[i] = g[i] /\ f[i] \in Int
    <2>1. \A i \in DOMAIN log : /\ Effect(more, i, l) = Effect(log, i, l)
                                /\ Effect(log, i, l) \in Int
      BY <1>1, EffectKept
    <2> QED BY <1>1, <2>1
  <1>4. g[k] = BaseEffect(m, l) /\ BaseEffect(m, l) \in Int
    BY <1>1, BaseEffectInt DEF Effect, IsReversal
  <1>5. Balance(log, a, l) = SumFunctionOnSet(f, S) /\ Balance(more, a, l) = SumFunctionOnSet(g, T)
    BY DEF Balance
  <1>6. T = IF m.article = a THEN S \cup {k} ELSE S
    BY <1>1
  <1>7. S \subseteq DOMAIN log /\ k \notin S
    BY <1>1
  <1> HIDE DEF f, g, S, T, k
  <1>8. \A i \in S : f[i] = g[i] /\ f[i] \in Int
    BY <1>3, <1>7
  <1>9. SumFunctionOnSet(g, S) = SumFunctionOnSet(f, S) /\ SumFunctionOnSet(f, S) \in Int
    BY <1>2, <1>8, SumSame, SumType
  <1>10. CASE m.article = a
    <2>1. \A i \in T : g[i] \in Int
      BY <1>4, <1>6, <1>8
    <2>2. k \in T /\ T \ {k} = S
      BY <1>6, <1>7, <1>10
    <2>3. SumFunctionOnSet(g, T) = g[k] + SumFunctionOnSet(g, T \ {k})
      BY <1>2, <2>1, <2>2, SumTakes
    <2>4. SumFunctionOnSet(g, T) = BaseEffect(m, l) + SumFunctionOnSet(f, S)
      BY <1>4, <1>9, <2>2, <2>3
    <2> QED BY <1>4, <1>5, <1>9, <1>10, <2>4
  <1>11. CASE m.article # a
    BY <1>4, <1>5, <1>6, <1>9, <1>11
  <1> QED BY <1>10, <1>11

(* A posting that is backed lowers no existence below zero.                *)
LEMMA BackedStep ==
  ASSUME NEW log \in Seq(Movement), Undoes(log), NEW more \in Seq(Movement),
         Len(more) = Len(log) + 1, \A i \in 1 .. Len(log) : more[i] = log[i],
         NEW m, m = more[Len(log) + 1], ~IsReversal(m), Backed(log, m), NEW a, NEW l \in Locations
  PROVE  /\ Balance(more, a, l) \in Int
         /\ \/ Balance(more, a, l) >= Balance(log, a, l)
            \/ Balance(more, a, l) >= 0
  <1>1. /\ Balance(log, a, l) \in Int /\ BaseEffect(m, l) \in Int
        /\ Balance(more, a, l) =
              Balance(log, a, l) + (IF m.article = a THEN BaseEffect(m, l) ELSE 0)
    BY BalanceStep
  <1>2. CASE m.article # a
    BY <1>1, <1>2
  <1>3. CASE m.article = a
    <2>0. m \in Movement
      <3>1. Len(log) + 1 \in 1 .. Len(more)
        OBVIOUS
      <3> QED BY <3>1
    <2>1. m.quantity \in Int /\ m.type \in MovementTypes /\ m.type # "reversal"
      BY <2>0, QuantityInt DEF Movement, IsReversal
    <2>2. BaseEffect(m, l) >= 0 \/ Balance(log, a, l) + BaseEffect(m, l) >= 0
      <3>1. CASE m.type = "entry"
        BY <2>1, <3>1 DEF BaseEffect, Backed
      <3>2. CASE m.type \in {"exit", "return"}
        <4>1. CASE m.from = l
          BY <1>1, <1>3, <2>1, <3>2, <4>1 DEF BaseEffect, Backed
        <4>2. CASE m.from # l
          BY <2>1, <3>2, <4>2 DEF BaseEffect
        <4> QED BY <4>1, <4>2
      <3>3. CASE m.type = "transfer"
        <4>1. CASE m.from = l
          BY <1>1, <1>3, <2>1, <3>3, <4>1 DEF BaseEffect, Backed
        <4>2. CASE m.from # l
          BY <2>1, <3>3, <4>2 DEF BaseEffect, Backed
        <4> QED BY <4>1, <4>2
      <3>4. CASE m.type = "adjustment"
        <4> DEFINE p == IF m.to # None THEN m.to ELSE m.from
        <4>1. BaseEffect(m, l) = IF l = p THEN m.quantity ELSE 0
          BY <3>4 DEF BaseEffect
        <4>2. m.quantity < 0 => Balance(log, m.article, p) + m.quantity >= 0
          BY <3>4 DEF Backed
        <4> HIDE DEF p
        <4> QED BY <1>1, <1>3, <2>1, <4>1, <4>2
      <3> QED BY <2>1, <3>1, <3>2, <3>3, <3>4 DEF MovementTypes
    <2> QED BY <1>1, <1>3, <2>2
  <1> QED BY <1>2, <1>3

(* Nor does a batch in which every posting is backed after those before.   *)
LEMMA BackedBatch ==
  ASSUME NEW log \in Seq(Movement), Undoes(log), NEW b \in Seq(Movement),
         \A i \in DOMAIN b : ~IsReversal(b[i]) /\ Backed(log \o SubSeq(b, 1, i - 1), b[i]),
         NEW a, NEW l \in Locations
  PROVE  /\ Balance(log \o b, a, l) \in Int
         /\ \/ Balance(log \o b, a, l) >= Balance(log, a, l)
            \/ Balance(log \o b, a, l) >= 0
  <1> DEFINE Part(k) == log \o SubSeq(b, 1, k)
             Sound(k) == /\ Balance(Part(k), a, l) \in Int
                         /\ \/ Balance(Part(k), a, l) >= Balance(log, a, l)
                            \/ Balance(Part(k), a, l) >= 0
             T == {k \in Nat : k <= Len(b) => Sound(k)}
  <1>1. ASSUME NEW k \in Nat, k <= Len(b) - 1
        PROVE  /\ Part(k) \in Seq(Movement) /\ Part(k + 1) \in Seq(Movement)
               /\ Len(Part(k + 1)) = Len(Part(k)) + 1
               /\ \A i \in 1 .. Len(Part(k)) : Part(k + 1)[i] = Part(k)[i]
               /\ Part(k + 1)[Len(Part(k)) + 1] = b[k + 1]
               /\ Undoes(Part(k))
    <2>0. k + 1 <= Len(b) /\ Len(b) \in Nat
      BY <1>1
    <2>1. /\ Part(k) \in Seq(Movement) /\ Part(k + 1) \in Seq(Movement)
          /\ Len(Part(k)) = Len(log) + k /\ Len(Part(k + 1)) = Len(Part(k)) + 1
          /\ \A i \in 1 .. Len(Part(k)) : Part(k + 1)[i] = Part(k)[i]
          /\ Part(k + 1)[Len(Part(k)) + 1] = b[k + 1]
          /\ \A i \in 1 .. Len(log) : Part(k)[i] = log[i]
          /\ \A i \in Len(log) + 1 .. Len(Part(k)) : Part(k)[i] = b[i - Len(log)]
      BY <2>0, PrefixStep
    <2> DEFINE p == Part(k)
    <2>2. /\ p \in Seq(Movement) /\ Len(p) = Len(log) + k /\ Len(log) \in Nat
          /\ \A i \in 1 .. Len(log) : p[i] = log[i]
          /\ \A i \in Len(log) + 1 .. Len(p) : p[i] = b[i - Len(log)]
      BY <2>1
    <2> HIDE DEF p
    <2>3. Undoes(p)
      <3> SUFFICES ASSUME NEW i \in 1 .. Len(p), IsReversal(p[i])
                   PROVE  p[i].reverses \in 1 .. Len(p)
        BY <2>2 DEF Undoes
      <3>1. CASE i <= Len(log)
        <4>1. p[i] = log[i] /\ i \in DOMAIN log
          BY <2>2, <3>1
        <4>2. log[i].reverses \in 1 .. Len(log)
          BY <4>1 DEF Undoes
        <4> QED BY <2>2, <4>1, <4>2
      <3>2. CASE ~(i <= Len(log))
        <4>1. p[i] = b[i - Len(log)] /\ i - Len(log) \in DOMAIN b
          BY <2>0, <2>2, <3>2
        <4> QED BY <4>1
      <3> QED BY <3>1, <3>2
    <2> QED BY <2>1, <2>3 DEF p
  <1>2. ASSUME NEW k \in T, k + 1 <= Len(b)
        PROVE  Sound(k + 1)
    <2>0. k \in Nat /\ k <= Len(b) - 1 /\ k + 1 \in DOMAIN b /\ Sound(k)
      BY <1>2
    <2>1. ~IsReversal(b[k + 1]) /\ Backed(Part(k), b[k + 1])
      <3>1. k + 1 - 1 = k
        BY <2>0
      <3> QED BY <2>0, <3>1
    <2> DEFINE p == Part(k)
               q == Part(k + 1)
    <2>2. /\ p \in Seq(Movement) /\ q \in Seq(Movement) /\ Len(q) = Len(p) + 1
          /\ \A i \in 1 .. Len(p) : q[i] = p[i]
          /\ q[Len(p) + 1] = b[k + 1] /\ Undoes(p)
      BY <1>1, <2>0
    <2>3. /\ Backed(p, q[Len(p) + 1]) /\ ~IsReversal(q[Len(p) + 1])
          /\ Balance(p, a, l) >= Balance(log, a, l) \/ Balance(p, a, l) >= 0
      BY <2>0, <2>1, <2>2
    <2>4. SUFFICES /\ Balance(q, a, l) \in Int
                   /\ Balance(q, a, l) >= Balance(log, a, l) \/ Balance(q, a, l) >= 0
      OBVIOUS
    <2> HIDE DEF p, q
    <2>5. /\ Balance(q, a, l) \in Int
          /\ Balance(q, a, l) >= Balance(p, a, l) \/ Balance(q, a, l) >= 0
      BY <2>2, <2>3, BackedStep
    <2>6. Balance(p, a, l) \in Int /\ Balance(log, a, l) \in Int
      BY <2>2, BalanceType
    <2> QED BY <2>3, <2>5, <2>6
  <1>3. 0 \in T
    <2> DEFINE p == Part(0)
    <2>1. p = log
      BY PartEnds
    <2>2. Balance(log, a, l) \in Int
      BY BalanceType
    <2>3. SUFFICES Balance(p, a, l) \in Int /\ Balance(p, a, l) >= Balance(log, a, l)
      OBVIOUS
    <2> HIDE DEF p
    <2> QED BY <2>1, <2>2
  <1>4. Part(Len(b)) = log \o b
    BY PartEnds
  <1> HIDE DEF Part
  <1>5. \A k \in T : k + 1 \in T
    BY <1>2
  <1> HIDE DEF T
  <1>6. T \in SUBSET Nat
    BY DEF T
  <1>7. T = Nat
    BY <1>3, <1>5, <1>6, Numbers
  <1>8. Len(b) \in Nat /\ Len(b) <= Len(b)
    OBVIOUS
  <1>9. Sound(Len(b))
    <2> HIDE DEF Sound
    <2> QED BY <1>7, <1>8 DEF T
  <1> QED BY <1>4, <1>9

LEMMA OverdrawStep ==
  ASSUME IndInv, SerialInv, [Next]_vars, NEW a \in Articles, NEW l \in Locations,
         Balance(movements', a, l) < Balance(movements, a, l),
         \A i \in DOMAIN movements' \ DOMAIN movements : ~IsReversal(movements'[i])
  PROVE  Balance(movements', a, l) >= 0
  <1>1. movements \in Seq(Movement) /\ Undoes(movements)
    <2>1. ASSUME NEW i \in DOMAIN movements, IsReversal(movements[i])
          PROVE  movements[i].reverses \in DOMAIN movements
      <3>1. movements[i].reverses \in 1 .. i - 1 /\ i \in 1 .. Len(movements) /\ Len(movements) \in Nat
        BY <2>1 DEF IndInv, ReversedAtMostOnce, TypeOK
      <3> QED BY <3>1
    <2> QED BY <2>1 DEF Undoes, IndInv, TypeOK
  <1>2. Balance(movements, a, l) \in Int
    BY <1>1, BalanceType
  <1>3. movements' # movements
    <2> SUFFICES ASSUME movements' = movements PROVE FALSE
      OBVIOUS
    <2>1. Balance(movements', a, l) = Balance(movements, a, l)
      OBVIOUS
    <2> QED BY <1>2, <2>1
  <1>4. PICK w \in Workers : Commit(w)
    BY <1>3, OthersStutter DEF Next, vars
  <1> DEFINE b == tx[w].movements
  <1>5. /\ b \in Seq(Movement) /\ movements' = movements \o b
        /\ Affordable(tx[w])
    BY <1>4, CommitEffect DEF SerialInv, Careful, Commit
  <1>6. ASSUME NEW i \in DOMAIN b PROVE ~IsReversal(b[i])
    <2> DEFINE k == Len(movements) + i
    <2>1. k \in DOMAIN movements' /\ movements'[k] = b[i]
      BY <1>4, CommitEffect
    <2>2. k \notin DOMAIN movements
      BY <1>1, <1>5
    <2> QED BY <2>1, <2>2
  <1>7. \A i \in DOMAIN b : ~IsReversal(b[i]) /\ Backed(movements \o SubSeq(b, 1, i - 1), b[i])
    BY <1>5, <1>6 DEF Affordable
  <1> HIDE DEF b
  <1>8. /\ Balance(movements \o b, a, l) \in Int
        /\ \/ Balance(movements \o b, a, l) >= Balance(movements, a, l)
           \/ Balance(movements \o b, a, l) >= 0
    BY <1>1, <1>5, <1>7, BackedBatch
  <1> QED BY <1>2, <1>5, <1>8

(* With requests one at a time, no request other than a reversal takes an  *)
(* existence it lowers below zero, across all the postings of a delivery   *)
(* or a confirmation (create_manual_movement, deliver_stock_workshop_      *)
(* request, confirm_inventory).                                            *)
THEOREM NeverOverdraws == ASSUME OneWorker PROVE Spec => NoOverdraw
  <1>1. IndInv /\ SerialInv /\ [Next]_vars =>
          [\A a \in Articles, l \in Locations :
             /\ Balance(movements', a, l) < Balance(movements, a, l)
             /\ \A i \in DOMAIN movements' \ DOMAIN movements : ~IsReversal(movements'[i])
             => Balance(movements', a, l) >= 0]_vars
    BY OverdrawStep
  <1> QED BY <1>1, Inductive, SerialInductive, PTL DEF Spec, NoOverdraw

-----------------------------------------------------------------------------
(* What the serial invariant says of orders, counts and events.            *)

(* With requests one at a time, the received quantity of an order line is  *)
(* the sum of what its receipts booked (create_physical_receipt).          *)
THEOREM ReceiptsMatch == ASSUME OneWorker PROVE Spec => []ReceivedMatchesEntries
  <1>1. SerialInv => ReceivedMatchesEntries
    BY DEF SerialInv
  <1> QED BY <1>1, SerialInductive, PTL

(* With requests one at a time, an order's receiving status and the        *)
(* discrepancies of its lines follow from what was received.               *)
THEOREM OrdersTell == ASSUME OneWorker PROVE Spec => []OrdersTellReceipts
  <1>1. SerialInv => OrdersTellReceipts
    BY DEF SerialInv, OrdersTellReceipts
  <1> QED BY <1>1, SerialInductive, PTL

(* With requests one at a time, a completed inventory session booked, per  *)
(* article, exactly what was counted less the snapshot                     *)
(* (confirm_inventory).                                                    *)
THEOREM AdjustmentsMatch == ASSUME OneWorker PROVE Spec => []AdjustmentMatchesCount
  <1>1. SerialInv => AdjustmentMatchesCount
    BY DEF SerialInv
  <1> QED BY <1>1, SerialInductive, PTL

(* The batch of a serial request is one the ledger may book, sessions and  *)
(* discrepancies included.                                                 *)
LEMMA SerialBooks ==
  ASSUME IndInv, SerialInv, NEW w \in Workers, Commit(w)
  PROVE  Serial!Next
  <1> DEFINE b == tx[w].movements
  <1>1. movements \in Seq(Movement) /\ b \in Seq(Movement) /\ movements' = movements \o b
    BY CommitEffect DEF Commit
  <1>2. SubSeq(movements', Len(movements) + 1, Len(movements')) = b
    BY <1>1, AppendedBatch
  <1>3. Racing!LegalReversals(movements, b) /\ Racing!FreshSources(movements, b)
    BY <1>2, CommitBooks DEF Racing!Next, Racing!Book
  <1>4. Serial!LegalReversals(movements, b)
    BY <1>3 DEF Racing!LegalReversals, Serial!LegalReversals
  <1>5. /\ BookedIsRecorded /\ SessionWrites(tx[w]) /\ RegularizingWrites(tx[w])
    BY DEF SerialInv, Careful
  <1>6. Serial!FreshSources(movements, b)
    <2> SUFFICES ASSUME NEW i \in DOMAIN b,
                        b[i].source.type \in {"receipt", "need", "inventory", "discrepancy"}
                 PROVE  /\ \A j \in DOMAIN movements : movements[j].source # b[i].source
                        /\ \A j \in DOMAIN b \ {i} :
                             b[j].source = b[i].source => b[j].article # b[i].article
      BY DEF Serial!FreshSources
    <2>1. CASE b[i].source.type \in {"receipt", "need"}
      BY <1>3, <2>1 DEF Racing!FreshSources
    <2>2. CASE b[i].source.type = "inventory"
      <3> DEFINE s == b[i].source.id
      <3>1. status[s] = "review" /\ \A j \in DOMAIN b :
              b[j].source = b[i].source /\ b[j].article = b[i].article => i = j
        BY <1>5, <2>2 DEF SessionWrites, Settles
      <3>2. \A j \in DOMAIN movements : movements[j].source # b[i].source
        BY <1>5, <2>2, <3>1 DEF BookedIsRecorded, Done
      <3> QED BY <3>1, <3>2
    <2>3. CASE b[i].source.type = "discrepancy"
      <3>1. /\ discrepancies[b[i].source.id].status # "regularized" /\ Len(b) = 1
        BY <1>5, <2>3 DEF RegularizingWrites
      <3>2. \A j \in DOMAIN movements : movements[j].source # b[i].source
        BY <1>5, <2>3, <3>1 DEF BookedIsRecorded
      <3>3. DOMAIN b = {i}
        BY <1>1, <3>1
      <3> QED BY <3>2, <3>3
    <2> QED BY <2>1, <2>2, <2>3
  <1> QED BY <1>1, <1>2, <1>4, <1>6 DEF Serial!Next, Serial!Book

(* With requests one at a time the ledger keeps the promise of its         *)
(* abstract specification for inventory sessions and discrepancies too:    *)
(* each is booked by one request, once per article.                        *)
THEOREM SerialPromise == ASSUME OneWorker PROVE Spec => SerialLedgerPromise
  <1>1. Init => Serial!Init
    BY DEF Init, Serial!Init
  <1>2. IndInv /\ SerialInv /\ [Next]_vars => [Serial!Next]_movements
    BY SerialBooks, OthersStutter DEF Next, vars
  <1> QED BY <1>1, <1>2, Inductive, SerialInductive, PTL DEF Spec, SerialLedgerPromise, Serial!Spec

=============================================================================
