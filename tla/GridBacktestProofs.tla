-------------------------- MODULE GridBacktestProofs --------------------------
(***************************************************************************)
(* Proofs about the ATR grid strategy in the backtest engine, for any      *)
(* number of levels, any bars, any settings of the hooks and any moments   *)
(* at which the kill switch is turned.  The strategy and the books keep    *)
(* their own positions, and meet only in the orders that are on their way: *)
(* GridInv says of each of these that it opens a leg which is not there,   *)
(* closes one that is, or is a flatten order, which is on its way alone.   *)
(***************************************************************************)
EXTENDS GridBacktest, BacktestEngineProofs

(* ---------------------------- the invariants ---------------------------- *)

Leg == [level : Level, entry_price : EntryPrices, quantity : {QuantityPerLevel}]

Anchors == {b.close : b \in Bars} \cup {0}

EntryIds == {EntryId(l) : l \in Level}
ExitIds == {ExitId(l) : l \in Level}

\* Legs are entered at fill prices, with the size of a level; what is signalled
\* has been triggered.
GridTypeOK ==
    /\ anchor \in Anchors
    /\ triggered_levels \in SUBSET Level
    /\ net_position \in Int
    /\ active_entries \in Seq(Leg)
    /\ pending_entry_orders \in SUBSET {EntryId(l) : l \in triggered_levels}
    /\ pending_exit_orders \in SUBSET ExitIds
    /\ kill_switch \in BOOLEAN
    /\ \A i \in 1..Len(fill_queue) : fill_queue[i].filled_price \in EntryPrices

\* The levels whose legs are open, those whose order would open one there is not,
\* and those whose order would close one there is.
OpenLevels == {active_entries[i].level : i \in 1..Len(active_entries)}
Openings == {l \in Level : EntryId(l) \in pending_entry_orders} \ OpenLevels
Closings == {l \in OpenLevels : ExitId(l) \in pending_exit_orders}

\* The orders that may be on their way, with what they add to the position: those
\* of the levels above, and one that closes all there is.
DueOrders ==
    {<<EntryId(l), SignedQty(l[1], QuantityPerLevel)>> : l \in Openings}
    \cup {<<ExitId(l), -SignedQty(l[1], QuantityPerLevel)>> : l \in Closings}
    \cup {<<FlattenId, -net_position>>}

\* The orders that are: accepted and not settled, or not validated yet.
QueueInv ==
    /\ \A i \in 1..Len(LedgerQueue) : <<LedgerQueue[i].id, LedgerQueue[i].delta>> \in DueOrders
    /\ \A i, j \in 1..Len(LedgerQueue) : LedgerQueue[i].id = LedgerQueue[j].id => i = j
    /\ \A i \in 1..Len(LedgerQueue) :
          LedgerQueue[i].id = FlattenId => Len(LedgerQueue) = 1 /\ candidate_orders = <<>>

BatchInv ==
    /\ \A i \in 1..Len(candidate_orders) :
          /\ <<candidate_orders[i].client_order_id, CandidateDelta(candidate_orders[i])>> \in DueOrders
          /\ \A j \in 1..Len(LedgerQueue) : LedgerQueue[j].id # candidate_orders[i].client_order_id
          /\ candidate_orders[i].client_order_id = FlattenId =>
                Len(candidate_orders) = 1 /\ LedgerQueue = <<>>
    /\ \A i, j \in 1..Len(candidate_orders) :
          candidate_orders[i].client_order_id = candidate_orders[j].client_order_id => i = j
    /\ phase \notin {"VALIDATE", "ABORTED"} => candidate_orders = <<>>

GridInv ==
    /\ GridTypeOK /\ StrategyKnowsPosition /\ LegsExplainPosition /\ LegsAreDistinct
    /\ QueueInv /\ BatchInv

(* --------------------------- folding a sequence ------------------------- *)

\* it folds f from base over the subsets of 1..n, from the first element to the last.
FoldsInOrder(it, n, base, f) ==
    \A s \in SUBSET (1..n) : it[s] = IF s = {} THEN base ELSE f[it[s \ {Max(s)}], Max(s)]

Foldable(n, A, base, f) == n \in Nat /\ base \in A /\ f \in [A \X (1..n) -> A]

HasFold(n, A, base, f) == \E it \in [SUBSET (1..n) -> A] : FoldsInOrder(it, n, base, f)

\* What the library's fold of a sequence chooses does exist.
LEMMA FoldExists ==
  ASSUME NEW n, NEW A, NEW base, NEW f, Foldable(n, A, base, f)
  PROVE  HasFold(n, A, base, f)
<1>. USE DEF Foldable
<1>. DEFINE S == 1..n
            Solves(it, k) == \A s \in SUBSET S : Cardinality(s) <= k =>
                it[s] = IF s = {} THEN base ELSE f[it[s \ {Max(s)}], Max(s)]
            P == {k \in Nat : \E it \in [SUBSET S -> A] : Solves(it, k)}
<1>1. \A s \in SUBSET S : s # {} => Max(s) \in s
  BY LastOfTakes DEF Takes, LastOf
<1>2. IsFiniteSet(S)
  BY FS_Interval
<1>. HIDE DEF S
<1>3. \A s \in SUBSET S : /\ IsFiniteSet(s) /\ Cardinality(s) \in Nat
                          /\ Cardinality(s) = 0 <=> s = {}
                          /\ Cardinality(s) <= Cardinality(S)
  BY <1>2, FS_Subset, FS_CardinalityType, FS_EmptySet
<1>4. \A s \in SUBSET S : s # {} =>
         Max(s) \in S /\ s \ {Max(s)} \in SUBSET S /\ Cardinality(s \ {Max(s)}) = Cardinality(s) - 1
  BY <1>1, <1>3, FS_RemoveElement
<1>5. \A a \in A, i \in S : f[a, i] \in A
  BY DEF S
<1>6. 0 \in P
  <2>. DEFINE it == [s \in SUBSET S |-> base]
  <2>1. it \in [SUBSET S -> A]
    OBVIOUS
  <2>2. Solves(it, 0)
    <3>1. ASSUME NEW s \in SUBSET S, Cardinality(s) <= 0
          PROVE  s = {} /\ it[s] = base
      BY <1>3, <3>1
    <3>. QED  BY <3>1
  <2>. QED  BY <2>1, <2>2
<1>7. ASSUME NEW k \in P PROVE k + 1 \in P
  <2>1. PICK g \in [SUBSET S -> A] : Solves(g, k)
    BY <1>7
  <2>2. k \in Nat
    BY <1>7
  <2>. HIDE DEF P
  <2>. DEFINE next(s) == f[g[s \ {Max(s)}], Max(s)]
              h == [s \in SUBSET S |-> IF s = {} THEN base ELSE IF Cardinality(s) <= k THEN g[s] ELSE next(s)]
  <2>3. ASSUME NEW s \in SUBSET S, s # {} PROVE next(s) \in A
    BY <1>4, <1>5, <2>3
  <2>4. h \in [SUBSET S -> A]
    BY <2>3
  <2>5. ASSUME NEW s \in SUBSET S, Cardinality(s) <= k PROVE h[s] = g[s]
    BY <2>1, <2>5
  <2>6. ASSUME NEW s \in SUBSET S, Cardinality(s) <= k + 1
        PROVE  h[s] = IF s = {} THEN base ELSE f[h[s \ {Max(s)}], Max(s)]
    <3>1. CASE s = {}
      BY <3>1
    <3>2. CASE s # {}
      <4>1. s \ {Max(s)} \in SUBSET S /\ Cardinality(s \ {Max(s)}) <= k
        BY <1>3, <1>4, <2>2, <2>6, <3>2
      <4>2. h[s \ {Max(s)}] = g[s \ {Max(s)}]
        BY <2>5, <4>1
      <4>3. h[s] = next(s)
        BY <2>1, <3>2
      <4>. QED  BY <3>2, <4>2, <4>3
    <3>. QED  BY <3>1, <3>2
  <2>. HIDE DEF h
  <2>7. k + 1 \in Nat
    BY <2>2
  <2>8. Solves(h, k + 1)
    BY <2>6
  <2>. QED  BY <2>4, <2>7, <2>8 DEF P
<1>8. Cardinality(S) \in P
  <2>1. P \in SUBSET Nat
    OBVIOUS
  <2>. HIDE DEF P
  <2>2. P = Nat
    BY <1>6, <1>7, <2>1, InductiveSet
  <2>3. Cardinality(S) \in Nat
    BY <1>3
  <2>. QED  BY <2>2, <2>3
<1>9. PICK it \in [SUBSET S -> A] : Solves(it, Cardinality(S))
  BY <1>8
<1>10. \A s \in SUBSET S : it[s] = IF s = {} THEN base ELSE f[it[s \ {Max(s)}], Max(s)]
  BY <1>3, <1>9
<1>. QED  BY <1>10 DEF S, FoldsInOrder, HasFold

\* The prefix of length k, of which the fold takes the k-th element.
LEMMA PrefixStep ==
  ASSUME NEW n \in Nat, NEW k \in 1..n
  PROVE  /\ 1..k \in SUBSET (1..n) /\ 1..k # {} /\ Max(1..k) = k
         /\ (1..k) \ {Max(1..k)} = 1..(k - 1)
<1>1. k \in Nat \ {0}
  OBVIOUS
<1>2. Max(1..k) = k /\ (1..k) \ {k} = 1..(k - 1) /\ 1..k # {}
  BY <1>1, LastOfPrefix
<1>. QED  BY <1>2

(* ---------------------- the legs, and what they sum to ------------------ *)

\* What a leg adds to the position.
LegDelta(leg) == SignedQty(leg.level[1], leg.quantity)

LegSum(legs) == FoldLeft(LAMBDA sum, e : sum + SignedQty(e.level[1], e.quantity), 0, legs)

\* A leg has a direction and the size of a level.
LEMMA LegTypes ==
  ASSUME NEW leg \in Leg
  PROVE  /\ leg.level \in Level /\ leg.level[1] \in OrderSide /\ leg.level[2] \in 1..Levels
         /\ leg.level = <<leg.level[1], leg.level[2]>>
         /\ leg.entry_price \in EntryPrices /\ leg.quantity = QuantityPerLevel
         /\ LegDelta(leg) = SignedQty(leg.level[1], QuantityPerLevel)
         /\ LegDelta(leg) \in Int
         /\ LegDelta(leg) \in {QuantityPerLevel, -QuantityPerLevel}
<1>1. QuantityPerLevel \in Nat \ {0}
  BY GridAssumption
<1>. QED  BY <1>1 DEF Leg, Level, LegDelta, SignedQty

\* The sum over some legs is the last of the running sums.
RunsTo(r, n, legs) ==
    /\ r[0] = 0
    /\ \A k \in 1..n : r[k] = r[k - 1] + LegDelta(legs[k])

\* The sum of a list of legs is the end of a running sum.
LEMMA LegSumRun ==
  ASSUME NEW legs \in Seq(Leg), NEW n \in Nat, n = Len(legs)
  PROVE  \E r : RunsTo(r, n, legs) /\ LegSum(legs) = r[n]
<1>. DEFINE Eqn(T, it) == it = [s \in SUBSET T |-> IF s = {} THEN 0
                             ELSE it[s \ {Max(s)}] + SignedQty(legs[Max(s)].level[1], legs[Max(s)].quantity)]
            it0 == CHOOSE it : Eqn(1..n, it)
            f == [x \in Int \X (1..n) |-> x[1] + LegDelta(legs[x[2]])]
<1>1. LegSum(legs) = (CHOOSE it : Eqn(DOMAIN legs, it))[DOMAIN legs]
  BY DEF LegSum, FoldLeft, MapThenFoldSet
<1>2. DOMAIN legs = 1..n
  OBVIOUS
<1>3. LegSum(legs) = it0[1..n]
  BY <1>1, <1>2
<1>4. \A i \in 1..n : legs[i] \in Leg /\ LegDelta(legs[i]) \in Int
  BY LegTypes
<1>5. f \in [Int \X (1..n) -> Int]
  BY <1>4
<1>6. \A x \in Int, i \in 1..n : f[x, i] = x + LegDelta(legs[i])
  OBVIOUS
<1>. HIDE DEF f
<1>7. PICK g \in [SUBSET (1..n) -> Int] : FoldsInOrder(g, n, 0, f)
  <2>1. Foldable(n, Int, 0, f)
    BY <1>5 DEF Foldable
  <2>2. HasFold(n, Int, 0, f)
    BY <2>1, FoldExists
  <2>. QED  BY <2>2 DEF HasFold
<1>8. Eqn(1..n, g)
  <2>1. ASSUME NEW s \in SUBSET (1..n), s # {}
        PROVE  g[s] = g[s \ {Max(s)}] + LegDelta(legs[Max(s)])
    <3>1. Max(s) \in s
      BY <2>1, LastOfTakes DEF Takes, LastOf
    <3>2. Max(s) \in 1..n /\ s \ {Max(s)} \in SUBSET (1..n)
      BY <3>1
    <3>3. g[s] = f[g[s \ {Max(s)}], Max(s)]
      BY <1>7, <2>1 DEF FoldsInOrder
    <3>. QED  BY <1>6, <3>2, <3>3
  <2>2. g[{}] = 0
    <3>1. {} \in SUBSET (1..n)
      OBVIOUS
    <3>. QED  BY <1>7, <3>1 DEF FoldsInOrder
  <2>3. \A s \in SUBSET (1..n) :
           g[s] = IF s = {} THEN 0
                  ELSE g[s \ {Max(s)}] + SignedQty(legs[Max(s)].level[1], legs[Max(s)].quantity)
    BY <2>1, <2>2 DEF LegDelta
  <2>. QED  BY <2>3
<1>9. Eqn(1..n, it0)
  BY <1>8
<1>10. \A s \in SUBSET (1..n) :
          it0[s] = IF s = {} THEN 0
                   ELSE it0[s \ {Max(s)}] + SignedQty(legs[Max(s)].level[1], legs[Max(s)].quantity)
  BY <1>9
<1>. HIDE DEF it0
<1>. DEFINE r == [k \in 0..n |-> it0[1..k]]
<1>11. r[0] = 0
  <2>1. 1..0 = {} /\ {} \in SUBSET (1..n) /\ 0 \in 0..n
    OBVIOUS
  <2>. QED  BY <1>10, <2>1
<1>12. ASSUME NEW k \in 1..n PROVE r[k] = r[k - 1] + LegDelta(legs[k])
  <2>1. /\ 1..k \in SUBSET (1..n) /\ 1..k # {} /\ Max(1..k) = k
        /\ (1..k) \ {Max(1..k)} = 1..(k - 1)
    BY PrefixStep
  <2>2. it0[1..k] = it0[1..(k - 1)] + LegDelta(legs[k])
    BY <1>10, <2>1 DEF LegDelta
  <2>3. k \in 0..n /\ k - 1 \in 0..n
    OBVIOUS
  <2>. QED  BY <2>2, <2>3
<1>13. r[n] = it0[1..n]
  BY DEF r
<1>. HIDE DEF r
<1>14. RunsTo(r, n, legs) /\ LegSum(legs) = r[n]
  BY <1>3, <1>11, <1>12, <1>13 DEF RunsTo
<1>. QED  BY <1>14

\* Two such sums over the same legs are the same.
SameLegs(n, a, b) == \A k \in 1..n : a[k] = b[k]

\* Two running sums over the same legs end alike.
LEMMA RunsAgree ==
  ASSUME NEW n \in Nat, NEW a, NEW b, NEW q, NEW r, SameLegs(n, a, b), RunsTo(q, n, a), RunsTo(r, n, b)
  PROVE  q[n] = r[n]
<1>. DEFINE P == {k \in Nat : k <= n => q[k] = r[k]}
<1>1. 0 \in P
  BY DEF RunsTo
<1>2. ASSUME NEW k \in P PROVE k + 1 \in P
  <2>1. k \in Nat /\ k + 1 \in Nat /\ k + 1 - 1 = k
    OBVIOUS
  <2>2. ASSUME k + 1 <= n PROVE q[k + 1] = r[k + 1]
    <3>1. k + 1 \in 1..n /\ q[k] = r[k]
      BY <1>2, <2>1, <2>2
    <3>2. q[k + 1] = q[k] + LegDelta(a[k + 1]) /\ r[k + 1] = r[k] + LegDelta(b[k + 1])
      BY <2>1, <3>1 DEF RunsTo
    <3>. QED  BY <3>1, <3>2 DEF SameLegs
  <2>. QED  BY <2>1, <2>2
<1>3. P = Nat
  <2>1. P \in SUBSET Nat
    OBVIOUS
  <2>. HIDE DEF P
  <2>. QED  BY <1>1, <1>2, <2>1, InductiveSet
<1>. QED  BY <1>3

\* No leg adds or takes more than the size of a level.
LEMMA RunBound ==
  ASSUME NEW legs \in Seq(Leg), NEW n \in Nat, n <= Len(legs), NEW r, RunsTo(r, n, legs)
  PROVE  /\ \A k \in 0..n : r[k] \in Int
         /\ AbsVal(r[n]) <= n * QuantityPerLevel
<1>. DEFINE Q == QuantityPerLevel
            P == {k \in Nat : k <= n => r[k] \in Int /\ r[k] <= k * Q /\ -r[k] <= k * Q}
<1>1. Q \in Nat
  BY GridAssumption
<1>2. \A i \in 1..n : LegDelta(legs[i]) \in Int /\ LegDelta(legs[i]) <= Q /\ -LegDelta(legs[i]) <= Q
  <2>1. ASSUME NEW i \in 1..n
        PROVE  LegDelta(legs[i]) \in {Q, -Q}
    <3>1. legs[i] \in Leg
      OBVIOUS
    <3>. QED  BY <3>1, LegTypes
  <2>. HIDE DEF Q
  <2>. QED  BY <1>1, <2>1
<1>. HIDE DEF Q
<1>3. 0 \in P
  BY <1>1 DEF RunsTo
<1>4. ASSUME NEW k \in P PROVE k + 1 \in P
  <2>1. k \in Nat /\ k + 1 \in Nat /\ k + 1 - 1 = k
    OBVIOUS
  <2>2. ASSUME k + 1 <= n
        PROVE  r[k + 1] \in Int /\ r[k + 1] <= (k + 1) * Q /\ -r[k + 1] <= (k + 1) * Q
    <3>1. k + 1 \in 1..n /\ r[k] \in Int /\ r[k] <= k * Q /\ -r[k] <= k * Q
      BY <1>4, <2>1, <2>2
    <3>2. r[k + 1] = r[k] + LegDelta(legs[k + 1])
      BY <2>1, <3>1 DEF RunsTo
    <3>3. (k + 1) * Q = k * Q + Q /\ k * Q \in Int
      BY <1>1, <2>1
    <3>. QED  BY <1>1, <1>2, <3>1, <3>2, <3>3
  <2>. QED  BY <2>1, <2>2
<1>5. P = Nat
  <2>1. P \in SUBSET Nat
    OBVIOUS
  <2>. HIDE DEF P
  <2>. QED  BY <1>3, <1>4, <2>1, InductiveSet
<1>6. \A k \in 0..n : r[k] \in Int /\ r[k] <= k * Q /\ -r[k] <= k * Q
  BY <1>5
<1>7. r[n] \in Int /\ r[n] <= n * Q /\ -r[n] <= n * Q /\ n \in 0..n
  BY <1>6
<1>. QED  BY <1>6, <1>7 DEF AbsVal, Q

\* No legs, one leg more, and how far a sum can go.
LEMMA LegSumEmpty == LegSum(<<>>) = 0
<1>1. <<>> \in Seq(Leg) /\ Len(<<>>) = 0
  OBVIOUS
<1>2. PICK r : RunsTo(r, 0, <<>>) /\ LegSum(<<>>) = r[0]
  BY <1>1, LegSumRun
<1>. QED  BY <1>2 DEF RunsTo

\* A new leg adds its signed size to the sum.
LEMMA LegSumAppend ==
  ASSUME NEW legs \in Seq(Leg), NEW leg \in Leg
  PROVE  LegSum(Append(legs, leg)) = LegSum(legs) + LegDelta(leg)
<1>. DEFINE n == Len(legs)
            more == Append(legs, leg)
<1>1. /\ n \in Nat /\ n + 1 \in Nat /\ n + 1 - 1 = n /\ more \in Seq(Leg) /\ Len(more) = n + 1
      /\ more[n + 1] = leg /\ \A k \in 1..n : more[k] = legs[k]
  OBVIOUS
<1>. HIDE DEF n, more
<1>2. PICK q : RunsTo(q, n, legs) /\ LegSum(legs) = q[n]
  BY <1>1, LegSumRun DEF n
<1>3. PICK r : RunsTo(r, n + 1, more) /\ LegSum(more) = r[n + 1]
  BY <1>1, LegSumRun
<1>4. RunsTo(r, n, more) /\ r[n + 1] = r[n] + LegDelta(leg)
  <2>1. \A k \in 1..n : k \in 1..(n + 1)
    BY <1>1
  <2>2. n + 1 \in 1..(n + 1)
    BY <1>1
  <2>3. r[n + 1] = r[n] + LegDelta(more[n + 1])
    <3>1. \A k \in 1..(n + 1) : r[k] = r[k - 1] + LegDelta(more[k])
      BY <1>3 DEF RunsTo
    <3>. DEFINE m == n + 1
    <3>2. m \in 1..(n + 1) /\ m - 1 = n
      BY <1>1, <2>2
    <3>. HIDE DEF m
    <3>3. r[m] = r[m - 1] + LegDelta(more[m])
      BY <3>1, <3>2
    <3>. QED  BY <3>2, <3>3 DEF m
  <2>. QED  BY <1>1, <1>3, <2>1, <2>3 DEF RunsTo
<1>5. SameLegs(n, legs, more)
  BY <1>1 DEF SameLegs
<1>6. q[n] = r[n]
  BY <1>1, <1>2, <1>4, <1>5, RunsAgree
<1>. QED  BY <1>2, <1>3, <1>4, <1>6 DEF more

\* No sum of legs exceeds one level's quantity per leg.
LEMMA LegSumBound ==
  ASSUME NEW legs \in Seq(Leg)
  PROVE  LegSum(legs) \in Int /\ AbsVal(LegSum(legs)) <= Len(legs) * QuantityPerLevel
<1>. DEFINE n == Len(legs)
<1>1. n \in Nat /\ n <= n /\ n \in 0..n
  OBVIOUS
<1>. HIDE DEF n
<1>2. PICK r : RunsTo(r, n, legs) /\ LegSum(legs) = r[n]
  BY <1>1, LegSumRun DEF n
<1>3. (\A k \in 0..n : r[k] \in Int) /\ AbsVal(r[n]) <= n * QuantityPerLevel
  <2>1. n <= Len(legs)
    BY <1>1 DEF n
  <2>. QED  BY <1>1, <1>2, <2>1, RunBound
<1>. QED  BY <1>1, <1>2, <1>3 DEF n

(* --------------------------- filtering a sequence ----------------------- *)

\* f filters the first n elements of s: it keeps those at the places K.
Filters(f, n, s, K) ==
    /\ f[0] = <<>>
    /\ \A k \in 1..n : f[k] = IF k \in K THEN Append(f[k - 1], s[k]) ELSE f[k - 1]

\* t is what s has at the places K, each once; pos tells the place.
Picks(pos, t, s, K) ==
    /\ pos \in [1..Len(t) -> K]
    /\ \A i, j \in 1..Len(t) : pos[i] = pos[j] => i = j
    /\ \A k \in K : \E i \in 1..Len(t) : pos[i] = k
    /\ \A i \in 1..Len(t) : t[i] = s[pos[i]]

PicksAll(T, t, s, K) == t \in Seq(T) /\ \E pos : Picks(pos, t, s, K)

\* One element more.
LEMMA PickOne ==
  ASSUME NEW T, NEW t, NEW s, NEW J, NEW k, k \notin J, s[k] \in T, PicksAll(T, t, s, J)
  PROVE  PicksAll(T, Append(t, s[k]), s, J \cup {k})
<1>. DEFINE m == Len(t)
            u == Append(t, s[k])
<1>1. t \in Seq(T) /\ m \in Nat
  BY DEF PicksAll
<1>2. PICK p : Picks(p, t, s, J)
  BY DEF PicksAll
<1>3. /\ u \in Seq(T) /\ Len(u) = m + 1 /\ u[m + 1] = s[k]
      /\ \A i \in 1..m : u[i] = t[i]
  BY <1>1
<1>4. /\ p \in [1..m -> J]
      /\ \A i, j \in 1..m : p[i] = p[j] => i = j
      /\ \A x \in J : \E i \in 1..m : p[i] = x
      /\ \A i \in 1..m : t[i] = s[p[i]]
  BY <1>2 DEF Picks
<1>. HIDE DEF m, u
<1>. DEFINE pos == [i \in 1..(m + 1) |-> IF i = m + 1 THEN k ELSE p[i]]
<1>5. /\ \A i \in 1..m : i \in 1..(m + 1) /\ i # m + 1 /\ pos[i] = p[i] /\ p[i] \in J
      /\ m + 1 \in 1..(m + 1) /\ pos[m + 1] = k
      /\ \A i \in 1..(m + 1) : i \in 1..m \/ i = m + 1
  BY <1>1, <1>4
<1>6. pos \in [1..(m + 1) -> J \cup {k}]
  <2>1. \A i \in 1..(m + 1) : (IF i = m + 1 THEN k ELSE p[i]) \in J \cup {k}
    BY <1>5
  <2>. QED  BY <2>1
<1>. HIDE DEF pos
<1>7. \A i, j \in 1..(m + 1) : pos[i] = pos[j] => i = j
  BY <1>4, <1>5
<1>8. \A x \in J \cup {k} : \E i \in 1..(m + 1) : pos[i] = x
  BY <1>4, <1>5
<1>9. \A i \in 1..(m + 1) : u[i] = s[pos[i]]
  BY <1>3, <1>4, <1>5
<1>10. Picks(pos, u, s, J \cup {k})
  BY <1>3, <1>6, <1>7, <1>8, <1>9 DEF Picks
<1>. QED  BY <1>3, <1>10 DEF PicksAll, u

\* A filter picks what it keeps.
LEMMA FilterPicks ==
  ASSUME NEW T, NEW s, NEW n \in Nat, \A k \in 1..n : s[k] \in T,
         NEW K \in SUBSET (1..n), NEW f, Filters(f, n, s, K)
  PROVE  PicksAll(T, f[n], s, K)
<1>. DEFINE upto(k) == {x \in K : x <= k}
            P == {k \in Nat : k <= n => PicksAll(T, f[k], s, upto(k))}
<1>1. 0 \in P
  <2>1. upto(0) = {}
    <3>1. \A x \in K : x \in 1..n /\ ~(x <= 0)
      OBVIOUS
    <3>. QED  BY <3>1
  <2>2. f[0] = <<>> /\ <<>> \in Seq(T) /\ Len(<<>>) = 0
    BY DEF Filters
  <2>3. Picks(<<>>, <<>>, s, {})
    BY DEF Picks
  <2>4. PicksAll(T, f[0], s, {})
    BY <2>2, <2>3 DEF PicksAll
  <2>. QED  BY <2>1, <2>4
<1>2. ASSUME NEW k \in P PROVE k + 1 \in P
  <2>. DEFINE m == k + 1
  <2>1. k \in Nat /\ m \in Nat /\ m - 1 = k
    OBVIOUS
  <2>2. ASSUME m <= n PROVE PicksAll(T, f[m], s, upto(m))
    <3>1. m \in 1..n /\ PicksAll(T, f[k], s, upto(k)) /\ s[m] \in T
      BY <1>2, <2>1, <2>2
    <3>2. m \notin upto(k)
      BY <2>1
    <3>. HIDE DEF m
    <3>3. f[m] = IF m \in K THEN Append(f[k], s[m]) ELSE f[k]
      <4>1. f[m] = IF m \in K THEN Append(f[m - 1], s[m]) ELSE f[m - 1]
        BY <3>1 DEF Filters
      <4>. QED  BY <2>1, <4>1
    <3>4. \A x \in K : x <= m <=> x <= k \/ x = m
      BY <2>1
    <3>5. CASE m \in K
      <4>1. upto(m) = upto(k) \cup {m}
        BY <3>4, <3>5
      <4>. HIDE DEF upto
      <4>2. PicksAll(T, Append(f[k], s[m]), s, upto(k) \cup {m})
        BY <3>1, <3>2, PickOne
      <4>. QED  BY <3>3, <3>5, <4>1, <4>2
    <3>6. CASE m \notin K
      <4>1. upto(m) = upto(k)
        BY <3>4, <3>6
      <4>. HIDE DEF upto
      <4>. QED  BY <3>1, <3>3, <3>6, <4>1
    <3>. QED  BY <3>5, <3>6
  <2>. HIDE DEF upto
  <2>. QED  BY <2>1, <2>2
<1>3. P = Nat
  <2>1. P \in SUBSET Nat
    OBVIOUS
  <2>. HIDE DEF P
  <2>. QED  BY <1>1, <1>2, <2>1, InductiveSet
<1>4. upto(n) = K
  <2>1. \A x \in K : x \in 1..n /\ x <= n
    OBVIOUS
  <2>. QED  BY <2>1
<1>. HIDE DEF upto
<1>5. n \in P
  BY <1>3
<1>. QED  BY <1>4, <1>5

(* --------------------------- the legs that are kept --------------------- *)

\* The places of the legs in S.
PlacesIn(S) == {k \in 1..Len(active_entries) : active_entries[k] \in S}

\* LegsIn filters the open legs.
LEMMA LegsInFilters ==
  ASSUME active_entries \in Seq(Leg), NEW S
  PROVE  \E f : /\ Filters(f, Len(active_entries), active_entries, PlacesIn(S))
                /\ LegsIn(S) = f[Len(active_entries)]
<1>. DEFINE n == Len(active_entries)
            Take(legs, e) == IF e \in S THEN Append(legs, e) ELSE legs
            Eqn(T, it) == it = [s \in SUBSET T |-> IF s = {} THEN <<>>
                             ELSE Take(it[s \ {Max(s)}], active_entries[Max(s)])]
            it0 == CHOOSE it : Eqn(1..n, it)
            step == [x \in Seq(Leg) \X (1..n) |-> Take(x[1], active_entries[x[2]])]
<1>1. LegsIn(S) = (CHOOSE it : Eqn(DOMAIN active_entries, it))[DOMAIN active_entries]
  BY DEF LegsIn, FoldLeft, MapThenFoldSet
<1>2. DOMAIN active_entries = 1..n /\ n \in Nat /\ \A i \in 1..n : active_entries[i] \in Leg
  OBVIOUS
<1>3. LegsIn(S) = it0[1..n]
  BY <1>1, <1>2
<1>4. step \in [Seq(Leg) \X (1..n) -> Seq(Leg)]
  <2>1. ASSUME NEW legs \in Seq(Leg), NEW i \in 1..n PROVE Take(legs, active_entries[i]) \in Seq(Leg)
    BY <1>2
  <2>. QED  BY <2>1
<1>5. \A legs \in Seq(Leg), i \in 1..n : step[legs, i] = Take(legs, active_entries[i])
  OBVIOUS
<1>. HIDE DEF step
<1>6. PICK g \in [SUBSET (1..n) -> Seq(Leg)] : FoldsInOrder(g, n, <<>>, step)
  <2>1. <<>> \in Seq(Leg)
    OBVIOUS
  <2>2. Foldable(n, Seq(Leg), <<>>, step)
    BY <1>2, <1>4, <2>1 DEF Foldable
  <2>3. HasFold(n, Seq(Leg), <<>>, step)
    BY <2>2, FoldExists
  <2>. QED  BY <2>3 DEF HasFold
<1>7. Eqn(1..n, g)
  <2>1. ASSUME NEW s \in SUBSET (1..n), s # {}
        PROVE  g[s] = Take(g[s \ {Max(s)}], active_entries[Max(s)])
    <3>1. Max(s) \in s
      BY <1>2, <2>1, LastOfTakes DEF Takes, LastOf
    <3>2. Max(s) \in 1..n /\ g[s \ {Max(s)}] \in Seq(Leg)
      BY <3>1
    <3>3. g[s] = step[g[s \ {Max(s)}], Max(s)]
      BY <1>6, <2>1 DEF FoldsInOrder
    <3>. HIDE DEF Take
    <3>. QED  BY <1>5, <3>2, <3>3
  <2>2. g[{}] = <<>>
    <3>1. {} \in SUBSET (1..n)
      OBVIOUS
    <3>. QED  BY <1>6, <3>1 DEF FoldsInOrder
  <2>. HIDE DEF Take
  <2>. QED  BY <2>1, <2>2
<1>8. Eqn(1..n, it0)
  BY <1>7
<1>. HIDE DEF Take
<1>9. \A s \in SUBSET (1..n) :
         it0[s] = IF s = {} THEN <<>> ELSE Take(it0[s \ {Max(s)}], active_entries[Max(s)])
  BY <1>8
<1>. HIDE DEF it0
<1>. DEFINE f == [k \in 0..n |-> it0[1..k]]
<1>10. f[0] = <<>>
  <2>1. 1..0 = {} /\ {} \in SUBSET (1..n) /\ 0 \in 0..n
    BY <1>2
  <2>. QED  BY <1>9, <2>1
<1>11. ASSUME NEW k \in 1..n PROVE f[k] = Take(f[k - 1], active_entries[k])
  <2>1. /\ 1..k \in SUBSET (1..n) /\ 1..k # {} /\ Max(1..k) = k
        /\ (1..k) \ {Max(1..k)} = 1..(k - 1)
    BY <1>2, PrefixStep
  <2>2. it0[1..k] = Take(it0[1..(k - 1)], active_entries[k])
    BY <1>9, <2>1
  <2>3. k \in 0..n /\ k - 1 \in 0..n
    BY <1>2
  <2>. QED  BY <2>2, <2>3
<1>12. f[n] = it0[1..n]
  BY <1>2 DEF f
<1>. HIDE DEF f
<1>13. Filters(f, n, active_entries, PlacesIn(S))
  BY <1>10, <1>11 DEF Filters, PlacesIn, Take
<1>. QED  BY <1>3, <1>12, <1>13

\* The legs in S are just those, each once.
LEMMA LegsInAre ==
  ASSUME active_entries \in Seq(Leg), NEW S
  PROVE  PicksAll(Leg, LegsIn(S), active_entries, PlacesIn(S))
<1>. DEFINE n == Len(active_entries)
<1>1. n \in Nat /\ \A k \in 1..n : active_entries[k] \in Leg
  OBVIOUS
<1>2. PICK f : Filters(f, n, active_entries, PlacesIn(S)) /\ LegsIn(S) = f[n]
  BY LegsInFilters
<1>3. PlacesIn(S) \in SUBSET (1..n)
  BY DEF PlacesIn
<1>. HIDE DEF n
<1>4. PicksAll(Leg, f[n], active_entries, PlacesIn(S))
  BY <1>1, <1>2, <1>3, FilterPicks
<1>. QED  BY <1>2, <1>4

\* Without one of the legs the sum is less by just that leg.
LEMMA LegSumWithoutOne ==
  ASSUME NEW legs \in Seq(Leg), NEW n \in Nat, n = Len(legs), NEW a \in 1..n,
         NEW f, Filters(f, n, legs, (1..n) \ {a})
  PROVE  LegSum(f[n]) = LegSum(legs) - LegDelta(legs[a])
<1>. DEFINE x == LegDelta(legs[a])
<1>1. PICK r : RunsTo(r, n, legs) /\ LegSum(legs) = r[n]
  BY LegSumRun
<1>2. \A k \in 1..n : legs[k] \in Leg /\ LegDelta(legs[k]) \in Int
  BY LegTypes
<1>3. \A k \in 0..n : r[k] \in Int
  BY <1>1, RunBound
<1>. DEFINE P == {k \in Nat : k <= n => /\ f[k] \in Seq(Leg)
                                        /\ LegSum(f[k]) = r[k] - (IF a <= k THEN x ELSE 0)}
<1>4. 0 \in P
  <2>1. f[0] = <<>> /\ r[0] = 0
    BY <1>1 DEF Filters, RunsTo
  <2>2. <<>> \in Seq(Leg) /\ ~(a <= 0)
    OBVIOUS
  <2>3. f[0] \in Seq(Leg) /\ LegSum(f[0]) = 0
    BY <2>1, <2>2, LegSumEmpty
  <2>4. r[0] - (IF a <= 0 THEN x ELSE 0) = 0
    BY <2>1, <2>2
  <2>. QED  BY <2>3, <2>4
<1>5. ASSUME NEW k \in P PROVE k + 1 \in P
  <2>. DEFINE m == k + 1
  <2>1. k \in Nat /\ m \in Nat /\ m - 1 = k
    OBVIOUS
  <2>2. ASSUME m <= n
        PROVE  f[m] \in Seq(Leg) /\ LegSum(f[m]) = r[m] - (IF a <= m THEN x ELSE 0)
    <3>1. /\ m \in 1..n /\ k \in 0..n /\ k <= n /\ f[k] \in Seq(Leg)
          /\ LegSum(f[k]) = r[k] - (IF a <= k THEN x ELSE 0)
      BY <1>5, <2>1, <2>2
    <3>. HIDE DEF m, P
    <3>2. /\ f[m] = IF m \in (1..n) \ {a} THEN Append(f[k], legs[m]) ELSE f[k]
          /\ r[m] = r[k] + LegDelta(legs[m])
      <4>1. /\ f[m] = IF m \in (1..n) \ {a} THEN Append(f[m - 1], legs[m]) ELSE f[m - 1]
            /\ r[m] = r[m - 1] + LegDelta(legs[m])
        BY <1>1, <3>1 DEF Filters, RunsTo
      <4>. QED  BY <2>1, <4>1
    <3>3. r[k] \in Int /\ LegDelta(legs[m]) \in Int /\ x \in Int /\ legs[m] \in Leg
      BY <1>2, <1>3, <3>1
    <3>4. CASE m = a
      <4>1. f[m] = f[k] /\ LegDelta(legs[m]) = x /\ a <= m /\ ~(a <= k)
        BY <2>1, <3>2, <3>4
      <4>. HIDE DEF x
      <4>. QED  BY <3>1, <3>2, <3>3, <4>1
    <3>5. CASE m # a
      <4>1. f[m] = Append(f[k], legs[m]) /\ (a <= m <=> a <= k)
        BY <2>1, <3>1, <3>2, <3>5
      <4>2. LegSum(f[m]) = LegSum(f[k]) + LegDelta(legs[m]) /\ f[m] \in Seq(Leg)
        BY <3>1, <3>3, <4>1, LegSumAppend
      <4>. HIDE DEF x
      <4>. QED  BY <3>1, <3>2, <3>3, <4>1, <4>2
    <3>. QED  BY <3>4, <3>5
  <2>. QED  BY <2>1, <2>2
<1>6. P = Nat
  <2>1. P \in SUBSET Nat
    OBVIOUS
  <2>. HIDE DEF P
  <2>. QED  BY <1>4, <1>5, <2>1, InductiveSet
<1>7. LegSum(f[n]) = r[n] - x
  <2>1. n \in P /\ a <= n
    BY <1>6
  <2>. QED  BY <2>1
<1>. QED  BY <1>1, <1>7

(* --------------------------- the levels that signal --------------------- *)

\* The loops cross every level once.
LEMMA LevelsInOrder ==
  /\ Levels \in Nat \ {0} /\ 2 * Levels \in Nat /\ Len(LevelSequence) = 2 * Levels
  /\ LevelSequence \in Seq(Level)
  /\ \A k \in 1..(2 * Levels) : LevelSequence[k] \in Level
  /\ \A j, k \in 1..(2 * Levels) : LevelSequence[j] = LevelSequence[k] => j = k
<1>1. Levels \in Nat \ {0} /\ 2 * Levels \in Nat
  BY GridAssumption
<1>2. \A k \in 1..(2 * Levels) :
         /\ k <= Levels => LevelSequence[k] = <<"BUY", k>>
         /\ ~(k <= Levels) => LevelSequence[k] = <<"SELL", k - Levels>>
  BY <1>1 DEF LevelSequence
<1>3. \A k \in 1..(2 * Levels) : LevelSequence[k] \in Level
  <2>1. ASSUME NEW k \in 1..(2 * Levels) PROVE LevelSequence[k] \in Level
    <3>1. CASE k <= Levels
      <4>1. k \in 1..Levels /\ LevelSequence[k] = <<"BUY", k>>
        BY <1>1, <1>2, <3>1
      <4>. QED  BY <4>1 DEF Level, OrderSide
    <3>2. CASE ~(k <= Levels)
      <4>1. k - Levels \in 1..Levels /\ LevelSequence[k] = <<"SELL", k - Levels>>
        BY <1>1, <1>2, <3>2
      <4>. QED  BY <4>1 DEF Level, OrderSide
    <3>. QED  BY <3>1, <3>2
  <2>. QED  BY <2>1
<1>4. \A j, k \in 1..(2 * Levels) : LevelSequence[j] = LevelSequence[k] => j = k
  <2>1. ASSUME NEW k \in 1..(2 * Levels)
        PROVE  IF k <= Levels THEN LevelSequence[k][1] = "BUY" /\ LevelSequence[k][2] = k
               ELSE LevelSequence[k][1] = "SELL" /\ LevelSequence[k][2] = k - Levels
    BY <1>2
  <2>2. ASSUME NEW j \in 1..(2 * Levels), NEW k \in 1..(2 * Levels), LevelSequence[j] = LevelSequence[k]
        PROVE  j = k
    <3>1. LevelSequence[j][1] = LevelSequence[k][1] /\ LevelSequence[j][2] = LevelSequence[k][2]
      BY <2>2
    <3>2. j <= Levels <=> k <= Levels
      BY <2>1, <3>1
    <3>. QED  BY <1>1, <2>1, <3>1, <3>2
  <2>. QED  BY <2>2
<1>5. LevelSequence \in Seq(Level) /\ Len(LevelSequence) = 2 * Levels
  BY <1>1, <1>3 DEF LevelSequence
<1>. QED  BY <1>1, <1>3, <1>4, <1>5

\* The levels that signal are some of them, none of which has signalled before.
LEMMA EntryLevelsFilter ==
  ASSUME NEW b, NEW regime, NEW a
  PROVE  \E K \in SUBSET (1..(2 * Levels)) : \E f :
            /\ Filters(f, 2 * Levels, LevelSequence, K)
            /\ EntryLevels(b, regime, a) = f[2 * Levels]
            /\ \A k \in K : LevelSequence[k] \notin triggered_levels
<1>. DEFINE n == 2 * Levels
            A == [levels : Seq(Level), delta : Int]
            base == [levels |-> <<>>, delta |-> 0]
            Signals(acc, level) == /\ ~(level[1] = "BUY" /\ regime = "BEARISH")
                                   /\ MaySignal(level, b, a)
                                   /\ WithinCap(level, acc.delta)
            Take(acc, level) == IF Signals(acc, level)
                                THEN [levels |-> Append(acc.levels, level),
                                      delta |-> acc.delta + SignedQty(level[1], QuantityPerLevel)]
                                ELSE acc
            Eqn(T, it) == it = [s \in SUBSET T |-> IF s = {} THEN base
                             ELSE Take(it[s \ {Max(s)}], LevelSequence[Max(s)])]
            it0 == CHOOSE it : Eqn(1..n, it)
            step == [x \in A \X (1..n) |-> Take(x[1], LevelSequence[x[2]])]
<1>1. EntryLevels(b, regime, a) = (CHOOSE it : Eqn(DOMAIN LevelSequence, it))[DOMAIN LevelSequence].levels
  BY DEF EntryLevels, FoldLeft, MapThenFoldSet
<1>2. DOMAIN LevelSequence = 1..n /\ n \in Nat /\ \A i \in 1..n : LevelSequence[i] \in Level
  BY LevelsInOrder DEF LevelSequence
<1>3. EntryLevels(b, regime, a) = it0[1..n].levels
  BY <1>1, <1>2
<1>. HIDE DEF Signals
<1>4. step \in [A \X (1..n) -> A]
  <2>1. ASSUME NEW acc \in A, NEW i \in 1..n PROVE Take(acc, LevelSequence[i]) \in A
    <3>1. LevelSequence[i] \in Level
      BY <1>2
    <3>2. SignedQty(LevelSequence[i][1], QuantityPerLevel) \in Int
      BY GridAssumption DEF SignedQty
    <3>. QED  BY <3>1, <3>2
  <2>. HIDE DEF A, Take
  <2>. QED  BY <2>1
<1>5. base \in A
  <2>1. <<>> \in Seq(Level)
    OBVIOUS
  <2>. QED  BY <2>1
<1>6. \A acc \in A, i \in 1..n : step[acc, i] = Take(acc, LevelSequence[i])
  <2>. HIDE DEF A, Take
  <2>. QED  OBVIOUS
<1>. HIDE DEF step, A, n
<1>7. PICK g \in [SUBSET (1..n) -> A] : FoldsInOrder(g, n, base, step)
  <2>1. Foldable(n, A, base, step)
    BY <1>2, <1>4, <1>5 DEF Foldable
  <2>2. HasFold(n, A, base, step)
    BY <2>1, FoldExists
  <2>. QED  BY <2>2 DEF HasFold
<1>. HIDE DEF base, Take
<1>8. Eqn(1..n, g)
  <2>1. ASSUME NEW s \in SUBSET (1..n), s # {}
        PROVE  g[s] = Take(g[s \ {Max(s)}], LevelSequence[Max(s)])
    <3>1. Max(s) \in s
      BY <1>2, <2>1, LastOfTakes DEF Takes, LastOf
    <3>2. Max(s) \in 1..n /\ g[s \ {Max(s)}] \in A
      BY <3>1
    <3>3. g[s] = step[g[s \ {Max(s)}], Max(s)]
      BY <1>7, <2>1 DEF FoldsInOrder
    <3>. QED  BY <1>6, <3>2, <3>3
  <2>2. g[{}] = base
    <3>1. {} \in SUBSET (1..n)
      OBVIOUS
    <3>. QED  BY <1>7, <3>1 DEF FoldsInOrder
  <2>. QED  BY <2>1, <2>2
<1>9. Eqn(1..n, it0)
  BY <1>8
<1>10. \A s \in SUBSET (1..n) :
          it0[s] = IF s = {} THEN base ELSE Take(it0[s \ {Max(s)}], LevelSequence[Max(s)])
  BY <1>9
<1>. HIDE DEF it0
<1>. DEFINE q == [k \in 0..n |-> it0[1..k]]
            f == [k \in 0..n |-> q[k].levels]
            K == {k \in 1..n : Signals(q[k - 1], LevelSequence[k])}
<1>11. q[0] = base
  <2>1. 1..0 = {} /\ {} \in SUBSET (1..n) /\ 0 \in 0..n
    BY <1>2
  <2>. QED  BY <1>10, <2>1
<1>12. ASSUME NEW k \in 1..n PROVE q[k] = Take(q[k - 1], LevelSequence[k])
  <2>1. /\ 1..k \in SUBSET (1..n) /\ 1..k # {} /\ Max(1..k) = k
        /\ (1..k) \ {Max(1..k)} = 1..(k - 1)
    BY <1>2, PrefixStep
  <2>2. it0[1..k] = Take(it0[1..(k - 1)], LevelSequence[k])
    BY <1>10, <2>1
  <2>3. k \in 0..n /\ k - 1 \in 0..n
    BY <1>2
  <2>. QED  BY <2>2, <2>3
<1>13. q[n] = it0[1..n] /\ n \in 0..n
  BY <1>2
<1>. HIDE DEF q
<1>14. f[0] = <<>>
  <2>1. 0 \in 0..n
    BY <1>2
  <2>. QED  BY <1>11, <2>1 DEF base
<1>15. ASSUME NEW k \in 1..n
       PROVE  f[k] = IF k \in K THEN Append(f[k - 1], LevelSequence[k]) ELSE f[k - 1]
  <2>1. k \in 0..n /\ k - 1 \in 0..n
    BY <1>2
  <2>2. q[k] = Take(q[k - 1], LevelSequence[k])
    BY <1>12
  <2>3. f[k] = q[k].levels /\ f[k - 1] = q[k - 1].levels
    BY <2>1
  <2>4. k \in K <=> Signals(q[k - 1], LevelSequence[k])
    OBVIOUS
  <2>. HIDE DEF f, K
  <2>5. CASE Signals(q[k - 1], LevelSequence[k])
    <3>1. q[k].levels = Append(q[k - 1].levels, LevelSequence[k])
      BY <2>2, <2>5 DEF Take
    <3>. QED  BY <2>3, <2>4, <2>5, <3>1
  <2>6. CASE ~Signals(q[k - 1], LevelSequence[k])
    <3>1. q[k] = q[k - 1]
      BY <2>2, <2>6 DEF Take
    <3>. QED  BY <2>3, <2>4, <2>6, <3>1
  <2>. QED  BY <2>5, <2>6
<1>16. Filters(f, n, LevelSequence, K)
  <2>. HIDE DEF f, K
  <2>. QED  BY <1>14, <1>15 DEF Filters
<1>17. EntryLevels(b, regime, a) = f[n]
  BY <1>3, <1>13
<1>18. \A k \in K : LevelSequence[k] \notin triggered_levels
  BY DEF Signals, MaySignal
<1>19. K \in SUBSET (1..n)
  OBVIOUS
<1>. HIDE DEF f, K
<1>. QED  BY <1>16, <1>17, <1>18, <1>19 DEF n

(* --------------------------- the orders of a bar ------------------------ *)

\* An id tells the kind of its order, and its level.
LEMMA LevelIds ==
  ASSUME NEW l \in Level
  PROVE  /\ l[1] \in OrderSide /\ l[2] \in 1..Levels /\ l = <<l[1], l[2]>>
         /\ EntryId(l)[1] = "ENTRY" /\ <<EntryId(l)[2], EntryId(l)[3]>> = l
         /\ ExitId(l)[1] = "EXIT" /\ <<ExitId(l)[2], ExitId(l)[3]>> = l
         /\ EntryId(l) # FlattenId /\ ExitId(l) # FlattenId
         /\ SignedQty(l[1], QuantityPerLevel) \in {QuantityPerLevel, -QuantityPerLevel}
         /\ Opposite(l[1]) \in OrderSide
         /\ SignedQty(Opposite(l[1]), QuantityPerLevel) = -SignedQty(l[1], QuantityPerLevel)
         /\ QuantityPerLevel \in Nat \ {0} /\ SignedQty(l[1], QuantityPerLevel) \in Int
<1>1. l[1] \in OrderSide /\ l[2] \in 1..Levels /\ l = <<l[1], l[2]>>
  BY DEF Level
<1>2. QuantityPerLevel \in Nat \ {0}
  BY GridAssumption
<1>3. /\ EntryId(l) = <<"ENTRY", l[1], l[2]>> /\ ExitId(l) = <<"EXIT", l[1], l[2]>>
      /\ FlattenId = <<"FLATTEN", "BUY", 0>>
  BY DEF EntryId, ExitId, FlattenId
<1>4. /\ EntryId(l)[1] = "ENTRY" /\ EntryId(l)[2] = l[1] /\ EntryId(l)[3] = l[2]
      /\ ExitId(l)[1] = "EXIT" /\ ExitId(l)[2] = l[1] /\ ExitId(l)[3] = l[2]
      /\ FlattenId[1] = "FLATTEN"
  BY <1>3
<1>5. EntryId(l) # FlattenId /\ ExitId(l) # FlattenId
  BY <1>4
<1>6. /\ SignedQty(l[1], QuantityPerLevel) \in {QuantityPerLevel, -QuantityPerLevel}
      /\ Opposite(l[1]) \in OrderSide
      /\ SignedQty(Opposite(l[1]), QuantityPerLevel) = -SignedQty(l[1], QuantityPerLevel)
      /\ SignedQty(l[1], QuantityPerLevel) \in Int
  BY <1>1, <1>2 DEF SignedQty, Opposite, OrderSide
<1>. QED  BY <1>1, <1>2, <1>4, <1>5, <1>6

\* Entries and exits of different levels have different ids, and no entry has that of an exit.
LEMMA DifferentIds ==
  ASSUME NEW l \in Level, NEW m \in Level
  PROVE  /\ EntryId(l) = EntryId(m) => l = m
         /\ ExitId(l) = ExitId(m) => l = m
         /\ EntryId(l) # ExitId(m)
<1>1. /\ EntryId(l)[1] = "ENTRY" /\ <<EntryId(l)[2], EntryId(l)[3]>> = l
      /\ ExitId(l)[1] = "EXIT" /\ <<ExitId(l)[2], ExitId(l)[3]>> = l
      /\ EntryId(m)[1] = "ENTRY" /\ <<EntryId(m)[2], EntryId(m)[3]>> = m
      /\ ExitId(m)[1] = "EXIT" /\ <<ExitId(m)[2], ExitId(m)[3]>> = m
  BY LevelIds
<1>. QED  BY <1>1

\* An order of the strategy is one the engine may be handed.
LEMMA GridOrderType ==
  ASSUME NEW id \in GridOrderIds, NEW side \in OrderSide, NEW quantity \in 1..(2 * Levels * QuantityPerLevel),
         NEW price,
         \/ \E l \in Level, b \in Bars : price = LevelPrice(l, b.close)
         \/ \E b \in Bars : price = b.close
         \/ \E p \in EntryPrices, s \in OrderSide : price = p + SignedQty(s, Spacing)
  PROVE  /\ NewOrder(id, side, quantity, price) \in Proposals
         /\ NewOrder(id, side, quantity, price).client_order_id = id
         /\ CandidateDelta(NewOrder(id, side, quantity, price)) = SignedQty(side, quantity)
<1>1. NewOrder(id, side, quantity, price) \in GridOrderForms
  BY DEF NewOrder, GridOrderForms
<1>. QED  BY <1>1, GridBacktestAssumption DEF NewOrder, CandidateDelta

\* An order that opens a leg of a level that never signalled, closes a leg there
\* is, or closes all.
NewEntry(o) ==
    \E l \in Level : /\ o.client_order_id = EntryId(l) /\ l \notin triggered_levels
                     /\ CandidateDelta(o) = SignedQty(l[1], QuantityPerLevel)

NewExit(o) ==
    \E l \in Level : /\ o.client_order_id = ExitId(l) /\ l \in OpenLevels
                     /\ CandidateDelta(o) = -SignedQty(l[1], QuantityPerLevel)

NewFlatten(o) == o.client_order_id = FlattenId /\ CandidateDelta(o) = -net_position

OneOrderPerId(batch) ==
    \A i, j \in 1..Len(batch) : batch[i].client_order_id = batch[j].client_order_id => i = j

\* The exits of a bar: of legs there are, each once.
LEMMA ExitOrdersAre ==
  ASSUME GridTypeOK, LegsAreDistinct, NEW b
  PROVE  /\ ExitOrders(b) \in Seq(Proposals)
         /\ \A i \in 1..Len(ExitOrders(b)) : NewExit(ExitOrders(b)[i])
         /\ OneOrderPerId(ExitOrders(b))
<1>. DEFINE legs == Exiting(b)
            n == Len(legs)
            order(e) == NewOrder(ExitId(e.level), Opposite(e.level[1]), e.quantity, ExitPrice(e))
<1>1. active_entries \in Seq(Leg)
  BY DEF GridTypeOK
<1>2. PICK S : legs = LegsIn(S)
  BY DEF Exiting
<1>3. PicksAll(Leg, legs, active_entries, PlacesIn(S))
  BY <1>1, <1>2, LegsInAre
<1>. HIDE DEF legs
<1>4. legs \in Seq(Leg) /\ n \in Nat /\ \A i \in 1..n : legs[i] \in Leg
  BY <1>3 DEF PicksAll
<1>5. PICK pos : Picks(pos, legs, active_entries, PlacesIn(S))
  BY <1>3 DEF PicksAll
<1>6. /\ \A i \in 1..n : pos[i] \in 1..Len(active_entries) /\ legs[i] = active_entries[pos[i]]
      /\ \A i, j \in 1..n : pos[i] = pos[j] => i = j
  BY <1>5 DEF Picks, PlacesIn
<1>. HIDE DEF n
<1>7. ExitOrders(b) = [i \in 1..n |-> order(legs[i])]
  BY DEF ExitOrders, legs, n
<1>8. ASSUME NEW e \in Leg
      PROVE  /\ order(e) \in Proposals /\ order(e).client_order_id = ExitId(e.level)
             /\ CandidateDelta(order(e)) = -SignedQty(e.level[1], QuantityPerLevel)
  <2>1. /\ e.level \in Level /\ e.level[1] \in OrderSide /\ e.entry_price \in EntryPrices
        /\ e.quantity = QuantityPerLevel
    BY LegTypes
  <2>2. /\ Opposite(e.level[1]) \in OrderSide
        /\ SignedQty(Opposite(e.level[1]), QuantityPerLevel) = -SignedQty(e.level[1], QuantityPerLevel)
    BY <2>1, LevelIds
  <2>3. QuantityPerLevel \in 1..(2 * Levels * QuantityPerLevel)
    <3>1. Levels \in Nat \ {0} /\ QuantityPerLevel \in Nat \ {0}
      BY GridAssumption
    <3>2. QuantityPerLevel <= Levels * QuantityPerLevel
      BY <3>1
    <3>3. /\ 2 * Levels * QuantityPerLevel = Levels * QuantityPerLevel + Levels * QuantityPerLevel
          /\ Levels * QuantityPerLevel \in Nat
      BY <3>1
    <3>. QED  BY <3>1, <3>2, <3>3
  <2>4. ExitPrice(e) = e.entry_price + SignedQty(e.level[1], Spacing)
    BY DEF ExitPrice
  <2>5. ExitId(e.level) \in GridOrderIds
    BY <2>1 DEF GridOrderIds
  <2>. QED  BY <2>1, <2>2, <2>3, <2>4, <2>5, GridOrderType
<1>. HIDE DEF order
<1>9. ExitOrders(b) \in Seq(Proposals) /\ Len(ExitOrders(b)) = n
  BY <1>4, <1>7, <1>8
<1>10. ASSUME NEW i \in 1..n PROVE NewExit(ExitOrders(b)[i])
  <2>1. legs[i] \in Leg /\ ExitOrders(b)[i] = order(legs[i])
    BY <1>4, <1>7
  <2>2. legs[i].level \in Level
    BY <2>1, LegTypes
  <2>3. legs[i].level \in OpenLevels
    BY <1>6 DEF OpenLevels
  <2>. QED  BY <1>8, <2>1, <2>2, <2>3 DEF NewExit
<1>11. ASSUME NEW i \in 1..n, NEW j \in 1..n,
              ExitOrders(b)[i].client_order_id = ExitOrders(b)[j].client_order_id
       PROVE  i = j
  <2>1. /\ legs[i] \in Leg /\ legs[j] \in Leg
        /\ ExitOrders(b)[i] = order(legs[i]) /\ ExitOrders(b)[j] = order(legs[j])
    BY <1>4, <1>7
  <2>2. ExitId(legs[i].level) = ExitId(legs[j].level)
    BY <1>8, <1>11, <2>1
  <2>3. legs[i].level \in Level /\ legs[j].level \in Level
    BY <2>1, LegTypes
  <2>4. legs[i].level = legs[j].level
    BY <2>2, <2>3, DifferentIds
  <2>5. pos[i] = pos[j]
    BY <1>6, <2>4 DEF LegsAreDistinct
  <2>. QED  BY <1>6, <2>5
<1>. QED  BY <1>9, <1>10, <1>11 DEF OneOrderPerId

\* The entry orders of a bar, for the levels that signal.
EntryOrders(b, regime, a) ==
    [i \in 1..Len(EntryLevels(b, regime, a)) |->
        NewOrder(EntryId(EntryLevels(b, regime, a)[i]), EntryLevels(b, regime, a)[i][1],
                 QuantityPerLevel, LevelPrice(EntryLevels(b, regime, a)[i], a))]

\* They are of levels that never signalled, each once.
LEMMA EntryOrdersAre ==
  ASSUME NEW b, NEW regime, NEW c \in Bars, NEW a, a = c.close
  PROVE  /\ EntryOrders(b, regime, a) \in Seq(Proposals)
         /\ \A i \in 1..Len(EntryOrders(b, regime, a)) : NewEntry(EntryOrders(b, regime, a)[i])
         /\ OneOrderPerId(EntryOrders(b, regime, a))
<1>. DEFINE levels == EntryLevels(b, regime, a)
            n == Len(levels)
            order(l) == NewOrder(EntryId(l), l[1], QuantityPerLevel, LevelPrice(l, a))
            N == 2 * Levels
<1>1. PICK K \in SUBSET (1..N) : \E f :
         /\ Filters(f, N, LevelSequence, K) /\ levels = f[N]
         /\ \A k \in K : LevelSequence[k] \notin triggered_levels
  BY EntryLevelsFilter
<1>2. N \in Nat /\ \A k \in 1..N : LevelSequence[k] \in Level
  BY LevelsInOrder
<1>. HIDE DEF levels, N
<1>3. PicksAll(Level, levels, LevelSequence, K)
  BY <1>1, <1>2, FilterPicks
<1>4. PICK pos : Picks(pos, levels, LevelSequence, K)
  BY <1>3 DEF PicksAll
<1>5. levels \in Seq(Level) /\ n \in Nat /\ \A i \in 1..n : levels[i] \in Level
  BY <1>3 DEF PicksAll
<1>6. /\ \A i \in 1..n : pos[i] \in K /\ pos[i] \in 1..N /\ levels[i] = LevelSequence[pos[i]]
      /\ \A i, j \in 1..n : pos[i] = pos[j] => i = j
  BY <1>4 DEF Picks
<1>7. \A i, j \in 1..n : levels[i] = levels[j] => i = j
  BY <1>6, LevelsInOrder DEF N
<1>8. \A i \in 1..n : levels[i] \notin triggered_levels
  BY <1>1, <1>6
<1>. HIDE DEF n
<1>9. EntryOrders(b, regime, a) = [i \in 1..n |-> order(levels[i])]
  BY DEF EntryOrders, levels, n
<1>10. ASSUME NEW l \in Level
       PROVE  /\ order(l) \in Proposals /\ order(l).client_order_id = EntryId(l)
              /\ CandidateDelta(order(l)) = SignedQty(l[1], QuantityPerLevel)
  <2>1. l[1] \in OrderSide /\ EntryId(l) \in GridOrderIds
    BY LevelIds DEF GridOrderIds
  <2>2. QuantityPerLevel \in 1..(2 * Levels * QuantityPerLevel)
    <3>1. Levels \in Nat \ {0} /\ QuantityPerLevel \in Nat \ {0}
      BY GridAssumption
    <3>2. QuantityPerLevel <= Levels * QuantityPerLevel
      BY <3>1
    <3>3. /\ 2 * Levels * QuantityPerLevel = Levels * QuantityPerLevel + Levels * QuantityPerLevel
          /\ Levels * QuantityPerLevel \in Nat
      BY <3>1
    <3>. QED  BY <3>1, <3>2, <3>3
  <2>3. \E m \in Level, d \in Bars : LevelPrice(l, a) = LevelPrice(m, d.close)
    OBVIOUS
  <2>. QED  BY <2>1, <2>2, <2>3, GridOrderType
<1>. HIDE DEF order
<1>11. EntryOrders(b, regime, a) \in Seq(Proposals) /\ Len(EntryOrders(b, regime, a)) = n
  BY <1>5, <1>9, <1>10
<1>12. ASSUME NEW i \in 1..n PROVE NewEntry(EntryOrders(b, regime, a)[i])
  <2>1. levels[i] \in Level /\ EntryOrders(b, regime, a)[i] = order(levels[i])
    BY <1>5, <1>9
  <2>. QED  BY <1>8, <1>10, <2>1 DEF NewEntry
<1>13. ASSUME NEW i \in 1..n, NEW j \in 1..n,
              EntryOrders(b, regime, a)[i].client_order_id = EntryOrders(b, regime, a)[j].client_order_id
       PROVE  i = j
  <2>1. /\ levels[i] \in Level /\ levels[j] \in Level
        /\ EntryOrders(b, regime, a)[i] = order(levels[i]) /\ EntryOrders(b, regime, a)[j] = order(levels[j])
    BY <1>5, <1>9
  <2>2. EntryId(levels[i]) = EntryId(levels[j])
    BY <1>10, <1>13, <2>1
  <2>. QED  BY <1>7, <2>1, <2>2, DifferentIds
<1>. QED  BY <1>11, <1>12, <1>13 DEF OneOrderPerId

\* There are no more legs than levels.
LEMMA LegsAreFew ==
  ASSUME GridTypeOK, LegsAreDistinct
  PROVE  Len(active_entries) <= 2 * Levels
<1>. DEFINE n == Len(active_entries)
            place(l) == IF l[1] = "BUY" THEN l[2] ELSE Levels + l[2]
            f == [i \in 1..n |-> place(active_entries[i].level)]
<1>1. active_entries \in Seq(Leg) /\ n \in Nat /\ \A i \in 1..n : active_entries[i] \in Leg
  BY DEF GridTypeOK
<1>2. Levels \in Nat \ {0} /\ 2 * Levels \in Nat
  BY GridAssumption
<1>. HIDE DEF n
<1>3. ASSUME NEW i \in 1..n
      PROVE  /\ active_entries[i].level[1] \in OrderSide /\ active_entries[i].level[2] \in 1..Levels
             /\ active_entries[i].level = <<active_entries[i].level[1], active_entries[i].level[2]>>
  <2>1. active_entries[i] \in Leg
    BY <1>1
  <2>. QED  BY <2>1, LegTypes
<1>4. \A i \in 1..n : place(active_entries[i].level) \in 1..(2 * Levels)
  <2>1. ASSUME NEW i \in 1..n PROVE place(active_entries[i].level) \in 1..(2 * Levels)
    <3>1. active_entries[i].level[2] \in 1..Levels
      BY <1>3
    <3>. QED  BY <1>2, <3>1
  <2>. QED  BY <2>1
<1>5. ASSUME NEW i \in 1..n, NEW j \in 1..n,
             place(active_entries[i].level) = place(active_entries[j].level)
      PROVE  i = j
  <2>1. /\ active_entries[i].level[2] \in 1..Levels /\ active_entries[j].level[2] \in 1..Levels
        /\ active_entries[i].level[1] \in {"BUY", "SELL"} /\ active_entries[j].level[1] \in {"BUY", "SELL"}
    BY <1>3 DEF OrderSide
  <2>2. /\ active_entries[i].level[1] = active_entries[j].level[1]
        /\ active_entries[i].level[2] = active_entries[j].level[2]
    BY <1>2, <1>5, <2>1
  <2>3. active_entries[i].level = active_entries[j].level
    BY <1>3, <2>2
  <2>. QED  BY <2>3 DEF LegsAreDistinct, n
<1>. HIDE DEF place
<1>6. f \in Injection(1..n, 1..(2 * Levels))
  BY <1>4, <1>5 DEF Injection, IsInjective
<1>7. IsFiniteSet(1..(2 * Levels)) /\ Cardinality(1..(2 * Levels)) = 2 * Levels /\ Cardinality(1..n) = n
  <2>1. /\ IsFiniteSet(1..(2 * Levels))
        /\ Cardinality(1..(2 * Levels)) = IF 1 > 2 * Levels THEN 0 ELSE 2 * Levels - 1 + 1
        /\ Cardinality(1..n) = IF 1 > n THEN 0 ELSE n - 1 + 1
    BY <1>1, <1>2, FS_Interval
  <2>. QED  BY <1>1, <1>2, <2>1
<1>. HIDE DEF f
<1>8. Cardinality(1..n) <= Cardinality(1..(2 * Levels))
  BY <1>6, <1>7, FS_Injection
<1>. QED  BY <1>7, <1>8 DEF n

\* The flatten order has the size of what is open.
LEMMA FlattenOrdersAre ==
  ASSUME GridTypeOK, LegsExplainPosition, LegsAreDistinct, NEW b \in Bars
  PROVE  /\ FlattenOrders(b) \in Seq(Proposals) /\ Len(FlattenOrders(b)) <= 1
         /\ \A i \in 1..Len(FlattenOrders(b)) : NewFlatten(FlattenOrders(b)[i])
<1>. DEFINE Q == QuantityPerLevel
            n == Len(active_entries)
            side == IF net_position > 0 THEN "SELL" ELSE "BUY"
            o == NewOrder(FlattenId, side, AbsVal(net_position), b.close)
<1>1. net_position \in Int /\ active_entries \in Seq(Leg) /\ n \in Nat
  BY DEF GridTypeOK
<1>2. n <= 2 * Levels
  BY LegsAreFew
<1>3. AbsVal(net_position) <= n * Q
  <2>1. AbsVal(LegSum(active_entries)) <= n * Q
    BY <1>1, LegSumBound
  <2>2. LegSum(active_entries) = net_position
    BY DEF LegsExplainPosition, LegSum
  <2>. QED  BY <2>1, <2>2
<1>4. n * Q <= 2 * Levels * Q /\ n * Q \in Nat /\ 2 * Levels * Q \in Nat
  <2>1. Levels \in Nat /\ Q \in Nat /\ 2 * Levels \in Nat
    BY GridAssumption
  <2>. HIDE DEF Q, n
  <2>. DEFINE m == 2 * Levels
  <2>2. m \in Nat /\ n <= m
    BY <1>2, <2>1
  <2>. HIDE DEF m
  <2>3. n * Q <= m * Q /\ n * Q \in Nat /\ m * Q \in Nat
    BY <1>1, <2>1, <2>2
  <2>. QED  BY <2>3 DEF m
<1>. HIDE DEF n, Q
<1>5. CASE net_position = 0
  <2>1. FlattenOrders(b) = <<>>
    BY <1>5 DEF FlattenOrders
  <2>. QED  BY <2>1
<1>6. CASE net_position # 0
  <2>1. FlattenOrders(b) = <<o>>
    BY <1>6 DEF FlattenOrders
  <2>2. AbsVal(net_position) \in 1..(2 * Levels * Q)
    BY <1>1, <1>3, <1>4, <1>6 DEF AbsVal
  <2>3. side \in OrderSide /\ FlattenId \in GridOrderIds
    BY DEF OrderSide, GridOrderIds
  <2>4. SignedQty(side, AbsVal(net_position)) = -net_position
    BY <1>1, <1>6 DEF SignedQty, AbsVal
  <2>. HIDE DEF side
  <2>5. o \in Proposals /\ o.client_order_id = FlattenId /\ CandidateDelta(o) = -net_position
    BY <2>2, <2>3, <2>4, GridOrderType DEF Q
  <2>. HIDE DEF o
  <2>6. NewFlatten(o)
    BY <2>5 DEF NewFlatten
  <2>. QED  BY <2>1, <2>5, <2>6
<1>. QED  BY <1>5, <1>6

\* A bar's orders, as the books and the legs stand: openings of new levels and
\* closings of open ones, each once, or one order that closes everything.
SoundBatch(batch) ==
    /\ batch \in Seq(Proposals)
    /\ \A i \in 1..Len(batch) :
          NewEntry(batch[i]) \/ NewExit(batch[i]) \/ (NewFlatten(batch[i]) /\ Len(batch) = 1)
    /\ OneOrderPerId(batch)

\* The exits, and after them the entries.
LEMMA JoinedOrders ==
  ASSUME NEW s \in Seq(Proposals), NEW t \in Seq(Proposals), OneOrderPerId(s), OneOrderPerId(t),
         \A i \in 1..Len(s) : NewExit(s[i]), \A i \in 1..Len(t) : NewEntry(t[i])
  PROVE  SoundBatch(s \o t)
<1>. DEFINE m == Len(s)
            n == Len(t)
            u == s \o t
<1>1. /\ m \in Nat /\ n \in Nat /\ u \in Seq(Proposals) /\ Len(u) = m + n
      /\ \A i \in 1..(m + n) : u[i] = IF i <= m THEN s[i] ELSE t[i - m]
  BY ConcatProperties
<1>. HIDE DEF m, n, u
<1>2. ASSUME NEW i \in 1..(m + n)
      PROVE  \/ i \in 1..m /\ u[i] = s[i] /\ NewExit(u[i])
             \/ i - m \in 1..n /\ u[i] = t[i - m] /\ NewEntry(u[i])
  <2>1. CASE i <= m
    <3>1. i \in 1..m /\ u[i] = s[i]
      BY <1>1, <2>1
    <3>. QED  BY <3>1 DEF m
  <2>2. CASE ~(i <= m)
    <3>1. i - m \in 1..n /\ u[i] = t[i - m]
      BY <1>1, <2>2
    <3>. DEFINE k == i - m
    <3>2. k \in 1..n /\ u[i] = t[k]
      BY <3>1
    <3>. HIDE DEF k
    <3>3. NewEntry(t[k])
      BY <3>2 DEF n
    <3>. QED  BY <3>1, <3>2, <3>3
  <2>. QED  BY <2>1, <2>2
<1>3. ASSUME NEW o, NewExit(o), NewEntry(o) PROVE FALSE
  <2>1. PICK l \in Level : o.client_order_id = ExitId(l)
    BY <1>3 DEF NewExit
  <2>2. PICK k \in Level : o.client_order_id = EntryId(k)
    BY <1>3 DEF NewEntry
  <2>. QED  BY <2>1, <2>2, DifferentIds
<1>4. ASSUME NEW x, NEW y, x.client_order_id = y.client_order_id, NewExit(x), NewEntry(y) PROVE FALSE
  <2>1. PICK l \in Level : x.client_order_id = ExitId(l)
    BY <1>4 DEF NewExit
  <2>2. PICK k \in Level : y.client_order_id = EntryId(k)
    BY <1>4 DEF NewEntry
  <2>. QED  BY <1>4, <2>1, <2>2, DifferentIds
<1>5. ASSUME NEW i \in 1..(m + n), NEW j \in 1..(m + n), u[i].client_order_id = u[j].client_order_id
      PROVE  i = j
  <2>1. CASE /\ i \in 1..m /\ u[i] = s[i] /\ NewExit(u[i])
             /\ j \in 1..m /\ u[j] = s[j] /\ NewExit(u[j])
    BY <1>5, <2>1 DEF OneOrderPerId, m
  <2>2. CASE /\ i - m \in 1..n /\ u[i] = t[i - m] /\ NewEntry(u[i])
             /\ j - m \in 1..n /\ u[j] = t[j - m] /\ NewEntry(u[j])
    <3>1. \A x, y \in 1..n : t[x].client_order_id = t[y].client_order_id => x = y
      BY DEF OneOrderPerId, n
    <3>2. i - m = j - m
      BY <1>5, <2>2, <3>1
    <3>. QED  BY <1>1, <3>2
  <2>3. CASE NewExit(u[i]) /\ NewEntry(u[j])
    BY <1>4, <1>5, <2>3
  <2>4. CASE NewEntry(u[i]) /\ NewExit(u[j])
    BY <1>4, <1>5, <2>4
  <2>. QED  BY <1>2, <2>1, <2>2, <2>3, <2>4
<1>. QED  BY <1>1, <1>2, <1>5 DEF SoundBatch, OneOrderPerId, u

\* The anchor is a close.
LEMMA AnchorType ==
  ASSUME GridTypeOK, NEW b \in Bars, NEW seen
  PROVE  /\ AnchorAt(b, seen) \in Anchors
         /\ AnchorAt(b, seen) # 0 => \E c \in Bars : AnchorAt(b, seen) = c.close
  BY DEF GridTypeOK, AnchorAt, Anchors

\* What on_bar hands to the engine.
LEMMA BarOrdersAre ==
  ASSUME GridTypeOK, LegsExplainPosition, LegsAreDistinct, NEW b \in Bars, NEW regime, NEW seen
  PROVE  SoundBatch(BarOrders(b, regime, seen))
<1>. DEFINE a == AnchorAt(b, seen)
            batch == BarOrders(b, regime, seen)
<1>1. CASE a = 0
  <2>1. batch = <<>>
    BY <1>1 DEF BarOrders
  <2>. QED  BY <2>1 DEF SoundBatch, OneOrderPerId
<1>2. CASE a # 0 /\ kill_switch
  <2>1. batch = FlattenOrders(b)
    BY <1>2 DEF BarOrders
  <2>2. /\ FlattenOrders(b) \in Seq(Proposals) /\ Len(FlattenOrders(b)) <= 1
        /\ \A i \in 1..Len(FlattenOrders(b)) : NewFlatten(FlattenOrders(b)[i])
    BY FlattenOrdersAre
  <2>. HIDE DEF batch
  <2>. DEFINE n == Len(batch)
  <2>3. batch \in Seq(Proposals) /\ n \in Nat /\ n <= 1 /\ \A i \in 1..n : NewFlatten(batch[i])
    BY <2>1, <2>2
  <2>. HIDE DEF n
  <2>4. \A i \in 1..n : i = 1 /\ n = 1
    BY <2>3
  <2>5. SoundBatch(batch)
    BY <2>3, <2>4 DEF SoundBatch, OneOrderPerId, n
  <2>. QED  BY <2>5 DEF batch
<1>3. CASE a # 0 /\ ~kill_switch
  <2>1. batch = ExitOrders(b) \o EntryOrders(b, regime, a)
    BY <1>3 DEF BarOrders, EntryOrders
  <2>2. PICK c \in Bars : a = c.close
    BY <1>3, AnchorType
  <2>. HIDE DEF a
  <2>3. /\ EntryOrders(b, regime, a) \in Seq(Proposals)
        /\ \A i \in 1..Len(EntryOrders(b, regime, a)) : NewEntry(EntryOrders(b, regime, a)[i])
        /\ OneOrderPerId(EntryOrders(b, regime, a))
    BY <2>2, EntryOrdersAre
  <2>4. /\ ExitOrders(b) \in Seq(Proposals)
        /\ \A i \in 1..Len(ExitOrders(b)) : NewExit(ExitOrders(b)[i])
        /\ OneOrderPerId(ExitOrders(b))
    BY ExitOrdersAre
  <2>5. SoundBatch(ExitOrders(b) \o EntryOrders(b, regime, a))
    BY <2>3, <2>4, JoinedOrders
  <2>. QED  BY <2>1, <2>5
<1>. QED  BY <1>1, <1>2, <1>3

\* What is outstanding or proposed is due, once the strategy has seen the bar.
LEMMA SignalledOrders ==
  ASSUME GridTypeOK, LegsAreDistinct, NEW b \in Bars, NEW regime, NEW seen,
         NEW batch, batch = BarOrders(b, regime, seen), SoundBatch(batch), OnBar(b, regime, seen)
  PROVE  /\ active_entries' = active_entries /\ net_position' = net_position /\ kill_switch' = kill_switch
         /\ anchor' \in Anchors /\ triggered_levels' \in SUBSET Level
         /\ triggered_levels \subseteq triggered_levels'
         /\ pending_entry_orders' \in SUBSET {EntryId(l) : l \in triggered_levels'}
         /\ pending_exit_orders' \in SUBSET ExitIds
         /\ \A i \in 1..Len(batch) :
               /\ <<batch[i].client_order_id, CandidateDelta(batch[i])>> \in DueOrders'
               /\ batch[i].client_order_id = FlattenId => Len(batch) = 1
<1>. DEFINE n == Len(batch)
            ids == {batch[i].client_order_id : i \in 1..n}
            entries == {id \in ids : id[1] = "ENTRY"}
            exits == {id \in ids : id[1] = "EXIT"}
<1>1. /\ anchor' = AnchorAt(b, seen)
      /\ triggered_levels' = triggered_levels \cup {<<id[2], id[3]>> : id \in entries}
      /\ pending_entry_orders' = pending_entry_orders \cup entries
      /\ pending_exit_orders' = pending_exit_orders \cup exits
      /\ active_entries' = active_entries /\ net_position' = net_position /\ kill_switch' = kill_switch
  BY DEF OnBar, IdsOfKind
<1>2. \A i \in 1..n : \/ NewEntry(batch[i]) \/ NewExit(batch[i])
                      \/ (NewFlatten(batch[i]) /\ n = 1)
  BY DEF SoundBatch
<1>. HIDE DEF n
<1>3. FlattenId[1] = "FLATTEN"
  BY DEF FlattenId
<1>4. ASSUME NEW id \in ids
      PROVE  /\ id[1] = "ENTRY" => \E l \in Level : id = EntryId(l) /\ l \in triggered_levels'
             /\ id[1] = "EXIT" => id \in ExitIds
  <2>1. PICK i \in 1..n : id = batch[i].client_order_id
    OBVIOUS
  <2>2. CASE NewEntry(batch[i])
    <3>1. PICK l \in Level : id = EntryId(l)
      BY <2>1, <2>2 DEF NewEntry
    <3>2. id[1] = "ENTRY" /\ <<id[2], id[3]>> = l
      BY <3>1, LevelIds
    <3>3. l \in triggered_levels'
      BY <1>1, <3>2
    <3>. QED  BY <3>1, <3>2, <3>3
  <2>3. CASE NewExit(batch[i])
    <3>1. PICK l \in Level : id = ExitId(l)
      BY <2>1, <2>3 DEF NewExit
    <3>2. id[1] = "EXIT"
      BY <3>1, LevelIds
    <3>. QED  BY <3>1, <3>2 DEF ExitIds
  <2>4. CASE NewFlatten(batch[i])
    BY <1>3, <2>1, <2>4 DEF NewFlatten
  <2>. QED  BY <1>2, <2>2, <2>3, <2>4
<1>5. /\ triggered_levels' \in SUBSET Level /\ triggered_levels \subseteq triggered_levels'
  <2>1. ASSUME NEW id \in entries PROVE <<id[2], id[3]>> \in Level
    <3>1. PICK l \in Level : id = EntryId(l)
      BY <1>4
    <3>. QED  BY <3>1, LevelIds
  <2>. QED  BY <1>1, <2>1 DEF GridTypeOK
<1>6. pending_entry_orders' \in SUBSET {EntryId(l) : l \in triggered_levels'}
  <2>1. \A id \in pending_entry_orders : \E l \in triggered_levels' : id = EntryId(l)
    BY <1>5 DEF GridTypeOK
  <2>2. \A id \in entries : \E l \in triggered_levels' : id = EntryId(l)
    BY <1>4
  <2>. QED  BY <1>1, <2>1, <2>2
<1>7. pending_exit_orders' \in SUBSET ExitIds
  BY <1>1, <1>4 DEF GridTypeOK
<1>8. anchor' \in Anchors
  BY <1>1, AnchorType
<1>9. ASSUME NEW i \in 1..n
      PROVE  /\ <<batch[i].client_order_id, CandidateDelta(batch[i])>> \in DueOrders'
             /\ batch[i].client_order_id = FlattenId => n = 1
  <2>. DEFINE id == batch[i].client_order_id
              delta == CandidateDelta(batch[i])
  <2>1. OpenLevels' = OpenLevels
    BY <1>1 DEF OpenLevels
  <2>2. CASE NewEntry(batch[i])
    <3>1. PICK l \in Level : /\ id = EntryId(l) /\ l \notin triggered_levels
                             /\ delta = SignedQty(l[1], QuantityPerLevel)
      BY <2>2 DEF NewEntry
    <3>2. id[1] = "ENTRY" /\ id # FlattenId
      BY <3>1, LevelIds
    <3>3. id \in pending_entry_orders'
      BY <1>1, <3>2
    <3>4. l \notin OpenLevels'
      BY <2>1, <3>1 DEF OpenLevels, LegsAreDistinct
    <3>5. l \in Openings'
      BY <3>1, <3>3, <3>4 DEF Openings
    <3>. QED  BY <3>1, <3>2, <3>5 DEF DueOrders
  <2>3. CASE NewExit(batch[i])
    <3>1. PICK l \in Level : /\ id = ExitId(l) /\ l \in OpenLevels
                             /\ delta = -SignedQty(l[1], QuantityPerLevel)
      BY <2>3 DEF NewExit
    <3>2. id[1] = "EXIT" /\ id # FlattenId
      BY <3>1, LevelIds
    <3>3. id \in pending_exit_orders'
      BY <1>1, <3>2
    <3>4. l \in Closings'
      BY <2>1, <3>1, <3>3 DEF Closings
    <3>. QED  BY <3>1, <3>2, <3>4 DEF DueOrders
  <2>4. CASE NewFlatten(batch[i]) /\ n = 1
    <3>1. id = FlattenId /\ delta = -net_position'
      BY <1>1, <2>4 DEF NewFlatten
    <3>. QED  BY <2>4, <3>1 DEF DueOrders
  <2>. QED  BY <1>2, <2>2, <2>3, <2>4
<1>. QED  BY <1>1, <1>5, <1>6, <1>7, <1>8, <1>9 DEF n

(* ------------------------------- the steps ------------------------------ *)

\* A run starts with empty books and a strategy that has seen nothing.
LEMMA GridInitInv == GridBacktestInit => RunInv /\ GridInv
<1>. SUFFICES ASSUME GridBacktestInit PROVE RunInv /\ GridInv
  OBVIOUS
<1>. USE DEF GridBacktestInit, GridInit
<1>1. RunInv
  BY InitInv
<1>2. /\ phase = "OPEN" /\ fill_queue = <<>> /\ candidate_orders = <<>> /\ pending = <<>>
      /\ position.quantity = 0
  BY DEF Init, BrokerInit, PortfolioInit
<1>3. LedgerQueue = <<>>
  <2>1. Len(LedgerQueue) = 0
    BY <1>2 DEF LedgerQueue
  <2>. QED  BY <1>2 DEF LedgerQueue
<1>4. GridTypeOK
  <2>1. <<>> \in Seq(Leg)
    OBVIOUS
  <2>2. {} \in SUBSET {EntryId(l) : l \in {}} /\ {} \in SUBSET ExitIds /\ {} \in SUBSET Level
    OBVIOUS
  <2>3. \A i \in 1..Len(fill_queue) : fill_queue[i].filled_price \in EntryPrices
    BY <1>2
  <2>4. kill_switch \in BOOLEAN /\ anchor \in Anchors /\ net_position \in Int
    <3>1. 0 \in Anchors
      BY DEF Anchors
    <3>2. FALSE \in BOOLEAN /\ 0 \in Int
      OBVIOUS
    <3>3. anchor = 0 /\ kill_switch = FALSE /\ net_position = 0
      OBVIOUS
    <3>. QED  BY <3>1, <3>2, <3>3
  <2>5. /\ pending_entry_orders \in SUBSET {EntryId(l) : l \in triggered_levels}
        /\ pending_exit_orders \in SUBSET ExitIds /\ triggered_levels \in SUBSET Level
    BY <2>2
  <2>6. active_entries \in Seq(Leg)
    BY <2>1
  <2>. QED  BY <2>3, <2>4, <2>5, <2>6 DEF GridTypeOK
<1>5. StrategyKnowsPosition /\ LegsAreDistinct
  BY <1>2 DEF StrategyKnowsPosition, LegsAreDistinct
<1>6. LegsExplainPosition
  BY LegSumEmpty DEF LegsExplainPosition, LegSum
<1>7. QueueInv /\ BatchInv
  BY <1>2, <1>3 DEF QueueInv, BatchInv
<1>. QED  BY <1>1, <1>4, <1>5, <1>6, <1>7 DEF GridInv

\* The engine executes at prices the strategy can have a leg at.
LEMMA FilledPrices ==
  ASSUME RunInv, GridTypeOK, EngineMove
  PROVE  \A i \in 1..Len(fill_queue') : fill_queue'[i].filled_price \in EntryPrices
<1>1. CASE OpenBar
  <2>1. fill_queue' = [i \in 1..Len(pending) |-> FillOf(pending[i], bar.open)]
    BY <1>1 DEF OpenBar, PendingFills
  <2>2. /\ pending \in Seq(OrderIds) /\ Len(pending) \in Nat /\ bar \in Bars
        /\ orders \in [OrderIds -> BrokerOrder \cup {NoOrder}]
    BY DEF RunInv, EngineInv, TypeOK, BrokerTypeOK
  <2>3. bar.open \in MarketPrices
    BY <2>2, EngineAssumption
  <2>4. ASSUME NEW i \in 1..Len(pending) PROVE FillOf(pending[i], bar.open).filled_price \in EntryPrices
    <3>1. pending[i] \in OrderIds /\ orders[pending[i]].status = "PENDING"
      BY <2>2 DEF RunInv, BrokerInv, QueueMatchesBook, PendingIds
    <3>2. orders[pending[i]] \in BrokerOrder
      BY <2>2, <3>1 DEF NoOrder
    <3>3. orders[pending[i]].side \in OrderSide
      BY <3>2 DEF BrokerOrder
    <3>4. FillOf(pending[i], bar.open).filled_price = FillPrice(orders[pending[i]].side, bar.open)
      BY DEF FillOf
    <3>. QED  BY <2>3, <3>3, <3>4 DEF EntryPrices
  <2>5. \A i \in 1..Len(fill_queue') : i \in 1..Len(pending) /\ fill_queue'[i] = FillOf(pending[i], bar.open)
    BY <2>1, <2>2
  <2>. QED  BY <2>4, <2>5
<1>2. CASE OpenFirstBar \/ Validate \/ CloseBar \/ FinishRun
  <2>1. fill_queue' = fill_queue
    BY <1>2 DEF OpenFirstBar, Validate, RefuseOrder, ApproveNew, ApproveExisting, ApproveRejected, AbortRun,
                Approve, Log, CloseBar, FinishRun
  <2>. QED  BY <2>1 DEF GridTypeOK
<1>. QED  BY <1>1, <1>2 DEF EngineMove

\* The kinds of orders on their way stay what they are while the strategy is not called.
LEMMA SameDue ==
  ASSUME UNCHANGED gridVars
  PROVE  DueOrders' = DueOrders
  BY DEF gridVars, DueOrders, Openings, Closings, OpenLevels

\* So does what their legs sum to.
LEMMA SameLegsExplain ==
  ASSUME LegsExplainPosition, active_entries' = active_entries, net_position' = net_position
  PROVE  LegsExplainPosition'
<1>1. net_position = LegSum(active_entries)
  BY DEF LegsExplainPosition, LegSum
<1>2. LegSum(active_entries)' = LegSum(active_entries)
  OBVIOUS
<1>3. net_position' = LegSum(active_entries)'
  BY <1>1, <1>2
<1>. QED  BY <1>3 DEF LegsExplainPosition, LegSum

\* Approving an order moves it from the batch to what is outstanding.
LEMMA QueuesDue ==
  ASSUME RunInv, QueueInv, BatchInv, Queues, DueOrders' = DueOrders
  PROVE  QueueInv' /\ BatchInv'
<1>. DEFINE Item == [id : OrderIds, delta : Int]
            q == LedgerQueue
            c == candidate_orders
            o == c[1]
            item == QueueItem(o.client_order_id, o.side, o.quantity)
            n == Len(q)
            m == Len(c)
<1>1. q \in Seq(Item) /\ n \in Nat
  BY QueueTyped
<1>2. c \in Seq(Proposals) /\ c # <<>>
  BY DEF RunInv, EngineInv, TypeOK, Queues
<1>3. /\ m \in Nat \ {0} /\ Head(c) = o /\ Tail(c) \in Seq(Proposals) /\ Len(Tail(c)) = m - 1
      /\ \A i \in 1..(m - 1) : Tail(c)[i] = c[i + 1]
  BY <1>2, HeadTailProperties
<1>4. LedgerQueue' = Append(q, item) /\ candidate_orders' = Tail(c) /\ phase' = "VALIDATE"
  BY <1>3 DEF Queues
<1>5. item.id = o.client_order_id /\ item.delta = CandidateDelta(o)
  BY DEF QueueItem, CandidateDelta
<1>. HIDE DEF item, o, Item
<1>6. /\ \A i \in 1..n : <<q[i].id, q[i].delta>> \in DueOrders
      /\ \A i, j \in 1..n : q[i].id = q[j].id => i = j
      /\ \A i \in 1..n : q[i].id # FlattenId
  BY <1>2 DEF QueueInv
<1>7. /\ \A i \in 1..m : /\ <<c[i].client_order_id, CandidateDelta(c[i])>> \in DueOrders
                         /\ \A j \in 1..n : q[j].id # c[i].client_order_id
                         /\ c[i].client_order_id = FlattenId => m = 1 /\ q = <<>>
      /\ \A i, j \in 1..m : c[i].client_order_id = c[j].client_order_id => i = j
  BY DEF BatchInv
<1>8. /\ Len(LedgerQueue') = n + 1 /\ LedgerQueue'[n + 1] = item
      /\ \A i \in 1..n : LedgerQueue'[i] = q[i]
  BY <1>1, <1>4, AppendProperties
<1>9. <<item.id, item.delta>> \in DueOrders /\ \A j \in 1..n : q[j].id # item.id
  BY <1>3, <1>5, <1>7 DEF o
<1>10. item.id = FlattenId => m = 1 /\ n = 0
  <2>1. ASSUME item.id = FlattenId PROVE m = 1 /\ q = <<>>
    <3>1. 1 \in 1..m /\ c[1].client_order_id = FlattenId
      BY <1>3, <1>5, <2>1 DEF o
    <3>. QED  BY <1>7, <3>1
  <2>2. q = <<>> => n = 0
    BY <1>1
  <2>. QED  BY <2>1, <2>2
<1>. HIDE DEF q, c, n, m
<1>11. \A i \in 1..(n + 1) : i \in 1..n \/ i = n + 1
  BY <1>1
<1>12. QueueInv'
  <2>1. \A i \in 1..(n + 1) : <<LedgerQueue'[i].id, LedgerQueue'[i].delta>> \in DueOrders'
    BY <1>6, <1>8, <1>9, <1>11
  <2>2. \A i, j \in 1..(n + 1) : LedgerQueue'[i].id = LedgerQueue'[j].id => i = j
    BY <1>6, <1>8, <1>9, <1>11
  <2>3. \A i \in 1..(n + 1) : LedgerQueue'[i].id = FlattenId => n + 1 = 1 /\ candidate_orders' = <<>>
    <3>1. ASSUME item.id = FlattenId PROVE n + 1 = 1 /\ candidate_orders' = <<>>
      <4>1. Len(Tail(c)) = 0
        BY <1>3, <1>10, <3>1
      <4>. QED  BY <1>3, <1>4, <1>10, <3>1, <4>1
    <3>. QED  BY <1>6, <1>8, <1>11, <3>1
  <2>. QED  BY <1>8, <2>1, <2>2, <2>3 DEF QueueInv
<1>13. BatchInv'
  <2>1. Len(candidate_orders') = m - 1
    BY <1>3, <1>4
  <2>2. ASSUME NEW i \in 1..(m - 1)
        PROVE  /\ candidate_orders'[i] = c[i + 1] /\ i + 1 \in 1..m /\ i + 1 # 1 /\ m # 1
    BY <1>3, <1>4
  <2>3. ASSUME NEW i \in 1..(m - 1)
        PROVE  /\ <<candidate_orders'[i].client_order_id, CandidateDelta(candidate_orders'[i])>> \in DueOrders'
               /\ candidate_orders'[i].client_order_id # FlattenId
               /\ \A j \in 1..n : q[j].id # candidate_orders'[i].client_order_id
               /\ candidate_orders'[i].client_order_id # item.id
    <3>. DEFINE k == i + 1
    <3>1. candidate_orders'[i] = c[k] /\ k \in 1..m /\ k # 1 /\ m # 1 /\ 1 \in 1..m
      BY <1>3, <2>2
    <3>. HIDE DEF k
    <3>. QED  BY <1>5, <1>7, <3>1 DEF o
  <2>4. \A i \in 1..(m - 1), j \in 1..(n + 1) : LedgerQueue'[j].id # candidate_orders'[i].client_order_id
    BY <1>8, <1>11, <2>3
  <2>5. ASSUME NEW i \in 1..(m - 1), NEW j \in 1..(m - 1),
               candidate_orders'[i].client_order_id = candidate_orders'[j].client_order_id
        PROVE  i = j
    <3>1. c[i + 1].client_order_id = c[j + 1].client_order_id /\ i + 1 \in 1..m /\ j + 1 \in 1..m
      BY <2>2, <2>5
    <3>2. i + 1 = j + 1
      BY <1>7, <3>1
    <3>. QED  BY <1>3, <3>2
  <2>6. (\A i \in 1..Len(candidate_orders) :
            /\ <<candidate_orders[i].client_order_id, CandidateDelta(candidate_orders[i])>> \in DueOrders
            /\ \A j \in 1..Len(LedgerQueue) : LedgerQueue[j].id # candidate_orders[i].client_order_id
            /\ candidate_orders[i].client_order_id = FlattenId =>
                  Len(candidate_orders) = 1 /\ LedgerQueue = <<>>)'
    BY <1>8, <2>1, <2>3, <2>4 DEF CandidateDelta
  <2>. QED  BY <1>4, <2>1, <2>5, <2>6 DEF BatchInv
<1>. QED  BY <1>12, <1>13

\* Refusing one takes it out of the batch.
LEMMA DropsDue ==
  ASSUME RunInv, QueueInv, BatchInv, Drops, DueOrders' = DueOrders
  PROVE  QueueInv' /\ BatchInv'
<1>. DEFINE c == candidate_orders
            m == Len(c)
<1>1. c \in Seq(Proposals) /\ c # <<>>
  BY DEF RunInv, EngineInv, TypeOK, Drops
<1>2. /\ m \in Nat \ {0} /\ Len(Tail(c)) = m - 1
      /\ \A i \in 1..(m - 1) : Tail(c)[i] = c[i + 1] /\ i + 1 \in 1..m
  BY <1>1, HeadTailProperties
<1>3. LedgerQueue' = LedgerQueue /\ candidate_orders' = Tail(c) /\ phase' = "VALIDATE"
  BY DEF Drops
<1>4. QueueInv'
  BY <1>1, <1>3 DEF QueueInv
<1>. HIDE DEF c, m
<1>5. /\ \A i \in 1..m : /\ <<c[i].client_order_id, CandidateDelta(c[i])>> \in DueOrders
                         /\ \A j \in 1..Len(LedgerQueue) : LedgerQueue[j].id # c[i].client_order_id
                         /\ c[i].client_order_id = FlattenId => m = 1 /\ LedgerQueue = <<>>
      /\ \A i, j \in 1..m : c[i].client_order_id = c[j].client_order_id => i = j
  BY DEF BatchInv, c, m
<1>6. BatchInv'
  <2>1. Len(candidate_orders') = m - 1
    BY <1>2, <1>3
  <2>2. ASSUME NEW i \in 1..(m - 1)
        PROVE  /\ candidate_orders'[i] = c[i + 1] /\ i + 1 \in 1..m /\ m # 1
    BY <1>2, <1>3
  <2>3. ASSUME NEW i \in 1..(m - 1)
        PROVE  /\ <<candidate_orders'[i].client_order_id, CandidateDelta(candidate_orders'[i])>> \in DueOrders'
               /\ candidate_orders'[i].client_order_id # FlattenId
               /\ \A j \in 1..Len(LedgerQueue') : LedgerQueue'[j].id # candidate_orders'[i].client_order_id
    <3>. DEFINE k == i + 1
    <3>1. candidate_orders'[i] = c[k] /\ k \in 1..m /\ m # 1
      BY <2>2
    <3>. HIDE DEF k
    <3>. QED  BY <1>3, <1>5, <3>1
  <2>4. ASSUME NEW i \in 1..(m - 1), NEW j \in 1..(m - 1),
               candidate_orders'[i].client_order_id = candidate_orders'[j].client_order_id
        PROVE  i = j
    <3>1. c[i + 1].client_order_id = c[j + 1].client_order_id /\ i + 1 \in 1..m /\ j + 1 \in 1..m
      BY <2>2, <2>4
    <3>2. i + 1 = j + 1
      BY <1>5, <3>1
    <3>. QED  BY <1>2, <3>2
  <2>5. (\A i \in 1..Len(candidate_orders) :
            /\ <<candidate_orders[i].client_order_id, CandidateDelta(candidate_orders[i])>> \in DueOrders
            /\ \A j \in 1..Len(LedgerQueue) : LedgerQueue[j].id # candidate_orders[i].client_order_id
            /\ candidate_orders[i].client_order_id = FlattenId =>
                  Len(candidate_orders) = 1 /\ LedgerQueue = <<>>)'
    BY <2>1, <2>3 DEF CandidateDelta
  <2>. QED  BY <1>3, <2>1, <2>4, <2>5 DEF BatchInv
<1>. QED  BY <1>4, <1>6

\* A step of the engine that does not call the strategy leaves the two in agreement.
LEMMA EngineGrid ==
  ASSUME RunInv, RunInv', GridInv, EngineMove, UNCHANGED gridVars
  PROVE  GridInv'
<1>. USE DEF GridInv
<1>1. /\ position'.quantity = position.quantity
      /\ Opens \/ Drops \/ Queues \/ Aborts \/ Closes \/ Finishes
  BY EngineMoves
<1>2. GridTypeOK'
  <2>1. \A i \in 1..Len(fill_queue') : fill_queue'[i].filled_price \in EntryPrices
    BY FilledPrices
  <2>. QED  BY <2>1 DEF GridTypeOK, gridVars
<1>3. StrategyKnowsPosition' /\ LegsExplainPosition' /\ LegsAreDistinct'
  BY <1>1, SameLegsExplain DEF StrategyKnowsPosition, LegsAreDistinct, gridVars
<1>4. DueOrders' = DueOrders
  BY SameDue
<1>5. QueueInv' /\ BatchInv'
  <2>1. CASE Opens \/ Aborts
    BY <1>4, <2>1 DEF Opens, Aborts, QueueInv, BatchInv
  <2>2. CASE Closes
    BY <1>4, <2>2 DEF Closes, QueueInv, BatchInv
  <2>3. CASE Finishes
    BY <1>4, <2>3 DEF Finishes, QueueInv, BatchInv
  <2>. QED  BY <1>1, <1>4, <2>1, <2>2, <2>3, QueuesDue, DropsDue
<1>. QED  BY <1>2, <1>3, <1>5

\* Turning the kill switch touches no order and no leg; nor does standing still.
LEMMA IdleGrid ==
  ASSUME RunInv, GridInv, UNCHANGED <<vars, triggered_levels, net_position, active_entries,
                                      pending_entry_orders, pending_exit_orders, anchor>>,
         kill_switch' \in BOOLEAN
  PROVE  RunInv' /\ GridInv'
<1>1. RunInv'
  BY NextInv
<1>2. LedgerQueue' = LedgerQueue
  BY DEF LedgerQueue, vars, loopVars, brokerVars
<1>3. DueOrders' = DueOrders
  BY DEF DueOrders, Openings, Closings, OpenLevels
<1>4. /\ phase' = phase /\ candidate_orders' = candidate_orders /\ fill_queue' = fill_queue
      /\ position' = position
  BY DEF vars, loopVars, gateVars, portfolioVars
<1>5. GridTypeOK'
  BY <1>4 DEF GridInv, GridTypeOK
<1>6. StrategyKnowsPosition' /\ LegsExplainPosition' /\ LegsAreDistinct'
  BY <1>4, SameLegsExplain DEF GridInv, StrategyKnowsPosition, LegsAreDistinct
<1>7. QueueInv' /\ BatchInv'
  BY <1>2, <1>3, <1>4 DEF GridInv, QueueInv, BatchInv
<1>. QED  BY <1>1, <1>5, <1>6, <1>7 DEF GridInv

(* ---------------------------- the fill of an order ---------------------- *)

\* A fill is that of an order which is due, and the others stay on their way.
LEMMA FillIsDue ==
  ASSUME RunInv, GridInv, SettleFill, NEW fill, fill = Head(fill_queue), NEW id, id = fill.order_id
  PROVE  /\ <<id, SignedQty(fill.side, fill.filled_qty)>> \in DueOrders
         /\ fill.side \in OrderSide /\ fill.filled_qty \in Nat \ {0} /\ fill.filled_price \in EntryPrices
         /\ \A i \in 1..Len(fill_queue') : fill_queue'[i].filled_price \in EntryPrices
         /\ position'.quantity = position.quantity + SignedQty(fill.side, fill.filled_qty)
         /\ phase' = "SETTLE" /\ candidate_orders' = <<>>
         /\ \A i \in 1..Len(LedgerQueue') :
               /\ <<LedgerQueue'[i].id, LedgerQueue'[i].delta>> \in DueOrders
               /\ LedgerQueue'[i].id # id /\ LedgerQueue'[i].id # FlattenId /\ id # FlattenId
         /\ \A i, j \in 1..Len(LedgerQueue') : LedgerQueue'[i].id = LedgerQueue'[j].id => i = j
<1>. DEFINE q == LedgerQueue
            n == Len(q)
            Item == [id : OrderIds, delta : Int]
<1>1. /\ q # <<>> /\ LedgerQueue' = Tail(q)
      /\ q[1].id = id /\ q[1].delta = SignedQty(fill.side, fill.filled_qty)
      /\ position'.quantity = position.quantity + q[1].delta
      /\ phase = "SETTLE" /\ phase' = "SETTLE" /\ candidate_orders' = candidate_orders
  BY FillMoves
<1>2. q \in Seq(Item)
  BY QueueTyped
<1>. HIDE DEF q, Item
<1>3. /\ n \in Nat \ {0} /\ Len(Tail(q)) = n - 1 /\ 1 \in 1..n
      /\ \A i \in 1..(n - 1) : Tail(q)[i] = q[i + 1] /\ i + 1 \in 1..n /\ i + 1 # 1 /\ n # 1
  BY <1>1, <1>2, HeadTailProperties
<1>4. fill_queue \in Seq(Fill) /\ fill_queue # <<>> /\ fill_queue' = Tail(fill_queue)
  BY DEF RunInv, EngineInv, TypeOK, SettleFill
<1>5. /\ Len(fill_queue) \in Nat \ {0} /\ fill = fill_queue[1] /\ fill \in Fill
      /\ Len(fill_queue') = Len(fill_queue) - 1
      /\ \A i \in 1..Len(fill_queue') : fill_queue'[i] = fill_queue[i + 1] /\ i + 1 \in 1..Len(fill_queue)
  BY <1>4
<1>6. fill.side \in OrderSide /\ fill.filled_qty \in Nat \ {0}
  BY <1>5 DEF Fill
<1>7. \A i \in 1..Len(fill_queue) : fill_queue[i].filled_price \in EntryPrices
  BY DEF GridInv, GridTypeOK
<1>8. fill.filled_price \in EntryPrices /\ \A i \in 1..Len(fill_queue') : fill_queue'[i].filled_price \in EntryPrices
  <2>1. 1 \in 1..Len(fill_queue)
    BY <1>5
  <2>2. ASSUME NEW i \in 1..Len(fill_queue') PROVE fill_queue'[i].filled_price \in EntryPrices
    <3>. DEFINE k == i + 1
    <3>1. fill_queue'[i] = fill_queue[k] /\ k \in 1..Len(fill_queue)
      BY <1>5
    <3>. HIDE DEF k
    <3>. QED  BY <1>7, <3>1
  <2>. QED  BY <1>5, <1>7, <2>1, <2>2
<1>9. candidate_orders' = <<>>
  BY <1>1 DEF GridInv, BatchInv
<1>10. /\ \A i \in 1..n : <<q[i].id, q[i].delta>> \in DueOrders
       /\ \A i, j \in 1..n : q[i].id = q[j].id => i = j
       /\ \A i \in 1..n : q[i].id = FlattenId => n = 1
  BY DEF GridInv, QueueInv, q
<1>11. Len(LedgerQueue') = n - 1 /\ \A i \in 1..(n - 1) : LedgerQueue'[i] = q[i + 1]
  BY <1>1, <1>3
<1>12. <<id, SignedQty(fill.side, fill.filled_qty)>> \in DueOrders
  BY <1>1, <1>3, <1>10
<1>. HIDE DEF n
<1>13. ASSUME NEW i \in 1..(n - 1)
       PROVE  /\ <<LedgerQueue'[i].id, LedgerQueue'[i].delta>> \in DueOrders
              /\ LedgerQueue'[i].id # id /\ LedgerQueue'[i].id # FlattenId /\ id # FlattenId
  <2>. DEFINE k == i + 1
  <2>1. LedgerQueue'[i] = q[k] /\ k \in 1..n /\ k # 1 /\ n # 1
    BY <1>3, <1>11
  <2>. HIDE DEF k
  <2>. QED  BY <1>1, <1>3, <1>10, <2>1
<1>14. ASSUME NEW i \in 1..(n - 1), NEW j \in 1..(n - 1), LedgerQueue'[i].id = LedgerQueue'[j].id
       PROVE  i = j
  <2>1. q[i + 1].id = q[j + 1].id /\ i + 1 \in 1..n /\ j + 1 \in 1..n
    BY <1>3, <1>11, <1>14
  <2>2. i + 1 = j + 1
    BY <1>10, <2>1
  <2>. QED  BY <1>3, <2>2
<1>. QED  BY <1>1, <1>6, <1>8, <1>9, <1>11, <1>12, <1>13, <1>14

\* What a fill does to the other orders: those of other levels see no difference, and of the
\* level itself no other order can be due.
LEMMA RestStaysDue ==
  ASSUME NEW id, NEW l \in Level, OpenLevels \subseteq Level,
         pending_entry_orders' = pending_entry_orders \ {id},
         pending_exit_orders' = pending_exit_orders \ {id},
         \/ id = EntryId(l) /\ l \notin OpenLevels /\ OpenLevels' = OpenLevels \cup {l}
         \/ id = ExitId(l) /\ l \in OpenLevels /\ OpenLevels' = OpenLevels \ {l},
         NEW due, NEW delta, <<due, delta>> \in DueOrders, due # id, due # FlattenId
  PROVE  <<due, delta>> \in DueOrders'
<1>1. ASSUME NEW k \in Openings, due = EntryId(k), delta = SignedQty(k[1], QuantityPerLevel)
      PROVE  <<due, delta>> \in DueOrders'
  <2>1. k \in Level /\ due \in pending_entry_orders' /\ k \notin OpenLevels
    BY <1>1 DEF Openings
  <2>2. k # l
    BY <1>1, <2>1
  <2>3. k \in Openings'
    BY <1>1, <2>1, <2>2 DEF Openings
  <2>. QED  BY <1>1, <2>3 DEF DueOrders
<1>2. ASSUME NEW k \in Closings, due = ExitId(k), delta = -SignedQty(k[1], QuantityPerLevel)
      PROVE  <<due, delta>> \in DueOrders'
  <2>1. k \in OpenLevels /\ due \in pending_exit_orders'
    BY <1>2 DEF Closings
  <2>2. k # l
    BY <1>2, <2>1
  <2>3. k \in Closings'
    BY <1>2, <2>1, <2>2 DEF Closings
  <2>. QED  BY <1>2, <2>3 DEF DueOrders
<1>. QED  BY <1>1, <1>2 DEF DueOrders

\* An entry's fill opens the leg of its level.
LEMMA EntryFill ==
  ASSUME GridTypeOK, LegsExplainPosition, LegsAreDistinct, NEW fill, OnFill(fill),
         fill.side \in OrderSide, fill.filled_qty \in Nat \ {0}, fill.filled_price \in EntryPrices,
         NEW l \in Openings, fill.order_id = EntryId(l),
         SignedQty(fill.side, fill.filled_qty) = SignedQty(l[1], QuantityPerLevel)
  PROVE  /\ active_entries' \in Seq(Leg) /\ LegsExplainPosition' /\ LegsAreDistinct'
         /\ net_position' = net_position + SignedQty(fill.side, fill.filled_qty)
         /\ l \notin OpenLevels /\ OpenLevels' = OpenLevels \cup {l}
<1>. DEFINE id == fill.order_id
            leg == [level |-> <<id[2], id[3]>>, entry_price |-> fill.filled_price,
                    quantity |-> fill.filled_qty]
            legs == active_entries
            n == Len(legs)
<1>1. l \in Level /\ id \in pending_entry_orders /\ l \notin OpenLevels
  BY DEF Openings
<1>2. /\ id[1] = "ENTRY" /\ <<id[2], id[3]>> = l /\ id # FlattenId
      /\ QuantityPerLevel \in Nat \ {0}
  BY <1>1, LevelIds
<1>3. id \notin pending_exit_orders
  <2>1. \A x \in pending_exit_orders : \E k \in Level : x = ExitId(k)
    BY DEF GridTypeOK, ExitIds
  <2>. QED  BY <1>1, <2>1, DifferentIds
<1>4. l \in triggered_levels
  <2>1. PICK k \in triggered_levels : id = EntryId(k)
    BY <1>1 DEF GridTypeOK
  <2>2. k \in Level
    BY DEF GridTypeOK
  <2>. QED  BY <1>1, <2>1, <2>2, DifferentIds
<1>5. fill.filled_qty = QuantityPerLevel /\ fill.side = l[1]
  <2>1. l[1] \in OrderSide
    BY <1>1, LevelIds
  <2>. QED  BY <1>2, <2>1 DEF SignedQty, OrderSide
<1>6. /\ active_entries' = Append(legs, leg) /\ triggered_levels' = triggered_levels
      /\ net_position' = net_position + SignedQty(fill.side, fill.filled_qty)
  BY <1>1, <1>2, <1>3 DEF OnFill
<1>7. leg \in Leg /\ leg.level = l
  BY <1>1, <1>2, <1>5 DEF Leg
<1>8. LegDelta(leg) = SignedQty(fill.side, fill.filled_qty)
  BY <1>5, <1>7 DEF LegDelta
<1>. HIDE DEF leg
<1>9. legs \in Seq(Leg) /\ n \in Nat
  BY DEF GridTypeOK
<1>10. LegsExplainPosition'
  <2>1. LegSum(Append(legs, leg)) = LegSum(legs) + LegDelta(leg)
    BY <1>7, <1>9, LegSumAppend
  <2>2. net_position = LegSum(legs)
    BY DEF LegsExplainPosition, LegSum
  <2>3. net_position' = LegSum(active_entries)'
    BY <1>6, <1>8, <2>1, <2>2
  <2>. QED  BY <2>3 DEF LegsExplainPosition, LegSum
<1>11. /\ active_entries' \in Seq(Leg) /\ Len(active_entries') = n + 1
       /\ active_entries'[n + 1] = leg /\ \A i \in 1..n : active_entries'[i] = legs[i]
  BY <1>6, <1>7, <1>9
<1>12. \A i \in 1..(n + 1) : i \in 1..n \/ i = n + 1
  BY <1>9
<1>13. \A i \in 1..n : legs[i].level # l
  BY <1>1 DEF OpenLevels
<1>14. n + 1 \in 1..(n + 1) /\ \A i \in 1..n : i \in 1..(n + 1)
  BY <1>9
<1>. HIDE DEF n
<1>15. LegsAreDistinct'
  <2>1. /\ \A i, j \in 1..n : legs[i].level = legs[j].level => i = j
        /\ \A i \in 1..n : legs[i].level \in triggered_levels
    BY DEF LegsAreDistinct, n
  <2>2. \A i, j \in 1..(n + 1) : active_entries'[i].level = active_entries'[j].level => i = j
    BY <1>7, <1>11, <1>12, <1>13, <2>1
  <2>3. \A i \in 1..(n + 1) : active_entries'[i].level \in triggered_levels'
    BY <1>4, <1>6, <1>7, <1>11, <1>12, <2>1
  <2>. QED  BY <1>11, <2>2, <2>3 DEF LegsAreDistinct
<1>16. OpenLevels' = OpenLevels \cup {l}
  <2>1. OpenLevels = {legs[i].level : i \in 1..n}
    BY DEF OpenLevels, n
  <2>2. OpenLevels' = {active_entries'[i].level : i \in 1..(n + 1)}
    BY <1>11 DEF OpenLevels
  <2>. QED  BY <1>7, <1>11, <1>12, <1>14, <2>1, <2>2
<1>. QED  BY <1>1, <1>6, <1>10, <1>11, <1>15, <1>16

\* An exit's fill closes the leg of its level, and no other.
LEMMA ExitFill ==
  ASSUME GridTypeOK, LegsExplainPosition, LegsAreDistinct, NEW fill, OnFill(fill),
         NEW l \in Closings, fill.order_id = ExitId(l),
         SignedQty(fill.side, fill.filled_qty) = -SignedQty(l[1], QuantityPerLevel)
  PROVE  /\ active_entries' \in Seq(Leg) /\ LegsExplainPosition' /\ LegsAreDistinct'
         /\ net_position' = net_position + SignedQty(fill.side, fill.filled_qty)
         /\ l \in OpenLevels /\ l \in Level /\ OpenLevels' = OpenLevels \ {l}
<1>. DEFINE id == fill.order_id
            legs == active_entries
            n == Len(legs)
            S == {e \in ToSet(legs) : e.level # l}
<1>1. l \in OpenLevels /\ id \in pending_exit_orders
  BY DEF Closings
<1>2. legs \in Seq(Leg) /\ n \in Nat /\ \A i \in 1..n : legs[i] \in Leg
  BY DEF GridTypeOK
<1>3. PICK a \in 1..n : legs[a].level = l
  BY <1>1 DEF OpenLevels
<1>4. l \in Level /\ LegDelta(legs[a]) = SignedQty(l[1], QuantityPerLevel) /\ LegDelta(legs[a]) \in Int
  <2>1. legs[a] \in Leg
    BY <1>2
  <2>. QED  BY <1>3, <2>1, LegTypes
<1>5. id[1] = "EXIT" /\ <<id[2], id[3]>> = l /\ id # FlattenId
  BY <1>4, LevelIds
<1>6. id \notin pending_entry_orders
  <2>1. \A x \in pending_entry_orders : \E k \in Level : x = EntryId(k)
    BY DEF GridTypeOK
  <2>. QED  BY <1>4, <2>1, DifferentIds
<1>7. /\ active_entries' = LegsWithout(l) /\ triggered_levels' = triggered_levels
      /\ net_position' = net_position + SignedQty(fill.side, fill.filled_qty)
  BY <1>1, <1>5, <1>6 DEF OnFill
<1>8. active_entries' = LegsIn(S)
  BY <1>7 DEF LegsWithout
<1>9. /\ \A i, j \in 1..n : legs[i].level = legs[j].level => i = j
      /\ \A i \in 1..n : legs[i].level \in triggered_levels
  BY DEF LegsAreDistinct
<1>10. PlacesIn(S) = (1..n) \ {a}
  <2>1. ToSet(legs) = {legs[i] : i \in 1..n}
    BY <1>2 DEF ToSet
  <2>2. \A i \in 1..n : legs[i] \in S <=> legs[i].level # l
    BY <2>1
  <2>3. \A i \in 1..n : legs[i].level # l <=> i # a
    BY <1>3, <1>9
  <2>. HIDE DEF S
  <2>. QED  BY <2>2, <2>3 DEF PlacesIn
<1>. HIDE DEF S
<1>11. PICK f : Filters(f, n, legs, (1..n) \ {a}) /\ LegsIn(S) = f[n]
  BY <1>2, <1>10, LegsInFilters
<1>12. LegSum(active_entries') = LegSum(legs) - LegDelta(legs[a])
  BY <1>2, <1>8, <1>11, LegSumWithoutOne
<1>13. LegsExplainPosition'
  <2>1. net_position = LegSum(legs) /\ net_position \in Int
    BY DEF LegsExplainPosition, LegSum, GridTypeOK
  <2>2. net_position' = LegSum(active_entries)'
    BY <1>4, <1>7, <1>12, <2>1
  <2>. QED  BY <2>2 DEF LegsExplainPosition, LegSum
<1>14. PicksAll(Leg, active_entries', legs, (1..n) \ {a})
  BY <1>2, <1>8, <1>10, LegsInAre
<1>15. PICK pos : Picks(pos, active_entries', legs, (1..n) \ {a})
  BY <1>14 DEF PicksAll
<1>. DEFINE m == Len(active_entries')
<1>16. /\ \A i \in 1..m : pos[i] \in (1..n) \ {a} /\ active_entries'[i] = legs[pos[i]]
       /\ \A i, j \in 1..m : pos[i] = pos[j] => i = j
       /\ \A k \in (1..n) \ {a} : \E i \in 1..m : pos[i] = k
  BY <1>15 DEF Picks
<1>. HIDE DEF m
<1>17. LegsAreDistinct'
  <2>1. \A i, j \in 1..m : active_entries'[i].level = active_entries'[j].level => i = j
    BY <1>9, <1>16
  <2>2. \A i \in 1..m : active_entries'[i].level \in triggered_levels'
    BY <1>7, <1>9, <1>16
  <2>. QED  BY <2>1, <2>2 DEF LegsAreDistinct, m
<1>18. OpenLevels' = OpenLevels \ {l}
  <2>1. OpenLevels = {legs[i].level : i \in 1..n}
    BY DEF OpenLevels
  <2>2. OpenLevels' = {active_entries'[i].level : i \in 1..m}
    BY DEF OpenLevels, m
  <2>3. ASSUME NEW k \in OpenLevels' PROVE k \in OpenLevels /\ k # l
    <3>1. PICK i \in 1..m : k = active_entries'[i].level
      BY <2>2
    <3>2. pos[i] \in 1..n /\ pos[i] # a /\ k = legs[pos[i]].level
      BY <1>16, <3>1
    <3>. QED  BY <1>3, <1>9, <2>1, <3>2
  <2>4. ASSUME NEW k \in OpenLevels, k # l PROVE k \in OpenLevels'
    <3>1. PICK j \in 1..n : k = legs[j].level
      BY <2>1
    <3>2. j \in (1..n) \ {a}
      BY <1>3, <2>4, <3>1
    <3>3. PICK i \in 1..m : pos[i] = j
      BY <1>16, <3>2
    <3>4. active_entries'[i].level = k
      BY <1>16, <3>1, <3>3
    <3>. QED  BY <2>2, <3>4
  <2>. QED  BY <2>3, <2>4
<1>19. active_entries' \in Seq(Leg)
  BY <1>14 DEF PicksAll
<1>. QED  BY <1>1, <1>4, <1>7, <1>13, <1>17, <1>18, <1>19

\* The flatten order's fill closes all there is.
LEMMA FlattenFill ==
  ASSUME GridTypeOK, NEW fill, OnFill(fill), fill.order_id = FlattenId
  PROVE  /\ active_entries' \in Seq(Leg) /\ LegsExplainPosition' /\ LegsAreDistinct' /\ net_position' = 0
<1>1. FlattenId[1] = "FLATTEN"
  BY DEF FlattenId
<1>2. FlattenId \notin pending_entry_orders /\ FlattenId \notin pending_exit_orders
  <2>1. \A x \in pending_entry_orders : \E k \in Level : x = EntryId(k)
    BY DEF GridTypeOK
  <2>2. \A x \in pending_exit_orders : \E k \in Level : x = ExitId(k)
    BY DEF GridTypeOK, ExitIds
  <2>. QED  BY <2>1, <2>2, LevelIds
<1>3. active_entries' = <<>> /\ net_position' = 0
  BY <1>2 DEF OnFill
<1>4. LegsExplainPosition'
  <2>1. net_position' = LegSum(active_entries)'
    BY <1>3, LegSumEmpty
  <2>. QED  BY <2>1 DEF LegsExplainPosition, LegSum
<1>5. <<>> \in Seq(Leg)
  OBVIOUS
<1>. QED  BY <1>3, <1>4, <1>5 DEF LegsAreDistinct

\* The portfolio and the strategy take a fill together, and what was due stays due.
LEMMA SettleGrid ==
  ASSUME RunInv, GridInv, SettleGridFill
  PROVE  RunInv' /\ GridInv'
<1>1. SettleFill /\ OnFill(Head(fill_queue))
  BY DEF SettleGridFill
<1>2. RunInv'
  BY <1>1, SettleFillInv
<1>3. PICK fill : fill = Head(fill_queue)
  OBVIOUS
<1>4. PICK id : id = fill.order_id
  OBVIOUS
<1>. DEFINE delta == SignedQty(fill.side, fill.filled_qty)
            q == LedgerQueue'
            Rest == \A i \in 1..Len(q) : <<q[i].id, q[i].delta>> \in DueOrders'
<1>5. GridTypeOK /\ StrategyKnowsPosition /\ LegsExplainPosition /\ LegsAreDistinct
  BY DEF GridInv
<1>6. /\ <<id, delta>> \in DueOrders
      /\ fill.side \in OrderSide /\ fill.filled_qty \in Nat \ {0} /\ fill.filled_price \in EntryPrices
      /\ \A i \in 1..Len(fill_queue') : fill_queue'[i].filled_price \in EntryPrices
      /\ position'.quantity = position.quantity + delta
      /\ phase' = "SETTLE" /\ candidate_orders' = <<>>
      /\ \A i \in 1..Len(q) : /\ <<q[i].id, q[i].delta>> \in DueOrders
                              /\ q[i].id # id /\ q[i].id # FlattenId /\ id # FlattenId
      /\ \A i, j \in 1..Len(q) : q[i].id = q[j].id => i = j
  BY <1>1, <1>3, <1>4, FillIsDue
<1>7. /\ pending_entry_orders' = pending_entry_orders \ {id}
      /\ pending_exit_orders' = pending_exit_orders \ {id}
      /\ anchor' = anchor /\ triggered_levels' = triggered_levels /\ kill_switch' = kill_switch
      /\ OnFill(fill)
  BY <1>1, <1>3, <1>4 DEF OnFill
<1>8. OpenLevels \subseteq Level
  <2>1. ASSUME NEW i \in 1..Len(active_entries) PROVE active_entries[i].level \in Level
    <3>1. active_entries[i] \in Leg
      BY <1>5 DEF GridTypeOK
    <3>. QED  BY <3>1, LegTypes
  <2>. QED  BY <2>1 DEF OpenLevels
<1>9. delta \in Int /\ net_position \in Int /\ position.quantity = net_position
  BY <1>5, <1>6 DEF SignedQty, GridTypeOK, StrategyKnowsPosition
<1>. HIDE DEF q, delta
<1>10. ASSUME NEW l \in Openings, id = EntryId(l), delta = SignedQty(l[1], QuantityPerLevel)
       PROVE  /\ active_entries' \in Seq(Leg) /\ LegsExplainPosition' /\ LegsAreDistinct'
              /\ net_position' = net_position + delta /\ Rest
  <2>1. /\ active_entries' \in Seq(Leg) /\ LegsExplainPosition' /\ LegsAreDistinct'
        /\ net_position' = net_position + delta
        /\ l \notin OpenLevels /\ OpenLevels' = OpenLevels \cup {l}
    BY <1>4, <1>5, <1>6, <1>7, <1>10, EntryFill DEF delta
  <2>2. l \in Level
    BY DEF Openings
  <2>3. Rest
    <3>1. ASSUME NEW i \in 1..Len(q) PROVE <<q[i].id, q[i].delta>> \in DueOrders'
      BY <1>6, <1>7, <1>8, <1>10, <2>1, <2>2, RestStaysDue
    <3>. QED  BY <3>1
  <2>. QED  BY <2>1, <2>3
<1>11. ASSUME NEW l \in Closings, id = ExitId(l), delta = -SignedQty(l[1], QuantityPerLevel)
       PROVE  /\ active_entries' \in Seq(Leg) /\ LegsExplainPosition' /\ LegsAreDistinct'
              /\ net_position' = net_position + delta /\ Rest
  <2>1. /\ active_entries' \in Seq(Leg) /\ LegsExplainPosition' /\ LegsAreDistinct'
        /\ net_position' = net_position + delta
        /\ l \in OpenLevels /\ l \in Level /\ OpenLevels' = OpenLevels \ {l}
    BY <1>4, <1>5, <1>7, <1>11, ExitFill DEF delta
  <2>2. Rest
    <3>1. ASSUME NEW i \in 1..Len(q) PROVE <<q[i].id, q[i].delta>> \in DueOrders'
      BY <1>6, <1>7, <1>8, <1>11, <2>1, RestStaysDue
    <3>. QED  BY <3>1
  <2>. QED  BY <2>1, <2>2
<1>12. ASSUME id = FlattenId, delta = -net_position
       PROVE  /\ active_entries' \in Seq(Leg) /\ LegsExplainPosition' /\ LegsAreDistinct'
              /\ net_position' = net_position + delta /\ Rest
  <2>1. /\ active_entries' \in Seq(Leg) /\ LegsExplainPosition' /\ LegsAreDistinct'
        /\ net_position' = 0
    BY <1>4, <1>5, <1>7, <1>12, FlattenFill
  <2>2. Rest
    BY <1>6, <1>12
  <2>. QED  BY <1>9, <1>12, <2>1, <2>2
<1>13. /\ active_entries' \in Seq(Leg) /\ LegsExplainPosition' /\ LegsAreDistinct'
       /\ net_position' = net_position + delta /\ Rest
  BY <1>6, <1>10, <1>11, <1>12 DEF DueOrders
<1>14. GridTypeOK'
  <2>1. net_position' \in Int
    BY <1>9, <1>13
  <2>2. /\ pending_entry_orders' \in SUBSET {EntryId(k) : k \in triggered_levels'}
        /\ pending_exit_orders' \in SUBSET ExitIds
    BY <1>5, <1>7 DEF GridTypeOK
  <2>. QED  BY <1>5, <1>6, <1>7, <1>13, <2>1, <2>2 DEF GridTypeOK
<1>15. StrategyKnowsPosition'
  BY <1>6, <1>9, <1>13 DEF StrategyKnowsPosition
<1>16. QueueInv'
  BY <1>6, <1>13 DEF QueueInv, q
<1>17. BatchInv'
  BY <1>6 DEF BatchInv
<1>. QED  BY <1>2, <1>13, <1>14, <1>15, <1>16, <1>17 DEF GridInv

\* What on_bar signals is due: nothing else is on its way when it is called.
LEMMA SignalGridInv ==
  ASSUME RunInv, GridInv, SignalGrid
  PROVE  RunInv' /\ GridInv'
<1>. DEFINE regime == macro_by_date[Today].regime
<1>1. PICK batch : batch = BarOrders(bar, regime, bar_index)
  OBVIOUS
<1>2. PICK settings \in HookSettings : Signal(batch, GetPyramidCount, settings)
  BY <1>1 DEF SignalGrid
<1>3. OnBar(bar, regime, bar_index)
  BY DEF SignalGrid
<1>4. bar \in Bars
  BY DEF RunInv, EngineInv, TypeOK
<1>5. GridTypeOK /\ StrategyKnowsPosition /\ LegsExplainPosition /\ LegsAreDistinct
  BY DEF GridInv
<1>6. SoundBatch(batch)
  BY <1>1, <1>4, <1>5, BarOrdersAre
<1>7. RunInv'
  <2>1. GetPyramidCount \in Nat
    BY <1>5 DEF GetPyramidCount, GridTypeOK
  <2>2. batch \in Seq(Proposals)
    BY <1>6 DEF SoundBatch
  <2>. QED  BY <1>2, <2>1, <2>2, SignalInv
<1>8. /\ LedgerQueue = <<>> /\ LedgerQueue' = <<>> /\ position' = position
      /\ phase' = "VALIDATE" /\ candidate_orders' = batch
  BY <1>2, <1>7, SignalMoves
<1>9. /\ active_entries' = active_entries /\ net_position' = net_position /\ kill_switch' = kill_switch
      /\ anchor' \in Anchors /\ triggered_levels' \in SUBSET Level
      /\ triggered_levels \subseteq triggered_levels'
      /\ pending_entry_orders' \in SUBSET {EntryId(l) : l \in triggered_levels'}
      /\ pending_exit_orders' \in SUBSET ExitIds
      /\ \A i \in 1..Len(batch) :
            /\ <<batch[i].client_order_id, CandidateDelta(batch[i])>> \in DueOrders'
            /\ batch[i].client_order_id = FlattenId => Len(batch) = 1
  BY <1>1, <1>3, <1>4, <1>5, <1>6, SignalledOrders
<1>. HIDE DEF regime
<1>10. GridTypeOK'
  <2>1. fill_queue' = fill_queue
    BY <1>2 DEF Signal
  <2>. QED  BY <1>5, <1>9, <2>1 DEF GridTypeOK
<1>11. StrategyKnowsPosition'
  BY <1>5, <1>8, <1>9 DEF StrategyKnowsPosition
<1>12. LegsExplainPosition'
  BY <1>5, <1>9, SameLegsExplain
<1>13. LegsAreDistinct'
  BY <1>5, <1>9 DEF LegsAreDistinct
<1>14. QueueInv'
  BY <1>8 DEF QueueInv
<1>15. BatchInv'
  <2>1. (\A i \in 1..Len(candidate_orders) :
            /\ <<candidate_orders[i].client_order_id, CandidateDelta(candidate_orders[i])>> \in DueOrders
            /\ \A j \in 1..Len(LedgerQueue) : LedgerQueue[j].id # candidate_orders[i].client_order_id
            /\ candidate_orders[i].client_order_id = FlattenId =>
                  Len(candidate_orders) = 1 /\ LedgerQueue = <<>>)'
    BY <1>8, <1>9 DEF CandidateDelta
  <2>2. \A i, j \in 1..Len(batch) : batch[i].client_order_id = batch[j].client_order_id => i = j
    BY <1>6 DEF SoundBatch, OneOrderPerId
  <2>. QED  BY <1>8, <2>1, <2>2 DEF BatchInv
<1>. QED  BY <1>7, <1>10, <1>11, <1>12, <1>13, <1>14, <1>15 DEF GridInv

(* ------------------------------- theorems ------------------------------- *)

\* Every step of a run keeps the engine's books and the strategy's together.
LEMMA GridNextInv ==
  RunInv /\ GridInv /\ [GridBacktestNext]_gridBacktestVars => (RunInv /\ GridInv)'
<1>. SUFFICES ASSUME RunInv, GridInv, [GridBacktestNext]_gridBacktestVars PROVE RunInv' /\ GridInv'
  OBVIOUS
<1>1. CASE SwitchKill
  <2>1. kill_switch' \in BOOLEAN
    BY <1>1 DEF SwitchKill
  <2>2. UNCHANGED <<vars, triggered_levels, net_position, active_entries, pending_entry_orders,
                    pending_exit_orders, anchor>>
    BY <1>1 DEF SwitchKill
  <2>. QED  BY <2>1, <2>2, IdleGrid
<1>2. CASE EngineStep
  <2>1. EngineMove /\ UNCHANGED gridVars
    BY <1>2 DEF EngineStep, EngineMove
  <2>2. RunInv'
    BY <2>1, NextInv DEF EngineMove, Next
  <2>. QED  BY <2>1, <2>2, EngineGrid
<1>3. CASE UNCHANGED gridBacktestVars
  <2>1. UNCHANGED <<vars, triggered_levels, net_position, active_entries, pending_entry_orders,
                    pending_exit_orders, anchor>> /\ kill_switch' = kill_switch
    BY <1>3 DEF gridBacktestVars, gridVars
  <2>2. kill_switch \in BOOLEAN
    BY DEF GridInv, GridTypeOK
  <2>. QED  BY <2>1, <2>2, IdleGrid
<1>. QED  BY <1>1, <1>2, <1>3, SettleGrid, SignalGridInv DEF GridBacktestNext

\* Both invariants hold throughout every run.
LEMMA GridSpecInv == GridBacktestSpec => [](RunInv /\ GridInv)
  BY GridInitInv, GridNextInv, PTL DEF GridBacktestSpec

\* However many levels there are, and whatever the gate refuses or the broker rejects, the
\* position the strategy tracks from its fills is the one in the books: of a flatten too, which
\* zeroes it whatever was filled.
THEOREM GridAgreesWithBooks == GridBacktestSpec => []StrategyKnowsPosition
<1>1. GridInv => StrategyKnowsPosition
  BY DEF GridInv
<1>. QED  BY <1>1, GridSpecInv, PTL

\* The open legs always add up to that position: each fill opened, closed or flattened the
\* legs it should.
THEOREM LegsAddUp == GridBacktestSpec => []LegsExplainPosition
<1>1. GridInv => LegsExplainPosition
  BY DEF GridInv
<1>. QED  BY <1>1, GridSpecInv, PTL

\* No level ever has two legs, and one that has a leg has signalled.
THEOREM OneLegPerLevel == GridBacktestSpec => []LegsAreDistinct
<1>1. GridInv => LegsAreDistinct
  BY DEF GridInv
<1>. QED  BY <1>1, GridSpecInv, PTL

\* An exit that is on its way to execution finds its leg: the only order that could close the
\* leg before it, a flatten, is never on its way with another.
THEOREM ExitsFindTheirLegs == GridBacktestSpec => []ExitsCloseOpenLegs
<1>1. ASSUME RunInv, GridInv PROVE ExitsCloseOpenLegs
  <2>1. ASSUME NEW id \in OrderIds, id[1] = "EXIT", Known(id), ObservedStatus(id) = "PENDING"
        PROVE  \E i \in 1..Len(active_entries) : active_entries[i].level = <<id[2], id[3]>>
    <3>1. PICK i \in 1..Len(LedgerQueue) : LedgerQueue[i].id = id
      <4>1. CASE \E i \in 1..Len(fill_queue) : fill_queue[i].order_id = id
        <5>1. PICK i \in 1..Len(fill_queue) : fill_queue[i].order_id = id
          BY <4>1
        <5>2. phase = "SETTLE"
          BY <1>1, <5>1 DEF RunInv, EngineInv, PhaseDiscipline
        <5>3. /\ Len(LedgerQueue) = Len(fill_queue)
              /\ LedgerQueue[i] = QueueItem(fill_queue[i].order_id, fill_queue[i].side,
                                            fill_queue[i].filled_qty)
          BY <1>1, <5>1, <5>2, QueueTyped
        <5>. QED  BY <5>1, <5>3 DEF QueueItem
      <4>2. CASE ~\E i \in 1..Len(fill_queue) : fill_queue[i].order_id = id
        <5>1. orders[id].status = "PENDING"
          BY <2>1, <4>2 DEF ObservedStatus
        <5>2. PICK i \in 1..Len(pending) : pending[i] = id
          BY <1>1, <5>1 DEF RunInv, BrokerInv, QueueMatchesBook, PendingIds
        <5>3. phase # "SETTLE"
          BY <1>1, <5>2 DEF RunInv, EngineInv, PhaseDiscipline
        <5>4. /\ Len(LedgerQueue) = Len(pending)
              /\ LedgerQueue[i] = QueueItem(pending[i], orders[pending[i]].side,
                                            orders[pending[i]].quantity)
          BY <1>1, <5>2, <5>3, QueueTyped
        <5>. QED  BY <5>2, <5>4 DEF QueueItem
      <4>. QED  BY <4>1, <4>2
    <3>2. <<id, LedgerQueue[i].delta>> \in DueOrders
      BY <1>1, <3>1 DEF GridInv, QueueInv
    <3>3. FlattenId[1] = "FLATTEN"
      BY DEF FlattenId
    <3>4. \/ \E l \in Openings : id = EntryId(l)
          \/ \E l \in Closings : id = ExitId(l)
      BY <2>1, <3>2, <3>3 DEF DueOrders
    <3>5. Openings \subseteq Level
      BY DEF Openings
    <3>6. PICK l \in Closings : id = ExitId(l)
      <4>1. ASSUME NEW l \in Openings PROVE EntryId(l)[1] = "ENTRY"
        BY <3>5, LevelIds
      <4>. QED  BY <2>1, <3>4, <4>1
    <3>7. PICK k \in 1..Len(active_entries) : active_entries[k].level = l
      BY DEF Closings, OpenLevels
    <3>8. <<id[2], id[3]>> = l
      <4>1. active_entries[k] \in Leg
        BY <1>1 DEF GridInv, GridTypeOK
      <4>. QED  BY <3>6, <3>7, <4>1, LegTypes, LevelIds
    <3>. QED  BY <3>7, <3>8
  <2>. QED  BY <2>1 DEF ExitsCloseOpenLegs
<1>2. RunInv /\ GridInv => ExitsCloseOpenLegs
  BY <1>1
<1>. QED  BY <1>2, GridSpecInv, PTL

\* What holds of the engine under any strategy holds under this one: the cap on the position,
\* the broker's queue and executions against its book, and the portfolio's equity.
THEOREM GridRunKeepsBooks ==
  GridBacktestSpec =>
    [](PositionWithinCap /\ QueueMatchesBook /\ OneFillPerFilledOrder /\ EquityMatchesPnl)
<1>1. RunInv => PositionWithinCap /\ QueueMatchesBook /\ OneFillPerFilledOrder /\ EquityMatchesPnl
  BY DEF RunInv, EngineInv, ApprovedPath, PositionWithinCap, BrokerInv, PortfolioInv
<1>. QED  BY <1>1, GridSpecInv, PTL
==============================================================================
