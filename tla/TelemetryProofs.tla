---------------------------- MODULE TelemetryProofs ----------------------------
(***************************************************************************)
(* Proofs about Telemetry: what a rehydrate of the cache returns can be    *)
(* trusted, and what the API replies after one that wrote every key, for   *)
(* any fills and prices, any failures of Redis and any number of restarts. *)
(***************************************************************************)
EXTENDS Telemetry, FiniteSetTheorems, SequenceTheorems, TLAPS

\* The keys that rehydrate has still to write.
Left == Range(todo)

\* The keys that show the engine's state and that rehydrate does not write any more.
Shown == {key \in Keys \ Left : Current(key)}

\* The key shows the engine's state or nothing.
NotStale(key) == redis[key] = Missing \/ Current(key)

\* Where rehydrate is: no key twice, and no more counted than done.
RehydrateInv ==
    /\ todo \in Seq(Keys) /\ \A i, j \in 1 .. Len(todo) : todo[i] = todo[j] => i = j
    /\ count \in Nat /\ returned \in Nat
    /\ DOMAIN redis = Keys
    /\ todo # <<>> => returned = 0 /\ count <= Len(Rehydration) - Len(todo)

\* At least as many keys are shown as are counted, ...
ShownInv == kept => Cardinality(Shown) >= (IF todo = <<>> THEN returned ELSE count)

\* ... and when none was refused, no key that is done is stale, whatever Redis lost, and
\* each shows the engine's state while Redis has lost nothing.
StaleInv ==
    (IF todo = <<>> THEN returned = Len(Rehydration) ELSE count = Len(Rehydration) - Len(todo))
    => \A key \in Range(Rehydration) \ Left : NotStale(key) /\ (kept => Current(key))

CacheInv == RehydrateInv /\ ShownInv /\ StaleInv

-----------------------------------------------------------------------------
(* Sequences of keys.                                                      *)

\* A sequence of different keys, those of S.
Lists(s, S) ==
    /\ s \in Seq(Keys) /\ \A i, j \in 1 .. Len(s) : s[i] = s[j] => i = j
    /\ Range(s) = S

\* Appending another key lists one key more.
LEMMA OneKeyMore ==
  ASSUME NEW s, NEW S, NEW key \in Keys \ S, Lists(s, S)
  PROVE  Lists(s \o <<key>>, S \cup {key}) /\ Len(s \o <<key>>) = Len(s) + 1
<1> DEFINE n == Len(s)
           more == Append(s, key)
<1>1. s \o <<key>> = more
  BY AppendIsConcat DEF Lists
<1>2. /\ s \in Seq(Keys) /\ n \in Nat /\ DOMAIN s = 1 .. n
      /\ \A i, j \in 1 .. n : s[i] = s[j] => i = j
      /\ S = {s[i] : i \in 1 .. n}
  BY DEF Lists, Range
<1>3. /\ more \in Seq(Keys) /\ Len(more) = n + 1 /\ DOMAIN more = 1 .. (n + 1)
      /\ more[n + 1] = key /\ \A i \in 1 .. n : more[i] = s[i]
  BY <1>2
<1> HIDE DEF n, more
<1>4. \A i \in 1 .. (n + 1) : i = n + 1 \/ i \in 1 .. n
  BY <1>2
<1>5. \A i \in 1 .. n : i \in 1 .. (n + 1) /\ more[i] # key
  BY <1>2, <1>3
<1>6. ASSUME NEW i \in 1 .. (n + 1), NEW j \in 1 .. (n + 1), more[i] = more[j] PROVE i = j
  BY <1>2, <1>3, <1>4, <1>5, <1>6
<1>7. Range(more) = S \cup {key}
  <2>1. Range(more) = {more[i] : i \in 1 .. (n + 1)}
    BY <1>3 DEF Range
  <2>2. ASSUME NEW k \in Range(more) PROVE k \in S \cup {key}
    BY <1>2, <1>3, <1>4, <2>1
  <2>3. ASSUME NEW k \in S PROVE k \in Range(more)
    BY <1>2, <1>3, <1>5, <2>1
  <2>4. key \in Range(more)
    BY <1>2, <1>3, <2>1
  <2> QED  BY <2>2, <2>3, <2>4
<1> QED  BY <1>1, <1>3, <1>6, <1>7 DEF Lists, n

\* What rehydrate writes: different keys, the portfolio and the status among them.
LEMMA RehydrationIs ==
  /\ Rehydration \in Seq(Keys) /\ Len(Rehydration) \in {2, 3, 4}
  /\ \A i, j \in 1 .. Len(Rehydration) : Rehydration[i] = Rehydration[j] => i = j
  /\ Range(Rehydration) \subseteq Keys
  /\ "portfolio" \in Range(Rehydration) /\ "status" \in Range(Rehydration)
<1> DEFINE R == Rehydration
           a == IF Tracked THEN <<"position">> ELSE <<>>
           b == a \o <<"portfolio">>
           latest == IF Priced THEN <<"latest">> ELSE <<>>
           c == b \o latest
<1>1. R = c \o <<"status">>
  BY DEF Rehydration
<1>2. {"position", "portfolio", "latest", "status"} = Keys
  BY DEF Keys
<1>3. latest = <<"latest">> \/ latest = <<>>
  OBVIOUS
<1>4. PICK A \in SUBSET {"position"} : Lists(a, A) /\ Len(a) \in {0, 1}
  <2>1. CASE a = <<"position">>
    <3>1. Lists(a, {"position"}) /\ Len(a) = 1
      BY <1>2, <2>1 DEF Lists, Range
    <3> QED  BY <3>1
  <2>2. CASE a = <<>>
    <3>1. Lists(a, {}) /\ Len(a) = 0
      BY <2>2 DEF Lists, Range
    <3> QED  BY <3>1
  <2> QED  BY <2>1, <2>2
<1> HIDE DEF a, latest
<1>5. Lists(b, A \cup {"portfolio"}) /\ Len(b) = Len(a) + 1
  BY <1>2, <1>4, OneKeyMore
<1> HIDE DEF b
<1>6. PICK C \in SUBSET {"position", "portfolio", "latest"} :
         Lists(c, C) /\ "portfolio" \in C /\ (Len(c) = Len(b) \/ Len(c) = Len(b) + 1)
  <2>1. CASE latest = <<"latest">>
    <3>1. Lists(c, (A \cup {"portfolio"}) \cup {"latest"}) /\ Len(c) = Len(b) + 1
      BY <1>2, <1>5, <2>1, OneKeyMore
    <3> QED  BY <3>1
  <2>2. CASE latest = <<>>
    <3>1. b \in Seq(Keys)
      BY <1>5 DEF Lists
    <3>2. c = b
      BY <2>2, <3>1
    <3> QED  BY <1>5, <3>2
  <2> QED  BY <1>3, <2>1, <2>2
<1> HIDE DEF c, R
<1>7. Lists(R, C \cup {"status"}) /\ Len(R) = Len(c) + 1
  BY <1>1, <1>2, <1>6, OneKeyMore
<1>8. Len(R) \in {2, 3, 4}
  <2> DEFINE na == Len(a)
             nb == Len(b)
             nc == Len(c)
             nr == Len(R)
  <2>1. na \in {0, 1} /\ nb = na + 1 /\ (nc = nb \/ nc = nb + 1) /\ nr = nc + 1
    BY <1>4, <1>5, <1>6, <1>7
  <2> HIDE DEF na, nb, nc, nr
  <2>2. nr \in {2, 3, 4}
    BY <2>1
  <2> QED  BY <2>2 DEF nr
<1> QED  BY <1>2, <1>6, <1>7, <1>8 DEF Lists, R

\* A key that is taken off the front of a sequence of different keys is not in the rest.
LEMMA TakeKey ==
  ASSUME RehydrateInv, todo # <<>>, todo' = Tail(todo)
  PROVE  /\ Head(todo) \in Keys /\ Left = Left' \cup {Head(todo)} /\ Head(todo) \notin Left'
         /\ todo' \in Seq(Keys) /\ Len(todo') = Len(todo) - 1 /\ Len(todo) \in Nat
         /\ \A i, j \in 1 .. Len(todo') : todo'[i] = todo'[j] => i = j
         /\ todo' = <<>> <=> Len(todo) = 1
<1> DEFINE n == Len(todo)
           rest == Tail(todo)
<1>1. /\ todo \in Seq(Keys) /\ n \in Nat \ {0} /\ Head(todo) = todo[1] /\ Head(todo) \in Keys
      /\ rest \in Seq(Keys) /\ Len(rest) = n - 1
      /\ \A i \in 1 .. (n - 1) : rest[i] = todo[i + 1]
      /\ DOMAIN todo = 1 .. n
  BY DEF RehydrateInv
<1>2. DOMAIN rest = 1 .. (n - 1)
  BY <1>1
<1>3. \A i, j \in 1 .. n : todo[i] = todo[j] => i = j
  BY DEF RehydrateInv
<1>4. todo' = rest
  OBVIOUS
<1> HIDE DEF n, rest
<1>5. Left = {todo[i] : i \in 1 .. n} /\ Left' = {rest[i] : i \in 1 .. (n - 1)}
  BY <1>1, <1>2, <1>4 DEF Left, Range
<1>6. \A i \in 1 .. n : i = 1 \/ (i - 1 \in 1 .. (n - 1) /\ rest[i - 1] = todo[i])
  BY <1>1
<1>7. \A i \in 1 .. (n - 1) : i + 1 \in 1 .. n /\ i + 1 # 1 /\ 1 \in 1 .. n
  BY <1>1
<1>8. Left = Left' \cup {todo[1]}
  <2>1. ASSUME NEW k \in Left PROVE k \in Left' \cup {todo[1]}
    BY <1>5, <1>6
  <2>2. ASSUME NEW k \in Left' PROVE k \in Left
    BY <1>1, <1>5, <1>7
  <2>3. todo[1] \in Left
    BY <1>1, <1>5
  <2> QED  BY <2>1, <2>2, <2>3
<1>9. todo[1] \notin Left'
  BY <1>1, <1>3, <1>5, <1>7
<1>10. ASSUME NEW i \in 1 .. (n - 1), NEW j \in 1 .. (n - 1), rest[i] = rest[j] PROVE i = j
  <2>1. todo[i + 1] = todo[j + 1]
    BY <1>1, <1>10
  <2>2. i + 1 = j + 1
    BY <1>3, <1>7, <2>1
  <2> QED  BY <2>2
<1>11. rest = <<>> <=> n = 1
  BY <1>1
<1> QED  BY <1>1, <1>4, <1>8, <1>9, <1>10, <1>11 DEF n

-----------------------------------------------------------------------------
(* The steps.                                                              *)

\* The keys a rehydration shows can be counted.
LEMMA ShownFinite ==
  /\ IsFiniteSet(Shown) /\ Cardinality(Shown) \in Nat
  /\ \A S \in SUBSET Keys : IsFiniteSet(S) /\ Cardinality(S) \in Nat
<1>1. IsFiniteSet(Keys)
  <2>1. Keys = ((({} \cup {"position"}) \cup {"portfolio"}) \cup {"latest"}) \cup {"status"}
    BY DEF Keys
  <2>2. \A S, x : IsFiniteSet(S) => IsFiniteSet(S \cup {x})
    BY FS_AddElement
  <2>3. IsFiniteSet({})
    BY FS_EmptySet
  <2> QED  BY <2>1, <2>2, <2>3
<1>2. \A S \in SUBSET Keys : IsFiniteSet(S) /\ Cardinality(S) \in Nat
  BY <1>1, FS_Subset, FS_CardinalityType
<1>3. Shown \in SUBSET Keys
  BY DEF Shown
<1> QED  BY <1>2, <1>3

\* While the books and the kill switch rest, so do the values that are current.
BooksRest == UNCHANGED <<portfolioVars, kill_switch>>

\* While the books rest, what a key should hold stays what it was.
LEMMA StateRests ==
  ASSUME BooksRest
  PROVE  /\ Rehydration' = Rehydration
         /\ \A key : redis'[key] = redis[key] => (Current(key)' <=> Current(key))
         /\ \A key : redis'[key] = Payload(key) => Current(key)'
         /\ \A key : redis'[key] = StatusWithDetails /\ key = "status" => Current(key)'
<1>1. UNCHANGED <<cash, position, market_price, daily_realized_pnl, total_brokerage, peak_equity, drawdown,
                  kill_switch>>
  BY DEF BooksRest, portfolioVars
<1>2. Tracked' = Tracked /\ Priced' = Priced
  BY <1>1 DEF Tracked, Priced
<1>3. Rehydration' = Rehydration
  BY <1>2 DEF Rehydration
<1>4. \A key : Payload(key)' = Payload(key)
  BY <1>1 DEF Payload, EquityAt
<1>5. StatusWithDetails' = StatusWithDetails
  BY <1>1, <1>4 DEF StatusWithDetails, Payload
<1> QED  BY <1>3, <1>4, <1>5 DEF Current

\* The engine works, or its process starts again: nothing that was returned is remembered.
LEMMA ForgetStep ==
  ASSUME CacheInv, todo' = <<>>, returned' = 0, count' \in Nat, redis' = redis
  PROVE  CacheInv'
<1>1. (Cardinality(Shown) \in Nat /\ Len(Rehydration) \in {2, 3, 4})'
  BY ShownFinite, RehydrationIs, PTL
<1>2. RehydrateInv'
  BY DEF CacheInv, RehydrateInv
<1>3. ShownInv'
  BY <1>1 DEF ShownInv
<1>4. StaleInv'
  BY <1>1 DEF StaleInv
<1> QED  BY <1>2, <1>3, <1>4 DEF CacheInv

\* Redis changes and the engine does not: what is current stays so, unless Redis has lost it.
LEMMA CacheStep ==
  ASSUME CacheInv, BooksRest, UNCHANGED <<todo, count, returned>>, DOMAIN redis' = Keys,
         \A key \in Keys : NotStale(key) => NotStale(key)',
         kept' => kept /\ \A key \in Keys : Current(key) => Current(key)'
  PROVE  CacheInv'
<1>1. Left' = Left /\ Rehydration' = Rehydration
  BY StateRests DEF Left
<1>2. RehydrateInv'
  BY <1>1 DEF CacheInv, RehydrateInv
<1>3. ShownInv'
  <2> SUFFICES ASSUME kept'
               PROVE  Cardinality(Shown') >= (IF todo = <<>> THEN returned ELSE count)
    BY DEF ShownInv
  <2>1. Shown \subseteq Shown' /\ Shown' \in SUBSET Keys
    BY <1>1 DEF Shown
  <2>2. IsFiniteSet(Shown') /\ Cardinality(Shown') \in Nat /\ Cardinality(Shown) \in Nat
    BY <2>1, ShownFinite
  <2>3. Cardinality(Shown) <= Cardinality(Shown')
    BY <2>1, <2>2, FS_Subset
  <2>4. Cardinality(Shown) >= (IF todo = <<>> THEN returned ELSE count)
    BY DEF CacheInv, ShownInv
  <2>5. returned \in Nat /\ count \in Nat
    BY DEF CacheInv, RehydrateInv
  <2> QED  BY <2>2, <2>3, <2>4, <2>5
<1>4. StaleInv'
  <2>1. Range(Rehydration) \subseteq Keys
    BY RehydrationIs
  <2> QED  BY <1>1, <2>1 DEF CacheInv, StaleInv
<1> QED  BY <1>2, <1>3, <1>4 DEF CacheInv

\* A rehydration starts with every key to write and a count of zero.
LEMMA BeginStep ==
  ASSUME CacheInv, BeginRehydrate
  PROVE  CacheInv'
<1>1. /\ todo' = Rehydration /\ count' = 0 /\ returned' = 0 /\ redis' = redis /\ Rehydration' = Rehydration
  <2>1. BooksRest
    BY DEF BeginRehydrate, BooksRest
  <2> QED  BY <2>1, StateRests DEF BeginRehydrate, cacheVars
<1>2. (Cardinality(Shown) \in Nat)'
  BY ShownFinite, PTL
<1>3. Len(todo') \in {2, 3, 4} /\ todo' # <<>> /\ Len(Rehydration') - Len(todo') = 0
  <2> DEFINE n == Len(Rehydration)
  <2>1. n \in {2, 3, 4}
    BY RehydrationIs
  <2>2. Len(todo') = n /\ Len(Rehydration') = n
    BY <1>1
  <2>3. todo' = <<>> => Len(todo') = 0
    OBVIOUS
  <2> HIDE DEF n
  <2> QED  BY <2>1, <2>2, <2>3
<1>4. RehydrateInv'
  BY <1>1, <1>3, RehydrationIs DEF CacheInv, RehydrateInv
<1>5. ShownInv'
  BY <1>1, <1>2, <1>3 DEF ShownInv
<1>6. StaleInv'
  BY <1>1 DEF StaleInv, Left
<1> QED  BY <1>4, <1>5, <1>6 DEF CacheInv

\* A key is written: one more is shown, one more is counted.
LEMMA WriteStep ==
  ASSUME CacheInv, WriteKey
  PROVE  CacheInv'
<1>0. PICK h \in Keys : h = Head(todo)
  BY DEF WriteKey, CacheInv, RehydrateInv
<1>1. /\ BooksRest /\ todo # <<>> /\ todo' = Tail(todo) /\ count' = count + 1 /\ kept' = kept
      /\ returned' = IF Len(todo) = 1 THEN count + 1 ELSE returned
      /\ redis' = [redis EXCEPT ![h] = Payload(h)]
  BY <1>0 DEF WriteKey, Return, BooksRest
<1>2. /\ Left = Left' \cup {h} /\ h \notin Left'
      /\ todo' \in Seq(Keys) /\ Len(todo') = Len(todo) - 1 /\ Len(todo) \in Nat
      /\ \A i, j \in 1 .. Len(todo') : todo'[i] = todo'[j] => i = j
      /\ todo' = <<>> <=> Len(todo) = 1
  BY <1>0, <1>1, TakeKey DEF CacheInv
<1>3. /\ count \in Nat /\ returned = 0 /\ count <= Len(Rehydration) - Len(todo) /\ Len(Rehydration) \in {2, 3, 4}
      /\ DOMAIN redis = Keys
  BY <1>1, RehydrationIs DEF CacheInv, RehydrateInv
<1>4. /\ DOMAIN redis' = Keys /\ redis'[h] = Payload(h)
      /\ \A key \in Keys : key # h => redis'[key] = redis[key]
  BY <1>1, <1>2, <1>3
<1>5. /\ Rehydration' = Rehydration /\ Current(h)'
      /\ \A key \in Keys : key # h => (Current(key)' <=> Current(key))
      /\ \A key \in Keys : key # h => (NotStale(key)' <=> NotStale(key))
  <2>1. Rehydration' = Rehydration /\ Current(h)'
    BY <1>1, <1>4, StateRests
  <2>2. \A key \in Keys : key # h => (Current(key)' <=> Current(key))
    BY <1>1, <1>4, StateRests
  <2>3. \A key \in Keys : key # h => (NotStale(key)' <=> NotStale(key))
    BY <1>4, <2>2 DEF NotStale
  <2> QED  BY <2>1, <2>2, <2>3
<1>6. RehydrateInv'
  <2>1. returned' \in Nat /\ count' \in Nat /\ (todo' # <<>> => returned' = 0)
    BY <1>1, <1>2, <1>3
  <2>2. count' <= Len(Rehydration') - Len(todo')
    BY <1>1, <1>2, <1>3, <1>5
  <2> QED  BY <1>2, <1>4, <2>1, <2>2 DEF RehydrateInv
<1>7. ShownInv'
  <2> SUFFICES ASSUME kept' PROVE Cardinality(Shown') >= count + 1
    BY <1>1, <1>2 DEF ShownInv
  <2>1. Shown' = Shown \cup {h} /\ h \notin Shown
    <3>1. h \notin Shown
      BY <1>2 DEF Shown
    <3>2. h \in Shown'
      BY <1>2, <1>5 DEF Shown
    <3>3. ASSUME NEW key \in Keys, key # h PROVE key \in Shown' <=> key \in Shown
      BY <1>2, <1>5, <3>3 DEF Shown
    <3>4. Shown \subseteq Keys /\ Shown' \subseteq Keys
      BY DEF Shown
    <3> QED  BY <1>2, <3>1, <3>2, <3>3, <3>4
  <2>2. IsFiniteSet(Shown) /\ Cardinality(Shown) \in Nat /\ Cardinality(Shown) >= count
    BY <1>1, ShownFinite DEF CacheInv, ShownInv
  <2>3. Cardinality(Shown') = Cardinality(Shown) + 1
    BY <2>1, <2>2, FS_AddElement
  <2> QED  BY <1>3, <2>2, <2>3
<1>8. StaleInv'
  <2> SUFFICES ASSUME IF todo' = <<>> THEN returned' = Len(Rehydration)
                                      ELSE count' = Len(Rehydration) - Len(todo'),
                      NEW key \in Range(Rehydration) \ Left'
               PROVE  NotStale(key)' /\ (kept' => Current(key)')
    BY <1>5 DEF StaleInv
  <2>1. count = Len(Rehydration) - Len(todo)
    BY <1>1, <1>2, <1>3
  <2>2. CASE key = h
    <3>1. NotStale(h)' /\ Current(h)'
      BY <1>5 DEF NotStale
    <3> QED  BY <2>2, <3>1
  <2>3. CASE key # h
    <3>1. key \in Range(Rehydration) \ Left /\ key \in Keys
      BY <1>2, <2>3, RehydrationIs
    <3>2. NotStale(key) /\ (kept => Current(key))
      BY <1>1, <2>1, <3>1 DEF CacheInv, StaleInv
    <3> QED  BY <1>1, <1>5, <2>3, <3>1, <3>2
  <2> QED  BY <2>2, <2>3
<1> QED  BY <1>6, <1>7, <1>8 DEF CacheInv

\* A key is refused: it is not counted, and rehydrate cannot return them all any more.
LEMMA RefuseStep ==
  ASSUME CacheInv, RefuseKey
  PROVE  CacheInv'
<1>1. /\ BooksRest /\ todo # <<>> /\ todo' = Tail(todo) /\ count' = count /\ kept' = kept
      /\ returned' = IF Len(todo) = 1 THEN count ELSE returned
      /\ redis' = redis
  BY DEF RefuseKey, Return, BooksRest, cacheVars
<1>2. /\ Head(todo) \in Keys /\ Left = Left' \cup {Head(todo)}
      /\ todo' \in Seq(Keys) /\ Len(todo') = Len(todo) - 1 /\ Len(todo) \in Nat
      /\ \A i, j \in 1 .. Len(todo') : todo'[i] = todo'[j] => i = j
      /\ todo' = <<>> <=> Len(todo) = 1
  BY <1>1, TakeKey DEF CacheInv
<1>3. /\ count \in Nat /\ returned = 0 /\ count <= Len(Rehydration) - Len(todo) /\ Len(Rehydration) \in {2, 3, 4}
      /\ DOMAIN redis = Keys
  BY <1>1, RehydrationIs DEF CacheInv, RehydrateInv
<1>4. /\ Rehydration' = Rehydration
      /\ \A key \in Keys : Current(key)' <=> Current(key)
  BY <1>1, StateRests
<1>5. RehydrateInv'
  <2>1. returned' \in Nat /\ (todo' # <<>> => returned' = 0)
    BY <1>1, <1>2, <1>3
  <2>2. count' <= Len(Rehydration') - Len(todo')
    BY <1>1, <1>2, <1>3, <1>4
  <2> QED  BY <1>1, <1>2, <1>3, <2>1, <2>2 DEF RehydrateInv
<1>6. ShownInv'
  <2> SUFFICES ASSUME kept' PROVE Cardinality(Shown') >= count
    BY <1>1, <1>2 DEF ShownInv
  <2>1. Shown \subseteq Shown' /\ Shown' \in SUBSET Keys
    BY <1>2, <1>4 DEF Shown
  <2>2. IsFiniteSet(Shown') /\ Cardinality(Shown') \in Nat /\ Cardinality(Shown) \in Nat
    BY <2>1, ShownFinite
  <2>3. Cardinality(Shown) <= Cardinality(Shown') /\ Cardinality(Shown) >= count
    BY <1>1, <2>1, <2>2, FS_Subset DEF CacheInv, ShownInv
  <2> QED  BY <1>3, <2>2, <2>3
<1>7. StaleInv'
  <2>1. ~(IF todo' = <<>> THEN returned' = Len(Rehydration') ELSE count' = Len(Rehydration') - Len(todo'))
    BY <1>1, <1>2, <1>3, <1>4
  <2> QED  BY <2>1 DEF StaleInv
<1> QED  BY <1>5, <1>6, <1>7 DEF CacheInv

\* What is raised out of rehydrate leaves nothing returned.
LEMMA RaiseStep ==
  ASSUME CacheInv, RaiseKey
  PROVE  CacheInv'
<1>1. todo' = <<>> /\ returned' = 0 /\ count' \in Nat /\ redis' = redis
  BY DEF RaiseKey, historyVars, cacheVars, CacheInv, RehydrateInv
<1> QED  BY <1>1, ForgetStep

\* Every step keeps the invariant of the cache.
LEMMA CacheInvStep ==
  ASSUME CacheInv, [Next]_vars
  PROVE  CacheInv'
<1>0. DOMAIN redis = Keys /\ count \in Nat
  BY DEF CacheInv, RehydrateInv
<1>1. CASE Work \/ Restart
  <2>1. todo' = <<>> /\ returned' = 0 /\ count' \in Nat /\ redis' = redis
    BY <1>0, <1>1 DEF Work, Trade, Mark, SwitchKill, Restart, Working, BooksMove, rehydrateVars, cacheVars
  <2> QED  BY <2>1, ForgetStep
<1>2. ASSUME NEW key \in Keys, Publish(key) PROVE CacheInv'
  <2>1. BooksRest /\ UNCHANGED <<todo, count, returned, kept>>
    BY <1>2 DEF Publish, BooksRest, rehydrateVars, historyVars
  <2>2. PICK value \in {Payload(key)} \cup (IF key = "status" THEN {StatusWithDetails} ELSE {}) :
           redis' = [redis EXCEPT ![key] = value]
    BY <1>2 DEF Publish
  <2>3. DOMAIN redis' = Keys /\ redis'[key] = value /\ \A k \in Keys : k # key => redis'[k] = redis[k]
    BY <1>0, <2>2
  <2>4. Current(key)'
    BY <2>1, <2>2, <2>3, StateRests
  <2>5. ASSUME NEW k \in Keys PROVE (Current(k) => Current(k)') /\ (NotStale(k) => NotStale(k)')
    BY <2>1, <2>3, <2>4, StateRests DEF NotStale
  <2> QED  BY <2>1, <2>3, <2>5, CacheStep
<1>3. CASE Clear \/ RedisDown \/ RedisUp \/ UNCHANGED vars
  <2>1. /\ BooksRest /\ UNCHANGED <<todo, count, returned>>
        /\ redis' = redis \/ redis' = [key \in Keys |-> Missing]
        /\ kept' => kept /\ redis' = redis
    <3>1. CASE Clear
      BY <3>1 DEF Clear, BooksRest, rehydrateVars
    <3>2. CASE RedisDown
      BY <3>2 DEF RedisDown, BooksRest, rehydrateVars, historyVars
    <3>3. CASE RedisUp
      <4>1. /\ BooksRest /\ UNCHANGED <<todo, count, returned>>
            /\ redis' = redis \/ redis' = [key \in Keys |-> Missing]
        BY <3>3 DEF RedisUp, BooksRest, rehydrateVars
      <4>2. kept' = (kept /\ redis' = redis)
        BY <3>3 DEF RedisUp
      <4> QED  BY <4>1, <4>2, Zenon
    <3>4. CASE UNCHANGED vars
      BY <3>4 DEF BooksRest, rehydrateVars, historyVars, vars, cacheVars
    <3> QED  BY <1>3, <3>1, <3>2, <3>3, <3>4, Zenon
  <2>2. DOMAIN redis' = Keys
    BY <1>0, <2>1
  <2>3. ASSUME NEW key \in Keys
        PROVE  (NotStale(key) => NotStale(key)') /\ (kept' => (Current(key) => Current(key)'))
    <3>1. CASE redis' = redis
      BY <2>1, <3>1, StateRests DEF NotStale
    <3>2. CASE redis' # redis
      <4>1. redis'[key] = Missing /\ ~kept'
        BY <2>1, <3>2
      <4> QED  BY <4>1 DEF NotStale, Missing
    <3> QED  BY <3>1, <3>2
  <2> QED  BY <2>1, <2>2, <2>3, CacheStep
<1> QED  BY <1>1, <1>2, <1>3, BeginStep, WriteStep, RefuseStep, RaiseStep DEF Next, Rehydrate

\* The process starts outside rehydrate, and the cache without a key.
LEMMA CacheInitially == Init => CacheInv
<1> SUFFICES ASSUME Init PROVE CacheInv
  OBVIOUS
<1>1. /\ todo = <<>> /\ count = 0 /\ returned = 0 /\ redis = [key \in Keys |-> Missing]
  BY DEF Init
<1>2. RehydrateInv
  BY <1>1 DEF RehydrateInv
<1>3. ShownInv
  BY <1>1, ShownFinite DEF ShownInv
<1>4. StaleInv
  BY <1>1, RehydrationIs DEF StaleInv
<1> QED  BY <1>2, <1>3, <1>4 DEF CacheInv

\* The invariant of the cache holds in every run.
LEMMA CacheInvariant == Spec => []CacheInv
BY CacheInitially, CacheInvStep, PTL DEF Spec

-----------------------------------------------------------------------------
\* CountIsHonest of RedisStateCache.rehydrate: as many keys as it returned show the engine's
\* state, until the books move or Redis loses data, however often Redis failed in between.
THEOREM ReturnedIsHonest == Spec => []CountIsHonest
<1>1. CacheInv => CountIsHonest
  <2> SUFFICES ASSUME CacheInv, kept PROVE Cardinality({key \in Keys : Current(key)}) >= returned
    BY DEF CountIsHonest
  <2> DEFINE S == {key \in Keys : Current(key)}
  <2>1. IsFiniteSet(S) /\ Cardinality(S) \in Nat /\ Cardinality(Shown) \in Nat
    BY ShownFinite
  <2>2. Shown \subseteq S
    BY DEF Shown
  <2>3. Cardinality(Shown) <= Cardinality(S)
    BY <2>1, <2>2, FS_Subset
  <2>4. returned \in Nat /\ count \in Nat /\ (todo # <<>> => returned = 0)
        /\ Cardinality(Shown) >= (IF todo = <<>> THEN returned ELSE count)
    BY DEF CacheInv, RehydrateInv, ShownInv
  <2> HIDE DEF S
  <2>5. Cardinality(S) >= returned
    BY <2>1, <2>3, <2>4
  <2> QED  BY <2>5 DEF S
<1> QED  BY <1>1, CacheInvariant, PTL

\* RepliesAreCurrent of GET /portfolio and GET /status: after a rehydrate that returned all
\* its keys, what they take from the cache is what the engine knows, whatever Redis has lost
\* since, and they do take it from there while Redis answers and has lost nothing.
THEOREM ApiRepliesAreCurrent == Spec => []RepliesAreCurrent
<1>1. CacheInv => RepliesAreCurrent
  <2> SUFFICES ASSUME CacheInv, returned = Len(Rehydration), NEW silent \in BOOLEAN
               PROVE  /\ PortfolioReply(silent).source = "cache" => TellsTheEngine(PortfolioReply(silent))
                      /\ StatusReply(silent).source = "cache" =>
                             StatusReply(silent).status = Payload("status").status
                      /\ kept /\ redis_up =>
                             PortfolioReply(silent).source = "cache" /\ StatusReply(silent).source = "cache"
    BY DEF RepliesAreCurrent
  <2>1. todo = <<>>
    <3>1. todo # <<>> => returned = 0
      BY DEF CacheInv, RehydrateInv
    <3> QED  BY <3>1, RehydrationIs
  <2>2. \A key \in {"portfolio", "status"} : NotStale(key) /\ (kept => Current(key))
    <3>1. Left = {}
      BY <2>1 DEF Left, Range
    <3> QED  BY <2>1, <3>1, RehydrationIs DEF CacheInv, StaleInv
  <2>3. /\ PortfolioReply(silent).source = "cache" <=> ~Raises(silent) /\ Get("portfolio").present
        /\ StatusReply(silent).source = "cache" <=> ~Raises(silent) /\ Get("status").present
    BY DEF PortfolioReply, StatusReply, Failure
  <2>4. ASSUME PortfolioReply(silent).source = "cache" PROVE TellsTheEngine(PortfolioReply(silent))
    <3>1. redis["portfolio"] # Missing
      BY <2>3, <2>4 DEF Get, Missing
    <3>2. redis["portfolio"] = Payload("portfolio")
      BY <2>2, <3>1 DEF NotStale, Current
    <3> QED  BY <2>3, <2>4, <3>2 DEF PortfolioReply, Payload, TellsTheEngine, Equity
  <2>5. ASSUME StatusReply(silent).source = "cache"
        PROVE  StatusReply(silent).status = Payload("status").status
    <3>1. redis["status"] # Missing
      BY <2>3, <2>5 DEF Get, Missing
    <3>2. redis["status"] = Payload("status") \/ redis["status"] = StatusWithDetails
      BY <2>2, <3>1 DEF NotStale, Current
    <3>3. StatusWithDetails.status = Payload("status").status
      BY DEF StatusWithDetails, Payload
    <3> QED  BY <2>3, <2>5, <3>2, <3>3 DEF StatusReply
  <2>6. ASSUME kept, redis_up
        PROVE  PortfolioReply(silent).source = "cache" /\ StatusReply(silent).source = "cache"
    <3>1. Current("portfolio") /\ Current("status")
      BY <2>2, <2>6
    <3>2. redis["portfolio"].present /\ redis["status"].present
      BY <3>1 DEF Current, Payload, StatusWithDetails
    <3> QED  BY <2>3, <2>6, <3>2 DEF Get, Raises
  <2> QED  BY <2>4, <2>5, <2>6
<1> QED  BY <1>1, CacheInvariant, PTL

=============================================================================
