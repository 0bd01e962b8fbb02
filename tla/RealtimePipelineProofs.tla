------------------------ MODULE RealtimePipelineProofs ------------------------
(***************************************************************************)
(* Proofs about RealtimePipeline: where every tick is, what the queue and  *)
(* the consumers count, what a shutdown leaves behind, that the pipeline   *)
(* implements TickDelivery, that the bars are those of the ticks applied,  *)
(* and that one consumer builds the bars of the batch aggregation, for any *)
(* feeds, consumers and size of the queue.                                 *)
(***************************************************************************)
EXTENDS RealtimePipeline, FiniteSetTheorems, WellFoundedInduction, TLAPS

-----------------------------------------------------------------------------
TaskStates == Live \cup {"RETURNED", "FAILED"}

\* How many ticks have left the queue.
Taken == ticks_produced - Len(queue)

TicksTypes ==
    /\ workers \subseteq Consumers
    /\ queue \in Seq(Nat) /\ ticks_produced \in Nat /\ Len(queue) <= ticks_produced
    /\ task \in [Consumers -> TaskStates]
    /\ event \in [Consumers -> Nat]

\* Every accepted tick is at one place: the last ones in the queue, in order; of those
\* taken each is in one consumer's hands, processed or dropped.
TicksInv ==
    /\ TicksTypes
    /\ \A i \in 1 .. Len(queue) : queue[i] = Taken + i
    /\ \A c \in Consumers : event[c] # NoTick <=> task[c] \in Busy
    /\ \A c, d \in Consumers : event[c] = event[d] /\ event[c] # NoTick => c = d
    /\ \A c \in Consumers \ workers : task[c] = "IDLE"
    /\ InHand \cup processed \cup dropped = 1 .. Taken
    /\ InHand \cap processed = {} /\ InHand \cap dropped = {} /\ processed \cap dropped = {}

tickVars == <<workers, queue, ticks_produced, task, event, processed, dropped>>

-----------------------------------------------------------------------------
(* What a step can do to the ticks.                                        *)

PutStep ==
    /\ queue' = Append(queue, ticks_produced + 1)
    /\ ticks_produced' = ticks_produced + 1
    /\ UNCHANGED <<workers, task, event, processed, dropped>>

TakeStep(c) ==
    /\ task[c] = "IDLE" /\ queue # <<>>
    /\ event' = [event EXCEPT ![c] = Head(queue)]
    /\ queue' = Tail(queue)
    /\ task' = [task EXCEPT ![c] = "ON_TICK"]
    /\ UNCHANGED <<workers, ticks_produced, processed, dropped>>

MoveStep(c, next) ==
    /\ task[c] \in Busy <=> next \in Busy
    /\ task[c] \in Live
    /\ task' = [task EXCEPT ![c] = next]
    /\ UNCHANGED <<workers, queue, ticks_produced, event, processed, dropped>>

LeaveStep(c, next) ==
    /\ task[c] \in Busy /\ next \notin Busy
    /\ event' = [event EXCEPT ![c] = NoTick]
    /\ task' = [task EXCEPT ![c] = next]
    /\ \/ processed' = processed \cup {event[c]} /\ UNCHANGED dropped
       \/ dropped' = dropped \cup {event[c]} /\ UNCHANGED processed
    /\ UNCHANGED <<workers, queue, ticks_produced>>

\* Each step is one of these.
LEMMA ConsumerStepKinds ==
  ASSUME NEW c \in workers, ConsumerStep(c)
  PROVE  TakeStep(c) \/ \E next \in TaskStates : MoveStep(c, next) \/ LeaveStep(c, next)
<1> USE DEF TaskStates, Live, Busy
<1>1. CASE TakeTick(c)
  BY <1>1 DEF TakeTick, TakeStep, configVars, historyVars
<1>2. CASE ApplyTick(c)
  <2>1. CASE task' = [task EXCEPT ![c] = "ON_BAR"] /\ UNCHANGED <<event, processed>>
    <3>1. MoveStep(c, "ON_BAR")
      BY <1>2, <2>1 DEF ApplyTick, MoveStep, configVars
    <3> QED  BY <3>1
  <2>2. CASE Consumed(c)
    <3>1. LeaveStep(c, "IDLE")
      BY <1>2, <2>2 DEF ApplyTick, Consumed, LeaveTick, LeaveStep, configVars
    <3> QED  BY <3>1
  <2> QED  BY <1>2, <2>1, <2>2 DEF ApplyTick
<1>3. CASE BarHandled(c)
  <2>1. LeaveStep(c, "IDLE")
    BY <1>3 DEF BarHandled, Consumed, LeaveTick, LeaveStep, configVars
  <2> QED  BY <2>1
<1>4. CASE CallbackRaises(c)
  <2>1. LeaveStep(c, "FAILED")
    BY <1>4 DEF CallbackRaises, LeaveTick, LeaveStep, configVars
  <2> QED  BY <2>1
<1>5. CASE ConsumerReturn(c)
  <2>1. MoveStep(c, "RETURNED")
    BY <1>5 DEF ConsumerReturn, MoveStep, configVars, queueVars, historyVars
  <2> QED  BY <2>1
<1>6. CASE ConsumerCancelled(c)
  <2>1. CASE task[c] = "IDLE"
    <3>1. MoveStep(c, "RETURNED")
      BY <1>6, <2>1 DEF ConsumerCancelled, MoveStep, configVars
    <3> QED  BY <3>1
  <2>2. CASE task[c] \in Busy
    <3>1. LeaveStep(c, "RETURNED")
      BY <1>6, <2>2 DEF ConsumerCancelled, LeaveTick, LeaveStep, configVars
    <3> QED  BY <3>1
  <2> QED  BY <1>6, <2>1, <2>2 DEF ConsumerCancelled
<1> QED  BY <1>1, <1>2, <1>3, <1>4, <1>5, <1>6 DEF ConsumerStep

\* Producer, driver and timer accept a tick or leave the ticks alone.
LEMMA OtherStepKinds ==
  ASSUME ProducerStep \/ DriverStep \/ Timer \/ Stop \/ UNCHANGED vars
  PROVE  PutStep \/ UNCHANGED tickVars
<1> USE DEF tickVars, configVars, queueVars, consumerVars, historyVars
<1>1. CASE ProducerStep
  BY <1>1 DEF ProducerStep, ProducerPut, ProducerReturn, PutStep
<1>2. CASE DriverStep
  BY <1>2 DEF DriverStep, AwaitJoin, StopConsumers, FinishRun, RaiseTimeout
<1>3. CASE Timer \/ Stop
  BY <1>3 DEF Timer, TimeoutAbsorbed, Timeout, Stop
<1>4. CASE UNCHANGED vars
  BY <1>4 DEF vars
<1> QED  BY <1>1, <1>2, <1>3, <1>4

-----------------------------------------------------------------------------
(* The ticks in the consumers' hands.                                      *)

\* Taking a tick adds the oldest one of the queue to those in hand.
LEMMA InHandGrows ==
  ASSUME TicksInv, NEW c \in Consumers, TakeStep(c)
  PROVE  /\ Head(queue) = Taken + 1 /\ Taken \in Nat /\ event[c] = NoTick
         /\ InHand' = InHand \cup {Taken + 1}
         /\ Taken + 1 \notin InHand \cup processed \cup dropped
<1>1. queue \in Seq(Nat) /\ Len(queue) \in Nat \ {0} /\ Taken \in Nat
  BY DEF TicksInv, TicksTypes, TakeStep, Taken
<1>2. Head(queue) = Taken + 1
  BY <1>1 DEF TicksInv
<1>3. event[c] = NoTick
  BY DEF TicksInv, TakeStep, Busy
<1>4. event \in [Consumers -> Nat] /\ event' = [event EXCEPT ![c] = Taken + 1]
  BY <1>2 DEF TicksInv, TicksTypes, TakeStep
<1>5. InHand' = InHand \cup {Taken + 1}
  BY <1>1, <1>3, <1>4 DEF InHand, NoTick
<1>6. Taken + 1 \notin InHand \cup processed \cup dropped
  BY <1>1 DEF TicksInv
<1> QED  BY <1>1, <1>2, <1>3, <1>5, <1>6

\* A consumer that is done with a tick holds nothing.
LEMMA InHandShrinks ==
  ASSUME TicksInv, NEW c \in Consumers, NEW next, LeaveStep(c, next)
  PROVE  event[c] \in InHand /\ InHand' = InHand \ {event[c]}
<1>1. event \in [Consumers -> Nat] /\ event' = [event EXCEPT ![c] = NoTick] /\ event[c] # NoTick
  BY DEF TicksInv, TicksTypes, LeaveStep
<1>2. \A d \in Consumers : event[d] = event[c] => d = c
  BY <1>1 DEF TicksInv
<1> QED  BY <1>1, <1>2 DEF InHand, NoTick

\* Accepting a tick puts it at the end of the queue and nowhere else.
LEMMA PutKeepsTicks ==
  ASSUME TicksInv, PutStep
  PROVE  TicksInv' /\ InHand' = InHand
<1>1. InHand' = InHand
  BY DEF PutStep, InHand
<1>2. queue \in Seq(Nat) /\ ticks_produced \in Nat /\ Len(queue) <= ticks_produced
  BY DEF TicksInv, TicksTypes
<1>3. /\ queue' \in Seq(Nat) /\ Len(queue') = Len(queue) + 1 /\ Taken' = Taken
      /\ ticks_produced' = ticks_produced + 1 /\ queue'[Len(queue) + 1] = Taken + (Len(queue) + 1)
      /\ \A i \in 1 .. Len(queue) : queue'[i] = queue[i]
  BY <1>2 DEF PutStep, Taken
<1>4. \A i \in 1 .. Len(queue') : queue'[i] = Taken' + i
  <2> SUFFICES ASSUME NEW i \in 1 .. Len(queue) + 1 PROVE queue'[i] = Taken + i
    BY <1>3
  <2>1. CASE i \in 1 .. Len(queue)
    BY <1>3, <2>1 DEF TicksInv
  <2>2. CASE i = Len(queue) + 1
    BY <1>3, <2>2
  <2> QED  BY <1>2, <2>1, <2>2
<1>5. TicksTypes'
  BY <1>2, <1>3 DEF TicksInv, TicksTypes, PutStep
<1>6. UNCHANGED <<workers, task, event, processed, dropped>>
  BY DEF PutStep
<1> QED  BY <1>1, <1>3, <1>4, <1>5, <1>6 DEF TicksInv

\* Taking a tick moves it from the queue into one consumer's hands.
LEMMA TakeKeepsTicks ==
  ASSUME TicksInv, NEW c \in workers, TakeStep(c)
  PROVE  TicksInv'
<1>1. c \in Consumers
  BY DEF TicksInv, TicksTypes
<1>2. /\ Head(queue) = Taken + 1 /\ Taken \in Nat /\ event[c] = NoTick
      /\ InHand' = InHand \cup {Taken + 1}
      /\ Taken + 1 \notin InHand \cup processed \cup dropped
  BY <1>1, InHandGrows
<1>3. /\ queue \in Seq(Nat) /\ ticks_produced \in Nat /\ Len(queue) <= ticks_produced
      /\ Len(queue) \in Nat \ {0} /\ ticks_produced' = ticks_produced
  BY DEF TicksInv, TicksTypes, TakeStep
<1>4. /\ queue' \in Seq(Nat) /\ Len(queue') = Len(queue) - 1
      /\ \A i \in 1 .. Len(queue') : queue'[i] = queue[i + 1]
  BY <1>3 DEF TakeStep
<1>5. Taken' = Taken + 1
  BY <1>3, <1>4 DEF Taken
<1>6. \A i \in 1 .. Len(queue') : queue'[i] = Taken' + i
  <2> SUFFICES ASSUME NEW i \in 1 .. Len(queue') PROVE queue'[i] = Taken + 1 + i
    BY <1>5
  <2>1. i + 1 \in 1 .. Len(queue) /\ queue'[i] = queue[i + 1]
    BY <1>3, <1>4
  <2>2. queue[i + 1] = Taken + (i + 1)
    BY <2>1 DEF TicksInv
  <2> QED  BY <1>2, <2>1, <2>2
<1>7. /\ event' = [event EXCEPT ![c] = Taken + 1] /\ task' = [task EXCEPT ![c] = "ON_TICK"]
      /\ UNCHANGED <<workers, processed, dropped>>
      /\ task \in [Consumers -> TaskStates] /\ event \in [Consumers -> Nat]
  BY <1>2 DEF TakeStep, TicksInv, TicksTypes
<1>8. TicksTypes'
  BY <1>1, <1>2, <1>3, <1>4, <1>7 DEF TicksInv, TicksTypes, TaskStates, Live
<1>9. \A d \in Consumers : event'[d] # NoTick <=> task'[d] \in Busy
  BY <1>1, <1>2, <1>7 DEF TicksInv, NoTick, Busy
<1>10. \A d, e \in Consumers : event'[d] = event'[e] /\ event'[d] # NoTick => d = e
  <2>1. \A d \in Consumers : event[d] # Taken + 1
    BY <1>2 DEF InHand, NoTick
  <2> QED  BY <1>1, <1>7, <2>1 DEF TicksInv
<1>11. \A d \in Consumers \ workers' : task'[d] = "IDLE"
  BY <1>1, <1>7 DEF TicksInv
<1>12. InHand' \cup processed' \cup dropped' = 1 .. Taken'
  <2>1. 1 .. Taken + 1 = (1 .. Taken) \cup {Taken + 1}
    BY <1>2
  <2> QED  BY <1>2, <1>5, <1>7, <2>1 DEF TicksInv
<1>13. InHand' \cap processed' = {} /\ InHand' \cap dropped' = {} /\ processed' \cap dropped' = {}
  BY <1>2, <1>7 DEF TicksInv
<1> QED  BY <1>6, <1>8, <1>9, <1>10, <1>11, <1>12, <1>13 DEF TicksInv

\* Going on to the next callback keeps the tick in hand.
LEMMA MoveKeepsTicks ==
  ASSUME TicksInv, NEW c \in workers, NEW next \in TaskStates, MoveStep(c, next)
  PROVE  TicksInv' /\ InHand' = InHand
<1>1. c \in Consumers /\ task \in [Consumers -> TaskStates] /\ task' = [task EXCEPT ![c] = next]
      /\ UNCHANGED <<workers, queue, ticks_produced, event, processed, dropped>>
  BY DEF TicksInv, TicksTypes, MoveStep
<1>2. InHand' = InHand /\ Taken' = Taken
  BY <1>1 DEF InHand, Taken
<1>3. TicksTypes'
  BY <1>1 DEF TicksInv, TicksTypes
<1>4. \A d \in Consumers : event'[d] # NoTick <=> task'[d] \in Busy
  BY <1>1 DEF TicksInv, MoveStep
<1>5. \A d \in Consumers \ workers' : task'[d] = "IDLE"
  BY <1>1 DEF TicksInv
<1> QED  BY <1>1, <1>2, <1>3, <1>4, <1>5 DEF TicksInv

\* A tick that leaves a consumer's hands is processed or dropped, not both.
LEMMA LeaveKeepsTicks ==
  ASSUME TicksInv, NEW c \in workers, NEW next \in TaskStates, LeaveStep(c, next)
  PROVE  TicksInv'
<1>1. c \in Consumers /\ task \in [Consumers -> TaskStates] /\ event \in [Consumers -> Nat]
      /\ task' = [task EXCEPT ![c] = next] /\ event' = [event EXCEPT ![c] = NoTick]
      /\ UNCHANGED <<workers, queue, ticks_produced>>
  BY DEF TicksInv, TicksTypes, LeaveStep
<1>2. event[c] \in InHand /\ InHand' = InHand \ {event[c]} /\ Taken' = Taken
  BY <1>1, InHandShrinks DEF Taken
<1>3. TicksTypes'
  BY <1>1 DEF TicksInv, TicksTypes, NoTick
<1>4. \A d \in Consumers : event'[d] # NoTick <=> task'[d] \in Busy
  BY <1>1 DEF TicksInv, LeaveStep
<1>5. \A d, e \in Consumers : event'[d] = event'[e] /\ event'[d] # NoTick => d = e
  BY <1>1 DEF TicksInv
<1>6. \A d \in Consumers \ workers' : task'[d] = "IDLE"
  BY <1>1 DEF TicksInv
<1>7. /\ InHand' \cup processed' \cup dropped' = 1 .. Taken'
      /\ InHand' \cap processed' = {} /\ InHand' \cap dropped' = {} /\ processed' \cap dropped' = {}
  BY <1>2 DEF TicksInv, LeaveStep
<1>8. \A i \in 1 .. Len(queue') : queue'[i] = Taken' + i
  BY <1>1, <1>2 DEF TicksInv
<1> QED  BY <1>3, <1>4, <1>5, <1>6, <1>7, <1>8 DEF TicksInv

\* A step that leaves the ticks alone keeps their invariant.
LEMMA SameTicks ==
  ASSUME TicksInv, UNCHANGED tickVars
  PROVE  TicksInv' /\ InHand' = InHand
BY DEF TicksInv, TicksTypes, tickVars, Taken, InHand

\* Every step keeps each tick at one place.
LEMMA TicksStep ==
  ASSUME TicksInv, [Next]_vars
  PROVE  TicksInv'
<1>1. ASSUME NEW c \in workers, ConsumerStep(c) PROVE TicksInv'
  BY <1>1, ConsumerStepKinds, TakeKeepsTicks, MoveKeepsTicks, LeaveKeepsTicks
<1>2. CASE ProducerStep \/ DriverStep \/ Timer \/ Stop \/ UNCHANGED vars
  BY <1>2, OtherStepKinds, PutKeepsTicks, SameTicks
<1> QED  BY <1>1, <1>2 DEF Next

\* No tick is accepted before the start.
LEMMA TicksInitially == Init => TicksInv
<1> SUFFICES ASSUME Init PROVE TicksInv
  OBVIOUS
<1>1. TicksTypes
  BY DEF Init, TicksTypes, TaskStates, Live, NoTick
<1>2. InHand = {} /\ Taken = 0 /\ processed = {} /\ dropped = {} /\ queue = <<>>
  <2>1. \A c \in Consumers : event[c] = NoTick
    BY DEF Init
  <2>2. InHand = {}
    BY <2>1 DEF InHand
  <2>3. queue = <<>> /\ ticks_produced = 0 /\ processed = {} /\ dropped = {}
    BY DEF Init
  <2>4. Len(queue) = 0
    BY <2>3
  <2>5. Taken = 0 - 0
    BY <2>3, <2>4, Zenon DEF Taken
  <2> QED  BY <2>2, <2>3, <2>5
<1> QED  BY <1>1, <1>2 DEF Init, TicksInv, NoTick, Busy

-----------------------------------------------------------------------------
(* Sums over finite sets.  The library takes the elements one by one.      *)

\* The element the library's sum takes next.
AnyOf(s) == CHOOSE x \in s : TRUE

\* g sums d over the subsets of S.
Sums(g, S, d) ==
    \A s \in SUBSET S : g[s] = IF s = {} THEN 0 ELSE d[AnyOf(s)] + g[s \ {AnyOf(s)}]

\* ... integers, of a finite set.
IsSum(g, S, d) ==
    IsFiniteSet(S) /\ d \in [S -> Int] /\ g \in [SUBSET S -> Int] /\ Sums(g, S, d)

\* A set of numbers has a least one ...
LEMMA LeastNumber ==
  ASSUME NEW S, S \subseteq Nat, S # {}
  PROVE  \E m \in S : \A k \in S : m <= k
<1>1. \E m \in S : \A k \in S : <<k, m>> \notin OpToRel(<, Nat)
  BY NatLessThanWellFounded, WFMin
<1>2. PICK m \in S : \A k \in S : <<k, m>> \notin OpToRel(<, Nat)
  BY <1>1
<1>3. ASSUME NEW k \in S PROVE m <= k
  <2>1. k \in Nat /\ m \in Nat
    OBVIOUS
  <2>2. ~(k < m)
    BY <1>2, <2>1 DEF OpToRel
  <2> QED  BY <2>1, <2>2
<1> QED  BY <1>3

\* ... so that it is enough to go from one number to the next.
LEMMA EveryNumber ==
  ASSUME NEW P \in SUBSET Nat, 0 \in P, \A n \in P : n + 1 \in P
  PROVE  P = Nat
<1> SUFFICES ASSUME Nat \ P # {} PROVE FALSE
  OBVIOUS
<1>1. PICK m \in Nat \ P : \A k \in Nat \ P : m <= k
  BY LeastNumber
<1>2. m \in Nat \ {0} /\ m - 1 \in Nat /\ ~(m <= m - 1) /\ m - 1 + 1 = m
  BY <1>1
<1> QED  BY <1>1, <1>2

\* Taking an element leaves a smaller set.
LEMMA TakeAny ==
  ASSUME NEW s, IsFiniteSet(s), s # {}
  PROVE  /\ AnyOf(s) \in s
         /\ IsFiniteSet(s \ {AnyOf(s)})
         /\ Cardinality(s) \in Nat \ {0}
         /\ Cardinality(s \ {AnyOf(s)}) = Cardinality(s) - 1
<1>1. AnyOf(s) \in s
  BY DEF AnyOf
<1>2. Cardinality(s) \in Nat /\ Cardinality(s) # 0
  BY FS_CardinalityType, FS_EmptySet
<1> QED  BY <1>1, <1>2, FS_RemoveElement

\* A sum over the subsets of a finite set exists ...
LEMMA SumExists ==
  ASSUME NEW S, IsFiniteSet(S), NEW d \in [S -> Int]
  PROVE  \E g : IsSum(g, S, d)
<1> DEFINE Solves(g, n) == \A s \in SUBSET S : Cardinality(s) <= n =>
                g[s] = IF s = {} THEN 0 ELSE d[AnyOf(s)] + g[s \ {AnyOf(s)}]
           P == {n \in Nat : \E g \in [SUBSET S -> Int] : Solves(g, n)}
<1>1. \A s \in SUBSET S : /\ IsFiniteSet(s) /\ Cardinality(s) \in Nat
                          /\ Cardinality(s) = 0 <=> s = {}
                          /\ Cardinality(s) <= Cardinality(S)
  BY FS_Subset, FS_CardinalityType, FS_EmptySet
<1>2. \A s \in SUBSET S : s # {} =>
         /\ AnyOf(s) \in S /\ s \ {AnyOf(s)} \in SUBSET S
         /\ Cardinality(s \ {AnyOf(s)}) = Cardinality(s) - 1
  BY <1>1, TakeAny
<1>3. 0 \in P
  <2> DEFINE g == [s \in SUBSET S |-> 0]
  <2>1. g \in [SUBSET S -> Int]
    OBVIOUS
  <2>2. Solves(g, 0)
    BY <1>1
  <2> QED  BY <2>1, <2>2
<1>4. ASSUME NEW n \in P PROVE n + 1 \in P
  <2>1. PICK g \in [SUBSET S -> Int] : Solves(g, n)
    BY <1>4
  <2> HIDE DEF P
  <2>2. n \in Nat
    BY <1>4 DEF P
  <2> DEFINE h == [s \in SUBSET S |-> IF s = {} THEN 0
                                      ELSE IF Cardinality(s) <= n THEN g[s]
                                      ELSE d[AnyOf(s)] + g[s \ {AnyOf(s)}]]
  <2>3. h \in [SUBSET S -> Int]
    BY <1>2
  <2>4. ASSUME NEW s \in SUBSET S, Cardinality(s) <= n PROVE h[s] = g[s]
    BY <2>1, <2>4
  <2>5. ASSUME NEW s \in SUBSET S, Cardinality(s) <= n + 1
        PROVE  h[s] = IF s = {} THEN 0 ELSE d[AnyOf(s)] + h[s \ {AnyOf(s)}]
    <3>1. CASE s = {}
      BY <3>1
    <3>2. CASE s # {}
      <4>1. s \ {AnyOf(s)} \in SUBSET S /\ Cardinality(s \ {AnyOf(s)}) <= n
        BY <1>1, <1>2, <2>2, <2>5, <3>2
      <4>2. h[s \ {AnyOf(s)}] = g[s \ {AnyOf(s)}]
        BY <2>4, <4>1
      <4>3. h[s] = d[AnyOf(s)] + g[s \ {AnyOf(s)}]
        BY <2>1, <3>2
      <4> QED  BY <3>2, <4>2, <4>3
    <3> QED  BY <3>1, <3>2
  <2> HIDE DEF h
  <2>6. n + 1 \in Nat
    BY <2>2
  <2>7. Solves(h, n + 1)
    BY <2>5
  <2> QED  BY <2>3, <2>6, <2>7 DEF P
<1>5. Cardinality(S) \in P
  <2> HIDE DEF P
  <2>1. P \in SUBSET Nat
    BY DEF P
  <2>2. P = Nat
    BY <1>3, <1>4, <2>1, EveryNumber
  <2> QED  BY <1>1, <2>2
<1>6. PICK g \in [SUBSET S -> Int] : Solves(g, Cardinality(S))
  BY <1>5
<1> QED  BY <1>1, <1>6 DEF IsSum, Sums

\* ... and depends on nothing but the terms it adds.
LEMMA SumsAgree ==
  ASSUME NEW S, NEW T \in SUBSET S, NEW d, NEW g, IsSum(g, S, d),
         NEW e, NEW h, Sums(h, T, e), \A i \in T : e[i] = d[i]
  PROVE  h[T] = g[T]
<1> USE DEF IsSum
<1> DEFINE P == {n \in Nat : \A s \in SUBSET T : Cardinality(s) = n => h[s] = g[s]}
<1>1. \A s \in SUBSET T : /\ IsFiniteSet(s) /\ Cardinality(s) \in Nat
                          /\ Cardinality(s) = 0 <=> s = {}
  BY FS_Subset, FS_CardinalityType, FS_EmptySet
<1>2. 0 \in P
  BY <1>1 DEF Sums
<1>3. ASSUME NEW n \in P PROVE n + 1 \in P
  <2>1. n \in Nat /\ n + 1 \in Nat /\ n + 1 # 0 /\ n + 1 - 1 = n
    OBVIOUS
  <2>2. ASSUME NEW s \in SUBSET T, Cardinality(s) = n + 1 PROVE h[s] = g[s]
    <3>1. s # {}
      BY <1>1, <2>1, <2>2
    <3>2. AnyOf(s) \in T /\ s \ {AnyOf(s)} \in SUBSET T /\ Cardinality(s \ {AnyOf(s)}) = n
      BY <1>1, <2>1, <2>2, <3>1, TakeAny
    <3>3. h[s \ {AnyOf(s)}] = g[s \ {AnyOf(s)}]
      BY <3>2
    <3>4. h[s] = e[AnyOf(s)] + h[s \ {AnyOf(s)}]
      BY <3>1 DEF Sums
    <3>5. g[s] = d[AnyOf(s)] + g[s \ {AnyOf(s)}]
      BY <3>1 DEF Sums
    <3> QED  BY <3>2, <3>3, <3>4, <3>5
  <2> QED  BY <2>1, <2>2
<1>4. Cardinality(T) \in P
  <2>1. P \in SUBSET Nat
    OBVIOUS
  <2> HIDE DEF P
  <2> QED  BY <1>1, <1>2, <1>3, <2>1, EveryNumber
<1> QED  BY <1>4

\* The order does not matter: one element more adds its term.
LEMMA SumInsert ==
  ASSUME NEW S, NEW d, NEW g, IsSum(g, S, d)
  PROVE  \A s \in SUBSET S : \A a \in S \ s : g[s \cup {a}] = d[a] + g[s]
<1> USE DEF IsSum
<1> DEFINE P == {n \in Nat : \A s \in SUBSET S : \A a \in S \ s :
                     Cardinality(s) = n => g[s \cup {a}] = d[a] + g[s]}
<1>1. \A s \in SUBSET S : /\ IsFiniteSet(s) /\ Cardinality(s) \in Nat
                          /\ Cardinality(s) = 0 <=> s = {}
  BY FS_Subset, FS_CardinalityType, FS_EmptySet
<1>2. 0 \in P
  <2>1. ASSUME NEW a \in S PROVE g[{} \cup {a}] = d[a] + g[{}]
    <3>1. AnyOf({a}) = a
      BY DEF AnyOf
    <3>2. {} \cup {a} = {a} /\ {a} \ {a} = {} /\ {a} # {} /\ {a} \in SUBSET S
      OBVIOUS
    <3> QED  BY <3>1, <3>2 DEF Sums
  <2> QED  BY <1>1, <2>1
<1>3. ASSUME NEW n \in P PROVE n + 1 \in P
  <2>1. n \in Nat /\ n + 1 \in Nat /\ n + 1 # 0 /\ n + 1 - 1 = n
    OBVIOUS
  <2>2. ASSUME NEW s \in SUBSET S, NEW a \in S \ s, Cardinality(s) = n + 1
        PROVE  g[s \cup {a}] = d[a] + g[s]
    <3> DEFINE t == s \cup {a}  x == AnyOf(t)
    <3>1. t \in SUBSET S /\ IsFiniteSet(t) /\ t # {}
      BY <1>1
    <3>2. x \in t /\ g[t] = d[x] + g[t \ {x}]
      BY <3>1, TakeAny DEF Sums
    <3>3. CASE x = a
      <4>1. t \ {x} = s
        BY <3>3
      <4> QED  BY <3>2, <3>3, <4>1
    <3>4. CASE x # a
      <4> DEFINE r == s \ {x}
      <4>1. x \in s /\ x \in S \ r /\ a \in S \ r /\ r \in SUBSET S
        BY <3>2, <3>4
      <4>2. Cardinality(r) = n
        <5> HIDE DEF x
        <5>1. IsFiniteSet(s) /\ Cardinality(r) = Cardinality(s) - 1
          BY <1>1, <4>1, FS_RemoveElement
        <5> QED  BY <2>1, <2>2, <5>1
      <4>3. g[r \cup {x}] = d[x] + g[r] /\ g[r \cup {a}] = d[a] + g[r]
        <5> HIDE DEF r, x, t
        <5> QED  BY <4>1, <4>2
      <4>4. r \cup {x} = s /\ t \ {x} = r \cup {a}
        BY <3>4, <4>1
      <4>5. d[x] \in Int /\ d[a] \in Int /\ g[r] \in Int
        BY <4>1
      <4>6. g[s] = d[x] + g[r] /\ g[t] = d[x] + g[r \cup {a}]
        <5> HIDE DEF r, x, t
        <5> QED  BY <3>2, <4>3, <4>4
      <4>7. g[t] = d[a] + g[s]
        <5> HIDE DEF r, x, t
        <5> QED  BY <4>3, <4>5, <4>6
      <4> QED  BY <4>7
    <3> QED  BY <3>3, <3>4
  <2> QED  BY <2>1, <2>2
<1>4. P = Nat
  <2>1. P \in SUBSET Nat
    OBVIOUS
  <2> HIDE DEF P
  <2> QED  BY <1>2, <1>3, <2>1, EveryNumber
<1> QED  BY <1>1, <1>4

\* The sum over one element more is larger by the value of that element.
LEMMA SumGrows ==
  ASSUME NEW T, NEW S, NEW a \in T \ S, T = S \cup {a}, NEW d, NEW g, IsSum(g, T, d)
  PROVE  g[T] = d[a] + g[S]
<1>1. S \in SUBSET T
  OBVIOUS
<1> QED  BY <1>1, SumInsert

\* The two sums of the model: of the consumers' counts, and of the volumes of ticks.
Total(d, S) == MapThenSumSet(LAMBDA i : d[i], S)

Volume(ticks, S) == MapThenSumSet(LAMBDA k : ticks[k].volume, S)

\* The volumes of the ticks S.
Volumes(ticks, S) == [k \in S |-> ticks[k].volume]

\* Each of the two is a sum as above: the recursion of the library has a solution.
LEMMA TotalIs ==
  ASSUME NEW S, IsFiniteSet(S), NEW d \in [S -> Int]
  PROVE  \E g : IsSum(g, S, d) /\ Total(d, S) = g[S]
<1> DEFINE Solves(it) == it = [s \in SUBSET S |-> IF s = {} THEN 0
                             ELSE d[CHOOSE x \in s : TRUE] + it[s \ {CHOOSE x \in s : TRUE}]]
           sum == CHOOSE it : Solves(it)
<1>1. Total(d, S) = sum[S]
  BY DEF Total, MapThenSumSet, MapThenFoldSet
<1>2. PICK g : IsSum(g, S, d)
  BY SumExists
<1>3. g = [s \in SUBSET S |-> g[s]]
  BY <1>2 DEF IsSum
<1>4. Solves(g)
  BY <1>2, <1>3 DEF IsSum, Sums, AnyOf
<1>5. Solves(sum)
  BY <1>4
<1> HIDE DEF sum
<1>6. Sums(sum, S, d)
  BY <1>5 DEF Sums, AnyOf
<1>7. sum[S] = g[S]
  BY <1>2, <1>6, SumsAgree
<1> QED  BY <1>1, <1>2, <1>7

\* The volume of a set of ticks is a sum over that set.
LEMMA VolumeIs ==
  ASSUME NEW S, IsFiniteSet(S), NEW ticks, \A k \in S : ticks[k].volume \in Int
  PROVE  \E g : IsSum(g, S, Volumes(ticks, S)) /\ Volume(ticks, S) = g[S]
<1> DEFINE Solves(it) == it = [s \in SUBSET S |-> IF s = {} THEN 0
                ELSE ticks[CHOOSE x \in s : TRUE].volume + it[s \ {CHOOSE x \in s : TRUE}]]
           sum == CHOOSE it : Solves(it)
           v == Volumes(ticks, S)
<1>0. /\ v \in [S -> Int]
      /\ \A s \in SUBSET S : s # {} => v[AnyOf(s)] = ticks[CHOOSE x \in s : TRUE].volume
  BY DEF Volumes, AnyOf
<1> HIDE DEF v
<1>1. Volume(ticks, S) = sum[S]
  BY DEF Volume, MapThenSumSet, MapThenFoldSet
<1>2. PICK g : IsSum(g, S, v)
  BY <1>0, SumExists
<1>3. g = [s \in SUBSET S |-> g[s]]
  BY <1>2 DEF IsSum
<1>4. Solves(g)
  <2>1. \A s \in SUBSET S : g[s] = IF s = {} THEN 0
            ELSE ticks[CHOOSE x \in s : TRUE].volume + g[s \ {CHOOSE x \in s : TRUE}]
    BY <1>0, <1>2 DEF IsSum, Sums, AnyOf
  <2> QED  BY <1>3, <2>1
<1>5. Solves(sum)
  BY <1>4
<1> HIDE DEF sum
<1>6. Sums(sum, S, v)
  <2>1. \A s \in SUBSET S : sum[s] = IF s = {} THEN 0
            ELSE ticks[CHOOSE x \in s : TRUE].volume + sum[s \ {CHOOSE x \in s : TRUE}]
    BY <1>5
  <2> QED  BY <1>0, <2>1 DEF Sums, AnyOf
<1>7. sum[S] = g[S]
  BY <1>0, <1>2, <1>6, SumsAgree
<1> QED  BY <1>1, <1>2, <1>7 DEF v

\* One more tick counted by one consumer is one more in all.
LEMMA TotalPlusOne ==
  ASSUME NEW S, IsFiniteSet(S), NEW d \in [S -> Int], NEW a \in S
  PROVE  Total([d EXCEPT ![a] = @ + 1], S) = Total(d, S) + 1
<1> DEFINE e == [d EXCEPT ![a] = @ + 1]
<1>1. e \in [S -> Int] /\ e[a] = d[a] + 1 /\ \A i \in S \ {a} : d[i] = e[i]
  OBVIOUS
<1> HIDE DEF e
<1>2. PICK g : IsSum(g, S, d) /\ Total(d, S) = g[S]
  BY TotalIs
<1>3. PICK h : IsSum(h, S, e) /\ Total(e, S) = h[S]
  BY <1>1, TotalIs
<1> DEFINE T == S \ {a}
<1>4. T \in SUBSET S /\ IsFiniteSet(T) /\ a \in S \ T /\ T \cup {a} = S
  BY FS_Subset
<1> HIDE DEF T
<1>5. g[T] = h[T]
  <2>1. Sums(g, T, d)
    BY <1>2, <1>4 DEF IsSum, Sums
  <2>2. T \subseteq S /\ \A i \in T : d[i] = e[i]
    BY <1>1, <1>4 DEF T
  <2> QED  BY <1>3, <1>4, <2>1, <2>2, SumsAgree
<1>6. g[S] = d[a] + g[T]
  BY <1>2, <1>4, SumGrows
<1>7. h[S] = e[a] + h[T]
  BY <1>3, <1>4, SumGrows
<1>8. d[a] \in Int /\ g[T] \in Int
  BY <1>2, <1>4 DEF IsSum
<1> QED  BY <1>1, <1>2, <1>3, <1>5, <1>6, <1>7, <1>8 DEF e

\* Nothing counted is nothing in all.
LEMMA TotalZero ==
  ASSUME NEW S, IsFiniteSet(S)
  PROVE  Total([i \in S |-> 0], S) = 0
<1> DEFINE d == [i \in S |-> 0]
           h == [s \in SUBSET S |-> 0]
<1>1. d \in [S -> Int]
  OBVIOUS
<1>2. Sums(h, S, d)
  BY DEF Sums, AnyOf
<1>3. h[S] = 0
  OBVIOUS
<1> HIDE DEF d, h
<1>4. PICK g : IsSum(g, S, d) /\ Total(d, S) = g[S]
  BY <1>1, TotalIs
<1>5. h[S] = g[S]
  BY <1>2, <1>4, SumsAgree
<1> QED  BY <1>3, <1>4, <1>5 DEF d

\* The volume of no ticks is nothing, that of the same ticks the same, and that of one tick
\* more is greater by its volume.
LEMMA NoVolume ==
  ASSUME NEW ticks
  PROVE  Volume(ticks, {}) = 0
<1>1. IsFiniteSet({})
  BY FS_EmptySet
<1>2. PICK g : IsSum(g, {}, Volumes(ticks, {})) /\ Volume(ticks, {}) = g[{}]
  BY <1>1, VolumeIs
<1> QED  BY <1>2 DEF IsSum, Sums

SameVolumes(more, ticks, S) ==
    /\ IsFiniteSet(S)
    /\ \A k \in S : ticks[k].volume \in Int /\ more[k].volume = ticks[k].volume

\* One tick more adds its volume to that of the others.
LEMMA VolumeInsert ==
  ASSUME NEW S, NEW ticks, NEW more, SameVolumes(more, ticks, S),
         NEW a, a \notin S, more[a].volume \in Int
  PROVE  /\ Volume(ticks, S) \in Int
         /\ Volume(more, S) = Volume(ticks, S)
         /\ Volume(more, S \cup {a}) = Volume(ticks, S) + more[a].volume
<1> USE DEF SameVolumes
<1> DEFINE T == S \cup {a}
<1>1. T # {} /\ S \in SUBSET T /\ a \in T \ S /\ IsFiniteSet(T) /\ S \cup {a} = T
  BY FS_AddElement
<1> HIDE DEF T
<1> DEFINE d == Volumes(ticks, S)  e == Volumes(more, S)  v == Volumes(more, T)
<1>2. /\ d \in [S -> Int] /\ e \in [S -> Int] /\ v \in [T -> Int] /\ v[a] = more[a].volume
      /\ \A k \in S : d[k] = v[k] /\ e[k] = v[k]
  BY <1>1 DEF Volumes, T
<1>3. PICK g : IsSum(g, S, d) /\ Volume(ticks, S) = g[S]
  BY VolumeIs
<1>4. PICK f : IsSum(f, S, e) /\ Volume(more, S) = f[S]
  <2>1. \A k \in S : more[k].volume \in Int
    OBVIOUS
  <2> QED  BY <2>1, VolumeIs
<1>5. PICK h : IsSum(h, T, v) /\ Volume(more, T) = h[T]
  <2>1. \A k \in T : more[k].volume \in Int
    BY <1>1 DEF T
  <2> QED  BY <1>1, <2>1, VolumeIs
<1> HIDE DEF d, e, v
<1>6. g[S] = h[S] /\ f[S] = h[S]
  <2>1. Sums(g, S, d) /\ Sums(f, S, e)
    BY <1>3, <1>4 DEF IsSum
  <2> QED  BY <1>1, <1>2, <1>5, <2>1, SumsAgree
<1>8. h[T] = v[a] + h[S]
  BY <1>1, <1>5, SumGrows
<1>9. g[S] \in Int
  BY <1>3 DEF IsSum
<1>10. Volume(more, T) = Volume(ticks, S) + more[a].volume
  BY <1>2, <1>3, <1>5, <1>6, <1>8, <1>9
<1> QED  BY <1>3, <1>4, <1>6, <1>9, <1>10 DEF T

-----------------------------------------------------------------------------
(* What the queue counts.                                                  *)

\* The counter that join waits for, and where the ticks are, in numbers.
QueueCounts ==
    /\ unfinished_tasks = Len(queue) + Cardinality(InHand)
    /\ ticks_produced = unfinished_tasks + Cardinality(processed) + Cardinality(dropped)

CountInv == unfinished_tasks = Len(queue) + Cardinality(InHand)

\* The ticks in hand can be counted.
LEMMA InHandFinite ==
  ASSUME TicksInv
  PROVE  IsFiniteSet(InHand) /\ Cardinality(InHand) \in Nat
<1>1. InHand \subseteq 1 .. Taken /\ Taken \in Nat
  BY DEF TicksInv, TicksTypes, Taken
<1>2. IsFiniteSet(1 .. Taken)
  BY <1>1, FS_Interval
<1> QED  BY <1>1, <1>2, FS_Subset, FS_CardinalityType

\* Every step keeps what join waits for equal to what is queued or in hand.
LEMMA CountStep ==
  ASSUME TicksInv, CountInv, [Next]_vars
  PROVE  CountInv'
<1>0. IsFiniteSet(InHand) /\ Cardinality(InHand) \in Nat /\ Len(queue) \in Nat /\ queue \in Seq(Nat)
  BY InHandFinite DEF TicksInv, TicksTypes
<1>1. CASE ProducerPut
  <2>1. PutStep /\ unfinished_tasks' = unfinished_tasks + 1
    BY <1>1 DEF ProducerPut, PutStep, configVars, consumerVars, historyVars
  <2>2. InHand' = InHand /\ Len(queue') = Len(queue) + 1
    BY <1>0, <2>1, PutKeepsTicks DEF PutStep
  <2> QED  BY <1>0, <2>1, <2>2 DEF CountInv
<1>2. ASSUME NEW c \in workers, TakeTick(c) PROVE CountInv'
  <2>1. TakeStep(c) /\ unfinished_tasks' = unfinished_tasks /\ c \in Consumers
    BY <1>2 DEF TakeTick, TakeStep, configVars, historyVars, TicksInv, TicksTypes
  <2>2. InHand' = InHand \cup {Taken + 1} /\ Taken + 1 \notin InHand
    BY <2>1, InHandGrows
  <2>3. Cardinality(InHand') = Cardinality(InHand) + 1
    BY <1>0, <2>2, FS_AddElement
  <2>4. Len(queue') = Len(queue) - 1
    BY <1>0, <2>1 DEF TakeStep
  <2> QED  BY <1>0, <2>1, <2>3, <2>4 DEF CountInv
<1>3. ASSUME NEW c \in workers, NEW next, LeaveStep(c, next), unfinished_tasks' = unfinished_tasks - 1
      PROVE  CountInv'
  <2>1. event[c] \in InHand /\ InHand' = InHand \ {event[c]}
    BY <1>3, InHandShrinks DEF TicksInv, TicksTypes
  <2>2. Cardinality(InHand') = Cardinality(InHand) - 1
    BY <1>0, <2>1, FS_RemoveElement
  <2> QED  BY <1>0, <1>3, <2>2 DEF CountInv, LeaveStep
<1>4. ASSUME NEW c \in workers, NEW next \in TaskStates, MoveStep(c, next), UNCHANGED unfinished_tasks
      PROVE  CountInv'
  BY <1>4, MoveKeepsTicks DEF CountInv, MoveStep
<1>5. ASSUME NEW c \in workers,
             ApplyTick(c) \/ BarHandled(c) \/ CallbackRaises(c) \/ ConsumerReturn(c) \/ ConsumerCancelled(c)
      PROVE  \E next \in TaskStates :
                \/ LeaveStep(c, next) /\ unfinished_tasks' = unfinished_tasks - 1
                \/ MoveStep(c, next) /\ UNCHANGED unfinished_tasks
  <2> USE DEF TaskStates, Live, Busy, LeaveTick, Consumed, configVars, queueVars, historyVars
  <2>1. CASE ApplyTick(c) /\ Consumed(c)
    <3>1. LeaveStep(c, "IDLE") /\ unfinished_tasks' = unfinished_tasks - 1
      BY <2>1 DEF ApplyTick, LeaveStep
    <3> QED  BY <3>1
  <2>2. CASE /\ ApplyTick(c)
             /\ task' = [task EXCEPT ![c] = "ON_BAR"] /\ UNCHANGED <<unfinished_tasks, event, processed>>
    <3>1. MoveStep(c, "ON_BAR")
      BY <2>2 DEF ApplyTick, MoveStep
    <3> QED  BY <2>2, <3>1
  <2>3. CASE BarHandled(c)
    <3>1. LeaveStep(c, "IDLE") /\ unfinished_tasks' = unfinished_tasks - 1
      BY <2>3 DEF BarHandled, LeaveStep
    <3> QED  BY <3>1
  <2>4. CASE CallbackRaises(c)
    <3>1. LeaveStep(c, "FAILED") /\ unfinished_tasks' = unfinished_tasks - 1
      BY <2>4 DEF CallbackRaises, LeaveStep
    <3> QED  BY <3>1
  <2>5. CASE ConsumerReturn(c)
    <3>1. MoveStep(c, "RETURNED") /\ UNCHANGED unfinished_tasks
      BY <2>5 DEF ConsumerReturn, MoveStep
    <3> QED  BY <3>1
  <2>6. CASE ConsumerCancelled(c) /\ task[c] = "IDLE"
    <3>1. MoveStep(c, "RETURNED") /\ UNCHANGED unfinished_tasks
      BY <2>6 DEF ConsumerCancelled, MoveStep
    <3> QED  BY <3>1
  <2>7. CASE ConsumerCancelled(c) /\ task[c] \in Busy
    <3>1. LeaveStep(c, "RETURNED") /\ unfinished_tasks' = unfinished_tasks - 1
      BY <2>7 DEF ConsumerCancelled, LeaveStep
    <3> QED  BY <3>1
  <2>8. ApplyTick(c) => \/ Consumed(c)
                       \/ /\ task' = [task EXCEPT ![c] = "ON_BAR"]
                          /\ UNCHANGED <<unfinished_tasks, event, processed>>
    BY DEF ApplyTick
  <2> QED  BY <1>5, <2>1, <2>2, <2>3, <2>4, <2>5, <2>6, <2>7, <2>8 DEF ConsumerCancelled
<1>6. CASE ProducerReturn \/ DriverStep \/ Timer \/ Stop \/ UNCHANGED vars
  <2>1. UNCHANGED <<queue, unfinished_tasks, event>>
    BY <1>6 DEF ProducerReturn, DriverStep, AwaitJoin, StopConsumers, FinishRun, RaiseTimeout,
                Timer, TimeoutAbsorbed, Timeout, Stop, vars, queueVars, consumerVars
  <2> QED  BY <2>1 DEF CountInv, InHand
<1> QED
  BY <1>1, <1>2, <1>3, <1>4, <1>5, <1>6 DEF Next, ProducerStep, ConsumerStep

\* Every accepted tick is at one place, and what join waits for is what is queued or in
\* hand: with both, the three numbers add up to the ticks produced.
LEMMA CountsAddUp ==
  ASSUME TicksInv, CountInv
  PROVE  QueueCounts
<1>1. Taken \in Nat /\ Taken = ticks_produced - Len(queue) /\ ticks_produced \in Nat /\ Len(queue) \in Nat
  BY DEF TicksInv, TicksTypes, Taken
<1>2. IsFiniteSet(1 .. Taken) /\ Cardinality(1 .. Taken) = Taken
  <2>1. /\ IsFiniteSet(1 .. Taken)
        /\ Cardinality(1 .. Taken) = IF 1 > Taken THEN 0 ELSE Taken - 1 + 1
    <3>1. 1 \in Int /\ Taken \in Int
      BY <1>1
    <3> QED  BY <3>1, FS_Interval, Zenon
  <2> QED  BY <1>1, <2>1
<1>3. InHand \subseteq 1 .. Taken /\ processed \subseteq 1 .. Taken /\ dropped \subseteq 1 .. Taken
  BY DEF TicksInv
<1>4. IsFiniteSet(InHand) /\ IsFiniteSet(processed) /\ IsFiniteSet(dropped)
  BY <1>2, <1>3, FS_Subset
<1>5. Cardinality(InHand) \in Nat /\ Cardinality(processed) \in Nat /\ Cardinality(dropped) \in Nat
  BY <1>4, FS_CardinalityType
<1>6. IsFiniteSet(InHand \cup processed)
      /\ Cardinality(InHand \cup processed) = Cardinality(InHand) + Cardinality(processed)
  <2>1. Cardinality(InHand \cap processed) = 0
    BY FS_EmptySet DEF TicksInv
  <2>2. Cardinality(InHand \cup processed) =
            Cardinality(InHand) + Cardinality(processed) - Cardinality(InHand \cap processed)
    BY <1>4, FS_Union
  <2>3. IsFiniteSet(InHand \cup processed)
    BY <1>4, FS_Union
  <2> QED  BY <1>5, <2>1, <2>2, <2>3
<1>7. Cardinality((InHand \cup processed) \cup dropped) =
          Cardinality(InHand \cup processed) + Cardinality(dropped)
  <2>1. (InHand \cup processed) \cap dropped = {}
    BY DEF TicksInv
  <2>2. Cardinality((InHand \cup processed) \cap dropped) = 0
    BY <2>1, FS_EmptySet
  <2>3. Cardinality((InHand \cup processed) \cup dropped) =
            Cardinality(InHand \cup processed) + Cardinality(dropped)
            - Cardinality((InHand \cup processed) \cap dropped)
    BY <1>4, <1>6, FS_Union
  <2> QED  BY <1>5, <1>6, <2>2, <2>3
<1>8. (InHand \cup processed) \cup dropped = 1 .. Taken
  BY DEF TicksInv
<1>9. Taken = Cardinality(InHand) + Cardinality(processed) + Cardinality(dropped)
  BY <1>2, <1>6, <1>7, <1>8
<1> QED  BY <1>1, <1>5, <1>9 DEF QueueCounts, CountInv

-----------------------------------------------------------------------------
(* The end of a run.                                                       *)

\* What the driver knows from each of its awaits on: the producer has returned, the queue
\* is drained, the tasks are done; and only a callback or a timeout costs a tick.
DriverInv ==
    /\ producer \in {"RUNNING", "RETURNED"}
    /\ driver \in {"OPEN", "AWAIT_PRODUCER", "JOIN", "GATHER", "CANCELLING", "DONE", "TIMED_OUT"}
    /\ driver \notin {"OPEN", "AWAIT_PRODUCER"} => producer = "RETURNED"
    /\ driver \in {"GATHER", "DONE"} => queue = <<>> /\ InHand = {}
    /\ driver \in Ended => TasksDone
    /\ driver = "DONE" => current_bar = Idle
    /\ cancelled # {} => driver \in {"CANCELLING", "TIMED_OUT"}
    /\ dropped # {} => raised \/ driver \in {"CANCELLING", "TIMED_OUT"}

\* Before the start no task has ended.
LEMMA DriverInitially == Init => DriverInv
BY DEF Init, DriverInv, Ended

\* A consumer's step is a step of a task that is not done.
LEMMA ConsumerIsLive ==
  ASSUME NEW c \in workers, ConsumerStep(c)
  PROVE  /\ task[c] \in Live
         /\ UNCHANGED <<workers, producer, driver>> /\ cancelled' \subseteq cancelled
         /\ raised => raised'
         /\ dropped' = dropped \/ raised' \/ c \in cancelled
<1> USE DEF Live, Busy, configVars, queueVars, producerVars, driverVars, historyVars
<1>1. CASE TakeTick(c) \/ ApplyTick(c) \/ BarHandled(c) \/ ConsumerReturn(c)
  BY <1>1 DEF TakeTick, ApplyTick, BarHandled, ConsumerReturn
<1>2. CASE CallbackRaises(c)
  BY <1>2 DEF CallbackRaises
<1>3. CASE ConsumerCancelled(c)
  BY <1>3 DEF ConsumerCancelled
<1> QED  BY <1>1, <1>2, <1>3 DEF ConsumerStep

\* Every step keeps what has ended at each place of the driver.
LEMMA DriverStepKeeps ==
  ASSUME TicksInv, CountInv, DriverInv, [Next]_vars
  PROVE  DriverInv'
<1>1. ASSUME NEW c \in workers, ConsumerStep(c) PROVE DriverInv'
  <2>1. /\ task[c] \in Live /\ UNCHANGED <<workers, producer, driver>> /\ cancelled' \subseteq cancelled
        /\ raised => raised'
        /\ dropped' = dropped \/ raised' \/ c \in cancelled
    BY <1>1, ConsumerIsLive
  <2>2. driver \notin Ended
    BY <2>1 DEF DriverInv, TasksDone
  <2>3. driver = "GATHER" => queue' = <<>> /\ InHand' = {}
    <3> SUFFICES ASSUME driver = "GATHER" PROVE queue' = <<>> /\ InHand' = {}
      OBVIOUS
    <3>1. queue = <<>> /\ InHand = {} /\ c \in Consumers
      BY DEF DriverInv, TicksInv, TicksTypes
    <3>2. ~TakeStep(c)
      BY <3>1 DEF TakeStep
    <3>3. \A next \in TaskStates : ~LeaveStep(c, next)
      BY <3>1, InHandShrinks
    <3>4. PICK next \in TaskStates : MoveStep(c, next)
      BY <1>1, <3>2, <3>3, ConsumerStepKinds
    <3> QED  BY <3>1, <3>4, MoveKeepsTicks DEF MoveStep
  <2> QED  BY <2>1, <2>2, <2>3 DEF DriverInv, Ended
<1>2. CASE ProducerStep
  <2>1. /\ producer = "RUNNING" /\ producer' \in {"RUNNING", "RETURNED"}
        /\ UNCHANGED <<driver, cancelled, dropped, raised>>
    BY <1>2 DEF ProducerStep, ProducerPut, ProducerReturn, producerVars, driverVars, historyVars
  <2>2. driver \in {"OPEN", "AWAIT_PRODUCER"}
    BY <2>1 DEF DriverInv
  <2> QED  BY <2>1, <2>2 DEF DriverInv, Ended
<1>3. CASE DriverStep \/ Timer \/ Stop \/ UNCHANGED vars
  <2>1. UNCHANGED <<workers, task, event, queue, producer, dropped, raised>>
    BY <1>3 DEF DriverStep, AwaitJoin, StopConsumers, FinishRun, RaiseTimeout, Timer,
                TimeoutAbsorbed, Timeout, Stop, vars, configVars, queueVars, producerVars,
                consumerVars, historyVars
  <2>2. InHand' = InHand /\ (TasksDone => TasksDone')
    BY <2>1 DEF InHand, TasksDone
  <2>3. CASE AwaitJoin
    BY <2>1, <2>2, <2>3 DEF AwaitJoin, DriverInv, Ended
  <2>4. CASE StopConsumers
    <3>1. queue = <<>> /\ InHand = {}
      <4>1. Cardinality(InHand) \in Nat /\ IsFiniteSet(InHand) /\ Len(queue) \in Nat /\ queue \in Seq(Nat)
        BY InHandFinite DEF TicksInv, TicksTypes
      <4>2. Len(queue) = 0 /\ Cardinality(InHand) = 0
        BY <2>4, <4>1 DEF StopConsumers, CountInv
      <4> QED  BY <4>1, <4>2, FS_EmptySet
    <3> QED  BY <2>1, <2>2, <2>4, <3>1 DEF StopConsumers, DriverInv, Ended
  <2>5. CASE FinishRun
    BY <2>1, <2>2, <2>5 DEF FinishRun, Flush, DriverInv, Ended
  <2>6. CASE RaiseTimeout
    BY <2>1, <2>2, <2>6 DEF RaiseTimeout, DriverInv, Ended
  <2>7. CASE Timer
    BY <2>1, <2>2, <2>7 DEF Timer, TimeoutAbsorbed, Timeout, DriverInv, Ended
  <2>8. CASE Stop
    BY <2>1, <2>2, <2>8 DEF Stop, DriverInv, Ended
  <2>9. CASE UNCHANGED vars
    BY <2>1, <2>2, <2>9 DEF vars, driverVars, accumulatorVars, DriverInv, Ended
  <2> QED  BY <1>3, <2>3, <2>4, <2>5, <2>6, <2>7, <2>8, <2>9 DEF DriverStep
<1> QED  BY <1>1, <1>2, <1>3 DEF Next

PipelineInv == TicksInv /\ CountInv /\ DriverInv

\* Ticks, counts and tasks keep their invariants in every run.
LEMMA PipelineInvariant == Spec => []PipelineInv
<1>1. Init => PipelineInv
  <2>1. Init => InHand = {}
    <3>1. Init => \A c \in Consumers : event[c] = NoTick
      BY DEF Init
    <3> QED  BY <3>1 DEF InHand
  <2>2. Init => CountInv
    <3>1. Cardinality({}) = 0
      BY FS_EmptySet
    <3>2. Init => unfinished_tasks = 0 /\ Len(queue) + 0 = 0
      BY DEF Init
    <3>3. Init => Cardinality(InHand) = 0
      BY <2>1, <3>1, Zenon
    <3> QED  BY <3>2, <3>3, Zenon DEF CountInv
  <2> QED  BY <2>2, TicksInitially, DriverInitially DEF PipelineInv
<1>2. PipelineInv /\ [Next]_vars => PipelineInv'
  BY TicksStep, CountStep, DriverStepKeeps DEF PipelineInv
<1> QED  BY <1>1, <1>2, PTL DEF Spec

\* The first and the last part of CountersAddUp, for asyncio.Queue and its consumers:
\* unfinished_tasks is what is queued or in hand, and no accepted tick is unaccounted for.
THEOREM QueueCountsAddUp == Spec => []QueueCounts
<1>1. PipelineInv => QueueCounts
  BY CountsAddUp DEF PipelineInv
<1> QED  BY <1>1, PipelineInvariant, PTL

\* CleanShutdown of RealtimePipeline.run_until_complete and stop: what a call that returned
\* has left behind.
THEOREM ShutdownIsClean == Spec => []CleanShutdown
<1>1. PipelineInv => CleanShutdown
  <2> SUFFICES ASSUME PipelineInv PROVE CleanShutdown
    OBVIOUS
  <2>1. driver \in Ended => TasksDone
    BY DEF PipelineInv, DriverInv
  <2>2. ASSUME driver = "DONE"
        PROVE  /\ queue = <<>> /\ unfinished_tasks = 0 /\ current_bar = Idle
               /\ ~raised => processed = 1 .. ticks_produced
    <3>1. queue = <<>> /\ InHand = {} /\ current_bar = Idle /\ (~raised => dropped = {})
      BY <2>2 DEF PipelineInv, DriverInv
    <3>2. Len(queue) = 0 /\ Cardinality(InHand) = 0
      BY <3>1, FS_EmptySet
    <3>3. unfinished_tasks = 0
      BY <3>2 DEF PipelineInv, CountInv
    <3>4. Taken = ticks_produced
      BY <3>2 DEF Taken, PipelineInv, TicksInv, TicksTypes
    <3>5. InHand \cup processed \cup dropped = 1 .. ticks_produced
      BY <3>4 DEF PipelineInv, TicksInv
    <3> QED  BY <3>1, <3>3, <3>5
  <2> QED  BY <2>1, <2>2 DEF CleanShutdown
<1> QED  BY <1>1, PipelineInvariant, PTL

-----------------------------------------------------------------------------
(* What the consumers count.                                               *)

ConsumedInv ==
    /\ ticks_consumed \in [Consumers -> Nat]
    /\ Total(ticks_consumed, Consumers) = Cardinality(processed)

\* A tick that is processed leaves its consumer's hands, where it is only once.
LEMMA ConsumedKeepsCount ==
  ASSUME TicksInv, ConsumedInv, NEW c \in workers, task[c] \in Busy, Consumed(c)
  PROVE  ConsumedInv'
<1>1. c \in Consumers /\ ticks_consumed \in [Consumers -> Int]
  BY DEF TicksInv, TicksTypes, ConsumedInv
<1>2. event[c] \in InHand /\ event[c] \notin processed
  BY <1>1 DEF TicksInv, InHand
<1>3. IsFiniteSet(processed)
  <2>1. processed \subseteq 1 .. Taken /\ Taken \in Nat
    BY DEF TicksInv, TicksTypes, Taken
  <2>2. IsFiniteSet(1 .. Taken)
    BY <2>1, FS_Interval
  <2> QED  BY <2>1, <2>2, FS_Subset
<1>4. Cardinality(processed') = Cardinality(processed) + 1
  <2>1. Cardinality(processed \cup {event[c]}) = Cardinality(processed) + 1
    BY <1>2, <1>3, FS_AddElement
  <2> QED  BY <2>1 DEF Consumed
<1>5. Total([ticks_consumed EXCEPT ![c] = @ + 1], Consumers) = Total(ticks_consumed, Consumers) + 1
  BY <1>1, PipelineAssumption, TotalPlusOne
<1>6. ticks_consumed' = [ticks_consumed EXCEPT ![c] = @ + 1]
  BY DEF Consumed
<1>7. Total(ticks_consumed', Consumers) = Total(ticks_consumed, Consumers) + 1
  BY <1>5, <1>6
<1>8. ticks_consumed' \in [Consumers -> Nat]
  <2>1. ticks_consumed \in [Consumers -> Nat]
    BY DEF ConsumedInv
  <2> QED  BY <1>1, <1>6, <2>1
<1> QED  BY <1>4, <1>7, <1>8 DEF ConsumedInv

\* Every step keeps the sum of the consumers' counts in line with the ticks taken.
LEMMA ConsumedStep ==
  ASSUME TicksInv, ConsumedInv, [Next]_vars
  PROVE  ConsumedInv'
<1>1. ASSUME UNCHANGED <<ticks_consumed, processed>> PROVE ConsumedInv'
  BY <1>1 DEF ConsumedInv
<1>2. ASSUME NEW c \in workers, ConsumerStep(c) PROVE ConsumedInv'
  <2>1. \/ UNCHANGED <<ticks_consumed, processed>>
        \/ task[c] \in Busy /\ Consumed(c)
    BY <1>2 DEF ConsumerStep, TakeTick, ApplyTick, BarHandled, CallbackRaises, ConsumerReturn,
                ConsumerCancelled, historyVars, Busy
  <2> QED  BY <1>1, <2>1, ConsumedKeepsCount
<1>3. CASE ProducerStep \/ DriverStep \/ Timer \/ Stop \/ UNCHANGED vars
  <2>1. UNCHANGED <<ticks_consumed, processed>>
    BY <1>3 DEF ProducerStep, ProducerPut, ProducerReturn, DriverStep, AwaitJoin, StopConsumers, FinishRun,
                RaiseTimeout, Timer, TimeoutAbsorbed, Timeout, Stop, vars, consumerVars, historyVars
  <2> QED  BY <1>1, <2>1
<1> QED  BY <1>2, <1>3 DEF Next

\* No consumer has counted a tick before the start.
LEMMA ConsumedInitially == Init => ConsumedInv
<1> SUFFICES ASSUME Init PROVE ConsumedInv
  OBVIOUS
<1>1. ticks_consumed = [c \in Consumers |-> 0] /\ processed = {}
  BY DEF Init
<1>2. Total(ticks_consumed, Consumers) = 0
  BY <1>1, PipelineAssumption, TotalZero
<1> QED  BY <1>1, <1>2, FS_EmptySet DEF ConsumedInv

\* CountersAddUp, for asyncio.Queue and its consumers: unfinished_tasks is what is queued or
\* in hand, the consumers' counts are the ticks processed, and no accepted tick is
\* unaccounted for.
THEOREM PipelineCountersAddUp == Spec => []CountersAddUp
<1>1. PipelineInv /\ ConsumedInv => CountersAddUp
  BY CountsAddUp DEF PipelineInv, ConsumedInv, Total, QueueCounts, CountersAddUp
<1>2. Spec => []ConsumedInv
  <2>1. PipelineInv /\ ConsumedInv /\ [Next]_vars => ConsumedInv'
    BY ConsumedStep DEF PipelineInv
  <2> QED  BY <2>1, ConsumedInitially, PipelineInvariant, PTL DEF Spec
<1> QED  BY <1>1, <1>2, PipelineInvariant, PTL

-----------------------------------------------------------------------------
(* The pipeline implements TickDelivery.                                   *)

\* The queue holds the last ticks accepted.
LEMMA RangeOfRun ==
  ASSUME NEW q \in Seq(Nat), NEW k \in Nat, \A i \in 1 .. Len(q) : q[i] = k + i
  PROVE  Range(q) = k + 1 .. k + Len(q)
<1>1. Range(q) = {q[i] : i \in 1 .. Len(q)} /\ Len(q) \in Nat
  BY DEF Range
<1>2. ASSUME NEW n \in k + 1 .. k + Len(q) PROVE n \in Range(q)
  <2>1. n - k \in 1 .. Len(q) /\ k + (n - k) = n
    BY <1>1
  <2>2. q[n - k] = n
    BY <2>1
  <2> QED  BY <1>1, <2>1, <2>2
<1>3. ASSUME NEW n \in Range(q) PROVE n \in k + 1 .. k + Len(q)
  BY <1>1
<1> QED  BY <1>2, <1>3

\* The next tick taken is the first of them.
LEMMA NextTickIsLeast ==
  ASSUME NEW k \in Nat, NEW n \in Nat, k < n
  PROVE  Delivery!Min(k + 1 .. n) = k + 1
<1> DEFINE least(m) == m \in k + 1 .. n /\ \A j \in k + 1 .. n : m <= j
<1>1. least(k + 1)
  OBVIOUS
<1>2. ASSUME NEW m, least(m) PROVE m = k + 1
  <2>1. m \in Nat /\ m <= k + 1 /\ k + 1 <= m
    BY <1>1, <1>2
  <2> QED  BY <2>1
<1>3. Delivery!Min(k + 1 .. n) = CHOOSE m \in k + 1 .. n : \A j \in k + 1 .. n : m <= j
  BY DEF Delivery!Min
<1> QED  BY <1>1, <1>2, <1>3

\* The pipeline starts as TickDelivery does.
LEMMA DeliveryInitially == Init => Delivery!Init
<1> SUFFICES ASSUME Init PROVE Delivery!Init
  OBVIOUS
<1>1. ticks_produced = 0 /\ processed = {} /\ dropped = {} /\ queue = <<>>
      /\ (driver \in Ended) = FALSE
  BY DEF Init, Ended
<1>2. Range(queue) = {}
  BY <1>1 DEF Range
<1>3. InHand = {}
  <2>1. \A c \in Consumers : event[c] = NoTick
    BY DEF Init
  <2> QED  BY <2>1 DEF InHand
<1> QED  BY <1>1, <1>2, <1>3 DEF Delivery!Init

\* Every step of the pipeline is one of TickDelivery or changes nothing it sees.
LEMMA DeliveryStep ==
  ASSUME PipelineInv, PipelineInv', [Next]_vars
  PROVE  [Delivery!Next]_(Delivery!deliveryVars)
<1>0. TicksInv /\ TicksInv' /\ DriverInv /\ ticks_produced \in Nat /\ Len(queue) \in Nat
      /\ Taken = ticks_produced - Len(queue) /\ Taken \in Nat /\ queue \in Seq(Nat)
  BY DEF PipelineInv, TicksInv, TicksTypes, Taken
<1>a. Range(queue) = Taken + 1 .. ticks_produced
  <2>1. Taken + Len(queue) = ticks_produced /\ \A i \in 1 .. Len(queue) : queue[i] = Taken + i
    BY <1>0 DEF TicksInv
  <2> QED  BY <1>0, <2>1, RangeOfRun
<1>b. Range(queue)' = Taken' + 1 .. ticks_produced'
  <2>1. Taken' \in Nat /\ queue' \in Seq(Nat) /\ Taken' + Len(queue') = ticks_produced'
        /\ \A i \in 1 .. Len(queue') : queue'[i] = Taken' + i
    BY <1>0 DEF TicksInv, TicksTypes, Taken
  <2>2. Range(queue') = Taken' + 1 .. Taken' + Len(queue')
    BY <2>1, RangeOfRun
  <2>3. Range(queue)' = Range(queue')
    BY DEF Range
  <2> QED  BY <2>1, <2>2, <2>3
<1>1. ASSUME NEW c \in workers, ConsumerStep(c)
      PROVE  Delivery!Next \/ UNCHANGED Delivery!deliveryVars
  <2>1. task[c] \in Live /\ driver' = driver /\ c \in Consumers
    BY <1>0, <1>1, ConsumerIsLive DEF TicksInv, TicksTypes
  <2>2. driver \notin Ended
    BY <1>0, <2>1 DEF DriverInv, TasksDone
  <2>3. CASE TakeStep(c)
    <3>1. InHand' = InHand \cup {Taken + 1}
      BY <1>0, <2>1, <2>3, InHandGrows
    <3>2. Len(queue) # 0 /\ Len(queue') = Len(queue) - 1
          /\ UNCHANGED <<ticks_produced, processed, dropped>>
      BY <1>0, <2>3 DEF TakeStep
    <3>3. Taken' = Taken + 1 /\ Taken < ticks_produced
      BY <1>0, <3>2 DEF Taken
    <3>4. Delivery!Min(Range(queue)) = Taken + 1
      BY <1>0, <1>a, <3>3, NextTickIsLeast
    <3>5. Range(queue)' = Range(queue) \ {Taken + 1} /\ Range(queue) # {}
      <4>1. Range(queue)' = (Taken + 1) + 1 .. ticks_produced
        BY <1>b, <3>2, <3>3
      <4>2. (Taken + 1) + 1 .. ticks_produced = (Taken + 1 .. ticks_produced) \ {Taken + 1}
        BY <1>0
      <4>3. Taken + 1 \in Taken + 1 .. ticks_produced
        BY <1>0, <3>3
      <4> QED  BY <1>a, <4>1, <4>2, <4>3
    <3>6. Delivery!Take
      BY <2>1, <3>1, <3>2, <3>4, <3>5 DEF Delivery!Take
    <3> QED  BY <2>2, <3>6 DEF Delivery!Next
  <2>4. ASSUME NEW next \in TaskStates, MoveStep(c, next)
        PROVE  UNCHANGED Delivery!deliveryVars
    BY <1>0, <2>1, <2>4, MoveKeepsTicks DEF MoveStep, Delivery!deliveryVars
  <2>5. ASSUME NEW next \in TaskStates, LeaveStep(c, next)
        PROVE  Delivery!Next
    <3>1. event[c] \in InHand /\ InHand' = InHand \ {event[c]}
      BY <1>0, <2>1, <2>5, InHandShrinks
    <3>2. Delivery!Process(event[c]) \/ Delivery!Drop(event[c])
      BY <2>1, <2>5, <3>1 DEF LeaveStep, Delivery!Process, Delivery!Drop
    <3> QED  BY <2>2, <3>1, <3>2 DEF Delivery!Next
  <2> QED  BY <1>1, <2>3, <2>4, <2>5, ConsumerStepKinds
<1>2. CASE ProducerStep
  <2>1. producer = "RUNNING" /\ driver' = driver
    BY <1>2 DEF ProducerStep, ProducerPut, ProducerReturn, driverVars
  <2>2. driver \notin Ended
    BY <1>0, <2>1 DEF DriverInv, Ended
  <2>3. CASE PutStep
    <3>1. InHand' = InHand
      BY <1>0, <2>3, PutKeepsTicks
    <3>2. Len(queue') = Len(queue) + 1 /\ ticks_produced' = ticks_produced + 1
      BY <1>0, <2>3 DEF PutStep
    <3>3. Taken' = Taken
      BY <1>0, <3>2 DEF Taken
    <3>4. Range(queue)' = Range(queue) \cup {ticks_produced + 1}
      BY <1>0, <1>a, <1>b, <3>2, <3>3
    <3>5. Delivery!Accept
      BY <2>1, <2>3, <3>1, <3>4 DEF PutStep, Delivery!Accept
    <3> QED  BY <2>2, <3>5 DEF Delivery!Next
  <2>4. CASE UNCHANGED tickVars
    BY <1>0, <2>1, <2>4, SameTicks DEF tickVars, Delivery!deliveryVars
  <2> QED  BY <1>2, <2>3, <2>4, OtherStepKinds
<1>3. CASE FinishRun \/ RaiseTimeout
  <2>1. driver \notin Ended /\ driver' \in Ended /\ TasksDone
        /\ UNCHANGED <<ticks_produced, queue, event, processed, dropped>>
    BY <1>3 DEF FinishRun, RaiseTimeout, Ended, queueVars, consumerVars, historyVars
  <2>2. InHand = {} /\ InHand' = InHand
    <3>1. \A c \in Consumers : task[c] \notin Busy
      BY <1>0, <2>1 DEF TasksDone, TicksInv, Live, Busy
    <3>2. \A c \in Consumers : event[c] = NoTick
      BY <1>0, <3>1 DEF TicksInv
    <3> QED  BY <2>1, <3>2 DEF InHand
  <2>3. Delivery!End
    BY <2>1, <2>2 DEF Delivery!End
  <2> QED  BY <2>1, <2>3 DEF Delivery!Next
<1>4. CASE AwaitJoin \/ StopConsumers \/ Timer \/ Stop \/ UNCHANGED vars
  <2>1. (driver \in Ended) = (driver' \in Ended)
    BY <1>4 DEF AwaitJoin, StopConsumers, Timer, TimeoutAbsorbed, Timeout, Stop, vars,
                driverVars, Ended
  <2>2. UNCHANGED <<ticks_produced, queue, event, processed, dropped>>
    BY <1>4 DEF AwaitJoin, StopConsumers, Timer, TimeoutAbsorbed, Timeout, Stop, vars,
                queueVars, consumerVars, historyVars
  <2> QED  BY <2>1, <2>2 DEF InHand, Delivery!deliveryVars
<1> QED  BY <1>1, <1>2, <1>3, <1>4 DEF Next, DriverStep

\* ImplementsDelivery: each accepted tick is taken in turn by one consumer and is processed
\* or dropped once, and nothing happens to any tick after the call has returned.
THEOREM PipelineImplementsDelivery == Spec => ImplementsDelivery
<1>1. PipelineInv /\ PipelineInv' /\ [Next]_vars => [Delivery!Next]_(Delivery!deliveryVars)
  BY DeliveryStep
<1> QED
  BY <1>1, DeliveryInitially, PipelineInvariant, PTL DEF Spec, ImplementsDelivery, Delivery!Spec

-----------------------------------------------------------------------------
(* Types, and the bars: the constructor of a bar never has anything to     *)
(* complain about.                                                         *)

BarsInv ==
    /\ bars \in Seq(Bar)
    /\ current_bar = Idle \/ BarOf(current_bar) \in Bar

RestTypes ==
    /\ feed \in Seq(Tick) /\ ticks_produced <= Len(feed) /\ Len(queue) <= QueueSize
    /\ producer_stop \in BOOLEAN /\ timed_out \in BOOLEAN
    /\ consumer_stop \in BOOLEAN /\ raised \in BOOLEAN
    /\ ticks_consumed \in [Consumers -> Nat]
    /\ cancelled \subseteq workers

\* A bucket starts at a natural time.
LEMMA BucketIs ==
  ASSUME NEW time \in Nat
  PROVE  BucketStart(time) \in Nat
<1> DEFINE p == BucketPeriod  s == (time \div p) * p  q == (time - s) \div BucketSeconds
<1>1. p \in Nat \ {0}
  BY DEF BucketPeriod
<1> HIDE DEF p
<1>3. s \in Nat /\ time - s \in Nat
  <2> DEFINE f == time \div p  r == time % p
  <2>1. f \in Nat /\ r \in Nat /\ time = p * f + r
    BY <1>1
  <2>2. s = f * p
    OBVIOUS
  <2> HIDE DEF f, r, s
  <2>3. f * p = p * f /\ f * p \in Nat
    BY <1>1, <2>1
  <2> QED  BY <2>1, <2>2, <2>3
<1> HIDE DEF s
<1>4. q \in Nat
  BY <1>3, AccumulatorAssumption
<1> HIDE DEF q
<1>5. q * BucketSeconds \in Nat
  BY <1>4, AccumulatorAssumption
<1>6. BucketStart(time) = s + q * BucketSeconds
  BY DEF BucketStart, s, q, p
<1> QED  BY <1>3, <1>5, <1>6

\* A bar started by one tick is one that the constructor accepts.
LEMMA StartedIsBar ==
  ASSUME NEW tick \in Tick
  PROVE  BarOf(Started(tick)) \in Bar
<1>1. tick.timestamp \in Nat /\ tick.price \in Nat /\ tick.volume \in Nat
  BY DEF Tick
<1>2. BucketStart(tick.timestamp) \in Nat
  BY <1>1, BucketIs
<1> QED  BY <1>1, <1>2 DEF Started, BarOf, Bar

\* A tick widens a bar into one that the constructor accepts.
LEMMA WidenedIsBar ==
  ASSUME NEW tick \in Tick, NEW bar, BarOf(bar) \in Bar
  PROVE  BarOf(Widened(bar, tick)) \in Bar
<1>1. tick.price \in Nat /\ tick.volume \in Nat
  BY DEF Tick
<1>2. /\ bar.bucket \in Nat /\ bar.open \in Nat /\ bar.high \in Nat /\ bar.low \in Nat
      /\ bar.close \in Nat /\ bar.volume \in Nat
      /\ bar.low <= bar.open /\ bar.low <= bar.close
      /\ bar.open <= bar.high /\ bar.close <= bar.high
  BY DEF BarOf, Bar
<1> DEFINE w == Widened(bar, tick)
<1>3. /\ w.bucket = bar.bucket /\ w.volume = bar.volume + tick.volume
      /\ w.open \in {bar.open, tick.price} /\ w.close \in {bar.close, tick.price}
      /\ w.high = IF tick.price > bar.high THEN tick.price ELSE bar.high
      /\ w.low = IF tick.price < bar.low THEN tick.price ELSE bar.low
  BY DEF Widened
<1> HIDE DEF w
<1>4. /\ w.bucket \in Nat /\ w.open \in Nat /\ w.high \in Nat /\ w.low \in Nat
      /\ w.close \in Nat /\ w.volume \in Nat
      /\ w.low <= w.open /\ w.low <= w.close /\ w.open <= w.high /\ w.close <= w.high
  BY <1>1, <1>2, <1>3
<1>5. BarOf(w) \in Bar
  BY <1>4 DEF BarOf, Bar
<1> QED  BY <1>5 DEF w

\* AddTick builds no bar that the constructor refuses.
LEMMA AddTickKeepsBars ==
  ASSUME BarsInv, NEW tick \in Tick, AddTick(tick)
  PROVE  BarsInv'
<1>1. BarOf(Started(tick)) \in Bar
  BY StartedIsBar
<1>2. current_bar # Idle => BarOf(current_bar) \in Bar /\ BarOf(Widened(current_bar, tick)) \in Bar
  BY WidenedIsBar DEF BarsInv
<1>3. CASE current_bar' = Started(tick) /\ bars' = bars
  BY <1>1, <1>3 DEF BarsInv
<1>4. CASE current_bar # Idle /\ current_bar' = Widened(current_bar, tick) /\ bars' = bars
  BY <1>2, <1>4 DEF BarsInv
<1>5. CASE current_bar # Idle /\ current_bar' = Started(tick) /\ bars' = Append(bars, BarOf(current_bar))
  BY <1>1, <1>2, <1>5 DEF BarsInv
<1>6. CASE UNCHANGED <<current_bar, bars>>
  BY <1>6 DEF BarsInv
<1> QED  BY <1>3, <1>4, <1>5, <1>6 DEF AddTick, CompletesBar

\* No step of the pipeline builds a bar that the constructor refuses.
LEMMA BarsStep ==
  ASSUME TicksInv, RestTypes, BarsInv, [Next]_vars
  PROVE  BarsInv'
<1>1. ASSUME NEW c \in workers, ApplyTick(c) PROVE BarsInv'
  <2>1. c \in Consumers /\ event[c] # NoTick /\ event[c] \in Nat /\ task[c] \in Busy
    BY <1>1 DEF ApplyTick, TicksInv, TicksTypes, Busy
  <2>2. event[c] \in 1 .. Taken
    BY <2>1 DEF TicksInv, InHand
  <2>3. event[c] \in 1 .. Len(feed)
    <3>1. Taken <= ticks_produced /\ Taken \in Int /\ ticks_produced \in Nat
      BY DEF TicksInv, TicksTypes, Taken
    <3> QED  BY <2>1, <2>2, <3>1 DEF RestTypes
  <2>4. feed[event[c]] \in Tick
    BY <2>3 DEF RestTypes
  <2> QED  BY <1>1, <2>4, AddTickKeepsBars DEF ApplyTick
<1>2. CASE FinishRun
  BY <1>2 DEF FinishRun, Flush, BarsInv
<1>3. ASSUME UNCHANGED accumulatorVars PROVE BarsInv'
  BY <1>3 DEF accumulatorVars, BarsInv
<1>4. ASSUME NEW c \in workers, ConsumerStep(c), ~ApplyTick(c) PROVE UNCHANGED accumulatorVars
  BY <1>4 DEF ConsumerStep, TakeTick, BarHandled, CallbackRaises, ConsumerReturn, ConsumerCancelled
<1>5. CASE ProducerStep \/ Timer \/ Stop \/ UNCHANGED vars
  BY <1>3, <1>5 DEF ProducerStep, ProducerPut, ProducerReturn, Timer, TimeoutAbsorbed, Timeout, Stop, vars
<1>6. CASE AwaitJoin \/ StopConsumers \/ RaiseTimeout
  BY <1>3, <1>6 DEF AwaitJoin, StopConsumers, RaiseTimeout
<1> QED  BY <1>1, <1>2, <1>3, <1>4, <1>5, <1>6 DEF Next, DriverStep

\* The feed, the counters and the accumulator start with their types.
LEMMA RestInitially == Init => RestTypes /\ BarsInv
<1> SUFFICES ASSUME Init PROVE RestTypes /\ BarsInv
  OBVIOUS
<1>1. feed \in Seq(Tick)
  BY PipelineAssumption DEF Init
<1>2. producer_stop \in BOOLEAN /\ timed_out \in BOOLEAN /\ consumer_stop \in BOOLEAN /\ raised \in BOOLEAN
  BY Zenon DEF Init
<1>3. ticks_produced <= Len(feed) /\ Len(queue) <= QueueSize
  BY <1>1, PipelineAssumption DEF Init
<1>4. ticks_consumed \in [Consumers -> Nat] /\ cancelled \subseteq workers
  BY DEF Init
<1>5. BarsInv
  BY DEF Init, AccumulatorInit, BarsInv
<1> QED  BY <1>1, <1>2, <1>3, <1>4, <1>5 DEF RestTypes

\* Every step keeps the types of the feed, the counters and the history.
LEMMA RestStep ==
  ASSUME TicksInv, RestTypes, [Next]_vars
  PROVE  RestTypes'
<1>0. /\ feed \in Seq(Tick) /\ Len(feed) \in Nat /\ ticks_produced \in Nat /\ ticks_produced <= Len(feed)
      /\ queue \in Seq(Nat) /\ Len(queue) \in Nat /\ Len(queue) <= QueueSize /\ QueueSize \in Nat
      /\ ticks_consumed \in [Consumers -> Nat] /\ cancelled \subseteq workers /\ workers \subseteq Consumers
  BY PipelineAssumption DEF TicksInv, TicksTypes, RestTypes
<1>1. ASSUME NEW c \in workers, ConsumerStep(c) PROVE RestTypes'
  <2>1. /\ UNCHANGED <<feed, workers, ticks_produced, producer_stop, timed_out, consumer_stop>>
        /\ cancelled' \subseteq cancelled
    BY <1>1 DEF ConsumerStep, TakeTick, ApplyTick, BarHandled, CallbackRaises, ConsumerReturn,
                ConsumerCancelled, configVars, queueVars, producerVars, driverVars
  <2>2. queue' = queue \/ (queue # <<>> /\ queue' = Tail(queue))
    BY <1>1 DEF ConsumerStep, TakeTick, ApplyTick, BarHandled, CallbackRaises, ConsumerReturn,
                ConsumerCancelled, queueVars
  <2>3. Len(queue') <= QueueSize
    BY <1>0, <2>2
  <2>4. ticks_consumed' = ticks_consumed \/ ticks_consumed' = [ticks_consumed EXCEPT ![c] = @ + 1]
    BY <1>1 DEF ConsumerStep, TakeTick, ApplyTick, BarHandled, CallbackRaises, ConsumerReturn,
                ConsumerCancelled, Consumed
  <2>5. ticks_consumed' \in [Consumers -> Nat]
    BY <1>0, <2>4
  <2>6. raised' = raised \/ raised' = TRUE
    BY <1>1 DEF ConsumerStep, TakeTick, ApplyTick, BarHandled, CallbackRaises, ConsumerReturn,
                ConsumerCancelled, historyVars
  <2>7. raised' \in BOOLEAN
    BY <2>6, Zenon DEF RestTypes
  <2> QED  BY <1>0, <2>1, <2>3, <2>5, <2>7 DEF RestTypes
<1>2. CASE ProducerStep
  <2>1. /\ ticks_produced' <= Len(feed) /\ Len(queue') <= QueueSize
        /\ UNCHANGED <<feed, workers, producer_stop, timed_out, consumer_stop, cancelled, raised, ticks_consumed>>
    BY <1>0, <1>2 DEF ProducerStep, ProducerPut, ProducerReturn, configVars, queueVars, producerVars,
                      driverVars, historyVars, consumerVars
  <2> QED  BY <1>0, <2>1 DEF RestTypes
<1>3. CASE DriverStep \/ Timer \/ Stop \/ UNCHANGED vars
  <2>1. UNCHANGED <<feed, workers, ticks_produced, queue, raised, ticks_consumed>>
    BY <1>3 DEF DriverStep, AwaitJoin, StopConsumers, FinishRun, RaiseTimeout, Timer, TimeoutAbsorbed,
                Timeout, Stop, vars, configVars, queueVars, consumerVars, historyVars
  <2>2. /\ producer_stop' = producer_stop \/ producer_stop' = TRUE
        /\ timed_out' = timed_out \/ timed_out' = TRUE
        /\ consumer_stop' = consumer_stop \/ consumer_stop' = TRUE
    BY <1>3 DEF DriverStep, AwaitJoin, StopConsumers, FinishRun, RaiseTimeout, Timer, TimeoutAbsorbed,
                Timeout, Stop, vars, producerVars, driverVars
  <2>3. producer_stop' \in BOOLEAN /\ timed_out' \in BOOLEAN /\ consumer_stop' \in BOOLEAN
    BY <2>2, Zenon DEF RestTypes
  <2>4. cancelled' = cancelled \/ cancelled' \subseteq workers
    BY <1>3 DEF DriverStep, AwaitJoin, StopConsumers, FinishRun, RaiseTimeout, Timer, TimeoutAbsorbed,
                Timeout, Stop, vars, driverVars
  <2> QED  BY <1>0, <2>1, <2>3, <2>4 DEF RestTypes
<1> QED  BY <1>1, <1>2, <1>3 DEF Next

\* PipelineTypeOK: the queue stays within its bound, no counter goes below zero, and no
\* sequence of ticks makes add_tick or flush build a bar that the constructor refuses.
THEOREM PipelineTypeCorrect == Spec => []PipelineTypeOK
<1>1. Init => RestTypes /\ BarsInv
  BY RestInitially
<1>2. PipelineInv /\ RestTypes /\ BarsInv /\ [Next]_vars => (RestTypes /\ BarsInv)'
  BY RestStep, BarsStep DEF PipelineInv
<1>3. PipelineInv /\ RestTypes /\ BarsInv => PipelineTypeOK
  <2> SUFFICES ASSUME PipelineInv, RestTypes, BarsInv PROVE PipelineTypeOK
    OBVIOUS
  <2>1. /\ Taken \in Nat /\ Taken <= ticks_produced /\ ticks_produced = Taken + Len(queue)
        /\ Len(queue) \in Nat /\ queue \in Seq(Nat) /\ ticks_produced \in 0 .. Len(feed) /\ Len(feed) \in Nat
    BY DEF PipelineInv, TicksInv, TicksTypes, Taken, RestTypes
  <2>2. queue \in Seq(1 .. Len(feed))
    <3>1. \A i \in 1 .. Len(queue) : queue[i] \in 1 .. Len(feed)
      BY <2>1 DEF PipelineInv, TicksInv
    <3> QED  BY <2>1, <3>1
  <2>3. unfinished_tasks \in Nat
    BY <2>1, InHandFinite DEF PipelineInv, CountInv
  <2>4. event \in [Consumers -> 0 .. Len(feed)]
    <3>1. ASSUME NEW c \in Consumers PROVE event[c] \in 0 .. Len(feed)
      <4>1. event[c] \in Nat /\ (event[c] # NoTick => event[c] \in 1 .. Taken)
        BY DEF PipelineInv, TicksInv, TicksTypes, InHand
      <4> QED  BY <2>1, <4>1 DEF NoTick
    <3> QED  BY <3>1 DEF PipelineInv, TicksInv, TicksTypes
  <2>5. /\ task \in [Consumers -> Live \cup {"RETURNED", "FAILED"}]
        /\ \A c \in Consumers : event[c] # NoTick <=> task[c] \in Busy
    BY DEF PipelineInv, TicksInv, TicksTypes, TaskStates
  <2>6. producer \in {"RUNNING", "RETURNED"}
        /\ driver \in {"OPEN", "AWAIT_PRODUCER", "JOIN", "GATHER", "CANCELLING"} \cup Ended
    BY DEF PipelineInv, DriverInv, Ended
  <2> QED  BY <2>1, <2>2, <2>3, <2>4, <2>5, <2>6 DEF PipelineTypeOK, RestTypes, BarsInv
<1> QED  BY <1>1, <1>2, <1>3, PipelineInvariant, PTL DEF Spec

-----------------------------------------------------------------------------
(* The bars of a sequence of ticks.                                        *)

\* The least and the greatest of a set of numbers.
LEMMA MinIs ==
  ASSUME NEW S \in SUBSET Int, NEW m \in S, \A x \in S : m <= x
  PROVE  Min(S) = m
<1>1. \A y \in S : (\A x \in S : y <= x) => y = m
  OBVIOUS
<1> QED  BY <1>1 DEF Min

\* The maximum of a set is the member that none exceeds.
LEMMA MaxIs ==
  ASSUME NEW S \in SUBSET Int, NEW m \in S, \A x \in S : x <= m
  PROVE  Max(S) = m
<1>1. \A y \in S : (\A x \in S : y >= x) => y = m
  OBVIOUS
<1> QED  BY <1>1 DEF Max

\* The bucket of the tick k, the ticks of a bucket that are kept, and the buckets they are in.
BucketAt(ticks, k) == BucketStart(ticks[k].timestamp)

Group(ticks, bucket) == {k \in Kept(ticks) : BucketAt(ticks, k) = bucket}

KeptBuckets(ticks) == {BucketAt(ticks, k) : k \in Kept(ticks)}

\* i is the last of the ticks G at the time t, and a price of theirs.
LastAt(i, t, ticks, G) ==
    i \in G /\ ticks[i].timestamp = t /\ \A k \in G : ticks[k].timestamp = t => k <= i

\* The bar tells of the ticks G, which reach from first to last.
Describes(bar, first, last, ticks, G) ==
    /\ \A k \in G : first <= ticks[k].timestamp /\ ticks[k].timestamp <= last
    /\ \E i \in G : LastAt(i, first, ticks, G) /\ bar.open = ticks[i].price
    /\ \E i \in G : LastAt(i, last, ticks, G) /\ bar.close = ticks[i].price
    /\ \A k \in G : bar.low <= ticks[k].price /\ ticks[k].price <= bar.high
    /\ \E i \in G : bar.high = ticks[i].price
    /\ \E i \in G : bar.low = ticks[i].price
    /\ bar.volume = Volume(ticks, G)

\* The fields of a tick, and of the tick k of a sequence.
LEMMA TickFields ==
  ASSUME NEW tick \in Tick
  PROVE  /\ tick.timestamp \in Nat /\ tick.price \in Nat /\ tick.volume \in Nat
         /\ tick.price \in Int /\ tick.volume \in Int
BY DEF Tick

\* The kept positions are finitely many positions of ticks.
LEMMA KeptTicks ==
  ASSUME NEW ticks \in Seq(Tick)
  PROVE  /\ Kept(ticks) \subseteq 1 .. Len(ticks) /\ IsFiniteSet(Kept(ticks))
         /\ \A k \in 1 .. Len(ticks) : ticks[k] \in Tick
<1>1. Kept(ticks) \subseteq 1 .. Len(ticks) /\ Len(ticks) \in Nat
  BY DEF Kept
<1>2. IsFiniteSet(1 .. Len(ticks))
  BY <1>1, FS_Interval
<1> QED  BY <1>1, <1>2, FS_Subset

\* What the ticks of such a bar are at most and at least.
TimesOf(ticks, G) == {ticks[k].timestamp : k \in G}

PricesOf(ticks, G) == {ticks[k].price : k \in G}

Extremes(bar, first, last, ticks, G) ==
    /\ Min(TimesOf(ticks, G)) = first /\ Max(TimesOf(ticks, G)) = last
    /\ Min(PricesOf(ticks, G)) = bar.low /\ Max(PricesOf(ticks, G)) = bar.high

\* A bar that describes a group has the group's extreme prices, its ends and its volume.
LEMMA DescribedIs ==
  ASSUME NEW ticks \in Seq(Tick), NEW G, G \subseteq 1 .. Len(ticks), NEW bar,
         NEW first, NEW last, Describes(bar, first, last, ticks, G)
  PROVE  Extremes(bar, first, last, ticks, G)
<1> DEFINE times == {ticks[k].timestamp : k \in G}
           prices == {ticks[k].price : k \in G}
<1>1. \A k \in G : ticks[k].timestamp \in Int /\ ticks[k].price \in Int
  <2>1. ASSUME NEW k \in G PROVE ticks[k] \in Tick
    BY KeptTicks
  <2> QED  BY <2>1, TickFields
<1>2. Min(times) = first /\ Max(times) = last
  <2>1. PICK i \in G : LastAt(i, first, ticks, G)
    BY DEF Describes
  <2>2. PICK j \in G : LastAt(j, last, ticks, G)
    BY DEF Describes
  <2>3. times \in SUBSET Int
    BY <1>1
  <2>4. first \in times /\ last \in times
    BY <2>1, <2>2 DEF LastAt
  <2>5. \A t \in times : first <= t /\ t <= last
    BY DEF Describes
  <2> HIDE DEF times
  <2> QED  BY <2>3, <2>4, <2>5, MinIs, MaxIs
<1>3. Max(prices) = bar.high /\ Min(prices) = bar.low
  <2>1. PICK i \in G : bar.high = ticks[i].price
    BY DEF Describes
  <2>2. PICK j \in G : bar.low = ticks[j].price
    BY DEF Describes
  <2>3. prices \in SUBSET Int
    BY <1>1
  <2>4. bar.high \in prices /\ bar.low \in prices
    BY <2>1, <2>2
  <2>5. \A p \in prices : bar.low <= p /\ p <= bar.high
    BY DEF Describes
  <2> HIDE DEF prices
  <2> QED  BY <2>3, <2>4, <2>5, MinIs, MaxIs
<1> QED  BY <1>2, <1>3 DEF Extremes, TimesOf, PricesOf

\* Such a bar is the one that is expected of its bucket.
LEMMA DescribedIsExpected ==
  ASSUME NEW ticks \in Seq(Tick), NEW bucket, NEW bar, NEW first \in Nat, NEW last \in Nat,
         Describes(bar, first, last, ticks, Group(ticks, bucket)),
         bar.bucket = bucket
  PROVE  BarOf(bar) = ExpectedBar(ticks, bucket)
<1> DEFINE G == Group(ticks, bucket)
           times == TimesOf(ticks, G)
           prices == PricesOf(ticks, G)
           at(t) == {k \in G : ticks[k].timestamp = t}
<1>1. ExpectedBar(ticks, bucket) =
         [bucket |-> bucket, open |-> ticks[Max(at(Min(times)))].price, high |-> Max(prices),
          low |-> Min(prices), close |-> ticks[Max(at(Max(times)))].price, volume |-> Volume(ticks, G)]
  BY DEF ExpectedBar, Volume, Group, BucketAt, TimesOf, PricesOf
<1>2. G \subseteq 1 .. Len(ticks) /\ Describes(bar, first, last, ticks, G)
  BY KeptTicks DEF Group
<1> HIDE DEF G
<1>3. PICK i \in G : LastAt(i, first, ticks, G) /\ bar.open = ticks[i].price
  BY DEF Describes, G
<1>4. PICK j \in G : LastAt(j, last, ticks, G) /\ bar.close = ticks[j].price
  BY DEF Describes, G
<1>5. Min(times) = first /\ Max(times) = last /\ Min(prices) = bar.low /\ Max(prices) = bar.high
  <2>1. Extremes(bar, first, last, ticks, G)
    BY <1>2, DescribedIs
  <2> QED  BY <2>1 DEF Extremes
<1>6. Max(at(first)) = i /\ Max(at(last)) = j
  <2>1. ASSUME NEW t, NEW m \in G, LastAt(m, t, ticks, G) PROVE Max(at(t)) = m
    <3>1. \A k \in G : k \in Int
      BY <1>2
    <3>2. at(t) \in SUBSET Int
      BY <3>1
    <3>3. m \in at(t) /\ \A k \in at(t) : k <= m
      BY <2>1 DEF LastAt
    <3> HIDE DEF at
    <3> QED  BY <3>2, <3>3, MaxIs
  <2> HIDE DEF at
  <2> QED  BY <1>3, <1>4, <2>1
<1>7. bar.volume = Volume(ticks, G)
  BY DEF Describes, G
<1> QED  BY <1>1, <1>3, <1>4, <1>5, <1>6, <1>7 DEF BarOf

\* In order of time no tick is late, and no two share a time.
InOrder(ticks) == Kept(ticks) = DOMAIN ticks /\ Increasing(ticks)

\* Then such a bar is also that of the batch.
LEMMA DescribedIsBatch ==
  ASSUME NEW ticks \in Seq(Tick), InOrder(ticks),
         NEW bucket, NEW bar, NEW first \in Nat, NEW last \in Nat,
         Describes(bar, first, last, ticks, Group(ticks, bucket)),
         bar.bucket = bucket
  PROVE  BarOf(bar) = BatchBar(ticks, bucket)
<1> DEFINE G == Group(ticks, bucket)
           times == TimesOf(ticks, G)
           prices == PricesOf(ticks, G)
           at(t) == CHOOSE k \in G : ticks[k].timestamp = t
<1>1. BatchBar(ticks, bucket) =
         [bucket |-> bucket, open |-> ticks[at(Min(times))].price, high |-> Max(prices),
          low |-> Min(prices), close |-> ticks[at(Max(times))].price, volume |-> Volume(ticks, G)]
  BY DEF BatchBar, Volume, Group, BucketAt, TimesOf, PricesOf, InOrder
<1>2. G \subseteq 1 .. Len(ticks) /\ Describes(bar, first, last, ticks, G)
  BY KeptTicks DEF Group
<1> HIDE DEF G
<1>3. PICK i \in G : LastAt(i, first, ticks, G) /\ bar.open = ticks[i].price
  BY DEF Describes, G
<1>4. PICK j \in G : LastAt(j, last, ticks, G) /\ bar.close = ticks[j].price
  BY DEF Describes, G
<1>5. Min(times) = first /\ Max(times) = last /\ Min(prices) = bar.low /\ Max(prices) = bar.high
  <2>1. Extremes(bar, first, last, ticks, G)
    BY <1>2, DescribedIs
  <2> QED  BY <2>1 DEF Extremes
<1>6. at(first) = i /\ at(last) = j
  <2>1. ASSUME NEW k \in G, NEW m \in G, ticks[k].timestamp = ticks[m].timestamp PROVE k = m
    <3>1. k \in DOMAIN ticks /\ m \in DOMAIN ticks /\ k \in Int /\ m \in Int
      BY <1>2
    <3>2. ticks[k].timestamp \in Nat
      BY <1>2, KeptTicks, TickFields
    <3>3. ~(ticks[k].timestamp < ticks[m].timestamp) /\ ~(ticks[m].timestamp < ticks[k].timestamp)
      BY <2>1, <3>2
    <3>4. ~(k < m) /\ ~(m < k)
      BY <3>1, <3>3 DEF InOrder, Increasing
    <3> QED  BY <3>1, <3>4
  <2>2. ticks[i].timestamp = first /\ ticks[j].timestamp = last
    BY <1>3, <1>4 DEF LastAt
  <2> QED  BY <2>1, <2>2
<1>7. bar.volume = Volume(ticks, G)
  BY DEF Describes, G
<1> QED  BY <1>1, <1>3, <1>4, <1>5, <1>6, <1>7 DEF BarOf

Increases(s, n) == \A i, j \in 1 .. n : i < j => s[i] < s[j]

\* Increasing numbers on the same set are the same.
LEMMA IncreasingUnique ==
  ASSUME NEW n \in Nat, NEW S \in SUBSET Int, NEW q \in [1 .. n -> S], NEW r \in [1 .. n -> S],
         Increases(q, n), Increases(r, n),
         \A x \in S : \E i \in 1 .. n : q[i] = x, \A x \in S : \E i \in 1 .. n : r[i] = x
  PROVE  q = r
<1> DEFINE D == {i \in 1 .. n : q[i] # r[i]}
<1>1. CASE D = {}
  BY <1>1
<1>2. CASE D # {}
  <2>1. D \subseteq Nat
    OBVIOUS
  <2>2. PICK m \in D : \A k \in D : m <= k
    <3> HIDE DEF D
    <3> QED  BY <1>2, <2>1, LeastNumber
  <2>3. m \in 1 .. n /\ q[m] # r[m] /\ q[m] \in S /\ r[m] \in S /\ q[m] \in Int /\ r[m] \in Int
    OBVIOUS
  <2>4. \A k \in 1 .. n : k < m => q[k] = r[k]
    BY <2>2, <2>3
  <2> HIDE DEF D
  <2>5. CASE q[m] < r[m]
    <3>1. PICK j \in 1 .. n : r[j] = q[m]
      BY <2>3
    <3>2. j < m
      BY <2>3, <2>5, <3>1 DEF Increases
    <3>3. q[j] = q[m]
      BY <2>4, <3>1, <3>2
    <3> QED  BY <2>3, <3>2, <3>3 DEF Increases
  <2>6. CASE r[m] < q[m]
    <3>1. PICK j \in 1 .. n : q[j] = r[m]
      BY <2>3
    <3>2. j < m
      BY <2>3, <2>6, <3>1 DEF Increases
    <3>3. r[j] = r[m]
      BY <2>4, <3>1, <3>2
    <3> QED  BY <2>3, <3>2, <3>3 DEF Increases
  <2> QED  BY <2>3, <2>5, <2>6
<1> QED  BY <1>1, <1>2

\* The order in which the model puts the buckets is the one that there is.
LEMMA AscendingIs ==
  ASSUME NEW S \in SUBSET Int, NEW n \in Nat, NEW q \in [1 .. n -> S], Increases(q, n),
         \A x \in S : \E i \in 1 .. n : q[i] = x
  PROVE  Ascending(S) = q
<1>1. IsFiniteSet(1 .. n) /\ Cardinality(1 .. n) = n
  <2>1. 1 \in Int /\ n \in Int
    OBVIOUS
  <2>2. /\ IsFiniteSet(1 .. n)
        /\ Cardinality(1 .. n) = IF 1 > n THEN 0 ELSE n - 1 + 1
    BY <2>1, FS_Interval, Zenon
  <2> QED  BY <2>2
<1>2. ASSUME NEW s \in [1 .. n -> S], Increases(s, n) PROVE s \in Injection(1 .. n, S)
  <2>1. ASSUME NEW i \in 1 .. n, NEW j \in 1 .. n, s[i] = s[j] PROVE i = j
    <3>1. ~(s[i] < s[j]) /\ ~(s[j] < s[i])
      <4>1. s[i] \in Int
        BY <1>2
      <4> QED  BY <2>1, <4>1
    <3>2. ~(i < j) /\ ~(j < i)
      BY <1>2, <3>1 DEF Increases
    <3> QED  BY <3>2
  <2> QED  BY <2>1 DEF Injection, IsInjective
<1>3. q \in Surjection(1 .. n, S)
  BY DEF Surjection
<1>4. IsFiniteSet(S) /\ Cardinality(S) = n
  BY <1>1, <1>2, <1>3, FS_Surjection
<1>5. ASSUME NEW s \in [1 .. n -> S], Increases(s, n) PROVE s = q
  <2>1. s \in Injection(1 .. n, S)
    BY <1>2, <1>5
  <2>2. s \in Surjection(1 .. n, S)
    BY <1>1, <1>4, <2>1, FS_Injection
  <2>3. \A x \in S : \E i \in 1 .. n : s[i] = x
    BY <2>2 DEF Surjection
  <2> QED  BY <1>5, <2>3, IncreasingUnique
<1>6. Ascending(S) = CHOOSE s \in [1 .. n -> S] : Increases(s, n)
  BY <1>4 DEF Ascending, Increases
<1>7. q \in [1 .. n -> S] /\ Increases(q, n)
  OBVIOUS
<1> QED  BY <1>5, <1>6, <1>7

\* Bars that tell, in increasing order, of every bucket that has a kept tick are the ones
\* that are expected.
IsBarOf(bar, ticks) ==
    \E first, last \in Nat : Describes(bar, first, last, ticks, Group(ticks, bar.bucket))

BucketsIncrease(built) == \A i, j \in 1 .. Len(built) : i < j => built[i].bucket < built[j].bucket

BuiltBuckets(built) == {built[i].bucket : i \in 1 .. Len(built)}

\* The order of such bars is the one in which the model puts their buckets.
LEMMA BuiltInOrder ==
  ASSUME NEW ticks \in Seq(Tick), NEW built \in Seq(Bar),
         BucketsIncrease(built), BuiltBuckets(built) = KeptBuckets(ticks)
  PROVE  /\ Ascending(KeptBuckets(ticks)) = [i \in 1 .. Len(built) |-> built[i].bucket]
         /\ \A i \in 1 .. Len(built) : built[i] = BarOf(built[i])
<1> DEFINE n == Len(built)
           S == KeptBuckets(ticks)
           q == [i \in 1 .. n |-> built[i].bucket]
<1>1. n \in Nat /\ \A i \in 1 .. n : built[i].bucket \in Int /\ built[i] = BarOf(built[i])
  <2>1. n \in Nat /\ \A i \in 1 .. n : built[i] \in Bar
    OBVIOUS
  <2>2. ASSUME NEW b \in Bar PROVE b.bucket \in Int /\ b = BarOf(b)
    BY DEF Bar, BarOf
  <2> QED  BY <2>1, <2>2
<1>2. S \in SUBSET Int /\ q \in [1 .. n -> S] /\ \A x \in S : \E i \in 1 .. n : q[i] = x
  BY <1>1 DEF BuiltBuckets
<1>3. Increases(q, n)
  BY DEF Increases, BucketsIncrease
<1>4. Ascending(S) = q
  <2> HIDE DEF n, S, q
  <2> QED  BY <1>1, <1>2, <1>3, AscendingIs
<1> QED  BY <1>1, <1>4

\* Bars in order, one for each kept bucket and each the bar of its group, are the expected ones.
LEMMA BuiltIsExpected ==
  ASSUME NEW ticks \in Seq(Tick), NEW built \in Seq(Bar),
         \A i \in 1 .. Len(built) : IsBarOf(built[i], ticks),
         BucketsIncrease(built), BuiltBuckets(built) = KeptBuckets(ticks)
  PROVE  built = ExpectedBars(ticks)
<1> DEFINE n == Len(built)
           S == KeptBuckets(ticks)
<1>1. /\ Ascending(S) = [i \in 1 .. n |-> built[i].bucket]
      /\ \A i \in 1 .. n : built[i] = BarOf(built[i])
  BY BuiltInOrder
<1>2. ExpectedBars(ticks) = [i \in DOMAIN Ascending(S) |-> ExpectedBar(ticks, Ascending(S)[i])]
  BY DEF ExpectedBars, KeptBuckets, BucketAt
<1>3. ExpectedBars(ticks) = [i \in 1 .. n |-> ExpectedBar(ticks, built[i].bucket)]
  BY <1>1, <1>2
<1>4. ASSUME NEW i \in 1 .. n PROVE ExpectedBar(ticks, built[i].bucket) = built[i]
  <2>1. PICK first \in Nat, last \in Nat :
           Describes(built[i], first, last, ticks, Group(ticks, built[i].bucket))
    BY DEF IsBarOf
  <2>2. BarOf(built[i]) = ExpectedBar(ticks, built[i].bucket)
    BY <2>1, DescribedIsExpected
  <2> QED  BY <1>1, <2>2
<1>5. built = [i \in 1 .. n |-> built[i]]
  OBVIOUS
<1> QED  BY <1>3, <1>4, <1>5

\* ... and, of ticks in order, the ones that the batch makes.
LEMMA BuiltIsBatch ==
  ASSUME NEW ticks \in Seq(Tick), InOrder(ticks), NEW built \in Seq(Bar),
         \A i \in 1 .. Len(built) : IsBarOf(built[i], ticks),
         BucketsIncrease(built), BuiltBuckets(built) = KeptBuckets(ticks)
  PROVE  built = AggregateTicks(ticks)
<1> DEFINE n == Len(built)
           S == KeptBuckets(ticks)
<1>1. /\ Ascending(S) = [i \in 1 .. n |-> built[i].bucket]
      /\ \A i \in 1 .. n : built[i] = BarOf(built[i])
  BY BuiltInOrder
<1>2. AggregateTicks(ticks) = [i \in DOMAIN Ascending(S) |-> BatchBar(ticks, Ascending(S)[i])]
  BY DEF AggregateTicks, KeptBuckets, BucketAt, InOrder
<1>3. AggregateTicks(ticks) = [i \in 1 .. n |-> BatchBar(ticks, built[i].bucket)]
  BY <1>1, <1>2
<1>4. ASSUME NEW i \in 1 .. n PROVE BatchBar(ticks, built[i].bucket) = built[i]
  <2>1. PICK first \in Nat, last \in Nat :
           Describes(built[i], first, last, ticks, Group(ticks, built[i].bucket))
    BY DEF IsBarOf
  <2>2. BarOf(built[i]) = BatchBar(ticks, built[i].bucket)
    BY <2>1, DescribedIsBatch
  <2> QED  BY <1>1, <2>2
<1>5. built = [i \in 1 .. n |-> built[i]]
  OBVIOUS
<1> QED  BY <1>3, <1>4, <1>5

\* One tick more: the ones before it stay where they are.
OneMore(more, ticks, tick) ==
    /\ ticks \in Seq(Tick) /\ tick \in Tick /\ more \in Seq(Tick)
    /\ Len(more) = Len(ticks) + 1 /\ more[Len(ticks) + 1] = tick
    /\ \A k \in 1 .. Len(ticks) : more[k] = ticks[k]

\* A tick that is not late is kept, in its bucket; one that is late changes nothing.
LEMMA KeptGrows ==
  ASSUME NEW ticks, NEW tick, NEW more, OneMore(more, ticks, tick),
         \A k \in 1 .. Len(ticks) : BucketAt(ticks, k) <= BucketStart(tick.timestamp)
  PROVE  Kept(more) = Kept(ticks) \cup {Len(ticks) + 1}
<1> DEFINE n == Len(ticks)
<1>1. n \in Nat /\ DOMAIN ticks = 1 .. n /\ DOMAIN more = 1 .. (n + 1) /\ more[n + 1] = tick
      /\ \A k \in 1 .. n : more[k] = ticks[k]
  BY DEF OneMore
<1>2. BucketStart(tick.timestamp) \in Nat
  BY BucketIs, TickFields DEF OneMore
<1> HIDE DEF n
<1>3. ASSUME NEW k \in 1 .. n PROVE k \in Kept(more) <=> k \in Kept(ticks)
  <2>1. \A j \in 1 .. k : j \in 1 .. n /\ more[j] = ticks[j]
    BY <1>1
  <2>2. k \in 1 .. (n + 1)
    BY <1>1
  <2> QED  BY <1>1, <2>1, <2>2 DEF Kept
<1>4. n + 1 \in Kept(more)
  <2>1. ASSUME NEW j \in 1 .. (n + 1)
        PROVE  BucketStart(more[j].timestamp) <= BucketStart(more[n + 1].timestamp)
    <3>1. CASE j \in 1 .. n
      BY <1>1, <3>1 DEF BucketAt, n
    <3>2. CASE j = n + 1
      BY <1>1, <1>2, <3>2
    <3> QED  BY <1>1, <3>1, <3>2
  <2>2. n + 1 \in 1 .. (n + 1)
    BY <1>1
  <2> QED  BY <1>1, <2>1, <2>2 DEF Kept
<1>5. Kept(more) \subseteq 1 .. (n + 1) /\ Kept(ticks) \subseteq 1 .. n
  BY <1>1 DEF Kept
<1>6. 1 .. (n + 1) = (1 .. n) \cup {n + 1}
  BY <1>1
<1> QED  BY <1>3, <1>4, <1>5, <1>6 DEF n

\* A tick that is not late joins the group of its bucket and no other.
LEMMA GroupsGrow ==
  ASSUME NEW ticks, NEW tick, NEW more, OneMore(more, ticks, tick),
         \A k \in 1 .. Len(ticks) : BucketAt(ticks, k) <= BucketStart(tick.timestamp)
  PROVE  /\ KeptBuckets(more) = KeptBuckets(ticks) \cup {BucketStart(tick.timestamp)}
         /\ Group(more, BucketStart(tick.timestamp)) =
                Group(ticks, BucketStart(tick.timestamp)) \cup {Len(ticks) + 1}
         /\ \A b : b # BucketStart(tick.timestamp) => Group(more, b) = Group(ticks, b)
<1>1. Kept(more) = Kept(ticks) \cup {Len(ticks) + 1}
  BY KeptGrows
<1>2. \A k \in Kept(ticks) : BucketAt(more, k) = BucketAt(ticks, k)
  BY KeptTicks DEF OneMore, BucketAt
<1>3. BucketAt(more, Len(ticks) + 1) = BucketStart(tick.timestamp)
  BY DEF OneMore, BucketAt
<1> QED  BY <1>1, <1>2, <1>3 DEF KeptBuckets, Group

\* A late tick joins no group.
LEMMA LateStays ==
  ASSUME NEW ticks, NEW tick, NEW more, OneMore(more, ticks, tick),
         NEW k \in 1 .. Len(ticks), BucketStart(tick.timestamp) < BucketAt(ticks, k)
  PROVE  /\ Kept(more) = Kept(ticks)
         /\ KeptBuckets(more) = KeptBuckets(ticks)
         /\ \A b : Group(more, b) = Group(ticks, b)
<1> DEFINE n == Len(ticks)
<1>1. n \in Nat /\ DOMAIN ticks = 1 .. n /\ DOMAIN more = 1 .. (n + 1) /\ more[n + 1] = tick
      /\ \A i \in 1 .. n : more[i] = ticks[i]
  BY DEF OneMore
<1>2. BucketStart(tick.timestamp) \in Nat /\ BucketAt(ticks, k) \in Nat
  BY BucketIs, TickFields, KeptTicks DEF OneMore, BucketAt
<1>3. k \in 1 .. n
  OBVIOUS
<1> HIDE DEF n
<1>4. ASSUME NEW i \in 1 .. n PROVE i \in Kept(more) <=> i \in Kept(ticks)
  <2>1. \A j \in 1 .. i : j \in 1 .. n /\ more[j] = ticks[j]
    BY <1>1
  <2>2. i \in 1 .. (n + 1)
    BY <1>1
  <2> QED  BY <1>1, <2>1, <2>2 DEF Kept
<1>5. n + 1 \notin Kept(more)
  <2>1. k \in 1 .. (n + 1) /\ ~(BucketStart(more[k].timestamp) <= BucketStart(more[n + 1].timestamp))
    BY <1>1, <1>2, <1>3 DEF BucketAt
  <2> QED  BY <2>1 DEF Kept
<1>6. Kept(more) \subseteq 1 .. (n + 1) /\ Kept(ticks) \subseteq 1 .. n
  BY <1>1 DEF Kept
<1>7. 1 .. (n + 1) = (1 .. n) \cup {n + 1}
  BY <1>1
<1>8. Kept(more) = Kept(ticks)
  BY <1>4, <1>5, <1>6, <1>7
<1>9. \A i \in Kept(ticks) : BucketAt(more, i) = BucketAt(ticks, i)
  BY <1>1, <1>6 DEF BucketAt
<1> QED  BY <1>8, <1>9 DEF KeptBuckets, Group

\* A bar still tells of the same ticks when there is one more ...
LEMMA StillDescribes ==
  ASSUME NEW ticks, NEW tick, NEW more, OneMore(more, ticks, tick),
         NEW G \in SUBSET (1 .. Len(ticks)), NEW bar, NEW first, NEW last,
         Describes(bar, first, last, ticks, G)
  PROVE  Describes(bar, first, last, more, G)
<1>1. \A k \in G : more[k] = ticks[k]
  BY DEF OneMore
<1>2. Volume(more, G) = Volume(ticks, G)
  <2>1. IsFiniteSet(G)
    <3>1. Len(ticks) \in Nat
      BY DEF OneMore
    <3>2. IsFiniteSet(1 .. Len(ticks))
      BY <3>1, FS_Interval
    <3> QED  BY <3>2, FS_Subset
  <2> DEFINE m == Len(ticks) + 1
  <2>2. m \notin G /\ more[m].volume \in Int
    BY TickFields DEF OneMore
  <2>3. SameVolumes(more, ticks, G)
    <3>1. \A k \in G : ticks[k] \in Tick
      BY DEF OneMore
    <3>2. \A k \in G : ticks[k].volume \in Int /\ more[k].volume = ticks[k].volume
      BY <1>1, <3>1, TickFields
    <3> QED  BY <2>1, <3>2 DEF SameVolumes
  <2> HIDE DEF m
  <2> QED  BY <2>2, <2>3, VolumeInsert
<1>3. \A i, t : LastAt(i, t, ticks, G) => LastAt(i, t, more, G)
  BY <1>1 DEF LastAt
<1> QED  BY <1>1, <1>2, <1>3 DEF Describes

\* ... a bar that starts tells of its one tick ...
LEMMA StartedDescribes ==
  ASSUME NEW ticks, NEW tick, NEW more, OneMore(more, ticks, tick)
  PROVE  Describes(Started(tick), tick.timestamp, tick.timestamp, more, {Len(ticks) + 1})
<1> DEFINE m == Len(ticks) + 1
<1>1. m \in Nat /\ more[m] = tick /\ tick.timestamp \in Nat /\ tick.price \in Nat /\ tick.volume \in Int
  BY TickFields DEF OneMore
<1> HIDE DEF m
<1>2. Volume(more, {m}) = tick.volume
  <2> DEFINE none == {}
  <2>1. SameVolumes(more, more, none) /\ m \notin none /\ more[m].volume \in Int
    BY <1>1, FS_EmptySet DEF SameVolumes
  <2>2. Volume(more, none) = 0 /\ none \cup {m} = {m}
    BY NoVolume
  <2> HIDE DEF none
  <2>3. Volume(more, none \cup {m}) = Volume(more, none) + more[m].volume
    BY <2>1, VolumeInsert
  <2> QED  BY <1>1, <2>2, <2>3
<1>3. LastAt(m, tick.timestamp, more, {m})
  BY <1>1 DEF LastAt
<1>4. /\ Started(tick).open = tick.price /\ Started(tick).close = tick.price
      /\ Started(tick).high = tick.price /\ Started(tick).low = tick.price
      /\ Started(tick).volume = tick.volume
  BY DEF Started
<1>5. Describes(Started(tick), tick.timestamp, tick.timestamp, more, {m})
  BY <1>1, <1>2, <1>3, <1>4 DEF Describes
<1> QED  BY <1>5 DEF m

\* ... and a bar that is widened tells of one tick more.  Of the ticks at its first (last)
\* time it is the newest that gives the open (close).
LEMMA WidenedDescribes ==
  ASSUME NEW ticks, NEW tick, NEW more, OneMore(more, ticks, tick),
         NEW G \in SUBSET (1 .. Len(ticks)), NEW bar,
         Describes(bar, bar.first, bar.last, ticks, G)
  PROVE  Describes(Widened(bar, tick), Widened(bar, tick).first, Widened(bar, tick).last,
                   more, G \cup {Len(ticks) + 1})
<1> DEFINE m == Len(ticks) + 1
           H == G \cup {m}
           w == Widened(bar, tick)
<1>1. /\ m \in Nat /\ more[m] = tick /\ tick.timestamp \in Nat /\ tick.price \in Nat /\ tick.volume \in Int
      /\ \A k \in G : k \in Nat /\ k < m /\ m \notin G
  BY TickFields DEF OneMore
<1>2. \A k \in G : more[k] = ticks[k] /\ ticks[k].timestamp \in Nat /\ ticks[k].price \in Nat
                   /\ ticks[k].volume \in Int
  <2>1. \A k \in G : more[k] = ticks[k] /\ ticks[k] \in Tick
    BY DEF OneMore
  <2> QED  BY <2>1, TickFields
<1>3. /\ w.first = IF tick.timestamp <= bar.first THEN tick.timestamp ELSE bar.first
      /\ w.open = IF tick.timestamp <= bar.first THEN tick.price ELSE bar.open
      /\ w.last = IF tick.timestamp >= bar.last THEN tick.timestamp ELSE bar.last
      /\ w.close = IF tick.timestamp >= bar.last THEN tick.price ELSE bar.close
      /\ w.high = IF tick.price > bar.high THEN tick.price ELSE bar.high
      /\ w.low = IF tick.price < bar.low THEN tick.price ELSE bar.low
      /\ w.volume = bar.volume + tick.volume
  BY DEF Widened
<1>4. Volume(more, H) = Volume(ticks, G) + tick.volume
  <2>1. IsFiniteSet(G)
    <3>1. Len(ticks) \in Nat
      BY DEF OneMore
    <3>2. IsFiniteSet(1 .. Len(ticks))
      BY <3>1, FS_Interval
    <3> QED  BY <3>2, FS_Subset
  <2>2. SameVolumes(more, ticks, G)
    BY <1>2, <2>1 DEF SameVolumes
  <2>3. m \notin G /\ more[m].volume \in Int /\ more[m].volume = tick.volume
    BY <1>1 DEF OneMore
  <2> HIDE DEF m
  <2> QED  BY <2>2, <2>3, VolumeInsert
<1> HIDE DEF m, w
<1>5. PICK i \in G : LastAt(i, bar.first, ticks, G) /\ bar.open = ticks[i].price
  BY DEF Describes
<1>6. PICK j \in G : LastAt(j, bar.last, ticks, G) /\ bar.close = ticks[j].price
  BY DEF Describes
<1>7. /\ bar.first \in Nat /\ bar.last \in Nat
      /\ \A k \in G : bar.first <= ticks[k].timestamp /\ ticks[k].timestamp <= bar.last
  BY <1>2, <1>5, <1>6 DEF LastAt, Describes
<1>8. \A k \in H : w.first <= more[k].timestamp /\ more[k].timestamp <= w.last
  <2>0. /\ bar.first \in Nat /\ bar.last \in Nat /\ w.first \in Nat /\ w.last \in Nat
        /\ w.first <= bar.first /\ bar.last <= w.last
        /\ w.first <= tick.timestamp /\ tick.timestamp <= w.last
    BY <1>1, <1>3, <1>7
  <2>1. ASSUME NEW k \in G PROVE w.first <= more[k].timestamp /\ more[k].timestamp <= w.last
    <3>1. /\ more[k].timestamp = ticks[k].timestamp /\ ticks[k].timestamp \in Nat
          /\ bar.first <= ticks[k].timestamp /\ ticks[k].timestamp <= bar.last
      BY <1>2, <1>7
    <3> DEFINE t == ticks[k].timestamp
    <3>2. t \in Nat /\ bar.first <= t /\ t <= bar.last
      BY <3>1
    <3> HIDE DEF t
    <3>3. w.first <= t /\ t <= w.last
      BY <2>0, <3>2
    <3> QED  BY <3>1, <3>3 DEF t
  <2>2. w.first <= more[m].timestamp /\ more[m].timestamp <= w.last
    BY <1>1, <2>0
  <2> QED  BY <2>1, <2>2
<1>9. \E k \in H : LastAt(k, w.first, more, H) /\ w.open = more[k].price
  <2>1. CASE tick.timestamp <= bar.first
    <3>1. LastAt(m, w.first, more, H) /\ w.open = more[m].price
      BY <1>1, <1>3, <2>1 DEF LastAt
    <3> QED  BY <3>1
  <2>2. CASE ~(tick.timestamp <= bar.first)
    <3>1. LastAt(i, w.first, more, H) /\ w.open = more[i].price
      BY <1>1, <1>2, <1>3, <1>5, <1>7, <2>2 DEF LastAt
    <3> QED  BY <3>1
  <2> QED  BY <2>1, <2>2
<1>10. \E k \in H : LastAt(k, w.last, more, H) /\ w.close = more[k].price
  <2>1. CASE tick.timestamp >= bar.last
    <3>1. LastAt(m, w.last, more, H) /\ w.close = more[m].price
      BY <1>1, <1>3, <2>1 DEF LastAt
    <3> QED  BY <3>1
  <2>2. CASE ~(tick.timestamp >= bar.last)
    <3>1. LastAt(j, w.last, more, H) /\ w.close = more[j].price
      BY <1>1, <1>2, <1>3, <1>6, <1>7, <2>2 DEF LastAt
    <3> QED  BY <3>1
  <2> QED  BY <2>1, <2>2
<1>11. PICK h \in G, l \in G : /\ bar.high = ticks[h].price /\ bar.low = ticks[l].price
                               /\ \A k \in G : bar.low <= ticks[k].price /\ ticks[k].price <= bar.high
  BY DEF Describes
<1>12. \A k \in H : w.low <= more[k].price /\ more[k].price <= w.high
  <2>1. bar.high \in Nat /\ bar.low \in Nat
    BY <1>2, <1>11
  <2>0. /\ bar.high \in Nat /\ bar.low \in Nat /\ w.high \in Nat /\ w.low \in Nat
        /\ w.low <= bar.low /\ bar.high <= w.high /\ w.low <= tick.price /\ tick.price <= w.high
    BY <1>1, <1>3, <2>1
  <2>2. ASSUME NEW k \in G PROVE w.low <= more[k].price /\ more[k].price <= w.high
    <3>1. more[k].price = ticks[k].price /\ ticks[k].price \in Nat
          /\ bar.low <= ticks[k].price /\ ticks[k].price <= bar.high
      BY <1>2, <1>11
    <3> DEFINE p == ticks[k].price
    <3>2. p \in Nat /\ bar.low <= p /\ p <= bar.high
      BY <3>1
    <3> HIDE DEF p
    <3>3. w.low <= p /\ p <= w.high
      BY <2>0, <3>2
    <3> QED  BY <3>1, <3>3 DEF p
  <2>3. w.low <= more[m].price /\ more[m].price <= w.high
    BY <1>1, <2>0
  <2> QED  BY <2>2, <2>3
<1>13. (\E k \in H : w.high = more[k].price) /\ (\E k \in H : w.low = more[k].price)
  <2>1. w.high \in {more[m].price, more[h].price} /\ w.low \in {more[m].price, more[l].price}
    BY <1>1, <1>2, <1>3, <1>11
  <2> QED  BY <2>1
<1>14. w.volume = Volume(more, H)
  BY <1>3, <1>4 DEF Describes
<1>15. Describes(w, w.first, w.last, more, H)
  <2> HIDE DEF H
  <2> QED  BY <1>8, <1>9, <1>10, <1>12, <1>13, <1>14 DEF Describes
<1> QED  BY <1>15 DEF m, w

\* Bars that tell of their buckets, in order; the one in progress, which is that of the
\* latest bucket that any tick has opened.
Finished(built, ticks) ==
    BucketsIncrease(built) /\ \A i \in 1 .. Len(built) : IsBarOf(built[i], ticks)

InProgress(bar, built, ticks) ==
    /\ bar # Idle
    /\ Describes(bar, bar.first, bar.last, ticks, Group(ticks, bar.bucket))
    /\ \A k \in 1 .. Len(ticks) : BucketAt(ticks, k) <= bar.bucket
    /\ \A i \in 1 .. Len(built) : built[i].bucket < bar.bucket
    /\ KeptBuckets(ticks) = BuiltBuckets(built) \cup {bar.bucket}

Tells(bar, built, ticks) ==
    /\ Finished(built, ticks)
    /\ (bar = Idle /\ built = <<>> /\ ticks = <<>>) \/ InProgress(bar, built, ticks)

\* The first and the last time that a bar tells of are times.
LEMMA DescribedTimes ==
  ASSUME NEW ticks \in Seq(Tick), NEW bucket, NEW bar, NEW first, NEW last,
         Describes(bar, first, last, ticks, Group(ticks, bucket))
  PROVE  first \in Nat /\ last \in Nat /\ Group(ticks, bucket) \in SUBSET (1 .. Len(ticks))
<1>1. Group(ticks, bucket) \in SUBSET (1 .. Len(ticks))
  BY KeptTicks DEF Group
<1>2. \A k \in Group(ticks, bucket) : ticks[k].timestamp \in Nat
  BY <1>1, KeptTicks, TickFields
<1> QED  BY <1>1, <1>2 DEF Describes, LastAt

\* The bucket of a bar.
LEMMA BucketFields ==
  /\ \A built \in Seq(Bar) : \A i \in 1 .. Len(built) : built[i].bucket \in Nat
  /\ \A bar : BarOf(bar) \in Bar => bar.bucket \in Nat
<1>1. \A b \in Bar : b.bucket \in Nat
  BY DEF Bar
<1>2. \A bar : BarOf(bar).bucket = bar.bucket
  BY DEF BarOf
<1> QED  BY <1>1, <1>2

\* When the bar in progress is completed, the bars are those of the kept ticks.
LEMMA CompletedTells ==
  ASSUME NEW ticks \in Seq(Tick), NEW built \in Seq(Bar), NEW bar, BarOf(bar) \in Bar,
         Finished(built, ticks), InProgress(bar, built, ticks)
  PROVE  /\ Append(built, BarOf(bar)) \in Seq(Bar)
         /\ Finished(Append(built, BarOf(bar)), ticks)
         /\ BuiltBuckets(Append(built, BarOf(bar))) = KeptBuckets(ticks)
         /\ \A i \in 1 .. Len(Append(built, BarOf(bar))) :
               Append(built, BarOf(bar))[i].bucket <= bar.bucket
<1> DEFINE n == Len(built)
           all == Append(built, BarOf(bar))
<1>1. /\ n \in Nat /\ all \in Seq(Bar) /\ Len(all) = n + 1 /\ all[n + 1] = BarOf(bar)
      /\ \A i \in 1 .. n : all[i] = built[i]
  OBVIOUS
<1>2. /\ bar.bucket \in Nat /\ all[n + 1].bucket = bar.bucket
      /\ \A i \in 1 .. n : all[i].bucket = built[i].bucket /\ built[i].bucket \in Nat
  BY <1>1, BucketFields DEF BarOf
<1>3. \A i \in 1 .. (n + 1) : i \in 1 .. n \/ i = n + 1
  BY <1>1
<1> HIDE DEF all
<1>4. \A i \in 1 .. n : built[i].bucket < bar.bucket
  BY DEF InProgress
<1> HIDE DEF n
<1>5. BucketsIncrease(all)
  <2>1. ASSUME NEW i \in 1 .. (n + 1), NEW j \in 1 .. (n + 1), i < j
        PROVE  all[i].bucket < all[j].bucket
    <3>1. i \in 1 .. n
      BY <1>1, <2>1
    <3>2. CASE j = n + 1
      BY <1>2, <1>4, <3>1, <3>2
    <3>3. CASE j \in 1 .. n
      BY <1>2, <2>1, <3>1, <3>3 DEF Finished, BucketsIncrease, n
    <3> QED  BY <1>3, <3>2, <3>3
  <2> QED  BY <1>1, <2>1 DEF BucketsIncrease
<1>6. ASSUME NEW i \in 1 .. (n + 1) PROVE IsBarOf(all[i], ticks)
  <2>1. CASE i \in 1 .. n
    BY <1>1, <2>1 DEF Finished, n
  <2>2. CASE i = n + 1
    <3>1. Describes(bar, bar.first, bar.last, ticks, Group(ticks, bar.bucket))
      BY DEF InProgress
    <3>2. bar.first \in Nat /\ bar.last \in Nat
      BY <3>1, DescribedTimes
    <3>3. Describes(BarOf(bar), bar.first, bar.last, ticks, Group(ticks, bar.bucket))
      <4>1. /\ BarOf(bar).open = bar.open /\ BarOf(bar).high = bar.high /\ BarOf(bar).low = bar.low
            /\ BarOf(bar).close = bar.close /\ BarOf(bar).volume = bar.volume
        BY DEF BarOf
      <4> QED  BY <3>1, <4>1 DEF Describes
    <3>4. BarOf(bar).bucket = bar.bucket
      BY DEF BarOf
    <3>5. IsBarOf(BarOf(bar), ticks)
      BY <3>2, <3>3, <3>4 DEF IsBarOf
    <3> QED  BY <1>1, <2>2, <3>5
  <2> QED  BY <1>3, <2>1, <2>2
<1>7. BuiltBuckets(all) = KeptBuckets(ticks)
  <2>1. BuiltBuckets(all) = BuiltBuckets(built) \cup {bar.bucket}
    <3>1. 1 .. (n + 1) = (1 .. n) \cup {n + 1}
      BY <1>1
    <3>2. BuiltBuckets(all) = {all[i].bucket : i \in 1 .. (n + 1)}
      BY <1>1 DEF BuiltBuckets
    <3>3. BuiltBuckets(built) = {all[i].bucket : i \in 1 .. n}
      BY <1>2 DEF BuiltBuckets, n
    <3> QED  BY <1>2, <3>1, <3>2, <3>3
  <2> QED  BY <2>1 DEF InProgress
<1>8. \A i \in 1 .. (n + 1) : all[i].bucket <= bar.bucket
  BY <1>2, <1>3, <1>4
<1> QED  BY <1>1, <1>5, <1>6, <1>7, <1>8 DEF Finished, all

\* Bars whose buckets get no further tick are finished still.
LEMMA FinishedStill ==
  ASSUME NEW ticks, NEW tick, NEW more, OneMore(more, ticks, tick), NEW built \in Seq(Bar),
         Finished(built, ticks),
         \A i \in 1 .. Len(built) : Group(more, built[i].bucket) = Group(ticks, built[i].bucket)
  PROVE  Finished(built, more)
<1>1. ASSUME NEW i \in 1 .. Len(built) PROVE IsBarOf(built[i], more)
  <2>1. PICK first \in Nat, last \in Nat :
           Describes(built[i], first, last, ticks, Group(ticks, built[i].bucket))
    BY DEF Finished, IsBarOf
  <2>2. Group(ticks, built[i].bucket) \in SUBSET (1 .. Len(ticks))
    BY KeptTicks DEF Group, OneMore
  <2>3. Describes(built[i], first, last, more, Group(ticks, built[i].bucket))
    BY <2>1, <2>2, StillDescribes
  <2>4. Describes(built[i], first, last, more, Group(more, built[i].bucket))
    BY <2>3
  <2> QED  BY <2>4 DEF IsBarOf
<1> QED  BY <1>1 DEF Finished

\* A tick beyond all buckets starts a bar,
LEMMA StartedTells ==
  ASSUME NEW ticks, NEW tick, NEW more, OneMore(more, ticks, tick), NEW built \in Seq(Bar),
         Finished(built, ticks), KeptBuckets(ticks) = BuiltBuckets(built),
         \A k \in 1 .. Len(ticks) : BucketAt(ticks, k) < BucketStart(tick.timestamp),
         \A i \in 1 .. Len(built) : built[i].bucket < BucketStart(tick.timestamp)
  PROVE  Tells(Started(tick), built, more)
<1> DEFINE b == BucketStart(tick.timestamp)
           n == Len(ticks)
<1>1. /\ b \in Nat /\ n \in Nat /\ Len(more) = n + 1 /\ more[n + 1] = tick
      /\ \A k \in 1 .. n : more[k] = ticks[k] /\ BucketAt(ticks, k) \in Nat
      /\ \A i \in 1 .. Len(built) : built[i].bucket \in Nat
  <2>1. /\ tick \in Tick /\ ticks \in Seq(Tick) /\ n \in Nat
        /\ Len(more) = n + 1 /\ more[n + 1] = tick /\ \A k \in 1 .. n : more[k] = ticks[k]
    BY DEF OneMore
  <2>2. b \in Nat
    BY <2>1, TickFields, BucketIs
  <2>3. ASSUME NEW k \in 1 .. n PROVE BucketAt(ticks, k) \in Nat
    BY <2>1, KeptTicks, TickFields, BucketIs DEF BucketAt
  <2>4. \A i \in 1 .. Len(built) : built[i].bucket \in Nat
    BY BucketFields
  <2> QED  BY <2>1, <2>2, <2>3, <2>4
<1>2. \A k \in 1 .. n : BucketAt(ticks, k) <= b
  BY <1>1
<1>3. /\ KeptBuckets(more) = KeptBuckets(ticks) \cup {b}
      /\ Group(more, b) = Group(ticks, b) \cup {n + 1}
      /\ \A c : c # b => Group(more, c) = Group(ticks, c)
  BY <1>2, GroupsGrow
<1>4. Group(ticks, b) = {}
  <2>1. \A k \in Kept(ticks) : BucketAt(ticks, k) # b
    BY <1>1, KeptTicks DEF OneMore
  <2> QED  BY <2>1 DEF Group
<1>5. Finished(built, more)
  <2>1. \A i \in 1 .. Len(built) : Group(more, built[i].bucket) = Group(ticks, built[i].bucket)
    BY <1>1, <1>3
  <2> QED  BY <2>1, FinishedStill
<1>6. InProgress(Started(tick), built, more)
  <2>1. /\ Started(tick).bucket = b
        /\ Started(tick).first = tick.timestamp /\ Started(tick).last = tick.timestamp
    BY DEF Started
  <2>2. Started(tick) # Idle
    <3>1. Idle.bucket = -1
      BY DEF Idle, NoTime
    <3> QED  BY <1>1, <2>1, <3>1
  <2>3. Describes(Started(tick), tick.timestamp, tick.timestamp, more, Group(more, b))
    <3>1. Group(more, b) = {n + 1}
      BY <1>3, <1>4
    <3> QED  BY <3>1, StartedDescribes
  <2>4. \A k \in 1 .. Len(more) : BucketAt(more, k) <= b
    <3>1. \A k \in 1 .. n : BucketAt(more, k) <= b
      BY <1>1, <1>2 DEF BucketAt
    <3>2. BucketAt(more, n + 1) <= b
      BY <1>1 DEF BucketAt
    <3>3. \A k \in 1 .. Len(more) : k \in 1 .. n \/ k = n + 1
      BY <1>1
    <3> QED  BY <3>1, <3>2, <3>3
  <2>5. \A i \in 1 .. Len(built) : built[i].bucket < b
    OBVIOUS
  <2> HIDE DEF b
  <2> QED  BY <1>3, <2>1, <2>2, <2>3, <2>4, <2>5 DEF InProgress
<1> QED  BY <1>5, <1>6 DEF Tells

\* a tick in the latest bucket widens the bar in progress,
LEMMA WidenedTells ==
  ASSUME NEW ticks, NEW tick, NEW more, OneMore(more, ticks, tick), NEW built \in Seq(Bar), NEW bar,
         Finished(built, ticks), InProgress(bar, built, ticks),
         BucketStart(tick.timestamp) = bar.bucket
  PROVE  Tells(Widened(bar, tick), built, more)
<1> DEFINE b == bar.bucket
           n == Len(ticks)
           w == Widened(bar, tick)
<1>1. /\ b \in Nat /\ n \in Nat /\ Len(more) = n + 1 /\ more[n + 1] = tick
      /\ \A k \in 1 .. n : more[k] = ticks[k]
      /\ \A i \in 1 .. Len(built) : built[i].bucket \in Nat
  <2>1. /\ tick \in Tick /\ n \in Nat
        /\ Len(more) = n + 1 /\ more[n + 1] = tick /\ \A k \in 1 .. n : more[k] = ticks[k]
    BY DEF OneMore
  <2>2. b \in Nat
    BY <2>1, TickFields, BucketIs
  <2>3. \A i \in 1 .. Len(built) : built[i].bucket \in Nat
    BY BucketFields
  <2> QED  BY <2>1, <2>2, <2>3
<1>2. \A k \in 1 .. n : BucketAt(ticks, k) <= b
  BY DEF InProgress
<1>3. /\ KeptBuckets(more) = KeptBuckets(ticks) \cup {b}
      /\ Group(more, b) = Group(ticks, b) \cup {n + 1}
      /\ \A c : c # b => Group(more, c) = Group(ticks, c)
  BY <1>2, GroupsGrow
<1>4. \A i \in 1 .. Len(built) : built[i].bucket < b
  BY DEF InProgress
<1>5. Finished(built, more)
  <2>1. \A i \in 1 .. Len(built) : Group(more, built[i].bucket) = Group(ticks, built[i].bucket)
    BY <1>1, <1>3, <1>4
  <2> QED  BY <2>1, FinishedStill
<1>6. InProgress(w, built, more)
  <2>1. w.bucket = b
    BY DEF Widened
  <2>2. w # Idle
    <3>1. Idle.bucket = -1
      BY DEF Idle, NoTime
    <3> HIDE DEF w
    <3> QED  BY <1>1, <2>1, <3>1
  <2>3. Describes(w, w.first, w.last, more, Group(more, b))
    <3>1. Describes(bar, bar.first, bar.last, ticks, Group(ticks, b))
      BY DEF InProgress
    <3>2. Group(ticks, b) \in SUBSET (1 .. n)
      BY KeptTicks DEF Group, OneMore
    <3>3. Describes(w, w.first, w.last, more, Group(ticks, b) \cup {n + 1})
      BY <3>1, <3>2, WidenedDescribes
    <3> QED  BY <1>3, <3>3
  <2>4. \A k \in 1 .. Len(more) : BucketAt(more, k) <= b
    <3>1. \A k \in 1 .. n : BucketAt(more, k) <= b
      BY <1>1, <1>2 DEF BucketAt
    <3>2. BucketAt(more, n + 1) <= b
      BY <1>1 DEF BucketAt
    <3>3. \A k \in 1 .. Len(more) : k \in 1 .. n \/ k = n + 1
      BY <1>1
    <3> QED  BY <3>1, <3>2, <3>3
  <2>5. KeptBuckets(more) = BuiltBuckets(built) \cup {b}
    BY <1>3 DEF InProgress
  <2> HIDE DEF b, w
  <2> QED  BY <1>4, <2>1, <2>2, <2>3, <2>4, <2>5 DEF InProgress
<1> QED  BY <1>5, <1>6 DEF Tells, w

\* and a late one changes nothing.
LEMMA LateTells ==
  ASSUME NEW ticks, NEW tick, NEW more, OneMore(more, ticks, tick), NEW built \in Seq(Bar), NEW bar,
         Finished(built, ticks), InProgress(bar, built, ticks),
         BucketStart(tick.timestamp) < bar.bucket
  PROVE  Tells(bar, built, more) /\ Kept(more) = Kept(ticks)
<1> DEFINE n == Len(ticks)
<1>1. PICK k \in 1 .. n : BucketAt(ticks, k) = bar.bucket
  <2>1. bar.bucket \in KeptBuckets(ticks)
    BY DEF InProgress
  <2> QED  BY <2>1, KeptTicks DEF KeptBuckets, OneMore
<1>2. /\ Kept(more) = Kept(ticks)
      /\ KeptBuckets(more) = KeptBuckets(ticks)
      /\ \A b : Group(more, b) = Group(ticks, b)
  BY <1>1, LateStays
<1>3. Finished(built, more)
  BY <1>2, FinishedStill
<1>4. InProgress(bar, built, more)
  <2>1. Describes(bar, bar.first, bar.last, ticks, Group(ticks, bar.bucket))
    BY DEF InProgress
  <2>2. Group(ticks, bar.bucket) \in SUBSET (1 .. n)
    BY KeptTicks DEF Group, OneMore
  <2>3. Describes(bar, bar.first, bar.last, more, Group(ticks, bar.bucket))
    BY <2>1, <2>2, StillDescribes
  <2>4. Describes(bar, bar.first, bar.last, more, Group(more, bar.bucket))
    BY <1>2, <2>3
  <2>5. \A i \in 1 .. Len(more) : BucketAt(more, i) <= bar.bucket
    <3>1. /\ n \in Nat /\ Len(more) = n + 1 /\ more[n + 1] = tick
          /\ \A i \in 1 .. n : more[i] = ticks[i]
      BY DEF OneMore
    <3>2. \A i \in 1 .. n : BucketAt(more, i) <= bar.bucket
      BY <3>1 DEF BucketAt, InProgress
    <3>3. BucketAt(more, n + 1) <= bar.bucket
      <4>1. BucketStart(tick.timestamp) \in Nat /\ bar.bucket \in Nat
        BY <1>1, BucketIs, KeptTicks, TickFields DEF OneMore, BucketAt
      <4> QED  BY <3>1, <4>1 DEF BucketAt
    <3>4. \A i \in 1 .. Len(more) : i \in 1 .. n \/ i = n + 1
      BY <3>1
    <3> QED  BY <3>2, <3>3, <3>4
  <2> QED  BY <1>2, <2>4, <2>5 DEF InProgress
<1> QED  BY <1>2, <1>3, <1>4 DEF Tells

\* What add_tick does, whatever tick comes.
LEMMA AddTickTells ==
  ASSUME NEW ticks, NEW tick, NEW more, OneMore(more, ticks, tick),
         late_ticks_dropped \in Int, bars \in Seq(Bar), current_bar = Idle \/ BarOf(current_bar) \in Bar,
         Tells(current_bar, bars, ticks), AddTick(tick)
  PROVE  /\ Tells(current_bar', bars', more)
         /\ late_ticks_dropped' + Cardinality(Kept(more)) =
                late_ticks_dropped + Cardinality(Kept(ticks)) + 1
<1> DEFINE b == BucketStart(tick.timestamp)
           n == Len(ticks)
<1>1. /\ ticks \in Seq(Tick) /\ b \in Nat /\ n \in Nat
      /\ \A k \in 1 .. n : BucketAt(ticks, k) \in Nat
  <2>1. ticks \in Seq(Tick) /\ tick \in Tick /\ n \in Nat
    BY DEF OneMore
  <2>2. b \in Nat
    BY <2>1, TickFields, BucketIs
  <2>3. ASSUME NEW k \in 1 .. n PROVE BucketAt(ticks, k) \in Nat
    BY <2>1, KeptTicks, TickFields, BucketIs DEF BucketAt
  <2> QED  BY <2>1, <2>2, <2>3
<1>2. Cardinality(Kept(ticks)) \in Nat
  BY <1>1, KeptTicks, FS_CardinalityType
<1>3. ASSUME \A k \in 1 .. n : BucketAt(ticks, k) <= b
      PROVE  Cardinality(Kept(more)) = Cardinality(Kept(ticks)) + 1
  <2>1. Kept(more) = Kept(ticks) \cup {n + 1}
    BY <1>3, KeptGrows
  <2>2. n + 1 \notin Kept(ticks) /\ IsFiniteSet(Kept(ticks))
    BY <1>1, KeptTicks
  <2> QED  BY <2>1, <2>2, FS_AddElement
<1>4. current_bar # Idle => current_bar.bucket \in Nat
  BY BucketFields
<1>5. CASE current_bar = Idle
  <2>1. current_bar' = Started(tick) /\ bars' = bars /\ late_ticks_dropped' = late_ticks_dropped
    BY <1>5 DEF AddTick, CompletesBar
  <2>2. bars = <<>> /\ ticks = <<>> /\ Finished(bars, ticks)
    BY <1>5 DEF Tells, InProgress
  <2>3. Len(bars) = 0 /\ n = 0 /\ Kept(ticks) = {}
    <3>1. Len(bars) = 0 /\ n = 0
      BY <2>2
    <3>2. Kept(ticks) \subseteq 1 .. n
      BY <1>1, KeptTicks
    <3> QED  BY <3>1, <3>2
  <2>4. KeptBuckets(ticks) = BuiltBuckets(bars)
    BY <2>3 DEF KeptBuckets, BuiltBuckets
  <2>5. Tells(Started(tick), bars, more)
    <3>1. /\ \A k \in 1 .. n : BucketAt(ticks, k) < b
          /\ \A i \in 1 .. Len(bars) : bars[i].bucket < b
      BY <2>3
    <3> QED  BY <2>2, <2>4, <3>1, StartedTells
  <2>6. Cardinality(Kept(more)) = Cardinality(Kept(ticks)) + 1
    BY <1>3, <2>3
  <2> QED  BY <1>2, <2>1, <2>5, <2>6
<1>6. CASE current_bar # Idle /\ b = current_bar.bucket
  <2>1. /\ current_bar' = Widened(current_bar, tick) /\ bars' = bars
        /\ late_ticks_dropped' = late_ticks_dropped
    BY <1>4, <1>6 DEF AddTick, CompletesBar
  <2>2. Finished(bars, ticks) /\ InProgress(current_bar, bars, ticks)
    BY <1>6 DEF Tells
  <2>3. Tells(Widened(current_bar, tick), bars, more)
    BY <1>6, <2>2, WidenedTells
  <2>4. Cardinality(Kept(more)) = Cardinality(Kept(ticks)) + 1
    BY <1>3, <1>6, <2>2 DEF InProgress
  <2> QED  BY <1>2, <2>1, <2>3, <2>4
<1>7. CASE current_bar # Idle /\ b > current_bar.bucket
  <2>1. /\ current_bar' = Started(tick) /\ bars' = Append(bars, BarOf(current_bar))
        /\ late_ticks_dropped' = late_ticks_dropped
    BY <1>1, <1>4, <1>7 DEF AddTick, CompletesBar
  <2>2. Finished(bars, ticks) /\ InProgress(current_bar, bars, ticks) /\ BarOf(current_bar) \in Bar
    BY <1>7 DEF Tells
  <2> DEFINE all == Append(bars, BarOf(current_bar))
  <2>3. /\ all \in Seq(Bar) /\ Finished(all, ticks) /\ BuiltBuckets(all) = KeptBuckets(ticks)
        /\ \A i \in 1 .. Len(all) : all[i].bucket <= current_bar.bucket
    BY <1>1, <2>2, CompletedTells
  <2> HIDE DEF all
  <2>4. \A i \in 1 .. Len(all) : all[i].bucket < b
    <3>1. \A i \in 1 .. Len(all) : all[i].bucket \in Nat
      BY <2>3, BucketFields
    <3> QED  BY <1>1, <1>4, <1>7, <2>3, <3>1
  <2>5. \A k \in 1 .. n : BucketAt(ticks, k) < b /\ BucketAt(ticks, k) <= b
    <3>1. \A k \in 1 .. n : BucketAt(ticks, k) <= current_bar.bucket
      BY <2>2 DEF InProgress
    <3> QED  BY <1>1, <1>4, <1>7, <3>1
  <2>6. Tells(Started(tick), all, more)
    BY <2>3, <2>4, <2>5, StartedTells
  <2>7. Cardinality(Kept(more)) = Cardinality(Kept(ticks)) + 1
    BY <1>3, <2>5
  <2> QED  BY <1>2, <2>1, <2>6, <2>7 DEF all
<1>8. CASE current_bar # Idle /\ b < current_bar.bucket
  <2>1. /\ current_bar' = current_bar /\ bars' = bars
        /\ late_ticks_dropped' = late_ticks_dropped + 1
    BY <1>1, <1>4, <1>8 DEF AddTick, CompletesBar
  <2>2. Finished(bars, ticks) /\ InProgress(current_bar, bars, ticks)
    BY <1>8 DEF Tells
  <2>3. Tells(current_bar, bars, more) /\ Kept(more) = Kept(ticks)
    BY <1>8, <2>2, LateTells
  <2> QED  BY <1>2, <2>1, <2>3
<1> QED  BY <1>1, <1>4, <1>5, <1>6, <1>7, <1>8

-----------------------------------------------------------------------------
(* The bars of the pipeline.                                               *)

TicksApplied == [k \in DOMAIN applied |-> feed[applied[k]]]

\* What the accumulator has made of the ticks applied.  The last bar is only flushed when
\* the run is over and no tick comes any more.
AppliedInv ==
    /\ applied \in Seq(1 .. Len(feed))
    /\ late_ticks_dropped \in Nat /\ total_volume_processed \in Nat
    /\ late_ticks_dropped + Cardinality(Kept(TicksApplied)) = Len(applied)
    /\ total_volume_processed = Volume(TicksApplied, 1 .. Len(applied))
    /\ driver # "DONE" => Tells(current_bar, bars, TicksApplied)
    /\ driver = "DONE" => /\ Finished(bars, TicksApplied)
                          /\ BuiltBuckets(bars) = KeptBuckets(TicksApplied)

\* What the consumers have applied is a sequence of ticks.
LEMMA TicksAppliedType ==
  ASSUME RestTypes, applied \in Seq(1 .. Len(feed))
  PROVE  TicksApplied \in Seq(Tick) /\ Len(TicksApplied) = Len(applied)
<1>1. \A k \in 1 .. Len(applied) : feed[applied[k]] \in Tick
  BY DEF RestTypes
<1>2. TicksApplied = [k \in 1 .. Len(applied) |-> feed[applied[k]]] /\ Len(applied) \in Nat
  BY DEF TicksApplied
<1> QED  BY <1>1, <1>2

\* One tick is added to those applied, at their end.
LEMMA ApplyKeepsBars ==
  ASSUME PipelineInv, RestTypes, BarsInv, AppliedInv, NEW c \in workers, ApplyTick(c)
  PROVE  AppliedInv'
<1> DEFINE tick == feed[event[c]]
           n == Len(applied)
<1>1. /\ task[c] = "ON_TICK" /\ AddTick(tick) /\ applied' = Append(applied, event[c])
      /\ feed' = feed /\ driver' = driver
  BY DEF ApplyTick, configVars, driverVars
<1>2. event[c] \in 1 .. Len(feed) /\ tick \in Tick
  <2>1. c \in Consumers /\ event[c] # NoTick
    BY <1>1 DEF PipelineInv, TicksInv, TicksTypes, Busy
  <2>2. event[c] \in 1 .. Taken /\ Taken \in Nat /\ Taken <= ticks_produced /\ ticks_produced \in Nat
    BY <2>1 DEF PipelineInv, TicksInv, TicksTypes, InHand, Taken
  <2>3. feed \in Seq(Tick) /\ ticks_produced <= Len(feed) /\ Len(feed) \in Nat
    BY DEF RestTypes
  <2>4. event[c] \in 1 .. Len(feed)
    BY <2>2, <2>3
  <2> QED  BY <2>3, <2>4
<1>3. applied \in Seq(1 .. Len(feed)) /\ applied' \in Seq(1 .. Len(feed)) /\ n \in Nat /\ Len(applied') = n + 1
  BY <1>1, <1>2 DEF AppliedInv
<1>4. TicksApplied \in Seq(Tick) /\ Len(TicksApplied) = n
  BY <1>3, TicksAppliedType
<1>5. OneMore(TicksApplied', TicksApplied, tick)
  <2>1. TicksApplied' = [k \in 1 .. (n + 1) |-> feed[applied'[k]]]
    BY <1>1, <1>3 DEF TicksApplied
  <2>2. TicksApplied = [k \in 1 .. n |-> feed[applied[k]]]
    BY <1>3 DEF TicksApplied
  <2>3. \A k \in 1 .. (n + 1) : applied'[k] = IF k = n + 1 THEN event[c] ELSE applied[k]
    BY <1>1, <1>3
  <2>4. \A k \in 1 .. (n + 1) : applied'[k] \in 1 .. Len(feed)
    BY <1>3
  <2>5. \A k \in 1 .. (n + 1) : feed[applied'[k]] \in Tick
    BY <2>4 DEF RestTypes
  <2>6. TicksApplied' \in Seq(Tick) /\ Len(TicksApplied') = n + 1
    BY <1>3, <2>1, <2>5
  <2>7. ASSUME NEW k \in 1 .. n PROVE TicksApplied'[k] = TicksApplied[k]
    <3>1. k \in 1 .. (n + 1) /\ k # n + 1
      BY <1>3
    <3> QED  BY <2>1, <2>2, <2>3, <3>1
  <2>8. TicksApplied'[n + 1] = tick
    <3>1. n + 1 \in 1 .. (n + 1)
      BY <1>3
    <3> QED  BY <2>1, <2>3, <3>1
  <2> HIDE DEF tick
  <2> QED  BY <1>2, <1>4, <2>6, <2>7, <2>8 DEF OneMore
<1>6. driver # "DONE"
  <2>1. driver = "DONE" => task[c] \notin Live
    BY DEF PipelineInv, DriverInv, TasksDone, Ended
  <2> QED  BY <1>1, <2>1 DEF Live
<1>7. /\ Tells(current_bar', bars', TicksApplied')
      /\ late_ticks_dropped' + Cardinality(Kept(TicksApplied')) =
             late_ticks_dropped + Cardinality(Kept(TicksApplied)) + 1
  <2>1. late_ticks_dropped \in Int /\ bars \in Seq(Bar) /\ Tells(current_bar, bars, TicksApplied)
        /\ (current_bar = Idle \/ BarOf(current_bar) \in Bar)
    BY <1>6 DEF BarsInv, AppliedInv
  <2> HIDE DEF tick
  <2> QED  BY <1>1, <1>5, <2>1, AddTickTells
<1>8. /\ total_volume_processed' = total_volume_processed + tick.volume
      /\ late_ticks_dropped' = late_ticks_dropped \/ late_ticks_dropped' = late_ticks_dropped + 1
  BY <1>1 DEF AddTick
<1>9. tick.volume \in Nat
  BY <1>2, TickFields
<1>10. Volume(TicksApplied', 1 .. (n + 1)) = Volume(TicksApplied, 1 .. n) + tick.volume
  <2> DEFINE m == n + 1
             S == 1 .. n
             more == TicksApplied'
  <2>1. IsFiniteSet(S) /\ S \cup {m} = 1 .. (n + 1) /\ m \notin S
    <3>1. n \in Nat
      BY <1>3
    <3> HIDE DEF n
    <3>2. IsFiniteSet(1 .. n)
      <4>1. 1 \in Int /\ n \in Int
        BY <3>1
      <4> QED  BY <4>1, FS_Interval
    <3>3. (1 .. n) \cup {n + 1} = 1 .. (n + 1) /\ n + 1 \notin 1 .. n
      BY <3>1
    <3> QED  BY <3>2, <3>3
  <2>2. \A k \in S : more[k] = TicksApplied[k] /\ TicksApplied[k] \in Tick
    BY <1>4, <1>5 DEF OneMore
  <2>3. SameVolumes(more, TicksApplied, S)
    <3>1. \A k \in S : TicksApplied[k].volume \in Int /\ more[k].volume = TicksApplied[k].volume
      BY <2>2, TickFields
    <3> QED  BY <2>1, <3>1 DEF SameVolumes
  <2>4. more[m] = tick /\ more[m].volume \in Int
    BY <1>4, <1>5, <1>9 DEF OneMore
  <2> HIDE DEF m, S, more, tick
  <2>5. Volume(more, S \cup {m}) = Volume(TicksApplied, S) + more[m].volume
    BY <2>1, <2>3, <2>4, VolumeInsert
  <2> QED  BY <2>1, <2>4, <2>5 DEF S, more
<1>11. late_ticks_dropped' + Cardinality(Kept(TicksApplied')) = n + 1
  <2>1. late_ticks_dropped + Cardinality(Kept(TicksApplied)) = n
    BY DEF AppliedInv
  <2>2. late_ticks_dropped' + Cardinality(Kept(TicksApplied')) =
            late_ticks_dropped + Cardinality(Kept(TicksApplied)) + 1
    BY <1>7
  <2> HIDE DEF n
  <2> QED  BY <2>1, <2>2
<1>12. late_ticks_dropped' \in Nat /\ total_volume_processed' \in Nat
  BY <1>8, <1>9 DEF AppliedInv
<1>13. total_volume_processed' = Volume(TicksApplied', 1 .. (n + 1))
  BY <1>8, <1>10 DEF AppliedInv
<1> HIDE DEF tick
<1> QED  BY <1>1, <1>3, <1>6, <1>7, <1>11, <1>12, <1>13 DEF AppliedInv


\* From no tick there is no bar.
LEMMA NothingKept ==
  ASSUME NEW ticks, ticks = <<>>
  PROVE  Kept(ticks) = {} /\ KeptBuckets(ticks) = {}
<1>1. Kept(ticks) = {}
  BY DEF Kept
<1> QED  BY <1>1 DEF KeptBuckets

\* The end of a run flushes the bar in progress.
LEMMA FlushKeepsBars ==
  ASSUME RestTypes, BarsInv, AppliedInv, FinishRun
  PROVE  AppliedInv'
<1>1. /\ driver = "GATHER" /\ driver' = "DONE"
      /\ UNCHANGED <<feed, applied, late_ticks_dropped, total_volume_processed>>
      /\ bars' = IF current_bar = Idle THEN bars ELSE Append(bars, BarOf(current_bar))
  BY DEF FinishRun, Flush, configVars, historyVars
<1>2. TicksApplied' = TicksApplied /\ TicksApplied \in Seq(Tick)
  BY <1>1, TicksAppliedType DEF TicksApplied, AppliedInv
<1>3. Tells(current_bar, bars, TicksApplied)
  BY <1>1 DEF AppliedInv
<1>4. Finished(bars', TicksApplied) /\ BuiltBuckets(bars') = KeptBuckets(TicksApplied)
  <2>1. CASE current_bar = Idle
    <3>1. bars' = bars /\ bars = <<>> /\ TicksApplied = <<>> /\ Finished(bars, TicksApplied)
      BY <1>1, <1>3, <2>1 DEF Tells, InProgress
    <3>2. BuiltBuckets(bars) = KeptBuckets(TicksApplied)
      <4>1. BuiltBuckets(bars) = {}
        BY <3>1 DEF BuiltBuckets
      <4> QED  BY <3>1, <4>1, NothingKept
    <3> QED  BY <3>1, <3>2
  <2>2. CASE current_bar # Idle
    <3>1. Finished(bars, TicksApplied) /\ InProgress(current_bar, bars, TicksApplied)
      BY <1>3, <2>2 DEF Tells
    <3>2. bars \in Seq(Bar) /\ BarOf(current_bar) \in Bar
      BY <2>2 DEF BarsInv
    <3>3. bars' = Append(bars, BarOf(current_bar))
      BY <1>1, <2>2
    <3> QED  BY <1>2, <3>1, <3>2, <3>3, CompletedTells
  <2> QED  BY <2>1, <2>2
<1> QED  BY <1>1, <1>2, <1>4 DEF AppliedInv

\* Nothing else touches the bars, and nothing follows the end of a run.
LEMMA AppliedStep ==
  ASSUME PipelineInv, RestTypes, BarsInv, AppliedInv, [Next]_vars
  PROVE  AppliedInv'
<1>1. ASSUME UNCHANGED <<feed, applied, accumulatorVars>>, driver' = "DONE" <=> driver = "DONE"
      PROVE  AppliedInv'
  <2>1. TicksApplied' = TicksApplied
    BY <1>1 DEF TicksApplied
  <2>2. UNCHANGED <<current_bar, bars, late_ticks_dropped, total_volume_processed>>
    BY <1>1 DEF accumulatorVars
  <2> QED  BY <1>1, <2>1, <2>2 DEF AppliedInv
<1>2. ASSUME NEW c \in workers, ConsumerStep(c), ~ApplyTick(c)
      PROVE  UNCHANGED <<feed, applied, accumulatorVars, driver>>
  BY <1>2 DEF ConsumerStep, TakeTick, BarHandled, CallbackRaises, ConsumerReturn, ConsumerCancelled,
              configVars, historyVars, driverVars
<1>3. CASE ProducerStep \/ UNCHANGED vars
  <2>1. UNCHANGED <<feed, applied, accumulatorVars, driver>>
    BY <1>3 DEF ProducerStep, ProducerPut, ProducerReturn, configVars, historyVars, driverVars, vars
  <2> QED  BY <1>1, <2>1
<1>4. CASE Timer \/ Stop \/ AwaitJoin \/ StopConsumers \/ RaiseTimeout
  <2>1. UNCHANGED <<feed, applied, accumulatorVars>>
    BY <1>4 DEF Timer, TimeoutAbsorbed, Timeout, Stop, AwaitJoin, StopConsumers, RaiseTimeout,
                configVars, historyVars
  <2>2. driver # "DONE" /\ driver' # "DONE"
    BY <1>4 DEF Timer, TimeoutAbsorbed, Timeout, Stop, AwaitJoin, StopConsumers, RaiseTimeout
  <2> QED  BY <1>1, <2>1, <2>2
<1> QED  BY <1>1, <1>2, <1>3, <1>4, ApplyKeepsBars, FlushKeepsBars DEF Next, DriverStep

\* Before the first tick there is no bar to describe.
LEMMA AppliedInitially == Init => AppliedInv
<1> SUFFICES ASSUME Init PROVE AppliedInv
  OBVIOUS
<1>1. /\ applied = <<>> /\ late_ticks_dropped = 0 /\ total_volume_processed = 0
      /\ current_bar = Idle /\ bars = <<>> /\ driver # "DONE" /\ feed \in Seq(Tick)
  BY PipelineAssumption DEF Init, AccumulatorInit
<1>2. applied \in Seq(1 .. Len(feed)) /\ Len(applied) = 0 /\ 1 .. Len(applied) = {}
  BY <1>1
<1>3. TicksApplied = <<>> /\ TicksApplied \in Seq(Tick) /\ Len(TicksApplied) = 0
  BY <1>1 DEF TicksApplied
<1>4. Kept(TicksApplied) = {} /\ Cardinality(Kept(TicksApplied)) = 0
  BY <1>3, NothingKept, FS_EmptySet
<1>5. Volume(TicksApplied, 1 .. Len(applied)) = 0
  BY <1>2, NoVolume
<1>6. Tells(current_bar, bars, TicksApplied)
  BY <1>1, <1>3 DEF Tells, Finished, BucketsIncrease
<1> QED  BY <1>1, <1>2, <1>4, <1>5, <1>6 DEF AppliedInv

\* In every run the bars describe the ticks applied.
LEMMA AppliedInvariant == Spec => [](PipelineInv /\ RestTypes /\ BarsInv /\ AppliedInv)
<1>1. Init => RestTypes /\ BarsInv /\ AppliedInv
  BY RestInitially, AppliedInitially
<1>2. PipelineInv /\ RestTypes /\ BarsInv /\ AppliedInv /\ [Next]_vars => (RestTypes /\ BarsInv /\ AppliedInv)'
  BY RestStep, BarsStep, AppliedStep DEF PipelineInv
<1> QED  BY <1>1, <1>2, PipelineInvariant, PTL DEF Spec

\* What has been built are the bars that are expected of the ticks applied.
LEMMA BuiltSoFar ==
  ASSUME PipelineInv, RestTypes, BarsInv, AppliedInv
  PROVE  BarsSoFar = ExpectedBars(TicksApplied)
<1>1. TicksApplied \in Seq(Tick)
  BY TicksAppliedType DEF AppliedInv
<1>2. BarsSoFar \in Seq(Bar) /\ Finished(BarsSoFar, TicksApplied)
      /\ BuiltBuckets(BarsSoFar) = KeptBuckets(TicksApplied)
  <2>1. CASE current_bar # Idle
    <3>1. BarsSoFar = Append(bars, BarOf(current_bar))
      BY <2>1 DEF BarsSoFar
    <3>2. driver # "DONE"
      BY <2>1 DEF PipelineInv, DriverInv
    <3>3. Finished(bars, TicksApplied) /\ InProgress(current_bar, bars, TicksApplied)
      BY <2>1, <3>2 DEF AppliedInv, Tells
    <3>4. bars \in Seq(Bar) /\ BarOf(current_bar) \in Bar
      BY <2>1 DEF BarsInv
    <3> QED  BY <1>1, <3>1, <3>3, <3>4, CompletedTells
  <2>2. CASE current_bar = Idle
    <3>1. BarsSoFar = bars /\ bars \in Seq(Bar)
      BY <2>2 DEF BarsSoFar, BarsInv
    <3>2. CASE driver = "DONE"
      BY <3>1, <3>2 DEF AppliedInv
    <3>3. CASE driver # "DONE"
      <4>1. Finished(bars, TicksApplied) /\ bars = <<>> /\ TicksApplied = <<>>
        BY <2>2, <3>3 DEF AppliedInv, Tells, InProgress
      <4>2. BuiltBuckets(bars) = {}
        BY <4>1 DEF BuiltBuckets
      <4>3. BuiltBuckets(bars) = KeptBuckets(TicksApplied)
        BY <4>1, <4>2, NothingKept
      <4> QED  BY <3>1, <4>1, <4>3
    <3> QED  BY <3>2, <3>3
  <2> QED  BY <2>1, <2>2
<1> QED  BY <1>1, <1>2, BuiltIsExpected DEF Finished

\* BarsMatchTicks: however the consumers interleave around RealtimeBarAccumulator.add_tick,
\* whatever raises, is cancelled or times out, the bars are those of the kept ticks, by their
\* times, and every other tick was counted as late.
THEOREM PipelineBarsMatchTicks == Spec => []BarsMatchTicks
<1>1. PipelineInv /\ RestTypes /\ BarsInv /\ AppliedInv => BarsMatchTicks
  <2> SUFFICES ASSUME PipelineInv, RestTypes, BarsInv, AppliedInv PROVE BarsMatchTicks
    OBVIOUS
  <2>1. BarsSoFar = ExpectedBars(TicksApplied)
    BY BuiltSoFar
  <2>2. late_ticks_dropped = Len(applied) - Cardinality(Kept(TicksApplied))
    <3>1. TicksApplied \in Seq(Tick) /\ Len(applied) \in Nat
      BY TicksAppliedType DEF AppliedInv
    <3>2. Cardinality(Kept(TicksApplied)) \in Nat
      BY <3>1, KeptTicks, FS_CardinalityType
    <3>3. late_ticks_dropped \in Nat /\ late_ticks_dropped + Cardinality(Kept(TicksApplied)) = Len(applied)
      BY DEF AppliedInv
    <3> QED  BY <3>1, <3>2, <3>3
  <2>3. total_volume_processed = Volume(TicksApplied, DOMAIN TicksApplied)
    <3>1. DOMAIN TicksApplied = 1 .. Len(applied)
      BY DEF TicksApplied, AppliedInv
    <3> QED  BY <3>1 DEF AppliedInv
  <2> QED  BY <2>1, <2>2, <2>3 DEF BarsMatchTicks, TicksApplied, Volume
<1> QED  BY <1>1, AppliedInvariant, PTL

-----------------------------------------------------------------------------
(* One consumer.                                                           *)

\* Division, as the buckets use it.
LEMMA DivisionIs ==
  ASSUME NEW a \in Nat, NEW k \in Nat \ {0}
  PROVE  /\ a \div k \in Nat /\ (a \div k) * k \in Nat
         /\ (a \div k) * k <= a /\ a < (a \div k) * k + k
<1> DEFINE f == a \div k  r == a % k
<1>1. f \in Nat /\ r \in Nat /\ r < k /\ a = k * f + r
  OBVIOUS
<1> HIDE DEF f, r
<1>2. f * k = k * f /\ f * k \in Nat
  BY <1>1
<1>3. f * k <= a /\ a < f * k + k
  BY <1>1, <1>2
<1> QED  BY <1>1, <1>2, <1>3 DEF f

\* What is divided further apart is multiplied further apart.
LEMMA TimesGrows ==
  ASSUME NEW x \in Nat, NEW y \in Nat, NEW k \in Nat
  PROVE  /\ x <= y => x * k <= y * k
         /\ x < y => x * k + k <= y * k
<1>1. ASSUME NEW d \in Nat PROVE (x + d) * k = x * k + d * k /\ d * k \in Nat /\ x * k \in Nat
  OBVIOUS
<1>2. ASSUME NEW d \in Nat PROVE (x + 1 + d) * k = x * k + k + d * k /\ d * k \in Nat
  OBVIOUS
<1>3. ASSUME x <= y PROVE x * k <= y * k
  <2>1. y - x \in Nat /\ x + (y - x) = y
    BY <1>3
  <2>2. y * k = x * k + (y - x) * k /\ (y - x) * k \in Nat /\ x * k \in Nat
    BY <1>1, <2>1
  <2> QED  BY <2>2
<1>4. ASSUME x < y PROVE x * k + k <= y * k
  <2>1. y - x - 1 \in Nat /\ x + 1 + (y - x - 1) = y
    BY <1>4
  <2>2. y * k = x * k + k + (y - x - 1) * k /\ (y - x - 1) * k \in Nat
    BY <1>2, <2>1
  <2>3. x * k \in Nat
    OBVIOUS
  <2> QED  BY <2>2, <2>3
<1> QED  BY <1>3, <1>4

\* Later times are divided into later quotients.
LEMMA DivisionGrows ==
  ASSUME NEW a \in Nat, NEW b \in Nat, NEW k \in Nat \ {0}, a <= b
  PROVE  a \div k <= b \div k
<1> DEFINE x == a \div k  y == b \div k
<1>1. x \in Nat /\ x * k <= a /\ x * k \in Nat
  BY DivisionIs
<1>2. y \in Nat /\ b < y * k + k /\ y * k \in Nat
  BY DivisionIs
<1> HIDE DEF x, y
<1>3. ~(y < x)
  <2>1. y < x => y * k + k <= x * k
    BY <1>1, <1>2, TimesGrows
  <2> QED  BY <1>1, <1>2, <2>1
<1>4. x <= y
  BY <1>1, <1>2, <1>3
<1> QED  BY <1>4 DEF x, y

\* Later times have later buckets, also where a period ends and the buckets start again.
LEMMA BucketGrows ==
  ASSUME NEW t \in Nat, NEW u \in Nat, t <= u
  PROVE  BucketStart(t) <= BucketStart(u)
<1> DEFINE p == BucketPeriod
           start(x) == (x \div p) * p
           inside(x) == ((x - start(x)) \div BucketSeconds) * BucketSeconds
<1>1. p \in Nat \ {0} /\ BucketSeconds \in Nat \ {0}
  BY AccumulatorAssumption DEF BucketPeriod
<1>2. \A x : BucketStart(x) = start(x) + inside(x)
  BY DEF BucketStart
<1> HIDE DEF p
<1>3. ASSUME NEW x \in Nat
      PROVE  /\ start(x) \in Nat /\ x - start(x) \in Nat /\ x < start(x) + p
             /\ inside(x) \in Nat /\ inside(x) <= x - start(x)
  <2>1. start(x) \in Nat /\ start(x) <= x /\ x < start(x) + p
    BY <1>1, DivisionIs
  <2> DEFINE d == x - start(x)
  <2>2. d \in Nat
    <3> HIDE DEF start
    <3> QED  BY <2>1
  <2> HIDE DEF d
  <2>3. (d \div BucketSeconds) * BucketSeconds \in Nat /\ (d \div BucketSeconds) * BucketSeconds <= d
    BY <1>1, <2>2, DivisionIs
  <2> QED  BY <2>1, <2>2, <2>3 DEF d
<1>4. t \div p \in Nat /\ u \div p \in Nat /\ t \div p <= u \div p
  BY <1>1, DivisionIs, DivisionGrows
<1>5. CASE t \div p = u \div p
  <2>1. start(t) = start(u)
    BY <1>5
  <2> DEFINE d == t - start(t)  e == u - start(u)
  <2>2. d \in Nat /\ e \in Nat /\ d <= e
    <3>1. start(t) \in Nat /\ d \in Nat /\ e \in Nat
      BY <1>3
    <3> HIDE DEF start
    <3> QED  BY <2>1, <3>1
  <2>3. inside(t) = (d \div BucketSeconds) * BucketSeconds /\ inside(u) = (e \div BucketSeconds) * BucketSeconds
    OBVIOUS
  <2> HIDE DEF d, e, inside
  <2>4. d \div BucketSeconds <= e \div BucketSeconds /\ d \div BucketSeconds \in Nat /\ e \div BucketSeconds \in Nat
    BY <1>1, <2>2, DivisionIs, DivisionGrows
  <2>5. inside(t) <= inside(u)
    <3> DEFINE x == d \div BucketSeconds  y == e \div BucketSeconds
    <3>1. x \in Nat /\ y \in Nat /\ x <= y
      BY <2>4
    <3>2. inside(t) = x * BucketSeconds /\ inside(u) = y * BucketSeconds
      BY <2>3
    <3> HIDE DEF x, y
    <3>3. x * BucketSeconds <= y * BucketSeconds
      BY <1>1, <3>1, TimesGrows
    <3> QED  BY <3>2, <3>3
  <2>6. inside(t) \in Nat /\ inside(u) \in Nat /\ start(t) \in Nat
    BY <1>3 DEF inside
  <2> HIDE DEF start
  <2> QED  BY <1>2, <2>1, <2>5, <2>6
<1>6. CASE t \div p < u \div p
  <2>1. start(t) + p <= start(u)
    <3> DEFINE x == t \div p  y == u \div p
    <3>1. x \in Nat /\ y \in Nat /\ x < y
      BY <1>4, <1>6
    <3>2. start(t) = x * p /\ start(u) = y * p
      OBVIOUS
    <3> HIDE DEF x, y, start
    <3> QED  BY <1>1, <3>1, <3>2, TimesGrows
  <2>2. /\ start(t) \in Nat /\ start(u) \in Nat /\ t < start(t) + p
        /\ inside(t) \in Nat /\ inside(t) <= t - start(t) /\ inside(u) \in Nat
    BY <1>3
  <2> HIDE DEF start, inside
  <2> QED  BY <1>1, <1>2, <2>1, <2>2
<1> HIDE DEF start, inside
<1> QED  BY <1>4, <1>5, <1>6

\* A feed in order has no late tick.
LEMMA IncreasingIsInOrder ==
  ASSUME NEW ticks \in Seq(Tick), Increasing(ticks)
  PROVE  InOrder(ticks)
<1>1. ASSUME NEW k \in 1 .. Len(ticks), NEW j \in 1 .. k
      PROVE  BucketStart(ticks[j].timestamp) <= BucketStart(ticks[k].timestamp)
  <2>1. j \in 1 .. Len(ticks) /\ j \in DOMAIN ticks /\ k \in DOMAIN ticks /\ j <= k /\ j \in Int /\ k \in Int
    OBVIOUS
  <2>2. ticks[j].timestamp \in Nat /\ ticks[k].timestamp \in Nat
    BY <2>1, KeptTicks, TickFields
  <2>3. j < k => ticks[j].timestamp < ticks[k].timestamp
    BY <2>1 DEF Increasing
  <2>4. ticks[j].timestamp <= ticks[k].timestamp
    BY <2>1, <2>2, <2>3
  <2> QED  BY <2>2, <2>4, BucketGrows
<1>2. DOMAIN ticks = 1 .. Len(ticks)
  OBVIOUS
<1>3. Kept(ticks) = DOMAIN ticks
  BY <1>1, <1>2 DEF Kept
<1> QED  BY <1>3 DEF InOrder

\* A consumer that has no other beside it applies the ticks as they come; the one in its
\* hands is the last that left the queue.
InTurn(c) ==
    /\ \A i \in 1 .. Len(applied) : applied[i] = i
    /\ Len(applied) <= Taken
    /\ task[c] = "ON_TICK" => event[c] = Taken /\ Len(applied) = Taken - 1
    /\ task[c] \in {"IDLE", "ON_BAR"} => Len(applied) = Taken
    /\ processed \subseteq 1 .. Len(applied)

OrderInv == \A c \in Consumers : workers = {c} => InTurn(c)

\* With one consumer a step of the consumer applies the accepted ticks in turn.
LEMMA InTurnStep ==
  ASSUME PipelineInv, AppliedInv, NEW c \in Consumers, InTurn(c), ConsumerStep(c)
  PROVE  InTurn(c)'
<1>1. /\ Len(applied) \in Nat /\ applied \in Seq(1 .. Len(feed)) /\ queue \in Seq(Nat) /\ Len(queue) \in Nat
      /\ ticks_produced \in Nat /\ Len(queue) <= ticks_produced /\ Taken \in Nat
      /\ task \in [Consumers -> TaskStates] /\ event \in [Consumers -> Nat]
      /\ Taken = ticks_produced - Len(queue)
  BY DEF PipelineInv, TicksInv, TicksTypes, AppliedInv, Taken
<1>2. CASE TakeTick(c)
  <2>1. /\ task[c] = "IDLE" /\ queue # <<>> /\ queue' = Tail(queue) /\ event' = [event EXCEPT ![c] = Head(queue)]
        /\ task' = [task EXCEPT ![c] = "ON_TICK"] /\ UNCHANGED <<ticks_produced, applied, processed>>
    BY <1>2 DEF TakeTick, historyVars
  <2>2. Head(queue) = Taken + 1
    <3>1. queue[1] = Taken + 1
      BY <1>1, <2>1 DEF PipelineInv, TicksInv
    <3> QED  BY <1>1, <2>1, <3>1
  <2>3. Taken' = Taken + 1
    <3>1. Len(queue') = Len(queue) - 1
      BY <1>1, <2>1
    <3> QED  BY <1>1, <2>1, <3>1 DEF Taken
  <2>4. event'[c] = Taken + 1 /\ task'[c] = "ON_TICK"
    BY <1>1, <2>1, <2>2
  <2>5. Len(applied) = Taken
    BY <2>1 DEF InTurn
  <2>6. Len(applied) <= Taken' /\ event'[c] = Taken' /\ Len(applied) = Taken' - 1
    BY <1>1, <2>3, <2>4, <2>5
  <2> QED  BY <2>1, <2>4, <2>6 DEF InTurn
<1>3. CASE ApplyTick(c)
  <2>1. /\ task[c] = "ON_TICK" /\ applied' = Append(applied, event[c]) /\ UNCHANGED <<ticks_produced, queue>>
        /\ \/ task' = [task EXCEPT ![c] = "ON_BAR"] /\ processed' = processed
           \/ task' = [task EXCEPT ![c] = "IDLE"] /\ processed' = processed \cup {event[c]}
    BY <1>3 DEF ApplyTick, Consumed, LeaveTick
  <2>2. event[c] = Taken /\ Len(applied) = Taken - 1 /\ Taken' = Taken
    BY <2>1 DEF InTurn, Taken
  <2>3. /\ Len(applied') = Taken
        /\ \A i \in 1 .. Len(applied') : applied'[i] = IF i = Taken THEN event[c] ELSE applied[i]
    <3>1. /\ Len(applied') = Len(applied) + 1
          /\ \A i \in 1 .. Len(applied') : applied'[i] = IF i = Len(applied) + 1 THEN event[c] ELSE applied[i]
      BY <1>1, <2>1
    <3> QED  BY <1>1, <2>2, <3>1
  <2>4. \A i \in 1 .. Len(applied') : applied'[i] = i
    <3>1. ASSUME NEW i \in 1 .. Len(applied') PROVE applied'[i] = i
      <4>1. CASE i = Taken
        BY <2>2, <2>3, <4>1
      <4>2. CASE i # Taken
        <5>1. i \in 1 .. Len(applied)
          <6>1. i \in 1 .. Taken
            BY <2>3
          <6>2. Taken \in Nat /\ Len(applied) = Taken - 1
            BY <1>1, <2>2
          <6> QED  BY <4>2, <6>1, <6>2
        <5>2. applied[i] = i
          BY <5>1 DEF InTurn
        <5> QED  BY <2>3, <4>2, <5>2
      <4> QED  BY <4>1, <4>2
    <3> QED  BY <3>1
  <2>5. processed' \subseteq 1 .. Len(applied')
    <3>1. processed \subseteq 1 .. Len(applied)
      BY DEF InTurn
    <3>2. 1 .. Len(applied) \subseteq 1 .. Len(applied') /\ event[c] \in 1 .. Len(applied')
      BY <1>1, <2>2, <2>3
    <3> QED  BY <2>1, <3>1, <3>2
  <2>6. task'[c] \in {"ON_BAR", "IDLE"}
    BY <1>1, <2>1
  <2> QED  BY <1>1, <2>2, <2>3, <2>4, <2>5, <2>6 DEF InTurn
<1>4. CASE BarHandled(c)
  <2>1. /\ task[c] = "ON_BAR" /\ UNCHANGED <<ticks_produced, queue, applied>>
        /\ task' = [task EXCEPT ![c] = "IDLE"] /\ processed' = processed \cup {event[c]}
    BY <1>4 DEF BarHandled, Consumed, LeaveTick
  <2>2. event[c] \in 1 .. Len(applied)
    <3>1. event[c] # NoTick
      BY <2>1 DEF PipelineInv, TicksInv, Busy
    <3>2. event[c] \in 1 .. Taken
      BY <3>1 DEF PipelineInv, TicksInv, InHand
    <3> QED  BY <2>1, <3>2 DEF InTurn
  <2>3. Taken' = Taken /\ task'[c] = "IDLE"
    BY <1>1, <2>1 DEF Taken
  <2> QED  BY <2>1, <2>2, <2>3 DEF InTurn
<1>5. CASE CallbackRaises(c) \/ ConsumerReturn(c) \/ ConsumerCancelled(c)
  <2>1. UNCHANGED <<ticks_produced, queue, applied, processed>>
    BY <1>5 DEF CallbackRaises, ConsumerReturn, ConsumerCancelled, queueVars, historyVars
  <2>2. task' = [task EXCEPT ![c] = "FAILED"] \/ task' = [task EXCEPT ![c] = "RETURNED"]
    BY <1>5 DEF CallbackRaises, ConsumerReturn, ConsumerCancelled, LeaveTick
  <2>3. Taken' = Taken /\ task'[c] \in {"FAILED", "RETURNED"}
    BY <1>1, <2>1, <2>2 DEF Taken
  <2> QED  BY <2>1, <2>3 DEF InTurn
<1> QED  BY <1>2, <1>3, <1>4, <1>5 DEF ConsumerStep

\* With one consumer every step keeps the applied ticks in the order of the feed.
LEMMA OrderStep ==
  ASSUME PipelineInv, AppliedInv, OrderInv, [Next]_vars
  PROVE  OrderInv'
<1> SUFFICES ASSUME NEW c \in Consumers, workers' = {c} PROVE InTurn(c)'
  BY DEF OrderInv
<1>1. workers' = workers
  BY DEF Next, ProducerStep, ProducerPut, ProducerReturn, ConsumerStep, TakeTick, ApplyTick, BarHandled,
         CallbackRaises, ConsumerReturn, ConsumerCancelled, DriverStep, AwaitJoin, StopConsumers, FinishRun,
         RaiseTimeout, Timer, TimeoutAbsorbed, Timeout, Stop, vars, configVars
<1>2. InTurn(c)
  BY <1>1 DEF OrderInv
<1>3. ASSUME NEW d \in workers, ConsumerStep(d) PROVE InTurn(c)'
  <2>1. d = c
    BY <1>1
  <2> QED  BY <1>2, <1>3, <2>1, InTurnStep
<1>4. CASE ProducerStep \/ DriverStep \/ Timer \/ Stop \/ UNCHANGED vars
  <2>1. UNCHANGED <<task, event, processed, applied>>
    BY <1>4 DEF ProducerStep, ProducerPut, ProducerReturn, DriverStep, AwaitJoin, StopConsumers, FinishRun,
                RaiseTimeout, Timer, TimeoutAbsorbed, Timeout, Stop, vars, consumerVars, historyVars
  <2>2. Taken' = Taken
    <3>1. PutStep \/ UNCHANGED tickVars
      BY <1>4, OtherStepKinds
    <3>2. CASE PutStep
      <4>1. queue \in Seq(Nat) /\ ticks_produced \in Nat
        BY DEF PipelineInv, TicksInv, TicksTypes
      <4>2. Len(queue') = Len(queue) + 1 /\ ticks_produced' = ticks_produced + 1 /\ Len(queue) \in Nat
        BY <3>2, <4>1 DEF PutStep
      <4> QED  BY <4>1, <4>2 DEF Taken
    <3>3. CASE UNCHANGED tickVars
      BY <3>3 DEF tickVars, Taken
    <3> QED  BY <3>1, <3>2, <3>3
  <2> QED  BY <1>2, <2>1, <2>2 DEF InTurn
<1> QED  BY <1>3, <1>4 DEF Next

\* Nothing is applied before the start.
LEMMA OrderInitially == Init => OrderInv
<1> SUFFICES ASSUME Init, NEW c \in Consumers PROVE InTurn(c)
  BY DEF OrderInv
<1>1. applied = <<>> /\ queue = <<>> /\ ticks_produced = 0 /\ processed = {} /\ task[c] = "IDLE"
  BY DEF Init
<1>2. Len(queue) = 0 /\ Len(applied) = 0
  BY <1>1
<1>3. Taken = 0
  <2>1. ticks_produced = 0
    BY <1>1
  <2> QED  BY <1>2, <2>1 DEF Taken
<1>4. \A i \in 1 .. Len(applied) : applied[i] = i
  BY <1>2
<1> QED  BY <1>1, <1>2, <1>3, <1>4 DEF InTurn

\* At the end of a run in which nothing was raised, the ticks applied are those accepted.
LEMMA AllApplied ==
  ASSUME PipelineInv, RestTypes, AppliedInv, OrderInv, CleanShutdown,
         Cardinality(workers) = 1, driver = "DONE", ~raised
  PROVE  TicksApplied = SubSeq(feed, 1, ticks_produced)
<1>1. PICK c : workers = {c}
  <2>1. IsFiniteSet(workers)
    BY PipelineAssumption, FS_Subset DEF PipelineInv, TicksInv, TicksTypes
  <2> QED  BY <2>1, FS_Singleton
<1>2. InTurn(c)
  BY <1>1 DEF OrderInv, PipelineInv, TicksInv, TicksTypes
<1>3. /\ Len(applied) \in Nat /\ ticks_produced \in Nat /\ Taken \in Nat /\ Taken <= ticks_produced
      /\ feed \in Seq(Tick) /\ ticks_produced <= Len(feed)
  BY DEF PipelineInv, TicksInv, TicksTypes, AppliedInv, RestTypes, Taken
<1>4. Len(applied) = ticks_produced
  <2>1. processed = 1 .. ticks_produced
    BY DEF CleanShutdown
  <2>2. ticks_produced <= Len(applied)
    <3>1. ticks_produced = 0 \/ ticks_produced \in processed
      BY <1>3, <2>1
    <3>2. processed \subseteq 1 .. Len(applied)
      BY <1>2 DEF InTurn
    <3> QED  BY <1>3, <3>1, <3>2
  <2>3. Len(applied) <= Taken
    BY <1>2 DEF InTurn
  <2> QED  BY <1>3, <2>2, <2>3
<1>5. \A i \in 1 .. ticks_produced : applied[i] = i
  BY <1>2, <1>4 DEF InTurn
<1>6. DOMAIN applied = 1 .. ticks_produced
  BY <1>4 DEF AppliedInv
<1>7. TicksApplied = [i \in 1 .. ticks_produced |-> feed[i]]
  BY <1>5, <1>6 DEF TicksApplied
<1>8. SubSeq(feed, 1, ticks_produced) = [i \in 1 .. ticks_produced |-> feed[i]]
  BY <1>3
<1> QED  BY <1>7, <1>8

\* SingleConsumerMatchesBatch: with one consumer and a feed in order of time, what
\* RealtimeBarAccumulator has made of a completed run is what aggregate_ticks makes of the
\* ticks that were accepted.
THEOREM PipelineMatchesBatch == Spec => []SingleConsumerMatchesBatch
<1> DEFINE Inv == PipelineInv /\ RestTypes /\ BarsInv /\ AppliedInv
<1>1. Inv /\ OrderInv /\ CleanShutdown => SingleConsumerMatchesBatch
  <2> SUFFICES ASSUME PipelineInv, RestTypes, BarsInv, AppliedInv, OrderInv, CleanShutdown,
                      Cardinality(workers) = 1, Increasing(feed), driver = "DONE", ~raised
               PROVE  bars = AggregateTicks(SubSeq(feed, 1, ticks_produced))
    BY DEF SingleConsumerMatchesBatch
  <2>1. TicksApplied = SubSeq(feed, 1, ticks_produced) /\ TicksApplied \in Seq(Tick)
    BY AllApplied, TicksAppliedType DEF AppliedInv
  <2>2. Increasing(TicksApplied)
    <3>1. feed \in Seq(Tick) /\ ticks_produced \in Nat /\ ticks_produced <= Len(feed)
      BY DEF RestTypes, PipelineInv, TicksInv, TicksTypes
    <3>2. DOMAIN TicksApplied = 1 .. ticks_produced /\ \A i \in 1 .. ticks_produced : TicksApplied[i] = feed[i]
      BY <2>1, <3>1
    <3>3. 1 .. ticks_produced \subseteq DOMAIN feed
      BY <3>1
    <3> QED  BY <3>2, <3>3 DEF Increasing
  <2>3. InOrder(TicksApplied)
    BY <2>1, <2>2, IncreasingIsInOrder
  <2>4. bars \in Seq(Bar) /\ Finished(bars, TicksApplied) /\ BuiltBuckets(bars) = KeptBuckets(TicksApplied)
    BY DEF BarsInv, AppliedInv
  <2>5. bars = AggregateTicks(TicksApplied)
    BY <2>1, <2>3, <2>4, BuiltIsBatch DEF Finished
  <2> QED  BY <2>1, <2>5
<1>2. Inv /\ OrderInv /\ [Next]_vars => OrderInv'
  BY OrderStep
<1>3. Spec => []Inv
  BY AppliedInvariant
<1> HIDE DEF Inv
<1> QED  BY <1>1, <1>2, <1>3, OrderInitially, ShutdownIsClean, PTL DEF Spec

=============================================================================
