-------------------------- MODULE RealtimePipeline --------------------------
(***************************************************************************)
(* The realtime tick pipeline (vega.realtime): a producer task, a bounded  *)
(* queue, consumer tasks that share one bar accumulator, and the task that *)
(* drives them, in run_until_complete or in stop.                          *)
(*                                                                         *)
(* A step is what a task does between two points where it may be suspended *)
(* (asyncio switches tasks nowhere else).  The lock around add_tick is     *)
(* never held across such a point, so it excludes nothing and is left out. *)
(***************************************************************************)
EXTENDS BarAccumulator

CONSTANTS
    Consumers,                  \* consumer tasks that may be configured
    QueueSize,                  \* maxsize of the queue
    Feeds,                      \* the tick lists a run may be given
    CallbacksRaise              \* may on_tick or on_bar raise?

ASSUME PipelineAssumption ==
    /\ QueueSize \in Nat \ {0}
    /\ IsFiniteSet(Consumers)
    /\ Feeds \subseteq Seq(Tick)
    /\ CallbacksRaise \in BOOLEAN

VARIABLES
    feed, workers,              \* configuration: ticks of the producer, consumer tasks
    queue, unfinished_tasks,    \* asyncio.Queue; a tick is its position in feed
    ticks_produced,
    producer,                   \* state of the producer task
    producer_stop,              \* the producer was asked to stop, or cancelled
    task, event,                \* per consumer: where it is, and with which tick
    ticks_consumed,             \* per consumer
    consumer_stop,              \* stop() was called on the consumers
    cancelled,                  \* consumers with a cancellation on its way
    driver,                     \* where run_until_complete or stop is
    timed_out,                  \* the timer of wait_for has fired
    applied, processed, dropped, \* history: ticks in the order of add_tick, and their fate
    raised                      \* history: some callback raised

queueVars == <<queue, unfinished_tasks, ticks_produced>>
producerVars == <<producer, producer_stop>>
consumerVars == <<task, event, ticks_consumed>>
driverVars == <<driver, timed_out, consumer_stop, cancelled>>
historyVars == <<applied, processed, dropped, raised>>
configVars == <<feed, workers>>
vars == <<configVars, queueVars, producerVars, consumerVars, driverVars, historyVars,
          accumulatorVars>>

NoTick == 0
Live == {"IDLE", "ON_TICK", "ON_BAR"}      \* a consumer whose task is not done
Busy == {"ON_TICK", "ON_BAR"}              \* in a callback, with a tick in hand
Ended == {"DONE", "TIMED_OUT"}             \* the call of the driver has returned

-----------------------------------------------------------------------------
\* start() has created the tasks.  The caller then is in run_until_complete, or does
\* something else until it calls stop.
Init ==
    /\ feed \in Feeds
    /\ workers \in SUBSET Consumers \ {{}}
    /\ queue = <<>> /\ unfinished_tasks = 0 /\ ticks_produced = 0
    /\ producer = "RUNNING" /\ producer_stop = FALSE
    /\ task = [c \in Consumers |-> "IDLE"]
    /\ event = [c \in Consumers |-> NoTick]
    /\ ticks_consumed = [c \in Consumers |-> 0]
    /\ driver \in {"OPEN", "AWAIT_PRODUCER"}
    /\ timed_out = FALSE /\ consumer_stop = FALSE /\ cancelled = {}
    /\ applied = <<>> /\ processed = {} /\ dropped = {} /\ raised = FALSE
    /\ AccumulatorInit

-----------------------------------------------------------------------------
\* produce: await queue.put(event); a full queue blocks, which is where the cancellation
\* of a stop finds the task.
ProducerPut ==
    /\ producer = "RUNNING" /\ ~producer_stop
    /\ ticks_produced < Len(feed)
    /\ Len(queue) < QueueSize
    /\ queue' = Append(queue, ticks_produced + 1)
    /\ unfinished_tasks' = unfinished_tasks + 1
    /\ ticks_produced' = ticks_produced + 1
    /\ UNCHANGED <<configVars, producerVars, consumerVars, driverVars, historyVars,
                   accumulatorVars>>

\* The end of the list, a stop request, or a cancellation, which produce absorbs.
ProducerReturn ==
    /\ producer = "RUNNING"
    /\ producer_stop \/ ticks_produced = Len(feed)
    /\ producer' = "RETURNED"
    /\ UNCHANGED <<configVars, queueVars, producer_stop, consumerVars, driverVars,
                   historyVars, accumulatorVars>>

-----------------------------------------------------------------------------
\* Fault: the newest tick first.
TakeTickNewest(c) ==
    /\ task[c] = "IDLE" /\ queue # <<>>
    /\ event' = [event EXCEPT ![c] = Last(queue)]
    /\ queue' = Front(queue)
    /\ task' = [task EXCEPT ![c] = "ON_TICK"]
    /\ cancelled' = cancelled \ {c}
    /\ UNCHANGED <<configVars, unfinished_tasks, ticks_produced, producerVars, ticks_consumed,
                   driver, timed_out, consumer_stop, historyVars, accumulatorVars>>

\* consume: wait_for(queue.get(), 0.05) answers.  Its timeouts only repeat the loop.  The
\* get() is a task of its own, done as soon as the queue has a tick; wait_for (external, of
\* Python 3.11, the version of the Dockerfile) then returns the tick even if its caller has
\* been cancelled meanwhile, and the cancellation is lost.
TakeTick(c) ==
    /\ task[c] = "IDLE" /\ queue # <<>>
    /\ event' = [event EXCEPT ![c] = Head(queue)]
    /\ queue' = Tail(queue)
    /\ task' = [task EXCEPT ![c] = "ON_TICK"]
    /\ cancelled' = cancelled \ {c}
    /\ UNCHANGED <<configVars, unfinished_tasks, ticks_produced, producerVars, ticks_consumed,
                   driver, timed_out, consumer_stop, historyVars, accumulatorVars>>

\* Fault: no task_done.
LeaveTickUndone(c, next) ==
    /\ UNCHANGED unfinished_tasks
    /\ event' = [event EXCEPT ![c] = NoTick]
    /\ task' = [task EXCEPT ![c] = next]

\* task_done, in the finally clause: however the tick was left.
LeaveTick(c, next) ==
    /\ unfinished_tasks' = unfinished_tasks - 1
    /\ event' = [event EXCEPT ![c] = NoTick]
    /\ task' = [task EXCEPT ![c] = next]

\* The tick has been processed; back to the top of the loop.
Consumed(c) ==
    /\ LeaveTick(c, "IDLE")
    /\ ticks_consumed' = [ticks_consumed EXCEPT ![c] = @ + 1]
    /\ processed' = processed \cup {event[c]}

\* on_tick has returned: the accumulator is updated, and on_bar awaited if a bar is complete.
ApplyTick(c) ==
    LET tick == feed[event[c]]
    IN  /\ task[c] = "ON_TICK" /\ c \notin cancelled
        /\ AddTick(tick)
        /\ applied' = Append(applied, event[c])
        /\ \/ /\ CompletesBar(tick)
              /\ task' = [task EXCEPT ![c] = "ON_BAR"]
              /\ UNCHANGED <<unfinished_tasks, event, ticks_consumed, processed>>
           \/ /\ ~CompletesBar(tick)
              /\ Consumed(c)
        /\ UNCHANGED <<configVars, queue, ticks_produced, producerVars, driverVars,
                       dropped, raised>>

\* on_bar has returned.
BarHandled(c) ==
    /\ task[c] = "ON_BAR" /\ c \notin cancelled
    /\ Consumed(c)
    /\ UNCHANGED <<configVars, queue, ticks_produced, producerVars, driverVars,
                   applied, dropped, raised, accumulatorVars>>

\* Fault: task_done is called on the normal path only.
CallbackRaisesUndone(c) ==
    /\ CallbacksRaise
    /\ task[c] \in Busy /\ c \notin cancelled
    /\ event' = [event EXCEPT ![c] = NoTick]
    /\ task' = [task EXCEPT ![c] = "FAILED"]
    /\ dropped' = dropped \cup {event[c]}
    /\ raised' = TRUE
    /\ UNCHANGED <<configVars, queueVars, producerVars, ticks_consumed, driverVars, applied,
                   processed, accumulatorVars>>

\* A callback raises: the tick is done with, and the exception ends the consumer's task.
CallbackRaises(c) ==
    /\ CallbacksRaise
    /\ task[c] \in Busy /\ c \notin cancelled
    /\ LeaveTick(c, "FAILED")
    /\ dropped' = dropped \cup {event[c]}
    /\ raised' = TRUE
    /\ UNCHANGED <<configVars, queue, ticks_produced, producerVars, ticks_consumed,
                   driverVars, applied, processed, accumulatorVars>>

\* Top of the loop: stop only when asked to and when the queue is empty.
ConsumerReturn(c) ==
    /\ task[c] = "IDLE" /\ c \notin cancelled
    /\ consumer_stop /\ queue = <<>>
    /\ task' = [task EXCEPT ![c] = "RETURNED"]
    /\ UNCHANGED <<configVars, queueVars, producerVars, event, ticks_consumed, driverVars,
                   historyVars, accumulatorVars>>

\* A cancellation arrives: at the empty queue it ends the loop; in a callback it also gives
\* up the tick, which counts as done but not as consumed.
ConsumerCancelled(c) ==
    /\ c \in cancelled /\ task[c] \in Live
    /\ \/ /\ task[c] = "IDLE" /\ queue = <<>>
          /\ task' = [task EXCEPT ![c] = "RETURNED"]
          /\ UNCHANGED <<unfinished_tasks, event, dropped>>
       \/ /\ task[c] \in Busy
          /\ LeaveTick(c, "RETURNED")
          /\ dropped' = dropped \cup {event[c]}
    /\ UNCHANGED <<configVars, queue, ticks_produced, producerVars, ticks_consumed,
                   driverVars, applied, processed, raised, accumulatorVars>>

-----------------------------------------------------------------------------
TasksDone == producer = "RETURNED" /\ \A c \in workers : task[c] \notin Live

\* stop(): the producer is stopped and its task cancelled.
Stop ==
    /\ driver = "OPEN"
    /\ producer_stop' = TRUE
    /\ driver' = "AWAIT_PRODUCER"
    /\ UNCHANGED <<configVars, queueVars, producer, consumerVars, timed_out, consumer_stop,
                   cancelled, historyVars, accumulatorVars>>

\* The producer's task is done: await queue.join().
AwaitJoin ==
    /\ driver = "AWAIT_PRODUCER" /\ producer = "RETURNED"
    /\ driver' = "JOIN"
    /\ UNCHANGED <<configVars, queueVars, producerVars, consumerVars, timed_out,
                   consumer_stop, cancelled, historyVars, accumulatorVars>>

\* The queue is drained: the consumers are told to stop and their tasks awaited.
StopConsumers ==
    /\ driver = "JOIN" /\ unfinished_tasks = 0
    /\ consumer_stop' = TRUE
    /\ driver' = "GATHER"
    /\ UNCHANGED <<configVars, queueVars, producerVars, consumerVars, timed_out, cancelled,
                   historyVars, accumulatorVars>>

\* Fault: the bar in progress is left behind.
FinishRunUnflushed ==
    /\ driver = "GATHER" /\ TasksDone
    /\ driver' = "DONE"
    /\ UNCHANGED <<configVars, queueVars, producerVars, consumerVars, timed_out,
                   consumer_stop, cancelled, historyVars, accumulatorVars>>

\* The tasks are done, exceptions among their results are not looked at; the last bar is
\* flushed.
FinishRun ==
    /\ driver = "GATHER" /\ TasksDone
    /\ driver' = "DONE"
    /\ Flush
    /\ UNCHANGED <<configVars, queueVars, producerVars, consumerVars, timed_out,
                   consumer_stop, cancelled, historyVars>>

\* The timer of wait_for, which fires once, while the producer is awaited.  The
\* cancellation reaches the producer's task, which absorbs it and returns normally, so
\* that the driver goes on to join.
TimeoutAbsorbed ==
    /\ driver = "AWAIT_PRODUCER" /\ ~timed_out
    /\ timed_out' = TRUE
    /\ producer_stop' = TRUE
    /\ UNCHANGED <<configVars, queueVars, producer, consumerVars, driver, consumer_stop,
                   cancelled, historyVars, accumulatorVars>>

\* ... or later: _cancel_all cancels the tasks that are not done.
Timeout ==
    /\ driver \in {"JOIN", "GATHER"} /\ ~timed_out
    /\ timed_out' = TRUE
    /\ driver' = "CANCELLING"
    /\ cancelled' = {c \in workers : task[c] \in Live}
    /\ UNCHANGED <<configVars, queueVars, producerVars, consumerVars, consumer_stop,
                   historyVars, accumulatorVars>>

\* Fault: the cancelled tasks are not awaited.
RaiseTimeoutAtOnce ==
    /\ driver = "CANCELLING"
    /\ driver' = "TIMED_OUT"
    /\ UNCHANGED <<configVars, queueVars, producerVars, consumerVars, timed_out,
                   consumer_stop, cancelled, historyVars, accumulatorVars>>

\* ... and awaits them; then TimeoutError is raised.
RaiseTimeout ==
    /\ driver = "CANCELLING" /\ TasksDone
    /\ driver' = "TIMED_OUT"
    /\ UNCHANGED <<configVars, queueVars, producerVars, consumerVars, timed_out,
                   consumer_stop, cancelled, historyVars, accumulatorVars>>

-----------------------------------------------------------------------------
ProducerStep == ProducerPut \/ ProducerReturn

ConsumerStep(c) ==
    \/ TakeTick(c) \/ ApplyTick(c) \/ BarHandled(c) \/ CallbackRaises(c)
    \/ ConsumerReturn(c) \/ ConsumerCancelled(c)

DriverStep == AwaitJoin \/ StopConsumers \/ FinishRun \/ RaiseTimeout

Timer == TimeoutAbsorbed \/ Timeout

Next ==
    \/ ProducerStep
    \/ \E c \in workers : ConsumerStep(c)
    \/ DriverStep \/ Timer \/ Stop

Spec == Init /\ [][Next]_vars

\* The event loop runs every task that is ready, callbacks return, and the timer fires
\* if the call is still running; when, and whether, stop is called is the caller's choice.
FairSpec ==
    /\ Spec
    /\ WF_vars(ProducerStep)
    /\ \A c \in Consumers : WF_vars(c \in workers /\ ConsumerStep(c))
    /\ WF_vars(DriverStep)
    /\ WF_vars(Timer)

-----------------------------------------------------------------------------
\* Type invariant of the pipeline's state, with the queue within its bound.
PipelineTypeOK ==
    /\ queue \in Seq(1 .. Len(feed)) /\ Len(queue) <= QueueSize
    /\ unfinished_tasks \in Nat
    /\ ticks_produced \in 0 .. Len(feed)
    /\ producer \in {"RUNNING", "RETURNED"}
    /\ producer_stop \in BOOLEAN
    /\ task \in [Consumers -> Live \cup {"RETURNED", "FAILED"}]
    /\ event \in [Consumers -> 0 .. Len(feed)]
    /\ \A c \in Consumers : event[c] # NoTick <=> task[c] \in Busy
    /\ ticks_consumed \in [Consumers -> Nat]
    /\ consumer_stop \in BOOLEAN /\ timed_out \in BOOLEAN /\ raised \in BOOLEAN
    /\ cancelled \subseteq workers
    /\ driver \in {"OPEN", "AWAIT_PRODUCER", "JOIN", "GATHER", "CANCELLING"} \cup Ended
    /\ current_bar # Idle => BarOf(current_bar) \in Bar
    /\ bars \in Seq(Bar)

InHand == {event[c] : c \in Consumers} \ {NoTick}

\* The counters of the queue and of the consumers add up: what join waits for is what is
\* queued or in a consumer's hands, and the consumers' counts are the ticks processed,
\* whatever raised or was cancelled.
CountersAddUp ==
    /\ unfinished_tasks = Len(queue) + Cardinality(InHand)
    /\ MapThenSumSet(LAMBDA c : ticks_consumed[c], Consumers) = Cardinality(processed)
    /\ ticks_produced =
           unfinished_tasks + Cardinality(processed) + Cardinality(dropped)

\* However the consumers interleave, the bars (with the one in progress) are those of the
\* kept ticks, by their times, and every other applied tick was counted as late.
BarsMatchTicks ==
    LET ticks == [k \in DOMAIN applied |-> feed[applied[k]]]
    IN  /\ BarsSoFar = ExpectedBars(ticks)
        /\ late_ticks_dropped = Len(applied) - Cardinality(Kept(ticks))
        /\ total_volume_processed = MapThenSumSet(LAMBDA k : ticks[k].volume, DOMAIN ticks)

Increasing(ticks) ==
    \A i, j \in DOMAIN ticks : i < j => ticks[i].timestamp < ticks[j].timestamp

\* One consumer is enough of an order: from a feed in order of time, with callbacks that
\* suspend or not, and wherever the pipeline was stopped, the bars of a completed run are
\* those that aggregate_ticks makes of the ticks that were accepted.
SingleConsumerMatchesBatch ==
    (/\ Cardinality(workers) = 1 /\ Increasing(feed)
     /\ driver = "DONE" /\ ~raised)
    => bars = AggregateTicks(SubSeq(feed, 1, ticks_produced))

\* When the call has returned no task is left behind, and if it returned normally the
\* queue is drained, the last bar is out, and unless a callback raised every tick that
\* was accepted has been processed.
CleanShutdown ==
    /\ driver \in Ended => TasksDone
    /\ driver = "DONE" =>
           /\ queue = <<>> /\ unfinished_tasks = 0
           /\ current_bar = Idle
           /\ ~raised => processed = 1 .. ticks_produced

\* The pipeline is a tick delivery.
Delivery == INSTANCE TickDelivery WITH
    accepted <- ticks_produced, waiting <- Range(queue), in_hand <- InHand,
    ended <- driver \in Ended

\* Each accepted tick is taken in turn by one consumer, is processed or dropped once, and
\* nothing happens to any tick after the call has returned.
ImplementsDelivery == Delivery!Spec

\* The timer was absorbed while the producer was awaited, and join waits for ticks that no
\* consumer will take: callbacks have ended them all.
Abandoned ==
    /\ driver = "JOIN" /\ timed_out /\ unfinished_tasks > 0
    /\ raised /\ \A c \in workers : task[c] \notin Live

\* _cancel_all awaits a consumer that goes on because its cancellation was lost.
CancellationLost ==
    driver = "CANCELLING" /\ \E c \in workers \ cancelled : task[c] \in Live

\* A run, or a stop once called, returns, whatever callbacks raise and whenever the timer
\* fires, unless it comes to one of these two.
ShutdownReturns == driver # "OPEN" ~> (driver \in Ended \/ Abandoned \/ CancellationLost)

\* pipeline.py:27: "Non-deadlocking shutdown even when producer is blocked on a full
\* queue"; pipeline.py:316, of _cancel_all: "Guarantees zero orphaned or pending tasks remain
\* on the event loop."  With a timer on every wait, the call would have to return in any case.
ShutdownNeverHangs == driver # "OPEN" ~> driver \in Ended

=============================================================================
