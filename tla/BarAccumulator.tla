--------------------------- MODULE BarAccumulator ---------------------------
(***************************************************************************)
(* Ticks into bars: the incremental accumulator of the realtime pipeline   *)
(* (vega.realtime.consumer.RealtimeBarAccumulator) and the batch           *)
(* aggregation it corresponds to (vega.data.tick_aggregator).              *)
(*                                                                         *)
(* Timestamps are whole seconds from some midnight; prices and volumes are *)
(* integers.  aggregate_ticks refuses an empty list, which has no bars     *)
(* here, and knows the widths of its FREQUENCY_MAP only; how it buckets    *)
(* does not depend on the width.                                           *)
(***************************************************************************)
EXTENDS Integers, FiniteSets, Sequences, FiniteSetsExt, SequencesExt

CONSTANT BucketSeconds          \* width of a bar

ASSUME AccumulatorAssumption == BucketSeconds \in Nat \ {0}

VARIABLES
    current_bar,                \* the bar in progress, or Idle
    bars,                       \* completed bars, oldest first
    total_ticks_processed,
    total_volume_processed,
    late_ticks_dropped

accumulatorVars ==
    <<current_bar, bars, total_ticks_processed, total_volume_processed, late_ticks_dropped>>

-----------------------------------------------------------------------------
NoTime == -1

Tick == [timestamp : Nat, price : Nat \ {0}, volume : Nat]

\* The constructor raises on anything else.
Bar ==
    {b \in [bucket : Nat, open : Nat, high : Nat, low : Nat, close : Nat, volume : Nat] :
        b.low <= b.open /\ b.low <= b.close /\ b.open <= b.high /\ b.close <= b.high}

\* The code truncates within the minute, the hour or the day, so buckets restart there:
\* with a width of 40 seconds every minute has a bucket of 40 and one of 20 seconds.
BucketPeriod ==
    IF BucketSeconds < 60 THEN 60
    ELSE IF BucketSeconds % 60 = 0 /\ BucketSeconds < 3600 THEN 3600
    ELSE 86400

BucketStart(time) ==
    LET start == (time \div BucketPeriod) * BucketPeriod
    IN  start + ((time - start) \div BucketSeconds) * BucketSeconds

\* No bar in progress: the code resets every field.
Idle == [bucket |-> NoTime, open |-> 0, high |-> 0, low |-> 0, close |-> 0,
         volume |-> 0, first |-> NoTime, last |-> NoTime]

Started(tick) ==
    [bucket |-> BucketStart(tick.timestamp), open |-> tick.price, high |-> tick.price,
     low |-> tick.price, close |-> tick.price, volume |-> tick.volume,
     first |-> tick.timestamp, last |-> tick.timestamp]

\* Fault: the close follows arrival instead of time.
WidenedByArrival(bar, tick) ==
    [bucket |-> bar.bucket,
     open   |-> IF tick.timestamp <= bar.first THEN tick.price ELSE bar.open,
     high   |-> IF tick.price > bar.high THEN tick.price ELSE bar.high,
     low    |-> IF tick.price < bar.low THEN tick.price ELSE bar.low,
     close  |-> tick.price,
     volume |-> bar.volume + tick.volume,
     first  |-> IF tick.timestamp <= bar.first THEN tick.timestamp ELSE bar.first,
     last   |-> tick.timestamp]

\* A tick as old as the first one takes over the open, one as new as the last the close.
Widened(bar, tick) ==
    [bucket |-> bar.bucket,
     open   |-> IF tick.timestamp <= bar.first THEN tick.price ELSE bar.open,
     high   |-> IF tick.price > bar.high THEN tick.price ELSE bar.high,
     low    |-> IF tick.price < bar.low THEN tick.price ELSE bar.low,
     close  |-> IF tick.timestamp >= bar.last THEN tick.price ELSE bar.close,
     volume |-> bar.volume + tick.volume,
     first  |-> IF tick.timestamp <= bar.first THEN tick.timestamp ELSE bar.first,
     last   |-> IF tick.timestamp >= bar.last THEN tick.timestamp ELSE bar.last]

BarOf(bar) ==
    [bucket |-> bar.bucket, open |-> bar.open, high |-> bar.high, low |-> bar.low,
     close |-> bar.close, volume |-> bar.volume]

-----------------------------------------------------------------------------
AccumulatorInit ==
    /\ current_bar = Idle
    /\ bars = <<>>
    /\ total_ticks_processed = 0
    /\ total_volume_processed = 0
    /\ late_ticks_dropped = 0

CompletesBar(tick) ==
    current_bar # Idle /\ BucketStart(tick.timestamp) > current_bar.bucket

\* Late ticks count as processed, in number and in volume.
AddTick(tick) ==
    LET bucket == BucketStart(tick.timestamp)
    IN  /\ total_ticks_processed' = total_ticks_processed + 1
        /\ total_volume_processed' = total_volume_processed + tick.volume
        /\ \/ /\ current_bar = Idle
              /\ current_bar' = Started(tick)
              /\ UNCHANGED <<bars, late_ticks_dropped>>
           \/ /\ current_bar # Idle /\ bucket = current_bar.bucket
              /\ current_bar' = Widened(current_bar, tick)
              /\ UNCHANGED <<bars, late_ticks_dropped>>
           \/ /\ CompletesBar(tick)
              /\ bars' = Append(bars, BarOf(current_bar))
              /\ current_bar' = Started(tick)
              /\ UNCHANGED late_ticks_dropped
           \/ /\ current_bar # Idle /\ bucket < current_bar.bucket
              /\ late_ticks_dropped' = late_ticks_dropped + 1
              /\ UNCHANGED <<current_bar, bars>>

Flush ==
    /\ bars' = IF current_bar = Idle THEN bars ELSE Append(bars, BarOf(current_bar))
    /\ current_bar' = Idle
    /\ UNCHANGED <<total_ticks_processed, total_volume_processed, late_ticks_dropped>>

-----------------------------------------------------------------------------
\* aggregate_ticks: sort by time, group by bucket, first, highest, lowest, last and sum.
\* Defined for ticks of distinct times; the sort of the code says nothing about ties.
BatchBar(ticks, bucket) ==
    LET group  == {i \in DOMAIN ticks : BucketStart(ticks[i].timestamp) = bucket}
        at(t)  == CHOOSE i \in group : ticks[i].timestamp = t
        times  == {ticks[i].timestamp : i \in group}
        prices == {ticks[i].price : i \in group}
    IN  [bucket |-> bucket, open |-> ticks[at(Min(times))].price, high |-> Max(prices),
         low |-> Min(prices), close |-> ticks[at(Max(times))].price,
         volume |-> MapThenSumSet(LAMBDA i : ticks[i].volume, group)]

\* Bars come in the order of their buckets.
Ascending(buckets) ==
    CHOOSE s \in [1 .. Cardinality(buckets) -> buckets] :
        \A i, j \in 1 .. Cardinality(buckets) : i < j => s[i] < s[j]

AggregateTicks(ticks) ==
    LET buckets == Ascending({BucketStart(ticks[i].timestamp) : i \in DOMAIN ticks})
    IN  [k \in DOMAIN buckets |-> BatchBar(ticks, buckets[k])]

-----------------------------------------------------------------------------
\* What has been built from a sequence of ticks, completed bars and the one in progress.
BarsSoFar == IF current_bar = Idle THEN bars ELSE Append(bars, BarOf(current_bar))

\* A tick is kept when no earlier one opened a later bucket.
Kept(ticks) ==
    {k \in DOMAIN ticks : \A j \in 1 .. k :
        BucketStart(ticks[j].timestamp) <= BucketStart(ticks[k].timestamp)}

\* The bar of a bucket: of several ticks at the first (last) time the one that came last
\* gives the open (close).
ExpectedBar(ticks, bucket) ==
    LET group  == {k \in Kept(ticks) : BucketStart(ticks[k].timestamp) = bucket}
        times  == {ticks[k].timestamp : k \in group}
        prices == {ticks[k].price : k \in group}
        lastAt(t) == Max({k \in group : ticks[k].timestamp = t})
    IN  [bucket |-> bucket, open |-> ticks[lastAt(Min(times))].price, high |-> Max(prices),
         low |-> Min(prices), close |-> ticks[lastAt(Max(times))].price,
         volume |-> MapThenSumSet(LAMBDA k : ticks[k].volume, group)]

ExpectedBars(ticks) ==
    LET buckets == Ascending({BucketStart(ticks[k].timestamp) : k \in Kept(ticks)})
    IN  [i \in DOMAIN buckets |-> ExpectedBar(ticks, buckets[i])]
=============================================================================
