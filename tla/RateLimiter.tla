----------------------------- MODULE RateLimiter -----------------------------
(***************************************************************************)
(* The sliding window of vega.broker.rate_limiter: a queue of the times at *)
(* which requests were admitted, evicted as they leave the window.  Time   *)
(* is a whole number.  acquire and acquire_async differ only in who can    *)
(* run while the caller sleeps.                                            *)
(***************************************************************************)
EXTENDS Integers, Sequences

CONSTANTS
    MaxRequests,                \* max_requests
    Window                      \* window_seconds

ASSUME RateLimiterAssumption == MaxRequests \in Nat \ {0} /\ Window \in Nat \ {0}

VARIABLES
    clock,                      \* clock_fn()
    timestamps,                 \* the deque _timestamps, oldest first
    admissions                  \* history: the time of every admission

limiterVars == <<timestamps, admissions>>

LimiterInit ==
    /\ clock = 0
    /\ timestamps = <<>> /\ admissions = <<>>

-----------------------------------------------------------------------------
\* Fault: a request that is as old as the window is wide still counts as too old one unit
\* of time earlier.
FirstLiveEarly ==
    CHOOSE i \in 1 .. Len(timestamps) + 1 :
        /\ \A j \in 1 .. i - 1 : timestamps[j] <= clock - Window + 1
        /\ i <= Len(timestamps) => timestamps[i] > clock - Window + 1

\* Where the loop of _evict_expired stops popping.
FirstLive ==
    CHOOSE i \in 1 .. Len(timestamps) + 1 :
        /\ \A j \in 1 .. i - 1 : timestamps[j] <= clock - Window
        /\ i <= Len(timestamps) => timestamps[i] > clock - Window

\* The deque after _evict_expired.
Live == SubSeq(timestamps, FirstLive, Len(timestamps))

HasRoom == Len(Live) < MaxRequests

\* When the oldest request leaves a full window.
WakeTime == Head(Live) + Window

Admit ==
    /\ timestamps' = Append(Live, clock)
    /\ admissions' = Append(admissions, clock)

\* The caller has to wait: all that happens is the eviction.
Postpone ==
    /\ timestamps' = Live
    /\ UNCHANGED admissions

-----------------------------------------------------------------------------
\* No window that begins with an admission holds more than max_requests of them.
WithinLimit ==
    \A i \in 1 .. Len(admissions) :
        i + MaxRequests <= Len(admissions) => admissions[i + MaxRequests] >= admissions[i] + Window
=============================================================================
