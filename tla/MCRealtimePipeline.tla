------------------------- MODULE MCRealtimePipeline -------------------------
(* Feeds for TLC: bars of 40 seconds, which restart with every minute. *)
EXTENDS RealtimePipeline

T(time, price, volume) == [timestamp |-> time, price |-> price, volume |-> volume]

\* In order: two ticks in the first bar, then the short bar, then the next minute.
OrderedFeed == <<T(5, 3, 1), T(39, 2, 2), T(40, 4, 4), T(61, 1, 8)>>

\* Equal times, and times that go back within a bar and behind it.
UnorderedFeed == <<T(20, 3, 1), T(10, 2, 2), T(20, 4, 4), T(45, 1, 8), T(10, 5, 16)>>

AllFeeds == {OrderedFeed, UnorderedFeed}
=============================================================================
