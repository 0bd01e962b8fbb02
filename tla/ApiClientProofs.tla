--------------------------- MODULE ApiClientProofs ---------------------------
(***************************************************************************)
(* Proofs about ApiClient: the types, what the limiter keeps when nobody   *)
(* else asks it during a sleep, and what an AuthenticationError means, for *)
(* any number of requests, any limit and window, and any retry policy.     *)
(***************************************************************************)
EXTENDS ApiClient, FiniteSetTheorems, SequenceTheorems, WellFoundedInduction, TLAPS

-----------------------------------------------------------------------------
(* The limiter.                                                            *)

\* The deque is what the admissions end with, and what was evicted had left the window.
LimiterInv ==
    /\ clock \in Nat
    /\ timestamps \in Seq(Nat) /\ admissions \in Seq(Nat)
    /\ Len(timestamps) <= Len(admissions)
    /\ \A i \in 1 .. Len(timestamps) :
          timestamps[i] = admissions[Len(admissions) - Len(timestamps) + i]
    /\ \A i \in 1 .. Len(admissions) - Len(timestamps) : admissions[i] + Window <= clock

\* A set of numbers has a least one.
LEMMA LeastOne ==
  ASSUME NEW S, S \subseteq Nat, S # {}
  PROVE  \E m \in S : \A k \in S : m <= k
<1>1. \E m \in S : \A k \in S : <<k, m>> \notin OpToRel(<, Nat)
  BY NatLessThanWellFounded, WFMin
<1>2. PICK m \in S : \A k \in S : <<k, m>> \notin OpToRel(<, Nat)
  BY <1>1
<1>3. ASSUME NEW k \in S PROVE m <= k
  <2>1. k \in Nat /\ m \in Nat
    OBVIOUS
  <2>2. ~(k < m)
    BY <1>2, <2>1 DEF OpToRel
  <2> QED  BY <2>1, <2>2
<1> QED  BY <1>3

\* The loop of _evict_expired stops.
LEMMA FirstLiveIs ==
  ASSUME clock \in Nat, timestamps \in Seq(Nat)
  PROVE  /\ FirstLive \in 1 .. Len(timestamps) + 1
         /\ \A j \in 1 .. FirstLive - 1 : timestamps[j] <= clock - Window
         /\ FirstLive <= Len(timestamps) => timestamps[FirstLive] > clock - Window
<1> DEFINE stops == {i \in 1 .. Len(timestamps) + 1 :
                        i <= Len(timestamps) => timestamps[i] > clock - Window}
<1>1. Len(timestamps) + 1 \in stops /\ stops \subseteq Nat
  OBVIOUS
<1>2. PICK m \in stops : \A k \in stops : m <= k
  BY <1>1, LeastOne
<1>3. ASSUME NEW j \in 1 .. m - 1 PROVE timestamps[j] <= clock - Window
  <2>1. j \notin stops /\ j \in 1 .. Len(timestamps) /\ timestamps[j] \in Nat
    BY <1>2
  <2> QED  BY <2>1, RateLimiterAssumption
<1> QED  BY <1>2, <1>3 DEF FirstLive

\* Eviction drops a prefix that has left the window, and it drops the oldest request if
\* that one has left it.
LEMMA EvictionIs ==
  ASSUME LimiterInv
  PROVE  /\ Live \in Seq(Nat) /\ Len(Live) <= Len(timestamps)
         /\ \A i \in 1 .. Len(Live) : Live[i] = admissions[Len(admissions) - Len(Live) + i]
         /\ \A i \in 1 .. Len(admissions) - Len(Live) : admissions[i] + Window <= clock
         /\ (timestamps # <<>> /\ timestamps[1] + Window <= clock) => Len(Live) < Len(timestamps)
<1> DEFINE n == Len(admissions)  m == Len(timestamps)  f == FirstLive
<1>1. /\ f \in 1 .. m + 1
      /\ \A j \in 1 .. f - 1 : timestamps[j] <= clock - Window
      /\ f <= m => timestamps[f] > clock - Window
  BY FirstLiveIs DEF LimiterInv
<1>2. n \in Nat /\ m \in Nat /\ m <= n /\ timestamps \in Seq(Nat) /\ admissions \in Seq(Nat)
      /\ clock \in Nat /\ Window \in Nat
  BY RateLimiterAssumption DEF LimiterInv
<1>3. /\ Live \in Seq(Nat) /\ Len(Live) = m + 1 - f
      /\ \A i \in 1 .. Len(Live) : Live[i] = timestamps[f + i - 1]
  <2> HIDE DEF f, m
  <2>1. Live = SubSeq(timestamps, f, m)
    BY DEF Live, f, m
  <2>2. f \in Nat /\ f >= 1 /\ f <= m + 1 /\ m = Len(timestamps)
    BY <1>1, <1>2 DEF m
  <2>3. \A i \in f .. m : timestamps[i] \in Nat
    BY <1>2, <2>2
  <2> QED
    <3>1. f \in Int /\ m \in Int
      BY <1>2, <2>2
    <3>2. /\ Live \in Seq(Nat)
          /\ Len(Live) = IF f <= m THEN m - f + 1 ELSE 0
          /\ \A i \in 1 .. m - f + 1 : Live[i] = timestamps[f + i - 1]
      BY <2>1, <2>3, <3>1, SubSeqProperties
    <3>3. Len(Live) = m + 1 - f /\ m - f + 1 = m + 1 - f
      BY <2>2, <3>1, <3>2
    <3> QED  BY <3>2, <3>3
<1>4. ASSUME NEW i \in 1 .. Len(Live)
      PROVE  Live[i] = admissions[n - Len(Live) + i]
  <2>1. f + i - 1 \in 1 .. m /\ n - m + (f + i - 1) = n - Len(Live) + i
    BY <1>1, <1>2, <1>3
  <2>2. timestamps[f + i - 1] = admissions[n - m + (f + i - 1)]
    BY <2>1 DEF LimiterInv
  <2> QED  BY <1>3, <2>1, <2>2
<1>5. ASSUME NEW i \in 1 .. n - Len(Live)
      PROVE  admissions[i] + Window <= clock
  <2>1. Len(Live) \in Nat /\ i \in Nat /\ f \in Nat
    BY <1>1, <1>2, <1>3
  <2>2. CASE i <= n - m
    <3>1. i \in 1 .. n - m
      BY <1>2, <2>1, <2>2
    <3> QED  BY <3>1 DEF LimiterInv
  <2>3. CASE i > n - m
    <3> DEFINE j == i - (n - m)
    <3>1. j \in Int /\ i = n - m + j
      BY <1>2, <2>1
    <3> HIDE DEF j
    <3>2. j \in 1 .. f - 1 /\ j \in 1 .. m
      <4> HIDE DEF n, m, f
      <4>1. j >= 1 /\ j <= n - Len(Live) - (n - m)
        BY <1>2, <1>3, <2>1, <2>3, <3>1
      <4>2. j <= f - 1
        BY <1>1, <1>2, <1>3, <2>1, <4>1
      <4> QED  BY <1>1, <1>2, <2>1, <3>1, <4>1, <4>2
    <3>3. timestamps[j] = admissions[i] /\ timestamps[j] \in Nat
      <4>1. timestamps[j] = admissions[n - m + j]
        BY <3>2 DEF LimiterInv
      <4>2. timestamps[j] \in Nat
        BY <1>2, <3>2
      <4> QED  BY <3>1, <4>1, <4>2
    <3>4. timestamps[j] <= clock - Window
      BY <1>1, <3>2
    <3> QED  BY <1>2, <3>3, <3>4
  <2> HIDE DEF n, m
  <2> QED  BY <1>2, <2>1, <2>2, <2>3
<1>6. ASSUME timestamps # <<>>, timestamps[1] + Window <= clock
      PROVE  Len(Live) < m
  <2>1. m >= 1 /\ timestamps[1] \in Nat
    BY <1>2, <1>6
  <2>2. f # 1
    BY <1>1, <1>2, <1>6, <2>1
  <2> QED  BY <1>1, <1>2, <1>3, <2>2
<1> QED  BY <1>1, <1>2, <1>3, <1>4, <1>5, <1>6

\* The three things that happen to the limiter.
LEMMA AdmitKeepsLimiter ==
  ASSUME LimiterInv, Admit, clock' = clock
  PROVE  LimiterInv' /\ Len(timestamps') = Len(Live) + 1
<1> DEFINE n == Len(admissions)  l == Len(Live)
<1>1. /\ Live \in Seq(Nat)
      /\ \A i \in 1 .. l : Live[i] = admissions[n - l + i]
      /\ \A i \in 1 .. n - l : admissions[i] + Window <= clock
      /\ l <= n /\ l \in Nat /\ n \in Nat
      /\ clock \in Nat /\ admissions \in Seq(Nat)
  BY EvictionIs DEF LimiterInv
<1>2. timestamps' = Append(Live, clock) /\ admissions' = Append(admissions, clock)
  BY DEF Admit
<1> HIDE DEF n, l
<1>3. /\ timestamps' \in Seq(Nat) /\ Len(timestamps') = l + 1
      /\ admissions' \in Seq(Nat) /\ Len(admissions') = n + 1
      /\ \A i \in 1 .. l : timestamps'[i] = Live[i]
      /\ \A i \in 1 .. n : admissions'[i] = admissions[i]
      /\ timestamps'[l + 1] = clock /\ admissions'[n + 1] = clock
      /\ Len(admissions') - Len(timestamps') = n - l
  BY <1>1, <1>2 DEF n, l
<1>4. ASSUME NEW i \in 1 .. l + 1 PROVE timestamps'[i] = admissions'[n - l + i]
  <2>1. CASE i = l + 1
    BY <1>1, <1>3, <2>1
  <2>2. CASE i \in 1 .. l
    <3>1. n - l + i \in 1 .. n
      BY <1>1, <2>2
    <3> QED  BY <1>1, <1>3, <2>2, <3>1
  <2> QED  BY <1>1, <2>1, <2>2
<1>5. ASSUME NEW i \in 1 .. n - l PROVE admissions'[i] + Window <= clock
  <2>1. i \in 1 .. n
    BY <1>1
  <2> QED  BY <1>1, <1>3, <2>1
<1>6. LimiterInv'
  <2>1. clock' \in Nat /\ Len(timestamps') <= Len(admissions')
    BY <1>1, <1>3
  <2> QED  BY <1>3, <1>4, <1>5, <2>1 DEF LimiterInv
<1> QED  BY <1>3, <1>6 DEF l

\* A caller that finds the window full adds no admission.
LEMMA PostponeKeepsLimiter ==
  ASSUME LimiterInv, Postpone, clock' = clock
  PROVE  LimiterInv'
BY EvictionIs DEF Postpone, LimiterInv

\* The passing of time only takes admissions out of windows.
LEMMA TimeKeepsLimiter ==
  ASSUME LimiterInv, UNCHANGED limiterVars, clock' = clock \/ clock' = clock + 1
  PROVE  LimiterInv'
<1>1. ASSUME NEW i \in 1 .. Len(admissions) - Len(timestamps)
      PROVE  admissions[i] + Window <= clock'
  <2>1. i \in 1 .. Len(admissions) /\ admissions[i] \in Nat /\ clock \in Nat
    BY DEF LimiterInv
  <2>2. admissions[i] + Window <= clock
    BY DEF LimiterInv
  <2> QED  BY <2>1, <2>2, RateLimiterAssumption
<1> QED  BY <1>1 DEF LimiterInv, limiterVars

\* An admission that finds room keeps the limit over every window.
LEMMA RoomKeepsLimit ==
  ASSUME LimiterInv, WithinLimit, Admit, clock' = clock, Len(Live) < MaxRequests
  PROVE  WithinLimit'
<1> DEFINE n == Len(admissions)
<1>1. /\ n \in Nat /\ MaxRequests \in Nat \ {0} /\ Window \in Nat /\ Len(Live) \in Nat
      /\ Len(Live) <= n /\ admissions \in Seq(Nat) /\ clock \in Nat
  BY EvictionIs, RateLimiterAssumption DEF LimiterInv
<1>2. /\ Len(admissions') = n + 1 /\ admissions'[n + 1] = clock
      /\ \A i \in 1 .. n : admissions'[i] = admissions[i]
  BY <1>1 DEF Admit
<1> HIDE DEF n
<1>3. ASSUME NEW i \in 1 .. n + 1, i + MaxRequests <= n + 1
      PROVE  admissions'[i + MaxRequests] >= admissions'[i] + Window
  <2>1. i \in 1 .. n
    BY <1>1, <1>3
  <2>2. CASE i + MaxRequests <= n
    <3>1. i + MaxRequests \in 1 .. n
      BY <1>1, <2>2
    <3>2. admissions[i + MaxRequests] >= admissions[i] + Window
      BY <2>1, <2>2 DEF WithinLimit, n
    <3> QED  BY <1>2, <2>1, <3>1, <3>2
  <2>3. CASE i + MaxRequests = n + 1
    <3>1. i \in 1 .. n - Len(Live)
      BY <1>1, <1>3, <2>3
    <3>2. admissions[i] + Window <= clock
      BY <3>1, EvictionIs DEF n
    <3>3. admissions[i] \in Nat
      BY <1>1, <2>1 DEF n
    <3> QED  BY <1>1, <1>2, <2>1, <2>3, <3>2, <3>3
  <2> QED  BY <1>1, <1>3, <2>2, <2>3
<1> QED  BY <1>2, <1>3 DEF WithinLimit

\* Every step of a request keeps the limiter's invariant.
LEMMA LimiterStep ==
  ASSUME LimiterInv, [Next]_vars
  PROVE  LimiterInv'
<1>1. CASE UNCHANGED vars
  BY <1>1, TimeKeepsLimiter DEF vars
<1>2. ASSUME NEW r \in Requests, Begin(r) PROVE LimiterInv'
  BY <1>2, AdmitKeepsLimiter, PostponeKeepsLimiter DEF Begin
<1>3. ASSUME NEW r \in Requests, Serve(r) PROVE LimiterInv'
  BY <1>3, TimeKeepsLimiter DEF Serve
<1>4. ASSUME NEW r \in Requests, Finish(r) \/ BackOff(r) \/ Retry(r) \/ Resend(r) \/ GiveUp(r)
      PROVE  LimiterInv'
  BY <1>4, TimeKeepsLimiter DEF Finish, BackOff, Retry, Resend, GiveUp
<1>5. ASSUME NEW r \in Requests, Admitted(r) PROVE LimiterInv'
  BY <1>5, AdmitKeepsLimiter DEF Admitted
<1>6. CASE TryAcquire
  BY <1>6, AdmitKeepsLimiter DEF TryAcquire
<1>7. CASE Expire
  BY <1>7, TimeKeepsLimiter DEF Expire
<1>8. CASE Tick
  BY <1>8, TimeKeepsLimiter DEF Tick
<1> QED  BY <1>1, <1>2, <1>3, <1>4, <1>5, <1>6, <1>7, <1>8 DEF Next, Resume

\* The limiter starts without admissions.
LEMMA LimiterInitially == Init => LimiterInv
BY DEF Init, LimiterInit, LimiterInv

-----------------------------------------------------------------------------
(* The types.                                                              *)

\* What the number of the attempt is where, so that it stays within the policy.
AttemptBounded(c) ==
    /\ c.status \in {"IN_FLIGHT", "ANSWERED"} => c.attempt >= 1
    /\ c.status = "BACKOFF" => c.attempt \in 1 .. MaxAttempts - 1

TypeInv == ApiTypeOK /\ \A r \in Requests : AttemptBounded(calls[r])

\* The states of a call after a step of its own, field by field.
LEMMA SendingIs ==
  ASSUME NEW r, calls[r] \in Call, NEW t \in Int, NEW k \in 1 .. MaxAttempts,
         NEW c, c = Sending(r, t, k)
  PROVE  /\ c \in Call /\ AttemptBounded(c)
         /\ c.status = "IN_FLIGHT" /\ c.token = t /\ c.attempt = k
         /\ c.refreshed = calls[r].refreshed /\ c.result = "NONE"
<1>0. k \in 0 .. MaxAttempts
  BY ApiAssumption
<1>1. c \in Call
  BY <1>0 DEF Sending, Call, Statuses
<1>2. /\ c.status = "IN_FLIGHT" /\ c.token = t /\ c.attempt = k
      /\ c.refreshed = calls[r].refreshed /\ c.result = "NONE"
  BY DEF Sending, Call
<1> QED  BY <1>1, <1>2 DEF AttemptBounded

\* A request that goes to sleep keeps its token and its count of attempts.
LEMMA SleepUntilIs ==
  ASSUME NEW r, calls[r] \in Call, NEW status \in {"WAITING", "BACKOFF"}, NEW time \in Nat,
         NEW c, c = SleepUntil(r, status, time)
  PROVE  /\ c \in Call
         /\ c.status = status /\ c.token = calls[r].token /\ c.attempt = calls[r].attempt
         /\ c.refreshed = calls[r].refreshed /\ c.wake = time /\ c.result = "NONE"
<1>1. c \in Call
  BY DEF SleepUntil, Call, Statuses
<1>2. /\ c.status = status /\ c.token = calls[r].token /\ c.attempt = calls[r].attempt
      /\ c.refreshed = calls[r].refreshed /\ c.wake = time /\ c.result = "NONE"
  BY DEF SleepUntil, Call
<1> QED  BY <1>1, <1>2

\* A request that ends keeps its token and its history.
LEMMA EndedIs ==
  ASSUME NEW r, calls[r] \in Call, NEW outcome \in Outcomes, NEW c, c = Ended(r, outcome)
  PROVE  /\ c \in Call /\ AttemptBounded(c)
         /\ c.status = "DONE" /\ c.token = calls[r].token /\ c.attempt = calls[r].attempt
         /\ c.refreshed = calls[r].refreshed /\ c.result = outcome
<1>1. c \in Call
  BY DEF Ended, Call, Statuses, Outcomes
<1>2. /\ c.status = "DONE" /\ c.token = calls[r].token /\ c.attempt = calls[r].attempt
      /\ c.refreshed = calls[r].refreshed /\ c.result = outcome
  BY DEF Ended, Call
<1> QED  BY <1>1, <1>2 DEF AttemptBounded

\* A step that replaces one call and keeps the types of the rest.
LEMMA CallReplaced ==
  ASSUME TypeInv, LimiterInv', NEW r \in Requests, NEW c \in Call, AttemptBounded(c),
         calls' = [calls EXCEPT ![r] = c],
         current_token' \in Nat, refresh_count' \in Nat, valid_token' \in Nat \cup {NoToken},
         contended' \in BOOLEAN, refused' \in [Requests -> SUBSET Int], expired' \subseteq Nat
  PROVE  TypeInv'
BY DEF TypeInv, ApiTypeOK, LimiterInv

\* A caller that has to wait waits for a moment that exists: the window is full, so it has
\* an oldest request.
LEMMA WakeTimeIs ==
  ASSUME LimiterInv, ~HasRoom
  PROVE  WakeTime \in Nat /\ Len(Live) >= MaxRequests /\ WakeTime = Live[1] + Window
<1>1. Live \in Seq(Nat) /\ Len(Live) >= MaxRequests
  BY EvictionIs, RateLimiterAssumption DEF HasRoom
<1>2. Live[1] \in Nat /\ Head(Live) = Live[1]
  BY <1>1, RateLimiterAssumption
<1> QED  BY <1>1, <1>2, RateLimiterAssumption DEF WakeTime

\* The backoff before each retry is a whole number of units.
LEMMA DelayIs ==
  ASSUME NEW k \in 1 .. MaxAttempts
  PROVE  ComputeDelay(k) \in Nat
<1>1. BackoffFactor ^ (k - 1) \in Nat
  <2>1. k - 1 \in 0 .. MaxAttempts
    BY ApiAssumption
  <2> QED  BY <2>1, ApiAssumption
<1> QED  BY <1>1, ApiAssumption DEF ComputeDelay

\* The types hold before any request.
LEMMA TypesInitially == Init => TypeInv
<1>1. NewCall \in Call /\ AttemptBounded(NewCall)
  BY ApiAssumption DEF NewCall, Call, NoToken, Statuses, AttemptBounded
<1>2. Init => timestamps \in Seq(Nat) /\ admissions \in Seq(Nat) /\ clock \in Nat
  BY DEF Init, LimiterInit
<1>3. Init => calls \in [Requests -> Call] /\ \A r \in Requests : AttemptBounded(calls[r])
  BY <1>1 DEF Init
<1>4. Init => /\ current_token \in Nat /\ refresh_count \in Nat /\ valid_token \in Nat
              /\ expired \subseteq Nat
  BY DEF Init
<1>5. Init => contended \in BOOLEAN /\ refused \in [Requests -> SUBSET Int]
  <2>1. Init => contended \in BOOLEAN
    BY Zenon DEF Init
  <2> QED  BY <2>1 DEF Init
<1> QED  BY <1>2, <1>3, <1>4, <1>5 DEF TypeInv, ApiTypeOK

\* Every step keeps the types, attempts within the policy among them.
LEMMA TypesStep ==
  ASSUME TypeInv, LimiterInv, LimiterInv', [Next]_vars
  PROVE  TypeInv'
<1>0. /\ clock \in Nat /\ clock' \in Nat /\ timestamps' \in Seq(Nat) /\ admissions' \in Seq(Nat)
      /\ current_token \in Nat /\ refresh_count \in Nat /\ valid_token \in Nat \cup {NoToken}
      /\ contended \in BOOLEAN /\ refused \in [Requests -> SUBSET Int] /\ expired \subseteq Nat
      /\ 1 \in 1 .. MaxAttempts
      /\ \A r \in Requests : calls[r] \in Call /\ AttemptBounded(calls[r])
  BY ApiAssumption DEF LimiterInv, TypeInv, ApiTypeOK
<1>1. ASSUME UNCHANGED <<calls, current_token, refresh_count, refused>>,
             valid_token' \in Nat \cup {NoToken}, contended' \in BOOLEAN, expired' \subseteq Nat
      PROVE  TypeInv'
  BY <1>0, <1>1 DEF TypeInv, ApiTypeOK
<1>2. ASSUME NEW r \in Requests, Begin(r) PROVE TypeInv'
  <2>1. PICK c \in {Sending(r, current_token, 1), SleepUntil(r, "WAITING", WakeTime)} :
            /\ calls' = [calls EXCEPT ![r] = c]
            /\ c = Sending(r, current_token, 1) \/ ~HasRoom
    BY <1>2 DEF Begin
  <2>2. c \in Call /\ AttemptBounded(c)
    BY <1>0, <2>1, SendingIs, SleepUntilIs, WakeTimeIs DEF AttemptBounded
  <2>3. contended' \in BOOLEAN /\ UNCHANGED <<tokenVars, refused>>
    BY <1>0, <1>2 DEF Begin
  <2> QED  BY <1>0, <2>1, <2>2, <2>3, CallReplaced DEF tokenVars
<1>3. ASSUME NEW r \in Requests, Serve(r) PROVE TypeInv'
  <2>1. PICK reply \in Replies :
            /\ calls' = [calls EXCEPT ![r] = [calls[r] EXCEPT !.status = "ANSWERED", !.result = reply]]
            /\ refused' = IF reply = "UNAUTHORIZED"
                          THEN [refused EXCEPT ![r] = @ \cup {calls[r].token}] ELSE refused
    BY <1>0, <1>3 DEF Serve, TypeInv, ApiTypeOK
  <2> DEFINE c == [calls[r] EXCEPT !.status = "ANSWERED", !.result = reply]
  <2>2. c \in Call /\ AttemptBounded(c)
    BY <1>0, <1>3 DEF Serve, Call, Statuses, AttemptBounded
  <2>3. refused' \in [Requests -> SUBSET Int]
    BY <1>0, <2>1 DEF Call
  <2>4. UNCHANGED <<tokenVars, contended>>
    BY <1>3 DEF Serve
  <2> QED  BY <1>0, <2>1, <2>2, <2>3, <2>4, CallReplaced DEF tokenVars
<1>4. ASSUME NEW r \in Requests, Finish(r) \/ GiveUp(r) PROVE TypeInv'
  <2>1. PICK outcome \in Outcomes : calls' = [calls EXCEPT ![r] = Ended(r, outcome)]
    BY <1>4 DEF Finish, GiveUp, Outcomes
  <2>2. UNCHANGED <<tokenVars, contended, refused>>
    BY <1>4 DEF Finish, GiveUp
  <2> DEFINE c == Ended(r, outcome)
  <2>3. c \in Call /\ AttemptBounded(c)
    BY <1>0, EndedIs
  <2> QED  BY <1>0, <2>1, <2>2, <2>3, CallReplaced DEF tokenVars
<1>5. ASSUME NEW r \in Requests, BackOff(r) PROVE TypeInv'
  <2>1. calls[r].attempt \in 1 .. MaxAttempts - 1
    BY <1>0, <1>5, ApiAssumption DEF BackOff, Call, AttemptBounded
  <2>2. clock + ComputeDelay(calls[r].attempt) \in Nat
    <3>1. calls[r].attempt \in 1 .. MaxAttempts
      BY <2>1, ApiAssumption
    <3> QED  BY <1>0, <3>1, DelayIs
  <2> DEFINE c == SleepUntil(r, "BACKOFF", clock + ComputeDelay(calls[r].attempt))
  <2>3. c \in Call /\ c.status = "BACKOFF" /\ c.attempt = calls[r].attempt
    BY <1>0, <2>2, SleepUntilIs
  <2>4. AttemptBounded(c)
    BY <2>1, <2>3 DEF AttemptBounded
  <2>5. calls' = [calls EXCEPT ![r] = c] /\ UNCHANGED <<tokenVars, contended, refused>>
    BY <1>5 DEF BackOff, TypeInv, ApiTypeOK
  <2> QED  BY <1>0, <2>3, <2>4, <2>5, CallReplaced DEF tokenVars
<1>6. ASSUME NEW r \in Requests, Retry(r) PROVE TypeInv'
  <2>1. calls[r].attempt + 1 \in 1 .. MaxAttempts /\ calls[r].token \in Int
    BY <1>0, <1>6, ApiAssumption DEF Retry, Call, AttemptBounded
  <2>2. /\ calls' = [calls EXCEPT ![r] = Sending(r, calls[r].token, calls[r].attempt + 1)]
        /\ UNCHANGED <<tokenVars, contended, refused>>
    BY <1>6 DEF Retry, TypeInv, ApiTypeOK
  <2> DEFINE c == Sending(r, calls[r].token, calls[r].attempt + 1)
  <2>3. c \in Call /\ AttemptBounded(c)
    BY <1>0, <2>1, SendingIs
  <2> QED  BY <1>0, <2>2, <2>3, CallReplaced DEF tokenVars
<1>7. ASSUME NEW r \in Requests, Resend(r) PROVE TypeInv'
  <2>1. CASE RefreshFails /\ calls' = [calls EXCEPT ![r] = Ended(r, "REFRESH_ERROR")]
    <3> DEFINE c == Ended(r, "REFRESH_ERROR")
    <3>1. c \in Call /\ AttemptBounded(c)
      BY <1>0, EndedIs DEF Outcomes
    <3>2. refresh_count' \in Nat
          /\ UNCHANGED <<current_token, valid_token, expired, contended, refused>>
      BY <1>0, <1>7, <2>1 DEF Resend, RefreshFails
    <3> QED  BY <1>0, <2>1, <3>1, <3>2, CallReplaced
  <2>2. CASE /\ RefreshToken
             /\ calls' = [calls EXCEPT ![r] = [Sending(r, NewToken, 1) EXCEPT !.refreshed = TRUE]]
    <3> DEFINE d == Sending(r, NewToken, 1)
               c == [d EXCEPT !.refreshed = TRUE]
    <3>1. NewToken \in Nat
      BY <1>0 DEF NewToken
    <3>2. c \in Call /\ AttemptBounded(c)
      <4>1. d \in Call /\ AttemptBounded(d)
        BY <1>0, <3>1, SendingIs
      <4> HIDE DEF d
      <4> QED  BY <4>1 DEF Call, AttemptBounded
    <3>3. /\ current_token' \in Nat /\ refresh_count' \in Nat /\ valid_token' \in Nat
          /\ UNCHANGED <<expired, contended, refused>>
      BY <1>0, <1>7, <2>2, <3>1 DEF Resend, RefreshToken
    <3> QED  BY <1>0, <2>2, <3>2, <3>3, CallReplaced
  <2> QED  BY <1>7, <2>1, <2>2 DEF Resend
<1>8. ASSUME NEW r \in Requests, Admitted(r) PROVE TypeInv'
  <2>1. /\ calls' = [calls EXCEPT ![r] = Sending(r, current_token, 1)]
        /\ UNCHANGED <<tokenVars, contended, refused>>
    BY <1>8 DEF Admitted
  <2> DEFINE c == Sending(r, current_token, 1)
  <2>2. c \in Call /\ AttemptBounded(c)
    <3>1. current_token \in Int
      BY <1>0
    <3> QED  BY <1>0, <3>1, SendingIs
  <2> QED  BY <1>0, <2>1, <2>2, CallReplaced DEF tokenVars
<1>9. CASE TryAcquire \/ Expire \/ Tick \/ UNCHANGED vars
  BY <1>0, <1>1, <1>9 DEF TryAcquire, Expire, Tick, vars, tokenVars, NoToken
<1> QED
  BY <1>2, <1>3, <1>4, <1>5, <1>6, <1>7, <1>8, <1>9 DEF Next, Resume

\* ApiTypeOK in every reachable state of APIClient, its limiter and its token provider.
THEOREM ApiTypeCorrect == Spec => []ApiTypeOK
<1>1. Init => TypeInv /\ LimiterInv
  BY TypesInitially, LimiterInitially
<1>2. TypeInv /\ LimiterInv /\ [Next]_vars => (TypeInv /\ LimiterInv)'
  BY LimiterStep, TypesStep
<1>3. TypeInv => ApiTypeOK
  BY DEF TypeInv
<1> QED  BY <1>1, <1>2, <1>3, PTL DEF Spec

-----------------------------------------------------------------------------
(* Tokens and refusals.                                                    *)

\* The server honours the last token handed out, or none because that one expired.
TokenInv ==
    /\ current_token <= refresh_count
    /\ valid_token \in {NoToken, current_token}
    /\ valid_token = NoToken => current_token \in expired

JustRefused(c) == c.result \in {"UNAUTHORIZED", "AUTH_ERROR", "REFRESH_ERROR"}

\* How far a request is and what it was refused so far: nothing or its token before the
\* refresh, an older token and perhaps the new one after it.
AuthHistory(c, tokens) ==
    /\ c.status \in {"IDLE", "WAITING"} => c.result = "NONE" /\ ~c.refreshed
    /\ c.status \in {"IN_FLIGHT", "BACKOFF"} => c.result = "NONE"
    /\ c.status = "ANSWERED" => c.result \in Replies
    /\ c.status = "DONE" => c.result \in Outcomes
    /\ c.token <= current_token
    /\ ~c.refreshed => /\ c.result # "AUTH_ERROR"
                       /\ tokens = IF JustRefused(c) THEN {c.token} ELSE {}
    /\ c.refreshed => /\ c.result # "REFRESH_ERROR"
                      /\ \E t \in Int : /\ t < c.token
                                        /\ tokens = IF JustRefused(c) THEN {t, c.token} ELSE {t}
                      /\ JustRefused(c) => c.token < current_token \/ c.token \in expired

AuthInv ==
    /\ TokenInv
    /\ \A r \in Requests : AuthHistory(calls[r], refused[r])

\* A step that replaces one call and its refusals.
LEMMA AuthReplaced ==
  ASSUME TypeInv, AuthInv, TypeInv', TokenInv', NEW r \in Requests,
         current_token <= current_token', expired \subseteq expired',
         AuthHistory(calls[r], refused[r])',
         \A s \in Requests \ {r} : calls'[s] = calls[s] /\ refused'[s] = refused[s]
  PROVE  AuthInv'
<1>1. ASSUME NEW s \in Requests \ {r} PROVE AuthHistory(calls[s], refused[s])'
  <2>1. calls[s] \in Call /\ current_token \in Nat /\ current_token' \in Nat
    BY DEF TypeInv, ApiTypeOK
  <2>2. AuthHistory(calls[s], refused[s])
    BY DEF AuthInv
  <2>3. calls'[s] = calls[s] /\ refused'[s] = refused[s] /\ calls[s].token \in Int
    BY <2>1 DEF Call
  <2> DEFINE c == calls[s]  tokens == refused[s]
  <2>4. /\ c.token <= current_token => c.token <= current_token'
        /\ c.token < current_token \/ c.token \in expired
           => c.token < current_token' \/ c.token \in expired'
    BY <2>1, <2>3
  <2>5. AuthHistory(c, tokens)
    BY <2>2
  <2>6. calls'[s] = c /\ refused'[s] = tokens
    BY <2>3
  <2> HIDE DEF c, tokens
  <2> QED  BY <2>4, <2>5, <2>6 DEF AuthHistory, JustRefused
<1> QED  BY <1>1 DEF AuthInv

\* No token has been refused before any request.
LEMMA AuthInitially == Init => AuthInv
BY DEF Init, AuthInv, TokenInv, AuthHistory, JustRefused, NewCall, NoToken

\* Every step keeps the history of refused tokens in line with each request's round.
LEMMA AuthStep ==
  ASSUME TypeInv, LimiterInv, TypeInv', AuthInv, [Next]_vars
  PROVE  AuthInv'
<1>0. /\ current_token \in Nat /\ refresh_count \in Nat /\ clock \in Nat
      /\ current_token' \in Nat
      /\ calls \in [Requests -> Call] /\ refused \in [Requests -> SUBSET Int]
      /\ \A r \in Requests : calls[r] \in Call /\ calls[r].token \in Int
      /\ 1 \in 1 .. MaxAttempts
      /\ TokenInv /\ \A r \in Requests : AuthHistory(calls[r], refused[r])
  BY ApiAssumption DEF TypeInv, ApiTypeOK, AuthInv, Call, LimiterInv
<1>1. ASSUME UNCHANGED <<calls, current_token, refused>>, expired \subseteq expired', TokenInv'
      PROVE  AuthInv'
  BY <1>0, <1>1 DEF AuthInv, AuthHistory, JustRefused
<1>2. ASSUME NEW r \in Requests, UNCHANGED <<tokenVars, refused>>, NEW c,
             calls' = [calls EXCEPT ![r] = c], AuthHistory(c, refused[r])
      PROVE  AuthInv'
  <2>1. TokenInv' /\ current_token <= current_token' /\ expired \subseteq expired'
    BY <1>0, <1>2 DEF TokenInv, tokenVars
  <2>2. AuthHistory(calls[r], refused[r])'
    BY <1>0, <1>2 DEF AuthHistory, JustRefused, tokenVars
  <2>3. \A s \in Requests \ {r} : calls'[s] = calls[s] /\ refused'[s] = refused[s]
    BY <1>0, <1>2
  <2> QED  BY <2>1, <2>2, <2>3, AuthReplaced
<1>3. ASSUME NEW r \in Requests, Begin(r) \/ Admitted(r) PROVE AuthInv'
  <2>1. PICK c \in {Sending(r, current_token, 1), SleepUntil(r, "WAITING", WakeTime)} :
            /\ calls' = [calls EXCEPT ![r] = c]
            /\ c = Sending(r, current_token, 1) \/ ~HasRoom
    BY <1>3 DEF Begin, Admitted
  <2>2. UNCHANGED <<tokenVars, refused>> /\ calls[r].status \in {"IDLE", "WAITING"}
    BY <1>3 DEF Begin, Admitted
  <2>3. AuthHistory(calls[r], refused[r])
    BY <1>0
  <2>4. AuthHistory(c, refused[r])
    <3>1. CASE c = Sending(r, current_token, 1)
      <4>1. c.status = "IN_FLIGHT" /\ c.token = current_token
            /\ c.refreshed = calls[r].refreshed /\ c.result = "NONE"
        BY <1>0, <3>1, SendingIs
      <4> QED  BY <1>0, <2>2, <2>3, <4>1 DEF AuthHistory, JustRefused
    <3>2. CASE ~HasRoom /\ c = SleepUntil(r, "WAITING", WakeTime)
      <4>1. WakeTime \in Nat
        BY <3>2, WakeTimeIs
      <4>2. c.status = "WAITING" /\ c.token = calls[r].token
            /\ c.refreshed = calls[r].refreshed /\ c.result = "NONE"
        BY <1>0, <3>2, <4>1, SleepUntilIs
      <4> QED  BY <1>0, <2>2, <2>3, <4>2 DEF AuthHistory, JustRefused
    <3> QED  BY <2>1, <3>1, <3>2
  <2> QED  BY <1>2, <2>1, <2>2, <2>4
<1>4. ASSUME NEW r \in Requests, Serve(r) PROVE AuthInv'
  <2>1. PICK reply \in Replies :
            /\ reply = "UNAUTHORIZED" => calls[r].token # valid_token
            /\ calls' = [calls EXCEPT ![r] = [calls[r] EXCEPT !.status = "ANSWERED", !.result = reply]]
            /\ refused' = IF reply = "UNAUTHORIZED"
                          THEN [refused EXCEPT ![r] = @ \cup {calls[r].token}] ELSE refused
    BY <1>0, <1>4 DEF Serve
  <2>2. UNCHANGED tokenVars /\ calls[r].status = "IN_FLIGHT"
    BY <1>4 DEF Serve
  <2>3. TokenInv' /\ current_token <= current_token' /\ expired \subseteq expired'
    BY <1>0, <2>2 DEF TokenInv, tokenVars
  <2>4. /\ calls'[r].status = "ANSWERED" /\ calls'[r].result = reply
        /\ calls'[r].token = calls[r].token /\ calls'[r].refreshed = calls[r].refreshed
    BY <1>0, <2>1 DEF Call
  <2>5. refused'[r] = IF reply = "UNAUTHORIZED" THEN refused[r] \cup {calls[r].token} ELSE refused[r]
    BY <1>0, <2>1
  <2>6. reply = "UNAUTHORIZED" => calls[r].token < current_token \/ calls[r].token \in expired
    BY <1>0, <2>1 DEF TokenInv, AuthHistory
  <2>7. AuthHistory(calls[r], refused[r]) /\ calls[r].result = "NONE"
    BY <1>0, <2>2 DEF AuthHistory
  <2>8. AuthHistory(calls[r], refused[r])'
    <3>1. UNCHANGED <<current_token, expired>> /\ calls[r].token \in Int /\ ~JustRefused(calls[r])
      BY <1>0, <2>2, <2>7 DEF tokenVars, JustRefused, Call
    <3>2. JustRefused(calls'[r]) <=> reply = "UNAUTHORIZED"
      BY <2>1, <2>4 DEF JustRefused, Replies
    <3>3. CASE ~calls[r].refreshed
      <4>1. refused[r] = {}
        BY <2>7, <3>1, <3>3 DEF AuthHistory
      <4> QED  BY <2>1, <2>4, <2>5, <2>7, <3>1, <3>2, <3>3, <4>1 DEF AuthHistory, Replies
    <3>4. CASE calls[r].refreshed
      <4>1. PICK t \in Int : t < calls[r].token /\ refused[r] = {t}
        BY <2>7, <3>1, <3>4 DEF AuthHistory
      <4>2. refused'[r] = IF JustRefused(calls'[r]) THEN {t, calls'[r].token} ELSE {t}
        BY <2>4, <2>5, <3>2, <4>1
      <4>3. /\ calls'[r].result \in Replies /\ calls'[r].result # "REFRESH_ERROR"
            /\ calls'[r].token <= current_token' /\ t < calls'[r].token
        BY <2>1, <2>4, <2>7, <3>1, <4>1 DEF AuthHistory, Replies
      <4>4. JustRefused(calls'[r]) => calls'[r].token < current_token' \/ calls'[r].token \in expired'
        BY <2>4, <2>6, <3>1, <3>2
      <4> QED  BY <2>4, <3>4, <4>1, <4>2, <4>3, <4>4 DEF AuthHistory
    <3> QED  BY <3>3, <3>4
  <2>9. \A s \in Requests \ {r} : calls'[s] = calls[s] /\ refused'[s] = refused[s]
    BY <1>0, <2>1
  <2> QED  BY <2>3, <2>8, <2>9, AuthReplaced
<1>5. ASSUME NEW r \in Requests, Finish(r) \/ GiveUp(r) PROVE AuthInv'
  <2>1. PICK outcome \in {"OK", "ERROR", "AUTH_ERROR"} :
            /\ calls' = [calls EXCEPT ![r] = Ended(r, outcome)]
            /\ outcome = "AUTH_ERROR" <=> calls[r].result = "UNAUTHORIZED"
            /\ outcome = "AUTH_ERROR" => calls[r].refreshed
    BY <1>0, <1>5 DEF Finish, GiveUp
  <2>2. UNCHANGED <<tokenVars, refused>> /\ calls[r].status = "ANSWERED"
    BY <1>5 DEF Finish, GiveUp
  <2> DEFINE c == Ended(r, outcome)
  <2>3. c.status = "DONE" /\ c.token = calls[r].token
        /\ c.refreshed = calls[r].refreshed /\ c.result = outcome
    BY <1>0, EndedIs DEF Outcomes
  <2>4. AuthHistory(calls[r], refused[r])
    BY <1>0
  <2>5. JustRefused(c) <=> JustRefused(calls[r])
    BY <2>1, <2>2, <2>3, <2>4 DEF JustRefused, AuthHistory, Replies
  <2> HIDE DEF c
  <2>6. AuthHistory(c, refused[r])
    BY <1>0, <2>1, <2>2, <2>3, <2>4, <2>5 DEF AuthHistory, Outcomes
  <2> QED  BY <1>2, <2>1, <2>2, <2>6 DEF c
<1>6. ASSUME NEW r \in Requests, BackOff(r) PROVE AuthInv'
  <2>1. calls[r].attempt \in 1 .. MaxAttempts
    BY <1>0, <1>6, ApiAssumption DEF BackOff, Call, TypeInv, AttemptBounded
  <2>2. clock + ComputeDelay(calls[r].attempt) \in Nat
    BY <1>0, <2>1, DelayIs
  <2> DEFINE c == SleepUntil(r, "BACKOFF", clock + ComputeDelay(calls[r].attempt))
  <2>3. c.status = "BACKOFF" /\ c.token = calls[r].token
        /\ c.refreshed = calls[r].refreshed /\ c.result = "NONE"
    BY <1>0, <2>2, SleepUntilIs
  <2>4. calls' = [calls EXCEPT ![r] = c] /\ UNCHANGED <<tokenVars, refused>>
        /\ calls[r].result = "FAULT"
    BY <1>0, <1>6 DEF BackOff
  <2> HIDE DEF c
  <2>5. AuthHistory(calls[r], refused[r])
    BY <1>0
  <2>6. AuthHistory(c, refused[r])
    BY <1>0, <2>3, <2>4, <2>5 DEF AuthHistory, JustRefused
  <2> QED  BY <1>2, <2>4, <2>6
<1>7. ASSUME NEW r \in Requests, Retry(r) PROVE AuthInv'
  <2>1. calls[r].attempt + 1 \in 1 .. MaxAttempts
    BY <1>0, <1>7, ApiAssumption DEF Retry, Call, TypeInv, AttemptBounded
  <2> DEFINE c == Sending(r, calls[r].token, calls[r].attempt + 1)
  <2>2. c.status = "IN_FLIGHT" /\ c.token = calls[r].token
        /\ c.refreshed = calls[r].refreshed /\ c.result = "NONE"
    BY <1>0, <2>1, SendingIs
  <2>3. calls' = [calls EXCEPT ![r] = c] /\ UNCHANGED <<tokenVars, refused>>
        /\ calls[r].status = "BACKOFF"
    BY <1>0, <1>7 DEF Retry
  <2> HIDE DEF c
  <2>4. AuthHistory(calls[r], refused[r])
    BY <1>0
  <2>5. AuthHistory(c, refused[r])
    BY <1>0, <2>2, <2>3, <2>4 DEF AuthHistory, JustRefused
  <2> QED  BY <1>2, <2>3, <2>5
<1>8. ASSUME NEW r \in Requests, Resend(r) PROVE AuthInv'
  <2>1. /\ calls[r].status = "ANSWERED" /\ calls[r].result = "UNAUTHORIZED"
        /\ ~calls[r].refreshed /\ UNCHANGED <<refused, expired>>
    BY <1>8 DEF Resend, RefreshToken, RefreshFails
  <2>2. AuthHistory(calls[r], refused[r]) /\ refused[r] = {calls[r].token}
        /\ calls[r].token <= current_token
    BY <1>0, <2>1 DEF AuthHistory, JustRefused
  <2>3. CASE RefreshFails /\ calls' = [calls EXCEPT ![r] = Ended(r, "REFRESH_ERROR")]
    <3> DEFINE c == Ended(r, "REFRESH_ERROR")
    <3>1. c.status = "DONE" /\ c.token = calls[r].token
          /\ c.refreshed = calls[r].refreshed /\ c.result = "REFRESH_ERROR"
      BY <1>0, EndedIs DEF Outcomes
    <3> HIDE DEF c
    <3>2. calls' = [calls EXCEPT ![r] = c]
      BY <2>3 DEF c
    <3>3. calls'[r] = c /\ \A s \in Requests \ {r} : calls'[s] = calls[s]
      BY <1>0, <3>2
    <3>4. AuthHistory(calls[r], refused[r])'
      BY <1>0, <2>1, <2>2, <2>3, <3>1, <3>3 DEF AuthHistory, JustRefused, Outcomes, RefreshFails
    <3>5. TokenInv' /\ current_token <= current_token' /\ expired \subseteq expired'
      BY <1>0, <2>1, <2>3 DEF TokenInv, RefreshFails
    <3> QED  BY <2>1, <3>3, <3>4, <3>5, AuthReplaced
  <2>4. CASE /\ RefreshToken
             /\ calls' = [calls EXCEPT ![r] = [Sending(r, NewToken, 1) EXCEPT !.refreshed = TRUE]]
    <3> DEFINE d == Sending(r, NewToken, 1)
               c == [d EXCEPT !.refreshed = TRUE]
    <3>1. NewToken \in Int /\ NewToken > current_token /\ NewToken \in Nat
      BY <1>0 DEF NewToken, TokenInv
    <3>2. d \in Call /\ d.status = "IN_FLIGHT" /\ d.token = NewToken /\ d.result = "NONE"
      BY <1>0, <3>1, SendingIs
    <3> HIDE DEF d
    <3>3. c.status = "IN_FLIGHT" /\ c.token = NewToken /\ c.result = "NONE" /\ c.refreshed
      BY <3>2 DEF Call
    <3>4. calls' = [calls EXCEPT ![r] = c]
      BY <2>4 DEF d
    <3> HIDE DEF c
    <3>5. calls'[r] = c /\ \A s \in Requests \ {r} : calls'[s] = calls[s]
      BY <1>0, <3>4
    <3>6. current_token' = NewToken /\ refresh_count' = NewToken /\ valid_token' = NewToken
      BY <2>4 DEF RefreshToken, NewToken
    <3>7. calls[r].token < NewToken /\ calls[r].token \in Int /\ refused'[r] = {calls[r].token}
      BY <1>0, <2>1, <2>2, <3>1
    <3>8. AuthHistory(calls[r], refused[r])'
      BY <1>0, <3>1, <3>3, <3>5, <3>6, <3>7 DEF AuthHistory, JustRefused
    <3>9. TokenInv' /\ current_token <= current_token' /\ expired \subseteq expired'
      BY <1>0, <2>1, <3>1, <3>6 DEF TokenInv, NoToken
    <3> QED  BY <2>1, <3>5, <3>8, <3>9, AuthReplaced
  <2> QED  BY <1>8, <2>3, <2>4 DEF Resend
<1>9. CASE TryAcquire \/ Expire \/ Tick \/ UNCHANGED vars
  <2>1. UNCHANGED <<calls, current_token, refused>> /\ expired \subseteq expired'
    BY <1>9 DEF TryAcquire, Expire, Tick, vars, tokenVars
  <2>2. TokenInv'
    BY <1>0, <1>9 DEF TryAcquire, Expire, Tick, vars, tokenVars, TokenInv, NoToken
  <2> QED  BY <1>1, <2>1, <2>2
<1> QED
  BY <1>3, <1>4, <1>5, <1>6, <1>7, <1>8, <1>9 DEF Next, Resume

ApiInv == LimiterInv /\ TypeInv /\ AuthInv

\* The limiter, the types and the tokens keep their invariants in every run.
LEMMA ApiInvariant == Spec => []ApiInv
<1>1. Init => ApiInv
  BY LimiterInitially, TypesInitially, AuthInitially DEF ApiInv
<1>2. ApiInv /\ [Next]_vars => ApiInv'
  BY LimiterStep, TypesStep, AuthStep DEF ApiInv
<1> QED  BY <1>1, <1>2, PTL DEF Spec

\* AuthErrorMeansTwoTokensRefused for APIClient.request_async: the AuthenticationError of
\* auth.py is raised when, and only when, two different tokens of the request were refused.
THEOREM AuthErrorsAreDeserved == Spec => []AuthErrorMeansTwoTokensRefused
<1>1. ApiInv => AuthErrorMeansTwoTokensRefused
  <2> SUFFICES ASSUME ApiInv, NEW r \in Requests, calls[r].status = "DONE"
               PROVE  calls[r].result = "AUTH_ERROR" <=> Cardinality(refused[r]) = 2
    BY DEF AuthErrorMeansTwoTokensRefused
  <2>1. AuthHistory(calls[r], refused[r]) /\ calls[r].token \in Int /\ calls[r].refreshed \in BOOLEAN
    BY DEF ApiInv, AuthInv, TypeInv, ApiTypeOK, Call
  <2>2. CASE ~calls[r].refreshed
    <3>1. refused[r] \in {{}, {calls[r].token}} /\ calls[r].result # "AUTH_ERROR"
      BY <2>1, <2>2 DEF AuthHistory
    <3>2. Cardinality(refused[r]) \in {0, 1}
      BY <3>1, FS_EmptySet, FS_Singleton
    <3> QED  BY <3>1, <3>2
  <2>3. CASE calls[r].refreshed
    <3>1. PICK t \in Int : t < calls[r].token
                           /\ refused[r] = IF JustRefused(calls[r]) THEN {t, calls[r].token} ELSE {t}
      BY <2>1, <2>3 DEF AuthHistory
    <3>2. JustRefused(calls[r]) <=> calls[r].result = "AUTH_ERROR"
      BY <2>1, <2>3 DEF AuthHistory, JustRefused, Outcomes
    <3>3. Cardinality({t}) = 1 /\ IsFiniteSet({t})
      BY FS_Singleton
    <3>4. Cardinality({t, calls[r].token}) = 2
      <4>1. calls[r].token \notin {t} /\ {t, calls[r].token} = {t} \cup {calls[r].token}
        BY <2>1, <3>1
      <4>2. Cardinality({t} \cup {calls[r].token}) = 1 + 1
        BY <3>3, <4>1, FS_AddElement
      <4> QED  BY <4>1, <4>2
    <3> QED  BY <3>1, <3>2, <3>3, <3>4
  <2> QED  BY <2>1, <2>2, <2>3
<1> QED  BY <1>1, ApiInvariant, PTL

\* AuthErrorHasCause: a request fails to authenticate only because the token of its own
\* refresh expired or was replaced by the refresh of another request.
THEOREM AuthErrorsHaveACause == Spec => []AuthErrorHasCause
<1>1. ApiInv => AuthErrorHasCause
  <2> SUFFICES ASSUME ApiInv, NEW r \in Requests, calls[r].result = "AUTH_ERROR"
               PROVE  calls[r].token < current_token \/ calls[r].token \in expired
    BY DEF AuthErrorHasCause
  <2>1. AuthHistory(calls[r], refused[r]) /\ calls[r].refreshed \in BOOLEAN
    BY DEF ApiInv, AuthInv, TypeInv, ApiTypeOK, Call
  <2> QED  BY <2>1 DEF AuthHistory, JustRefused
<1> QED  BY <1>1, ApiInvariant, PTL

-----------------------------------------------------------------------------
(* The limiter with one caller at a time.                                  *)

\* As long as nobody asked while another slept, the one sleeper is behind a full deque and
\* sleeps until its oldest request leaves the window.
SequentialInv ==
    contended \/
       /\ WithinLimit
       /\ Len(timestamps) <= MaxRequests
       /\ \A r \in Waiting :
             /\ Len(timestamps) = MaxRequests /\ calls[r].wake = timestamps[1] + Window
             /\ \A s \in Waiting : s = r

\* A step that neither asks the limiter nor puts anybody to sleep in it.
LEMMA SequentialApart ==
  ASSUME SequentialInv, UNCHANGED <<limiterVars, contended>>,
         \A r \in Requests : calls'[r].status = "WAITING" =>
             calls[r].status = "WAITING" /\ calls'[r].wake = calls[r].wake
  PROVE  SequentialInv'
BY DEF SequentialInv, WithinLimit, Waiting, limiterVars

\* An admission after which nobody sleeps in the limiter.
LEMMA SequentialAdmission ==
  ASSUME LimiterInv, SequentialInv, Admit, clock' = clock, Len(Live) < MaxRequests,
         contended' \/ (~contended /\ Waiting' = {})
  PROVE  SequentialInv'
<1>1. CASE contended'
  BY <1>1 DEF SequentialInv
<1>2. CASE ~contended /\ Waiting' = {}
  <2>1. WithinLimit'
    BY <1>2, RoomKeepsLimit DEF SequentialInv
  <2>2. Len(timestamps') <= MaxRequests
    <3>1. Len(timestamps') = Len(Live) + 1 /\ Len(Live) \in Nat
      BY AdmitKeepsLimiter, EvictionIs
    <3> QED  BY <3>1, RateLimiterAssumption
  <2> QED  BY <1>2, <2>1, <2>2 DEF SequentialInv
<1> QED  BY <1>1, <1>2

\* While nobody asks during a sleep, one caller at most sleeps, behind a full deque.
LEMMA SequentialStep ==
  ASSUME LimiterInv, TypeInv, SequentialInv, [Next]_vars
  PROVE  SequentialInv'
<1>0. calls \in [Requests -> Call] /\ MaxRequests \in Nat \ {0}
  BY RateLimiterAssumption DEF TypeInv, ApiTypeOK
<1>1. ASSUME NEW r \in Requests, Begin(r) PROVE SequentialInv'
  <2>1. calls[r].status = "IDLE" /\ contended' = (contended \/ Waiting # {}) /\ clock' = clock
    BY <1>1 DEF Begin
  <2>2. CASE contended'
    BY <2>2 DEF SequentialInv
  <2>3. CASE ~contended'
    <3>1. ~contended /\ Waiting = {}
      BY <2>1, <2>3
    <3>2. CASE HasRoom /\ Admit /\ calls' = [calls EXCEPT ![r] = Sending(r, current_token, 1)]
      <4>1. Waiting' = {}
        <5>1. Sending(r, current_token, 1).status = "IN_FLIGHT"
          BY <1>0 DEF Sending, Call
        <5> QED  BY <1>0, <3>1, <3>2, <5>1 DEF Waiting
      <4> QED  BY <2>1, <3>1, <3>2, <4>1, SequentialAdmission DEF HasRoom
    <3>3. CASE /\ ~HasRoom /\ Postpone
               /\ calls' = [calls EXCEPT ![r] = SleepUntil(r, "WAITING", WakeTime)]
      <4>1. /\ timestamps' = Live /\ admissions' = admissions
            /\ Len(Live) = MaxRequests /\ WakeTime = Live[1] + Window /\ WakeTime \in Nat
        <5>1. Len(Live) >= MaxRequests /\ Len(Live) <= Len(timestamps)
              /\ Len(timestamps) <= MaxRequests /\ Len(Live) \in Nat /\ Len(timestamps) \in Nat
          BY <3>1, <3>3, WakeTimeIs, EvictionIs DEF SequentialInv, LimiterInv
        <5> QED  BY <1>0, <3>3, <5>1, WakeTimeIs DEF Postpone
      <4>2. Waiting' = {r} /\ calls'[r].wake = WakeTime
        <5>1. SleepUntil(r, "WAITING", WakeTime).status = "WAITING"
              /\ SleepUntil(r, "WAITING", WakeTime).wake = WakeTime
          BY <1>0, <4>1, SleepUntilIs
        <5> QED  BY <1>0, <3>1, <3>3, <5>1 DEF Waiting
      <4>3. WithinLimit'
        BY <3>1, <4>1 DEF SequentialInv, WithinLimit
      <4> QED  BY <1>0, <4>1, <4>2, <4>3 DEF SequentialInv
    <3> QED  BY <1>1, <3>2, <3>3 DEF Begin
  <2> QED  BY <2>2, <2>3
<1>2. ASSUME NEW r \in Requests, Admitted(r) PROVE SequentialInv'
  <2>1. /\ r \in Waiting /\ clock >= calls[r].wake /\ Admit /\ clock' = clock
        /\ calls' = [calls EXCEPT ![r] = Sending(r, current_token, 1)] /\ contended' = contended
    BY <1>2 DEF Admitted, Waiting
  <2>2. CASE contended
    BY <2>1, <2>2 DEF SequentialInv
  <2>3. CASE ~contended
    <3>1. /\ Len(timestamps) = MaxRequests /\ calls[r].wake = timestamps[1] + Window
          /\ Waiting = {r}
      BY <2>1, <2>3 DEF SequentialInv
    <3>2. Len(Live) < MaxRequests
      <4>1. timestamps # <<>> /\ timestamps[1] \in Nat /\ clock \in Nat /\ Window \in Nat
        BY <1>0, <3>1, RateLimiterAssumption DEF LimiterInv
      <4>2. timestamps[1] + Window <= clock
        BY <2>1, <3>1, <4>1
      <4> QED  BY <3>1, <4>1, <4>2, EvictionIs
    <3>3. Waiting' = {}
      <4>1. Sending(r, current_token, 1).status = "IN_FLIGHT"
        BY <1>0 DEF Sending, Call
      <4> QED  BY <1>0, <2>1, <3>1, <4>1 DEF Waiting
    <3> QED  BY <2>1, <2>3, <3>2, <3>3, SequentialAdmission
  <2> QED  BY <2>2, <2>3
<1>3. CASE TryAcquire
  <2>1. /\ Admit /\ Len(Live) < MaxRequests /\ clock' = clock /\ calls' = calls
        /\ contended' = (contended \/ Waiting # {})
    BY <1>3 DEF TryAcquire, HasRoom
  <2>2. contended' \/ (~contended /\ Waiting' = {})
    BY <2>1 DEF Waiting
  <2> QED  BY <2>1, <2>2, SequentialAdmission
<1>4. ASSUME NEW r \in Requests, UNCHANGED <<limiterVars, contended>>,
             calls'[r].status # "WAITING", \A s \in Requests \ {r} : calls'[s] = calls[s]
      PROVE  SequentialInv'
  BY <1>0, <1>4, SequentialApart
<1>5. ASSUME NEW r \in Requests,
             Serve(r) \/ Finish(r) \/ BackOff(r) \/ Retry(r) \/ Resend(r) \/ GiveUp(r)
      PROVE  SequentialInv'
  <2>1. UNCHANGED <<limiterVars, contended>>
    BY <1>5 DEF Serve, Finish, BackOff, Retry, Resend, GiveUp
  <2>2. calls[r] \in Call
    BY <1>0
  <2>3. calls'[r].status # "WAITING" /\ \A s \in Requests \ {r} : calls'[s] = calls[s]
    <3>1. CASE Serve(r)
      <4>1. PICK reply \in Replies :
                calls' = [calls EXCEPT ![r] = [calls[r] EXCEPT !.status = "ANSWERED", !.result = reply]]
        BY <1>0, <3>1 DEF Serve
      <4> QED  BY <1>0, <2>2, <4>1 DEF Call
    <3>2. CASE Finish(r) \/ GiveUp(r)
      <4>1. PICK outcome \in Outcomes : calls' = [calls EXCEPT ![r] = Ended(r, outcome)]
        BY <3>2 DEF Finish, GiveUp, Outcomes
      <4> QED  BY <1>0, <2>2, <4>1 DEF Ended, Call
    <3>3. CASE BackOff(r)
      <4>1. PICK time : calls' = [calls EXCEPT ![r] = SleepUntil(r, "BACKOFF", time)]
        BY <1>0, <3>3 DEF BackOff
      <4> QED  BY <1>0, <2>2, <4>1 DEF SleepUntil, Call
    <3>4. CASE Retry(r)
      <4>1. PICK t, k : calls' = [calls EXCEPT ![r] = Sending(r, t, k)]
        BY <1>0, <3>4 DEF Retry
      <4> QED  BY <1>0, <2>2, <4>1 DEF Sending, Call
    <3>5. CASE Resend(r)
      <4>1. CASE calls' = [calls EXCEPT ![r] = Ended(r, "REFRESH_ERROR")]
        BY <1>0, <2>2, <4>1 DEF Ended, Call
      <4>2. CASE calls' = [calls EXCEPT ![r] = [Sending(r, NewToken, 1) EXCEPT !.refreshed = TRUE]]
        BY <1>0, <2>2, <4>2 DEF Sending, Call
      <4> QED  BY <3>5, <4>1, <4>2 DEF Resend
    <3> QED  BY <1>5, <3>1, <3>2, <3>3, <3>4, <3>5
  <2> QED  BY <1>4, <2>1, <2>3
<1>6. CASE Expire \/ Tick \/ UNCHANGED vars
  BY <1>6, SequentialApart DEF Expire, Tick, vars
<1> QED
  BY <1>1, <1>2, <1>3, <1>5, <1>6 DEF Next, Resume

\* SequentialUseKeepsLimit: no window of RateLimiter holds more than max_requests
\* admissions while no caller asks during the sleep of another.
THEOREM LimitKeptInSequence == Spec => []SequentialUseKeepsLimit
<1>1. Init => SequentialInv
  BY RateLimiterAssumption DEF Init, LimiterInit, SequentialInv, WithinLimit, Waiting, NewCall
<1>2. ApiInv /\ SequentialInv /\ [Next]_vars => SequentialInv'
  BY SequentialStep DEF ApiInv
<1>3. SequentialInv => SequentialUseKeepsLimit
  BY DEF SequentialInv, SequentialUseKeepsLimit
<1> QED  BY <1>1, <1>2, <1>3, ApiInvariant, PTL DEF Spec
=============================================================================
