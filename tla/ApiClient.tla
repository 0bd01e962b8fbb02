------------------------------ MODULE ApiClient ------------------------------
(***************************************************************************)
(* Requests of tasks that share one APIClient (vega.broker.auth), with its *)
(* rate limiter, its retry policy (vega.broker.retry) and its token        *)
(* provider, against a server that honours one token at a time.            *)
(*                                                                         *)
(* A task runs from one suspension to the next: the sleep of the limiter,  *)
(* the answer of the transport, the sleep before a retry.  A refresh of    *)
(* the token does not suspend.  The synchronous request() is the same code *)
(* for a client with one request under way at a time.                      *)
(***************************************************************************)
EXTENDS RateLimiter, FiniteSets

CONSTANTS
    Requests,                   \* calls of request_async
    MaxAttempts,                \* RetryPolicy.max_attempts, 1 for no policy
    InitialDelay, BackoffFactor, MaxDelay,      \* RetryPolicy
    MaxClock,                   \* bound: the clock stops there unless somebody sleeps
    MaxAdmissions,              \* bound: try_acquire is called while there are fewer
    MaxExpiries                 \* bound: tokens the server lets expire

ASSUME ApiAssumption ==
    /\ IsFiniteSet(Requests)
    /\ MaxAttempts \in Nat \ {0}
    /\ InitialDelay \in Nat /\ BackoffFactor \in Nat \ {0} /\ MaxDelay \in Nat
    /\ \A k \in 0 .. MaxAttempts : BackoffFactor ^ k \in Nat     \* which the provers do not know
    /\ MaxClock \in Nat /\ MaxAdmissions \in Nat /\ MaxExpiries \in Nat

VARIABLES
    calls,                      \* the state of each request
    current_token,              \* InMemoryTokenProvider: the number of the refresh it is from
    refresh_count,
    valid_token,                \* server: the token it honours, or NoToken
    contended,                  \* history: somebody asked the limiter while another slept in it
    refused,                    \* history: the tokens the server refused to each request
    expired                     \* history: the tokens that expired

tokenVars == <<current_token, refresh_count, valid_token, expired>>
vars == <<clock, limiterVars, calls, tokenVars, contended, refused>>

NoToken == -1

Statuses == {"IDLE", "WAITING", "IN_FLIGHT", "ANSWERED", "BACKOFF", "DONE"}

\* What a send gives.  FAULT is an exception the policy retries (a 5xx status, a broken
\* connection), ERROR one that it does not, or a status that is neither 2xx, 401 nor 5xx.
Replies == {"OK", "UNAUTHORIZED", "FAULT", "ERROR"}

\* How a request ends.
Outcomes == {"OK", "ERROR", "AUTH_ERROR", "REFRESH_ERROR"}

\* token is the one that was read, attempt the number of the send with it, refreshed
\* whether this is the second round, result the last reply and in the end the outcome.
Call == [status : Statuses, token : Int, attempt : 0 .. MaxAttempts, refreshed : BOOLEAN,
         wake : Nat, result : Replies \cup Outcomes \cup {"NONE"}]

NewCall == [status |-> "IDLE", token |-> NoToken, attempt |-> 0, refreshed |-> FALSE,
            wake |-> 0, result |-> "NONE"]

Init ==
    /\ LimiterInit
    /\ calls = [r \in Requests |-> NewCall]
    /\ current_token = 0 /\ refresh_count = 0 /\ valid_token = 0
    /\ contended = FALSE /\ refused = [r \in Requests |-> {}] /\ expired = {}

Sleeping == {r \in Requests : calls[r].status \in {"WAITING", "BACKOFF"}}
Waiting == {r \in Requests : calls[r].status = "WAITING"}

-----------------------------------------------------------------------------
\* The transport is called with a token.
Sending(r, token, k) ==
    [calls[r] EXCEPT !.status = "IN_FLIGHT", !.token = token, !.attempt = k, !.wake = 0,
                     !.result = "NONE"]

SleepUntil(r, status, time) == [calls[r] EXCEPT !.status = status, !.wake = time, !.result = "NONE"]

Ended(r, outcome) == [calls[r] EXCEPT !.status = "DONE", !.result = outcome]

\* compute_delay, after failed attempt k.
ComputeDelay(k) ==
    LET delay == InitialDelay * BackoffFactor ^ (k - 1)
    IN  IF delay <= MaxDelay THEN delay ELSE MaxDelay

-----------------------------------------------------------------------------
\* request_async up to its first suspension: in the limiter, or in the transport.
Begin(r) ==
    /\ calls[r].status = "IDLE"
    /\ contended' = (contended \/ Waiting # {})
    /\ \/ /\ HasRoom
          /\ Admit
          /\ calls' = [calls EXCEPT ![r] = Sending(r, current_token, 1)]
       \/ /\ ~HasRoom
          /\ Postpone
          /\ calls' = [calls EXCEPT ![r] = SleepUntil(r, "WAITING", WakeTime)]
    /\ UNCHANGED <<clock, tokenVars, refused>>

\* The sleep in the limiter is over: the request is admitted, whatever the window holds now.
Admitted(r) ==
    /\ calls[r].status = "WAITING" /\ clock >= calls[r].wake
    /\ Admit
    /\ calls' = [calls EXCEPT ![r] = Sending(r, current_token, 1)]
    /\ UNCHANGED <<clock, tokenVars, contended, refused>>

\* Another user of the limiter polls it and is admitted; a refused poll changes nothing.
TryAcquire ==
    /\ Len(admissions) < MaxAdmissions
    /\ HasRoom
    /\ Admit
    /\ contended' = (contended \/ Waiting # {})
    /\ UNCHANGED <<clock, calls, tokenVars, refused>>

\* The answer of the server (external): a token it does not honour is refused.
Serve(r) ==
    /\ calls[r].status = "IN_FLIGHT"
    /\ \E reply \in Replies :
          /\ reply = "UNAUTHORIZED" => calls[r].token # valid_token
          /\ calls[r].token # valid_token => reply \in {"UNAUTHORIZED", "FAULT"}
          /\ calls' = [calls EXCEPT ![r].status = "ANSWERED", ![r].result = reply]
          /\ refused' = IF reply = "UNAUTHORIZED"
                        THEN [refused EXCEPT ![r] = @ \cup {calls[r].token}] ELSE refused
    /\ UNCHANGED <<clock, limiterVars, tokenVars, contended>>

\* The server lets its token expire (external).  A token that a refresh replaced whose answer
\* was lost has expired, too, as far as the client can tell: what the server has instead is
\* known to nobody.
Expire ==
    /\ valid_token # NoToken /\ Cardinality(expired) < MaxExpiries
    /\ valid_token' = NoToken
    /\ expired' = expired \cup {valid_token}
    /\ UNCHANGED <<clock, limiterVars, calls, current_token, refresh_count, contended, refused>>

NewToken == refresh_count + 1

\* Fault: the new token is returned and not stored.
RefreshTokenUnstored ==
    /\ refresh_count' = refresh_count + 1
    /\ valid_token' = NewToken
    /\ UNCHANGED <<current_token, expired>>

\* refresh_token: the new token replaces the old one here and at the server; or the refresh
\* function raises.
RefreshToken ==
    /\ refresh_count' = refresh_count + 1
    /\ current_token' = NewToken
    /\ valid_token' = NewToken
    /\ UNCHANGED expired

\* The refresh raises; if the server had replaced the token by then, see Expire.
RefreshFails ==
    /\ refresh_count' = refresh_count + 1
    /\ UNCHANGED <<current_token, valid_token, expired>>

-----------------------------------------------------------------------------
\* A reply that ends the request: a success, an error that is not retried, or the last
\* attempt of the policy.
Finish(r) ==
    /\ calls[r].status = "ANSWERED"
    /\ \/ calls[r].result \in {"OK", "ERROR"}
       \/ calls[r].result = "FAULT" /\ calls[r].attempt = MaxAttempts
    /\ calls' = [calls EXCEPT ![r] = Ended(r, IF @.result = "OK" THEN "OK" ELSE "ERROR")]
    /\ UNCHANGED <<clock, limiterVars, tokenVars, contended, refused>>

\* Fault: one attempt too many, after which nothing is left to do.
BackOffOnceMore(r) ==
    /\ calls[r].status = "ANSWERED" /\ calls[r].result = "FAULT"
    /\ calls[r].attempt <= MaxAttempts
    /\ calls' = [calls EXCEPT ![r] = SleepUntil(r, "BACKOFF", clock + ComputeDelay(@.attempt))]
    /\ UNCHANGED <<clock, limiterVars, tokenVars, contended, refused>>

\* execute_async: sleep before the next attempt, ...
BackOff(r) ==
    /\ calls[r].status = "ANSWERED" /\ calls[r].result = "FAULT"
    /\ calls[r].attempt < MaxAttempts
    /\ calls' = [calls EXCEPT ![r] = SleepUntil(r, "BACKOFF", clock + ComputeDelay(@.attempt))]
    /\ UNCHANGED <<clock, limiterVars, tokenVars, contended, refused>>

\* ... which is made with the token of the first one.  The limiter is not asked again.
Retry(r) ==
    /\ calls[r].status = "BACKOFF" /\ clock >= calls[r].wake
    /\ calls' = [calls EXCEPT ![r] = Sending(r, @.token, @.attempt + 1)]
    /\ UNCHANGED <<clock, limiterVars, tokenVars, contended, refused>>

\* Fault: the second round is made with the token of the first.
ResendSameToken(r) ==
    /\ calls[r].status = "ANSWERED" /\ calls[r].result = "UNAUTHORIZED" /\ ~calls[r].refreshed
    /\ \/ /\ RefreshToken
          /\ calls' = [calls EXCEPT ![r] = [Sending(r, @.token, 1) EXCEPT !.refreshed = TRUE]]
       \/ /\ RefreshFails
          /\ calls' = [calls EXCEPT ![r] = Ended(r, "REFRESH_ERROR")]
    /\ UNCHANGED <<clock, limiterVars, contended, refused>>

\* The first 401: refresh, and send again with a new round of attempts.
Resend(r) ==
    /\ calls[r].status = "ANSWERED" /\ calls[r].result = "UNAUTHORIZED" /\ ~calls[r].refreshed
    /\ \/ /\ RefreshToken
          /\ calls' = [calls EXCEPT ![r] = [Sending(r, NewToken, 1) EXCEPT !.refreshed = TRUE]]
       \/ /\ RefreshFails
          /\ calls' = [calls EXCEPT ![r] = Ended(r, "REFRESH_ERROR")]
    /\ UNCHANGED <<clock, limiterVars, contended, refused>>

\* The second 401.
GiveUp(r) ==
    /\ calls[r].status = "ANSWERED" /\ calls[r].result = "UNAUTHORIZED" /\ calls[r].refreshed
    /\ calls' = [calls EXCEPT ![r] = Ended(r, "AUTH_ERROR")]
    /\ UNCHANGED <<clock, limiterVars, tokenVars, contended, refused>>

Tick ==
    /\ clock < MaxClock \/ \E r \in Sleeping : clock < calls[r].wake
    /\ clock' = clock + 1
    /\ UNCHANGED <<limiterVars, calls, tokenVars, contended, refused>>

-----------------------------------------------------------------------------
Resume(r) == Finish(r) \/ BackOff(r) \/ Retry(r) \/ Resend(r) \/ GiveUp(r) \/ Admitted(r)

Next ==
    \/ \E r \in Requests : Begin(r) \/ Serve(r) \/ Resume(r)
    \/ TryAcquire \/ Expire \/ Tick

Spec == Init /\ [][Next]_vars

\* Time passes, the event loop resumes every task that can run, and every send is answered
\* (the transport has a time limit of its own, which is a FAULT).
FairSpec ==
    /\ Spec
    /\ WF_vars(Tick)
    /\ \A r \in Requests : WF_vars(Serve(r)) /\ WF_vars(Resume(r))

-----------------------------------------------------------------------------
\* Type invariant.
ApiTypeOK ==
    /\ clock \in Nat
    /\ timestamps \in Seq(Nat) /\ admissions \in Seq(Nat)
    /\ calls \in [Requests -> Call]
    /\ current_token \in Nat /\ refresh_count \in Nat
    /\ valid_token \in Nat \cup {NoToken}
    /\ contended \in BOOLEAN
    /\ refused \in [Requests -> SUBSET Int]
    /\ expired \subseteq Nat

\* Used by one caller at a time the limiter keeps its promise over every window: no
\* admission comes while another caller sleeps in it.
SequentialUseKeepsLimit == contended \/ WithinLimit

\* Two refusals, of two different tokens, are what makes an AuthenticationError, and they
\* always do: no error of another kind, no retry in between and no refresh by another
\* request changes that.
AuthErrorMeansTwoTokensRefused ==
    \A r \in Requests :
        calls[r].status = "DONE" =>
            (calls[r].result = "AUTH_ERROR" <=> Cardinality(refused[r]) = 2)

\* A request that refreshed fails to authenticate only if its new token expired (or was
\* replaced by a refresh whose answer was lost), or another request refreshed meanwhile and so
\* made the server forget it.
AuthErrorHasCause ==
    \A r \in Requests :
        calls[r].result = "AUTH_ERROR" =>
            calls[r].token < current_token \/ calls[r].token \in expired

\* Whatever the server answers, a request ends.
RequestsEnd == \A r \in Requests : calls[r].status # "IDLE" ~> calls[r].status = "DONE"
=============================================================================
