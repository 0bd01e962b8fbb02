--------------------------- MODULE WebSocketClient ---------------------------
(***************************************************************************)
(* The market data client (vega.broker.websocket) on its transport: the    *)
(* connection with its retries, subscriptions, and the stream of sequence  *)
(* numbers with gaps and their resynchronisation.                          *)
(*                                                                         *)
(* The code is synchronous.  Other calls can come between two of its steps *)
(* where it hands control away: in the sleep before the next connection    *)
(* attempt, and in on_tick.  One connection attempt is under way at a      *)
(* time, and one tick is being handled: on_tick does not call handle_tick, *)
(* so that a tick of a gap is never behind the last one by the time it is  *)
(* its turn.  The retry policy has no exceptions that end an attempt.      *)
(***************************************************************************)
EXTENDS Integers, FiniteSets, Sequences, SequencesExt

CONSTANTS
    Symbols,                    \* what can be subscribed to
    MaxSequence,                \* bound: sequence numbers are 1 .. MaxSequence
    MaxAttempts                 \* RetryPolicy.max_attempts

ASSUME WebSocketAssumption == MaxSequence \in Nat /\ MaxAttempts \in Nat \ {0}

VARIABLES
    state,                      \* WebSocketState
    subscriptions,              \* the client's symbols
    last_sequence,              \* None, or the number of the last tick processed
    processed_ticks,            \* numbers of the ticks given to on_tick, in order
    stale,                      \* no message within the heartbeat timeout
    attempt,                    \* failed attempts of the connection under way, 0 for none
    missing, incoming,          \* handle_tick in a gap: ticks to apply, and the one after
    is_connected, subscribed_symbols, stored_ticks   \* the transport

connectionVars == <<state, subscriptions, stale, attempt, is_connected, subscribed_symbols>>
streamVars == <<last_sequence, processed_ticks, missing, incoming, stored_ticks>>
vars == <<connectionVars, streamVars>>

None == 0

\* RECONNECTING is replaced by CONNECTING before control is handed away.
States == {"DISCONNECTED", "CONNECTING", "CONNECTED", "CLOSED"}

-----------------------------------------------------------------------------
\* The transport's store holds what it has sent, and may hold ticks that were lost on
\* their way.
Init ==
    /\ state = "DISCONNECTED" /\ subscriptions = {} /\ stale = FALSE /\ attempt = 0
    /\ last_sequence = None /\ processed_ticks = <<>> /\ missing = <<>> /\ incoming = None
    /\ is_connected = FALSE /\ subscribed_symbols = {}
    /\ stored_ticks \in SUBSET (1 .. MaxSequence)

-----------------------------------------------------------------------------
\* Fault: the symbols of the client are not sent again.
RestoreNothing(symbols) == symbols

\* _restore_subscriptions, on a transport that has the given symbols.
RestoreSubscriptions(symbols) == symbols \cup subscriptions

\* Fault: the last failure leaves the state alone.
AttemptGivingUp(k, meanwhile, connected, symbols) ==
    /\ \/ /\ is_connected' = TRUE
          /\ state' = "CONNECTED"
          /\ stale' = FALSE
          /\ subscribed_symbols' = RestoreSubscriptions(symbols)
          /\ attempt' = 0
       \/ /\ is_connected' = connected
          /\ subscribed_symbols' = symbols
          /\ UNCHANGED stale
          /\ attempt' = IF k < MaxAttempts THEN k ELSE 0
          /\ state' = meanwhile
    /\ UNCHANGED <<subscriptions, streamVars>>

\* Attempt k, with the state the client is in meanwhile, and what the transport has: it
\* connects; or fails, and sleeps; or fails for the last time, which closes the client.
Attempt(k, meanwhile, connected, symbols) ==
    /\ \/ /\ is_connected' = TRUE
          /\ state' = "CONNECTED"
          /\ stale' = FALSE
          /\ subscribed_symbols' = RestoreSubscriptions(symbols)
          /\ attempt' = 0
       \/ /\ is_connected' = connected
          /\ subscribed_symbols' = symbols
          /\ UNCHANGED stale
          /\ \/ k < MaxAttempts /\ attempt' = k /\ state' = meanwhile
             \/ k = MaxAttempts /\ attempt' = 0 /\ state' = "CLOSED"
    /\ UNCHANGED <<subscriptions, streamVars>>

\* connect() on a new client; on a connected one it returns, on a closed one it raises.
Connect ==
    /\ state = "DISCONNECTED" /\ attempt = 0
    /\ Attempt(1, "CONNECTING", is_connected, subscribed_symbols)

\* reconnect(), called by the owner of the client.
Reconnect ==
    /\ state # "CLOSED" /\ attempt = 0
    /\ Attempt(1, "CONNECTING", is_connected, subscribed_symbols)

\* The sleep is over: the loop of execute looks at nothing but its count.
Retry ==
    /\ attempt > 0
    /\ Attempt(attempt + 1, state, is_connected, subscribed_symbols)

\* Fault: the callback reconnects a closed client.
DisconnectReconnecting ==
    /\ is_connected /\ attempt = 0
    /\ \E symbols \in {subscribed_symbols, {}} : Attempt(1, "CONNECTING", FALSE, symbols)

\* The transport goes down and may forget its subscriptions.  Its callback reconnects,
\* unless the client is closed.
Disconnect ==
    /\ is_connected /\ attempt = 0
    /\ \E symbols \in {subscribed_symbols, {}} :
          \/ /\ state # "CLOSED"
             /\ Attempt(1, "CONNECTING", FALSE, symbols)
          \/ /\ state = "CLOSED"
             /\ is_connected' = FALSE /\ subscribed_symbols' = symbols
             /\ UNCHANGED <<state, subscriptions, stale, attempt, streamVars>>

\* check_heartbeat on a connection that has been silent for too long.
CheckHeartbeat ==
    /\ state = "CONNECTED" /\ stale
    /\ Disconnect

\* Time passes without a message.
Silence ==
    /\ ~stale
    /\ stale' = TRUE
    /\ UNCHANGED <<state, subscriptions, attempt, is_connected, subscribed_symbols, streamVars>>

\* close(): the state comes first, so that the callback of the transport does not reconnect.
Close ==
    /\ state # "CLOSED"
    /\ state' = "CLOSED"
    /\ is_connected' = FALSE
    /\ UNCHANGED <<subscriptions, stale, attempt, subscribed_symbols, streamVars>>

\* subscribe and unsubscribe reach the transport when connected, else they wait for the
\* next connection.
Subscribe(symbol) ==
    /\ symbol \notin subscriptions
    /\ subscriptions' = subscriptions \cup {symbol}
    /\ subscribed_symbols' = IF state = "CONNECTED" THEN subscribed_symbols \cup {symbol}
                             ELSE subscribed_symbols
    /\ UNCHANGED <<state, stale, attempt, is_connected, streamVars>>

Unsubscribe(symbol) ==
    /\ symbol \in subscriptions
    /\ subscriptions' = subscriptions \ {symbol}
    /\ subscribed_symbols' = IF state = "CONNECTED" THEN subscribed_symbols \ {symbol}
                             ELSE subscribed_symbols
    /\ UNCHANGED <<state, stale, attempt, is_connected, streamVars>>

-----------------------------------------------------------------------------
Emit(n) ==
    /\ last_sequence' = n
    /\ processed_ticks' = Append(processed_ticks, n)

Fail == state' = "CLOSED"       \* ResyncError

\* transport.resync: what its store has of a range, in order (handle_tick sorts it).
Stored(first, last) == SetToSortSeq({n \in first .. last : n \in stored_ticks}, <)

\* handle_tick, which does not look at the state of the client.  The transport stores what
\* it sends.
Receive(n) ==
    LET expected == last_sequence + 1
    IN  /\ incoming = None
        /\ stored_ticks' = stored_ticks \cup {n}
        /\ stale' = FALSE
        /\ \/ /\ last_sequence = None \/ n = expected
              /\ Emit(n)
              /\ UNCHANGED <<state, missing, incoming>>
           \/ /\ last_sequence # None /\ n < expected
              /\ UNCHANGED <<state, last_sequence, processed_ticks, missing, incoming>>
           \/ /\ last_sequence # None /\ n > expected
              /\ UNCHANGED <<last_sequence, processed_ticks>>
              /\ \/ /\ missing' = Stored(expected, n - 1)
                    /\ incoming' = n
                    /\ UNCHANGED state
                 \/ /\ Fail                         \* transport.resync raises
                    /\ UNCHANGED <<missing, incoming>>
        /\ UNCHANGED <<subscriptions, attempt, is_connected, subscribed_symbols>>

\* The loop over the ticks of the resynchronisation: another gap among them is an error.
\* on_tick may raise, which leaves handle_tick after the tick has been recorded.
ApplyMissing ==
    /\ missing # <<>>
    /\ \/ /\ Head(missing) = last_sequence + 1
          /\ Emit(Head(missing))
          /\ UNCHANGED state
          /\ \/ missing' = Tail(missing) /\ UNCHANGED incoming
             \/ missing' = <<>> /\ incoming' = None
       \/ /\ Head(missing) > last_sequence + 1
          /\ Fail
          /\ missing' = <<>> /\ incoming' = None
          /\ UNCHANGED <<last_sequence, processed_ticks>>
    /\ UNCHANGED <<subscriptions, stale, attempt, is_connected, subscribed_symbols, stored_ticks>>

\* Fault: the incoming tick is applied without a check.
ApplyIncomingUnchecked ==
    /\ missing = <<>> /\ incoming # None
    /\ Emit(incoming)
    /\ incoming' = None
    /\ UNCHANGED <<connectionVars, missing, stored_ticks>>

\* ... and then the incoming tick, if the gap is closed.
ApplyIncoming ==
    /\ missing = <<>> /\ incoming # None
    /\ \/ /\ incoming = last_sequence + 1
          /\ Emit(incoming)
          /\ UNCHANGED state
       \/ /\ incoming > last_sequence + 1
          /\ Fail
          /\ UNCHANGED <<last_sequence, processed_ticks>>
    /\ incoming' = None
    /\ UNCHANGED <<subscriptions, stale, attempt, is_connected, subscribed_symbols, missing,
                   stored_ticks>>

-----------------------------------------------------------------------------
HandleGap == ApplyMissing \/ ApplyIncoming

Next ==
    \/ Connect \/ Reconnect \/ Retry \/ Disconnect \/ CheckHeartbeat \/ Silence \/ Close
    \/ \E symbol \in Symbols : Subscribe(symbol) \/ Unsubscribe(symbol)
    \/ \E n \in 1 .. MaxSequence : Receive(n)
    \/ HandleGap

Spec == Init /\ [][Next]_vars

\* A sleep ends and a call to handle_tick goes on; nothing else has to happen.
FairSpec == Spec /\ WF_vars(Retry) /\ WF_vars(HandleGap)

-----------------------------------------------------------------------------
\* Type invariant; a gap is only handled with a tick to come after it.
WebSocketTypeOK ==
    /\ state \in States
    /\ subscriptions \subseteq Symbols /\ subscribed_symbols \subseteq Symbols
    /\ last_sequence \in 0 .. MaxSequence /\ incoming \in 0 .. MaxSequence
    /\ processed_ticks \in Seq(1 .. MaxSequence) /\ missing \in Seq(1 .. MaxSequence)
    /\ incoming = None => missing = <<>>
    /\ stale \in BOOLEAN /\ is_connected \in BOOLEAN
    /\ attempt \in 0 .. MaxAttempts - 1
    /\ stored_ticks \subseteq 1 .. MaxSequence

\* Whatever is lost, repeated, late or reordered, whatever fails, and over every
\* reconnection: the consumer sees each sequence number from its first one to the last, once
\* and in order.
StreamIsContiguous ==
    /\ \A i \in 1 .. Len(processed_ticks) :
          processed_ticks[i] = processed_ticks[1] + (i - 1)
    /\ last_sequence = IF processed_ticks = <<>> THEN None ELSE Last(processed_ticks)

\* A connected client is connected, with all its subscriptions, also those made while it
\* was not and after a transport that forgot them.
ConnectedMeansLive ==
    state = "CONNECTED" => is_connected /\ subscriptions \subseteq subscribed_symbols

\* A closed client stays closed, unless it was closed while a connection attempt slept.
ClosedIsTerminal ==
    [][state = "CLOSED" /\ attempt = 0 => state' = "CLOSED"]_vars

\* A connection attempt ends: connected, or closed.
AttemptsResolve == state = "CONNECTING" ~> state \in {"CONNECTED", "CLOSED"}

=============================================================================
