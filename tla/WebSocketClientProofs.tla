------------------------ MODULE WebSocketClientProofs ------------------------
(***************************************************************************)
(* Proofs about WebSocketClient: the contiguity of the delivered stream,   *)
(* the agreement of client and transport on the connection, and the        *)
(* terminal state, for any set of symbols and any numbers of sequence      *)
(* numbers and attempts.                                                   *)
(***************************************************************************)
EXTENDS WebSocketClient, TLAPS

-----------------------------------------------------------------------------
\* The stream with just enough of its types: what the gap holds does not matter, because
\* nothing of it is applied without a look at its number.
StreamInv ==
    /\ last_sequence \in Nat
    /\ processed_ticks \in Seq(Nat \ {0})
    /\ StreamIsContiguous

\* Appending to a contiguous stream the number after the last one, or any first number,
\* keeps it contiguous.
LEMMA EmitKeepsStream ==
  ASSUME StreamInv, NEW n \in Nat \ {0}, last_sequence = None \/ n = last_sequence + 1, Emit(n)
  PROVE  StreamInv'
<1>1. last_sequence' = n /\ processed_ticks' = Append(processed_ticks, n)
  BY DEF Emit
<1>2. processed_ticks' \in Seq(Nat \ {0}) /\ Len(processed_ticks') = Len(processed_ticks) + 1
      /\ processed_ticks' # <<>>
  BY <1>1 DEF StreamInv
<1>3. Last(processed_ticks') = n
  BY <1>1, <1>2 DEF StreamInv, Last
<1>4. CASE processed_ticks = <<>>
  <2>1. Len(processed_ticks') = 1 /\ processed_ticks'[1] = n
    BY <1>1, <1>4
  <2>2. ASSUME NEW i \in 1 .. Len(processed_ticks')
        PROVE  processed_ticks'[i] = processed_ticks'[1] + (i - 1)
    BY <2>1
  <2> QED  BY <1>1, <1>2, <1>3, <2>2 DEF StreamInv, StreamIsContiguous
<1>5. CASE processed_ticks # <<>>
  <2>1. Len(processed_ticks) \in Nat \ {0} /\ last_sequence = processed_ticks[Len(processed_ticks)]
    BY <1>5 DEF StreamInv, StreamIsContiguous, Last
  <2>2. last_sequence # None
    BY <2>1 DEF StreamInv, None
  <2>3. n = processed_ticks[1] + Len(processed_ticks)
    <3>1. Len(processed_ticks) \in 1 .. Len(processed_ticks) /\ processed_ticks[1] \in Nat
      BY <2>1 DEF StreamInv
    <3>2. last_sequence = processed_ticks[1] + (Len(processed_ticks) - 1)
      BY <2>1, <3>1 DEF StreamInv, StreamIsContiguous
    <3> QED  BY <2>1, <2>2, <3>1, <3>2
  <2>4. ASSUME NEW i \in 1 .. Len(processed_ticks')
        PROVE  processed_ticks'[i] = processed_ticks'[1] + (i - 1)
    <3>1. CASE i \in 1 .. Len(processed_ticks)
      BY <1>1, <2>1, <3>1 DEF StreamInv, StreamIsContiguous
    <3>2. CASE i = Len(processed_ticks) + 1
      BY <1>1, <2>1, <2>3, <3>2 DEF StreamInv
    <3> QED  BY <1>2, <3>1, <3>2, <2>1
  <2> QED  BY <1>1, <1>2, <1>3, <2>4 DEF StreamInv, StreamIsContiguous
<1> QED  BY <1>4, <1>5

\* A step that leaves the processed ticks and the last number alone.
LEMMA StreamUntouched ==
  ASSUME StreamInv, UNCHANGED <<last_sequence, processed_ticks>>
  PROVE  StreamInv'
BY DEF StreamInv, StreamIsContiguous

\* What is received, from the transport or from a resynchronisation, keeps the stream.
LEMMA HandlingKeepsStream ==
  ASSUME StreamInv, (\E n \in 1 .. MaxSequence : Receive(n)) \/ HandleGap
  PROVE  StreamInv'
<1>1. ASSUME NEW n \in 1 .. MaxSequence, Receive(n)  PROVE StreamInv'
  <2>1. CASE (last_sequence = None \/ n = last_sequence + 1) /\ Emit(n)
    BY <2>1, EmitKeepsStream
  <2>2. CASE UNCHANGED <<last_sequence, processed_ticks>>
    BY <2>2, StreamUntouched
  <2> QED  BY <1>1, <2>1, <2>2 DEF Receive
<1>2. CASE ApplyMissing
  <2>1. CASE Head(missing) = last_sequence + 1 /\ Emit(Head(missing))
    <3>1. Head(missing) \in Nat \ {0}
      BY <2>1 DEF StreamInv
    <3> QED  BY <2>1, <3>1, EmitKeepsStream
  <2>2. CASE UNCHANGED <<last_sequence, processed_ticks>>
    BY <2>2, StreamUntouched
  <2> QED  BY <1>2, <2>1, <2>2 DEF ApplyMissing
<1>3. CASE ApplyIncoming
  <2>1. CASE incoming = last_sequence + 1 /\ Emit(incoming)
    <3>1. incoming \in Nat \ {0}
      BY <2>1 DEF StreamInv
    <3> QED  BY <2>1, <3>1, EmitKeepsStream
  <2>2. CASE UNCHANGED <<last_sequence, processed_ticks>>
    BY <2>2, StreamUntouched
  <2> QED  BY <1>3, <2>1, <2>2 DEF ApplyIncoming
<1> QED  BY <1>1, <1>2, <1>3 DEF HandleGap

\* Whatever arrives, in whatever order, and whatever fails: the consumer sees each number
\* from its first to the last once and in order (handle_tick).
THEOREM StreamStaysContiguous == Spec => []StreamIsContiguous
<1>1. Init => StreamInv
  BY DEF Init, StreamInv, StreamIsContiguous, None
<1>2. StreamInv /\ [Next]_vars => StreamInv'
  <2> SUFFICES ASSUME StreamInv, [Next]_vars  PROVE StreamInv'
    OBVIOUS
  <2>1. CASE \/ Connect \/ Reconnect \/ Retry \/ Disconnect \/ CheckHeartbeat \/ Silence
             \/ Close \/ (\E symbol \in Symbols : Subscribe(symbol) \/ Unsubscribe(symbol))
             \/ UNCHANGED vars
    <3>1. UNCHANGED <<last_sequence, processed_ticks>>
      BY <2>1 DEF Connect, Reconnect, Retry, Disconnect, CheckHeartbeat, Silence, Close,
                  Subscribe, Unsubscribe, Attempt, streamVars, vars
    <3> QED  BY <3>1, StreamUntouched
  <2>2. CASE (\E n \in 1 .. MaxSequence : Receive(n)) \/ HandleGap
    BY <2>2, HandlingKeepsStream
  <2> QED  BY <2>1, <2>2 DEF Next
<1>3. StreamInv => StreamIsContiguous
  BY DEF StreamInv
<1> QED  BY <1>1, <1>2, <1>3, PTL DEF Spec

-----------------------------------------------------------------------------
\* A connection attempt ends connected with the subscriptions restored, or in another state.
LEMMA AttemptKeepsConnection ==
  ASSUME NEW k, NEW meanwhile, meanwhile # "CONNECTED", NEW connected, NEW symbols,
         Attempt(k, meanwhile, connected, symbols)
  PROVE  ConnectedMeansLive'
BY DEF Attempt, RestoreSubscriptions, ConnectedMeansLive

\* A sleeping attempt never shows as connected.
AttemptInv == attempt > 0 => state # "CONNECTED"

\* A client that says it is connected has a connected transport with all its subscriptions
\* (connect, reconnect, subscribe, unsubscribe, close and the disconnect callback).
THEOREM ConnectedIsLive == Spec => []ConnectedMeansLive
<1> DEFINE Inv == AttemptInv /\ ConnectedMeansLive
<1>1. Init => Inv
  BY DEF Init, AttemptInv, ConnectedMeansLive
<1>2. Inv /\ [Next]_vars => Inv'
  <2> SUFFICES ASSUME Inv, [Next]_vars  PROVE Inv'
    OBVIOUS
  <2>1. ASSUME NEW k, NEW meanwhile, meanwhile # "CONNECTED", NEW connected, NEW symbols,
               Attempt(k, meanwhile, connected, symbols)
        PROVE  Inv'
    <3>1. AttemptInv'
      BY <2>1 DEF Attempt, AttemptInv
    <3> QED  BY <2>1, <3>1, AttemptKeepsConnection
  <2>2. CASE Connect \/ Reconnect
    BY <2>1, <2>2 DEF Connect, Reconnect
  <2>3. CASE Retry
    BY <2>1, <2>3 DEF Retry, AttemptInv
  <2>4. CASE Disconnect \/ CheckHeartbeat
    <3>1. PICK symbols \in {subscribed_symbols, {}} :
              \/ Attempt(1, "CONNECTING", FALSE, symbols)
              \/ state = "CLOSED" /\ UNCHANGED <<state, attempt>>
      BY <2>4 DEF Disconnect, CheckHeartbeat
    <3>2. CASE Attempt(1, "CONNECTING", FALSE, symbols)
      BY <2>1, <3>2
    <3>3. CASE state = "CLOSED" /\ UNCHANGED <<state, attempt>>
      BY <3>3 DEF AttemptInv, ConnectedMeansLive
    <3> QED  BY <3>1, <3>2, <3>3
  <2>5. CASE Silence
    BY <2>5 DEF Silence, AttemptInv, ConnectedMeansLive
  <2>6. CASE Close
    BY <2>6 DEF Close, AttemptInv, ConnectedMeansLive
  <2>7. ASSUME NEW symbol \in Symbols, Subscribe(symbol) \/ Unsubscribe(symbol)  PROVE Inv'
    BY <2>7 DEF Subscribe, Unsubscribe, AttemptInv, ConnectedMeansLive
  <2>8. CASE (\E n \in 1 .. MaxSequence : Receive(n)) \/ HandleGap
    <3>1. /\ UNCHANGED <<subscriptions, attempt, is_connected, subscribed_symbols>>
          /\ state' = state \/ state' = "CLOSED"
      BY <2>8 DEF Receive, HandleGap, ApplyMissing, ApplyIncoming, Fail
    <3> QED  BY <3>1 DEF AttemptInv, ConnectedMeansLive
  <2>9. CASE UNCHANGED vars
    BY <2>9 DEF vars, connectionVars, AttemptInv, ConnectedMeansLive
  <2> QED  BY <2>2, <2>3, <2>4, <2>5, <2>6, <2>7, <2>8, <2>9 DEF Next
<1> QED  BY <1>1, <1>2, PTL DEF Spec

-----------------------------------------------------------------------------
\* A closed client stays closed, unless it was closed while a connection attempt slept
\* (the guards of connect, reconnect and of the disconnect callback).
THEOREM ClosedStaysClosed == Spec => ClosedIsTerminal
<1>1. ASSUME [Next]_vars, state = "CLOSED", attempt = 0  PROVE state' = "CLOSED"
  <2>1. CASE Connect \/ Reconnect \/ Retry \/ CheckHeartbeat
    BY <1>1, <2>1 DEF Connect, Reconnect, Retry, CheckHeartbeat
  <2>2. CASE Disconnect
    BY <1>1, <2>2 DEF Disconnect
  <2>3. CASE Silence \/ Close \/ (\E symbol \in Symbols : Subscribe(symbol) \/ Unsubscribe(symbol))
    BY <1>1, <2>3 DEF Silence, Close, Subscribe, Unsubscribe
  <2>4. CASE (\E n \in 1 .. MaxSequence : Receive(n)) \/ HandleGap
    BY <1>1, <2>4 DEF Receive, HandleGap, ApplyMissing, ApplyIncoming, Fail
  <2>5. CASE UNCHANGED vars
    BY <1>1, <2>5 DEF vars, connectionVars
  <2> QED  BY <1>1, <2>1, <2>2, <2>3, <2>4, <2>5 DEF Next
<1>2. [Next]_vars => [state = "CLOSED" /\ attempt = 0 => state' = "CLOSED"]_vars
  BY <1>1
<1> QED  BY <1>2, PTL DEF Spec, ClosedIsTerminal
=============================================================================
