-------------------------- MODULE StreamChannelProofs --------------------------
(***************************************************************************)
(* Proofs about StreamChannel, for any sets of connections and listeners   *)
(* and any limit.                                                          *)
(***************************************************************************)
EXTENDS StreamChannel, FiniteSetTheorems, TLAPS

\* An accept loop runs only in a started channel: whatever would change the
\* state has to wait for it to end.
AcceptingStarted == accepting # None => state = STARTED

\* closed_event is only ever set together with the state CLOSED.
ClosedEventSet == closed_event => state = CLOSED

\* The inductive invariant behind closing, when pause() stops at close().
ClosingInv ==
    /\ TypeOK
    /\ PolledOnlyWhenStarted
    /\ AcceptingStarted
    /\ ClosedEventSet
    /\ ClosedWhenDrained

USE DEF CREATED, STARTED, PAUSED, SHUTTING_DOWN, CLOSING, CLOSED, ChannelState

\* Every variable keeps its shape.
LEMMA TypeInit == Init => TypeOK
  BY DEF Init, TypeOK

\* close() past its guards leaves every variable in shape.
LEMMA DoCloseType ==
  ASSUME TypeOK, do_close
  PROVE  /\ state' \in {CLOSING, CLOSED}
         /\ closed_event' \in BOOLEAN
         /\ reading' \subseteq Listeners
         /\ listeners' = {}
         /\ backlog' \in [Listeners -> SUBSET Conns]
<1>1. backlog' \in [Listeners -> SUBSET Conns]
  BY DEF do_close, TypeOK
<1>2. reading' \subseteq Listeners /\ listeners' = {}
  BY DEF do_close, TypeOK
<1>3. state' \in {CLOSING, CLOSED} /\ closed_event' \in BOOLEAN
  BY DEF do_close, TypeOK, finnal_close
<1>4. QED
  BY <1>1, <1>2, <1>3

\* Every step keeps the shape of the state.
LEMMA TypeStep == TypeOK /\ [Next]_vars => TypeOK'
<1> SUFFICES ASSUME TypeOK, [Next]_vars PROVE TypeOK'
  OBVIOUS
<1> USE DEF TypeOK, sockets
<1>1. ASSUME NEW c \in Conns, NEW l \in Listeners, Connect(c, l) PROVE TypeOK'
  BY <1>1 DEF Connect
<1>2. ASSUME NEW l \in Listeners, listen(l) PROVE TypeOK'
  BY <1>2 DEF listen
<1>3. ASSUME NEW l \in Listeners, listen_done(l) PROVE TypeOK'
  BY <1>3 DEF listen_done
<1>4. ASSUME NEW l \in Listeners, read_from_listener(l) PROVE TypeOK'
  BY <1>4 DEF read_from_listener
<1>5. CASE start
  BY <1>5 DEF start, do_start
<1>6. CASE pause
  BY <1>6 DEF pause, do_pause
<1>7. CASE shutdown
  BY <1>7 DEF shutdown, do_shutdown
<1>8. CASE close
  <2>1. CASE do_close /\ UNCHANGED <<resolving, seen, accepting, transports, pc>>
    BY <2>1, DoCloseType
  <2>2. CASE do_shutdown /\ UNCHANGED <<sockets, listeners, accepting, transports, closed_event, pc>>
    BY <2>2 DEF do_shutdown
  <2>3. QED
    BY <1>8, <2>1, <2>2 DEF close
<1>9. CASE accept_full
  BY <1>9 DEF accept_full, do_pause
<1>10. CASE accept_blocks
  BY <1>10 DEF accept_blocks
<1>11. ASSUME NEW c \in Conns, connection_made(c) PROVE TypeOK'
  <2>1. accepting \in Listeners
    BY <1>11 DEF connection_made, idle
  <2>2. backlog' \in [Listeners -> SUBSET Conns]
    BY <1>11, <2>1 DEF connection_made
  <2>3. transports' \subseteq Conns
    BY <1>11 DEF connection_made
  <2>4. UNCHANGED <<state, resolving, listeners, reading, accepting, seen, closed_event, pc>>
    BY <1>11 DEF connection_made
  <2>5. QED
    BY <2>2, <2>3, <2>4
<1>12. ASSUME NEW c \in Conns, accept_fails(c) PROVE TypeOK'
  BY <1>12 DEF accept_fails
<1>13. ASSUME NEW c \in Conns, connection_lost(c) PROVE TypeOK'
  <2>1. transports' \subseteq Conns
    BY <1>13 DEF connection_lost, resume_or_finish
  <2>2. UNCHANGED <<sockets, listeners, accepting, pc>>
    BY <1>13 DEF connection_lost, resume_or_finish
  <2>3. CASE do_start /\ UNCHANGED closed_event
    BY <2>1, <2>2, <2>3 DEF do_start
  <2>4. CASE finnal_close /\ UNCHANGED reading
    BY <2>1, <2>2, <2>4 DEF finnal_close
  <2>5. CASE UNCHANGED <<reading, state, closed_event>>
    BY <2>1, <2>2, <2>5
  <2>6. QED
    BY <1>13, <2>3, <2>4, <2>5 DEF connection_lost, resume_or_finish
<1>14. CASE aenter \/ serve_forever \/ serve_cancelled \/ aexit_done
  BY <1>14 DEF aenter, serve_forever, serve_cancelled, aexit_done
<1>15. CASE aexit
  <2>1. CASE /\ UNCHANGED <<sockets, state, listeners, reading, closed_event, accepting, transports>>
             /\ pc' = "waiting"
    BY <2>1
  <2>2. CASE do_close /\ UNCHANGED <<resolving, seen, accepting, transports>> /\ pc' = "waiting"
    BY <2>2, DoCloseType
  <2>3. CASE /\ do_shutdown /\ pc' = "failed"
             /\ UNCHANGED <<sockets, listeners, closed_event, accepting, transports>>
    BY <2>3 DEF do_shutdown
  <2>4. QED
    BY <1>15, <2>1, <2>2, <2>3 DEF aexit
<1>16. CASE UNCHANGED vars
  BY <1>16 DEF vars
<1>17. QED
  BY <1>1, <1>2, <1>3, <1>4, <1>5, <1>6, <1>7, <1>8, <1>9, <1>10, <1>11,
     <1>12, <1>13, <1>14, <1>15, <1>16 DEF Next, Accept

\* Every reachable state has the declared shape.
THEOREM TypeCorrect == Spec => []TypeOK
  BY TypeInit, TypeStep, PTL DEF Spec
-------------------------------------------------------------------------------
\* Only two steps touch the set of connections: one that has just seen that
\* the channel is not full, and one that removes.
LEMMA TransportsStep ==
  ASSUME TypeOK, [Next]_vars
  PROVE  \/ transports' = transports
         \/ \E c \in Conns : ~is_full /\ transports' = transports \cup {c}
         \/ \E c \in Conns : transports' = transports \ {c}
  BY DEF Next, vars, sockets, Accept, Connect, listen, listen_done, start,
         pause, shutdown, close, do_close, read_from_listener, accept_full,
         accept_blocks, connection_made, accept_fails, connection_lost, resume_or_finish,
         aenter, serve_forever, serve_cancelled, aexit, aexit_done

\* The loop that accepts looks at the number of connections before each one.
LEMMA CapacityStep ==
  TypeOK /\ CapacityRespected /\ [Next]_vars => CapacityRespected'
<1> SUFFICES ASSUME TypeOK, CapacityRespected, [Next]_vars
             PROVE  CapacityRespected'
  OBVIOUS
<1>1. IsFiniteSet(transports)
  BY ChannelAssumption, FS_Subset DEF TypeOK
<1>2. Cardinality(transports) \in Nat
  BY <1>1, FS_CardinalityType
<1>3. CASE transports' = transports
  BY <1>3 DEF CapacityRespected
<1>4. ASSUME NEW c \in Conns, ~is_full, transports' = transports \cup {c}
      PROVE  CapacityRespected'
  <2>1. Cardinality(transports) < MAX_CONNECTIONS
    BY <1>2, <1>4, ChannelAssumption DEF is_full
  <2>0. Cardinality(transports \cup {c}) =
          IF c \in transports THEN Cardinality(transports) ELSE Cardinality(transports) + 1
    BY <1>1, FS_AddElement
  <2>2. Cardinality(transports') <= Cardinality(transports) + 1
    BY <2>0, <1>2, <1>4
  <2>3. Cardinality(transports') \in Nat
    BY <1>1, <1>4, FS_AddElement, FS_CardinalityType
  <2>4. MAX_CONNECTIONS \in Nat
    BY ChannelAssumption
  <2>5. Cardinality(transports') <= MAX_CONNECTIONS
    BY <2>1, <2>2, <2>3, <2>4, <1>2
  <2>6. QED
    BY <2>5 DEF CapacityRespected
<1>5. ASSUME NEW c \in Conns, transports' = transports \ {c}
      PROVE  CapacityRespected'
  <2>1. Cardinality(transports') <= Cardinality(transports)
    BY <1>1, <1>5, FS_Subset
  <2>2. Cardinality(transports') \in Nat
    BY <1>1, <1>5, FS_Subset, FS_CardinalityType
  <2>3. QED
    BY <2>1, <2>2, <1>2, ChannelAssumption DEF CapacityRespected
<1>6. QED
  BY <1>3, <1>4, <1>5, TransportsStep

\* A channel never holds more than MAX_CONNECTIONS connections, whatever the
\* application and the environment do.
THEOREM Capacity == Spec => []CapacityRespected
<1>1. Init => CapacityRespected
  BY FS_EmptySet, ChannelAssumption DEF Init, CapacityRespected
<1>2. QED
  BY <1>1, CapacityStep, TypeCorrect, PTL DEF Spec
-------------------------------------------------------------------------------
\* What a step does to the polled listeners and to the accept loop.
LEMMA PolledStep ==
  ASSUME TypeOK, PolledOnlyWhenStarted, AcceptingStarted, [Next]_vars
  PROVE  PolledOnlyWhenStarted' /\ AcceptingStarted'
<1> USE DEF PolledOnlyWhenStarted, AcceptingStarted, idle, sockets
<1>1. ASSUME NEW c \in Conns, NEW l \in Listeners, Connect(c, l)
      PROVE  PolledOnlyWhenStarted' /\ AcceptingStarted'
  BY <1>1 DEF Connect
<1>2. ASSUME NEW l \in Listeners,
             listen(l) \/ listen_done(l) \/ read_from_listener(l)
      PROVE  PolledOnlyWhenStarted' /\ AcceptingStarted'
  BY <1>2 DEF listen, listen_done, read_from_listener
<1>3. CASE start \/ pause
  BY <1>3 DEF start, pause, do_start, do_pause
<1>4. CASE shutdown
  BY <1>4 DEF shutdown, do_shutdown
<1>5. CASE close
  BY <1>5 DEF close, do_close, do_shutdown, finnal_close
<1>6. CASE accept_full \/ accept_blocks
  BY <1>6 DEF accept_full, accept_blocks, do_pause
<1>7. ASSUME NEW c \in Conns, connection_made(c) \/ accept_fails(c)
      PROVE  PolledOnlyWhenStarted' /\ AcceptingStarted'
  BY <1>7 DEF connection_made, accept_fails
<1>8. ASSUME NEW c \in Conns, connection_lost(c)
      PROVE  PolledOnlyWhenStarted' /\ AcceptingStarted'
  <2>1. UNCHANGED <<listeners, accepting>> /\ accepting = None
    BY <1>8 DEF connection_lost, resume_or_finish
  <2>2. CASE do_start
    BY <2>1, <2>2 DEF do_start
  <2>3. CASE UNCHANGED reading /\ finnal_close /\ state >= CLOSING
    BY <2>1, <2>3 DEF finnal_close
  <2>4. CASE UNCHANGED <<reading, state>>
    BY <2>1, <2>4
  <2>5. QED
    BY <1>8, <2>2, <2>3, <2>4 DEF connection_lost, resume_or_finish
<1>9. CASE aenter \/ serve_forever \/ serve_cancelled \/ aexit_done
  BY <1>9 DEF aenter, serve_forever, serve_cancelled, aexit_done
<1>10. CASE aexit
  BY <1>10 DEF aexit, do_close, do_shutdown, finnal_close
<1>11. CASE UNCHANGED vars
  BY <1>11 DEF vars
<1>12. QED
  BY <1>1, <1>2, <1>3, <1>4, <1>5, <1>6, <1>7, <1>8, <1>9, <1>10, <1>11
  DEF Next, Accept

\* Nothing is accepted from a channel that is paused, shut down or closing.
THEOREM PolledWhenStarted == Spec => []PolledOnlyWhenStarted
<1>1. Init => PolledOnlyWhenStarted /\ AcceptingStarted
  BY DEF Init, PolledOnlyWhenStarted, AcceptingStarted
<1>2. TypeOK /\ PolledOnlyWhenStarted /\ AcceptingStarted /\ [Next]_vars
      => PolledOnlyWhenStarted' /\ AcceptingStarted'
  BY PolledStep
<1>3. QED
  BY <1>1, <1>2, TypeCorrect, PTL DEF Spec
-------------------------------------------------------------------------------
\* close() and connection_lost() between them set closed_event exactly when
\* the last connection has gone.
LEMMA ClosedStep ==
  ASSUME "late_pause" \notin Env, ClosingInv, [Next]_vars
  PROVE  ClosedEventSet' /\ ClosedWhenDrained'
<1> USE DEF ClosingInv, ClosedEventSet, ClosedWhenDrained, AcceptingStarted, idle, sockets
<1> DEFINE Goal == ClosedEventSet' /\ ClosedWhenDrained'
<1>1. CASE UNCHANGED <<state, transports, closed_event>>
  BY <1>1
<1>2. CASE start \/ pause
  BY <1>2 DEF start, pause, do_start, do_pause, TypeOK
<1>3. CASE shutdown
  BY <1>3 DEF shutdown, do_shutdown, TypeOK
<1>4. ASSUME do_close, state < CLOSING, transports' = transports
      PROVE  Goal
  BY <1>4 DEF do_close, finnal_close, TypeOK
<1>5. ASSUME do_shutdown, UNCHANGED <<transports, closed_event>>
      PROVE  Goal
  BY <1>5 DEF do_shutdown, TypeOK
<1>6. CASE close
  BY <1>4, <1>5, <1>6 DEF close
<1>7. CASE aexit
  <2>1. CASE state >= CLOSING /\ pc' = "waiting"
    BY <1>1, <1>7, <2>1 DEF aexit
  <2>2. CASE ~(state >= CLOSING) /\ pc' = "waiting"
    BY <1>4, <1>7, <2>2 DEF aexit, TypeOK
  <2>3. CASE pc' = "failed"
    BY <1>5, <1>7, <2>3 DEF aexit
  <2>4. QED
    BY <1>7, <2>1, <2>2, <2>3 DEF aexit
<1>8. CASE accept_full
  BY <1>8 DEF accept_full, do_pause
<1>9. ASSUME NEW c \in Conns, connection_made(c)
      PROVE  Goal
  BY <1>9 DEF connection_made
<1>10. ASSUME NEW c \in Conns, connection_lost(c)
       PROVE  Goal
  <2>1. c \in transports /\ transports' = transports \ {c}
    BY <1>10 DEF connection_lost, resume_or_finish
  <2>2. ~closed_event
    BY <2>1
  <2>3. CASE do_start /\ UNCHANGED closed_event
    BY <2>2, <2>3 DEF do_start
  <2>4. CASE transports' = {} /\ state >= CLOSING /\ finnal_close
    BY <2>4 DEF finnal_close
  <2>5. CASE ~(transports' = {} /\ state >= CLOSING) /\ UNCHANGED <<state, closed_event>>
    BY <2>1, <2>2, <2>5 DEF TypeOK
  <2>6. QED
    BY <1>10, <2>3, <2>4, <2>5 DEF connection_lost, resume_or_finish
<1>11. QED
  BY <1>1, <1>2, <1>3, <1>6, <1>7, <1>8, <1>9, <1>10
  DEF Next, vars, Accept, Connect, listen, listen_done, read_from_listener,
      accept_blocks, accept_fails, aenter, serve_forever, serve_cancelled, aexit_done

\* Unless pause() is called after close(), a closing channel is waiting for a
\* connection, and a closed one has told its owner.
LEMMA ClosingInvariant == "late_pause" \notin Env => (Spec => []ClosingInv)
<1> SUFFICES ASSUME "late_pause" \notin Env PROVE Spec => []ClosingInv
  OBVIOUS
<1>1. Init => ClosingInv
  BY TypeInit DEF Init, ClosingInv, PolledOnlyWhenStarted, AcceptingStarted,
                  ClosedEventSet, ClosedWhenDrained
<1>2. ClosingInv /\ [Next]_vars => ClosingInv'
  BY TypeStep, PolledStep, ClosedStep DEF ClosingInv
<1>3. QED
  BY <1>1, <1>2, PTL DEF Spec

\* closed_event is set exactly when a closing channel has lost its last
\* connection, provided pause() is not called after close().
THEOREM ClosedDrained == "late_pause" \notin Env => (Spec => []ClosedWhenDrained)
<1> SUFFICES ASSUME "late_pause" \notin Env PROVE Spec => []ClosedWhenDrained
  OBVIOUS
<1>1. ClosingInv => ClosedWhenDrained
  BY DEF ClosingInv
<1>2. QED
  BY <1>1, ClosingInvariant, PTL

\* Under the same condition a closing channel takes no connection and never
\* goes back to an earlier state.
THEOREM ClosingIsFinal == "late_pause" \notin Env => (Spec => NoConnectionsWhileClosing)
<1> SUFFICES ASSUME "late_pause" \notin Env PROVE Spec => NoConnectionsWhileClosing
  OBVIOUS
<1> DEFINE Final == state >= CLOSING => transports' \subseteq transports /\ state' >= state
<1>1. ASSUME ClosingInv, [Next]_vars PROVE Final
  <2> SUFFICES ASSUME state >= CLOSING PROVE Final
    OBVIOUS
  <2> USE <1>1 DEF ClosingInv, AcceptingStarted, idle, sockets
  <2>1. state \in {CLOSING, CLOSED} /\ accepting = None
    BY DEF TypeOK
  <2>2. CASE UNCHANGED <<state, transports>>
    BY <2>1, <2>2
  <2>3. CASE shutdown \/ aexit
    BY <2>1, <2>3 DEF shutdown, aexit, do_shutdown
  <2>4. ASSUME NEW c \in Conns, connection_lost(c) PROVE Final
    BY <2>1, <2>4 DEF connection_lost, resume_or_finish, finnal_close
  <2>5. ~start /\ ~pause /\ ~close /\ ~Accept
    BY <2>1 DEF start, pause, close, Accept, accept_full, accept_blocks, connection_made
  <2>6. QED
    BY <2>1, <2>2, <2>3, <2>4, <2>5
    DEF Next, vars, Connect, listen, listen_done, read_from_listener,
        accept_fails, aenter, serve_forever, serve_cancelled, aexit_done
<1>2. ClosingInv /\ [Next]_vars => [Final]_vars
  BY <1>1
<1>3. QED
  BY <1>2, ClosingInvariant, PTL DEF Spec, NoConnectionsWhileClosing
-------------------------------------------------------------------------------
\* The inductive invariant behind resuming.
PausedInv == TypeOK /\ PolledOnlyWhenStarted /\ AcceptingStarted /\ PausedOnlyWhenFull

\* Unless the application pauses it, a channel pauses in accept_full only, and
\* then it has as many connections as it may have.
LEMMA PausedStep ==
  ASSUME "pause" \notin Env, PausedInv, [Next]_vars
  PROVE  PausedOnlyWhenFull'
<1> USE DEF PausedInv, PausedOnlyWhenFull, AcceptingStarted, is_full, idle, sockets
<1>1. CASE state' # PAUSED
  BY <1>1
<1>2. CASE UNCHANGED <<state, transports>>
  BY <1>2
<1>3. CASE accept_full
  BY <1>3 DEF accept_full
<1>4. ASSUME NEW c \in Conns, connection_lost(c) PROVE PausedOnlyWhenFull'
  BY <1>4 DEF connection_lost, resume_or_finish, do_start, finnal_close
<1>5. ASSUME NEW c \in Conns, connection_made(c) PROVE PausedOnlyWhenFull'
  BY <1>5 DEF connection_made
<1>6. start => state' # PAUSED
  BY DEF start, do_start
<1>7. do_shutdown => state' # PAUSED
  BY DEF do_shutdown
<1>8. do_close => state' # PAUSED
  BY DEF do_close, finnal_close
<1>9. CASE shutdown \/ close
  BY <1>1, <1>7, <1>8, <1>9 DEF shutdown, close
<1>10. CASE aexit
  BY <1>1, <1>2, <1>7, <1>8, <1>10 DEF aexit
<1>11. ~pause
  BY DEF pause
<1>12. QED
  BY <1>1, <1>2, <1>3, <1>4, <1>5, <1>6, <1>9, <1>10, <1>11
  DEF Next, vars, Accept, Connect, listen, listen_done, read_from_listener,
      accept_blocks, accept_fails, aenter, serve_forever, serve_cancelled, aexit_done

\* When the application never calls pause(), a paused channel is a full one:
\* no loss of a connection leaves it paused with room to spare.
THEOREM PausedMeansFull == "pause" \notin Env => (Spec => []PausedOnlyWhenFull)
<1> SUFFICES ASSUME "pause" \notin Env PROVE Spec => []PausedOnlyWhenFull
  OBVIOUS
<1>1. Init => PausedInv
  BY TypeInit DEF Init, PausedInv, PolledOnlyWhenStarted, AcceptingStarted, PausedOnlyWhenFull
<1>2. PausedInv /\ [Next]_vars => PausedInv'
  BY TypeStep, PolledStep, PausedStep DEF PausedInv
<1>3. PausedInv => PausedOnlyWhenFull
  BY DEF PausedInv
<1>4. QED
  BY <1>1, <1>2, <1>3, PTL DEF Spec
===============================================================================
