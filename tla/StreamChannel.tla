----------------------------- MODULE StreamChannel ----------------------------
(***************************************************************************)
(* A server channel: Channel and StreamChannel of pymaid/net/channel.py.   *)
(* It polls listening sockets, accepts connections up to MAX_CONNECTIONS,  *)
(* pauses when full, resumes when a connection is lost, and on the way out *)
(* of its `async with` block shuts down, closes and waits for the last     *)
(* connection to go.                                                       *)
(*                                                                         *)
(* Actions are callbacks or task steps of the event loop.  The accept loop *)
(* of read_from_listener is modelled one iteration at a time, but nothing  *)
(* else of the channel runs until it ends (accepting # None); clients, in  *)
(* the kernel, are not held up.  A connection is a TransportLifecycle: the *)
(* channel only learns that it is lost, once.                              *)
(***************************************************************************)
EXTENDS Naturals, FiniteSets

CONSTANTS Conns,             \* connections that clients may make
          Listeners,         \* listening sockets that listen() may create
          None,
          MAX_CONNECTIONS,   \* settings.pymaid.MAX_CONNECTIONS
          Env                \* the optional events of the environment

\* "pause", "shutdown": the application calls pause(), shutdown() itself;
\* "late_pause": it also calls pause() after close(); "socket": bind, accept,
\* the transport's constructor or a connection's shutdown() fails.
EnvEvents == {"pause", "shutdown", "late_pause", "socket"}

ASSUME ChannelAssumption ==
    /\ None \notin Listeners
    /\ IsFiniteSet(Conns)
    /\ MAX_CONNECTIONS \in Nat
    /\ Env \subseteq EnvEvents

\* ChannelState, an IntEnum: the code compares its members.
CREATED == 0
STARTED == 10
PAUSED == 20
SHUTTING_DOWN == 50
CLOSING == 90
CLOSED == 100
ChannelState == {CREATED, STARTED, PAUSED, SHUTTING_DOWN, CLOSING, CLOSED}

VARIABLES
    state,
    resolving,      \* listeners whose listen() awaits getaddrinfo
    listeners,      \* self.listeners
    reading,        \* listeners with read_from_listener registered
    accepting,      \* the listener whose accept loop is running, or None
    backlog,        \* per listener: connections the kernel holds for accept
    transports,     \* self.transports
    seen,           \* connections clients have made so far
    closed_event,
    pc              \* the task that runs `async with channel: ...`

sockets == <<resolving, backlog, seen>>
vars == <<state, resolving, listeners, reading, accepting, backlog,
          transports, seen, closed_event, pc>>

\* Mutant: off by one.
is_full_late == Cardinality(transports) > MAX_CONNECTIONS

is_full == Cardinality(transports) >= MAX_CONNECTIONS
idle == accepting = None

Init ==
    /\ state = CREATED
    /\ resolving = {}
    /\ listeners = {}
    /\ reading = {}
    /\ accepting = None
    /\ backlog = [l \in Listeners |-> {}]
    /\ transports = {}
    /\ seen = {}
    /\ closed_event = FALSE
    /\ pc = "new"
-------------------------------------------------------------------------------
(* Clients *)

Connect(c, l) ==
    /\ c \notin seen
    /\ l \in listeners
    /\ seen' = seen \cup {c}
    /\ backlog' = [backlog EXCEPT ![l] = @ \cup {c}]
    /\ UNCHANGED <<state, resolving, listeners, reading, accepting, transports,
                   closed_event, pc>>
-------------------------------------------------------------------------------
(* Channel *)

\* listen() may be called, and may return, in any state of the channel.
listen(l) ==
    /\ idle
    /\ l \notin resolving \cup listeners
    /\ resolving' = resolving \cup {l}
    /\ UNCHANGED <<state, listeners, reading, accepting, backlog, transports,
                   seen, closed_event, pc>>

\* getaddrinfo has answered; binding the socket may still fail.
listen_done(l) ==
    /\ idle
    /\ l \in resolving
    /\ resolving' = resolving \ {l}
    /\ listeners' \in {listeners \cup {l}} \cup (IF "socket" \in Env THEN {listeners} ELSE {})
    /\ UNCHANGED <<state, reading, accepting, backlog, transports, seen,
                   closed_event, pc>>

do_start ==
    /\ state' = STARTED
    /\ reading' = reading \cup listeners

do_pause ==
    /\ state' = PAUSED
    /\ reading' = reading \ listeners

finnal_close ==
    /\ closed_event' = TRUE
    /\ state' = CLOSED

start ==
    /\ idle
    /\ state < CLOSING
    /\ do_start
    /\ UNCHANGED <<sockets, listeners, accepting, transports, closed_event, pc>>

\* pause() has no guard: it is accepted in every state.
pause ==
    /\ idle
    /\ "pause" \in Env
    /\ state >= CLOSING => "late_pause" \in Env
    /\ do_pause
    /\ UNCHANGED <<sockets, listeners, accepting, transports, closed_event, pc>>

\* The transports' shutdown() calls leave the channel's own state alone; the
\* first that raises skips the others and what the caller does next.
shutdown_raises == "socket" \in Env /\ transports # {}

do_shutdown ==
    IF state >= SHUTTING_DOWN
    THEN UNCHANGED <<state, reading>>
    ELSE /\ state' = SHUTTING_DOWN
         /\ reading' = IF state < PAUSED THEN reading \ listeners ELSE reading

shutdown ==
    /\ idle
    /\ "shutdown" \in Env
    /\ do_shutdown
    /\ UNCHANGED <<sockets, listeners, accepting, transports, closed_event, pc>>

\* Mutant: waits for a connection to be lost although there is none.
do_close_waits ==
    /\ reading' = IF state = STARTED THEN reading \ listeners ELSE reading
    /\ listeners' = {}
    /\ backlog' = [l \in Listeners |-> IF l \in listeners THEN {} ELSE backlog[l]]
    /\ state' = CLOSING
    /\ UNCHANGED closed_event

\* close() once pause() and shutdown() are behind it (in CREATED nothing is
\* registered): the listeners go, with the connections not handed over yet.
do_close ==
    /\ reading' = IF state = STARTED THEN reading \ listeners ELSE reading
    /\ listeners' = {}
    /\ backlog' = [l \in Listeners |-> IF l \in listeners THEN {} ELSE backlog[l]]
    /\ IF transports = {}
       THEN finnal_close
       ELSE state' = CLOSING /\ UNCHANGED closed_event

close ==
    /\ idle
    /\ state < CLOSING
    /\ \/ /\ do_close
          /\ UNCHANGED <<resolving, seen, accepting, transports, pc>>
       \/ /\ shutdown_raises /\ state \in {STARTED, PAUSED}
          /\ do_shutdown
          /\ UNCHANGED <<sockets, listeners, accepting, transports, closed_event, pc>>
-------------------------------------------------------------------------------
(* StreamChannel *)

\* The loop hands a readable listener to read_from_listener.
read_from_listener(l) ==
    /\ idle
    /\ l \in reading
    /\ backlog[l] # {}
    /\ accepting' = l
    /\ UNCHANGED <<sockets, state, listeners, reading, transports, closed_event, pc>>

\* One iteration of its `while 1`: full, a connection, or nothing to accept.
accept_full ==
    /\ ~idle
    /\ is_full
    /\ do_pause
    /\ accepting' = None
    /\ UNCHANGED <<sockets, listeners, transports, closed_event, pc>>

connection_made(c) ==
    /\ ~idle
    /\ ~is_full
    /\ c \in backlog[accepting]
    /\ transports' = transports \cup {c}
    /\ backlog' = [backlog EXCEPT ![accepting] = @ \ {c}]
    /\ UNCHANGED <<state, resolving, listeners, reading, accepting, seen, closed_event, pc>>

\* BlockingIOError
accept_blocks ==
    /\ ~idle
    /\ ~is_full
    /\ backlog[accepting] = {}
    /\ accepting' = None
    /\ UNCHANGED <<sockets, state, listeners, reading, transports, closed_event, pc>>

\* accept() or the transport's constructor raises, with the connection still
\* waiting (EMFILE) or gone (ConnectionAbortedError, ENOTCONN).
accept_fails(c) ==
    /\ "socket" \in Env
    /\ ~idle
    /\ ~is_full
    /\ c \in backlog[accepting]
    /\ backlog' \in {backlog, [backlog EXCEPT ![accepting] = @ \ {c}]}
    /\ accepting' = None
    /\ UNCHANGED <<state, resolving, listeners, reading, transports, seen, closed_event, pc>>

\* Mutant: starts again in any state.
resume_or_finish_always ==
    IF ~is_full'
    THEN do_start /\ UNCHANGED closed_event
    ELSE UNCHANGED <<state, reading, closed_event>>

\* Mutant: never starts again.
resume_or_finish_paused ==
    /\ UNCHANGED reading
    /\ IF transports' = {} /\ state >= CLOSING
       THEN finnal_close
       ELSE UNCHANGED <<state, closed_event>>

\* Mutant: the last connection does not finalise the channel.
resume_or_finish_open ==
    IF state = PAUSED /\ ~is_full'
    THEN do_start /\ UNCHANGED closed_event
    ELSE UNCHANGED <<state, reading, closed_event>>

\* What connection_lost does once the connection is forgotten: start a paused
\* channel, or finalise a closing one that has no connection left.
resume_or_finish ==
    IF state = PAUSED /\ ~is_full'
    THEN do_start /\ UNCHANGED closed_event
    ELSE /\ UNCHANGED reading
         /\ IF transports' = {} /\ state >= CLOSING
            THEN finnal_close
            ELSE UNCHANGED <<state, closed_event>>

\* The transport's on_close callback.
connection_lost(c) ==
    /\ idle
    /\ c \in transports
    /\ transports' = transports \ {c}
    /\ resume_or_finish
    /\ UNCHANGED <<sockets, listeners, accepting, pc>>
-------------------------------------------------------------------------------
(* async with channel: await channel.serve_forever() *)

aenter ==
    /\ idle
    /\ pc = "new"
    /\ pc' = "body"
    /\ UNCHANGED <<sockets, state, listeners, reading, accepting, transports, closed_event>>

serve_forever ==
    /\ idle
    /\ pc = "body"
    /\ listeners # {}
    /\ pc' = "serving"
    /\ UNCHANGED <<sockets, state, listeners, reading, accepting, transports, closed_event>>

\* The loop stops: CancelledError is swallowed and serve_forever returns.
serve_cancelled ==
    /\ idle
    /\ pc = "serving"
    /\ pc' = "body"
    /\ UNCHANGED <<sockets, state, listeners, reading, accepting, transports, closed_event>>

\* __aexit__ up to wait_for_closed(): shutdown(), then close().  An exception
\* of the first keeps the second from being called.
aexit ==
    /\ idle
    /\ pc = "body"
    /\ \/ /\ pc' = "waiting"
          /\ IF state >= CLOSING
             THEN UNCHANGED <<sockets, state, listeners, reading, closed_event>>
             ELSE do_close /\ UNCHANGED <<resolving, seen>>
       \/ /\ shutdown_raises
          /\ do_shutdown
          /\ pc' = "failed"
          /\ UNCHANGED <<sockets, listeners, closed_event>>
    /\ UNCHANGED <<accepting, transports>>

aexit_done ==
    /\ idle
    /\ pc = "waiting"
    /\ closed_event
    /\ pc' = "done"
    /\ UNCHANGED <<sockets, state, listeners, reading, accepting, transports, closed_event>>
-------------------------------------------------------------------------------
Accept == accept_full \/ accept_blocks \/ \E c \in Conns : connection_made(c)

Next ==
    \/ \E c \in Conns, l \in Listeners : Connect(c, l)
    \/ \E l \in Listeners : listen(l)
    \/ \E l \in Listeners : listen_done(l)
    \/ \E l \in Listeners : read_from_listener(l)
    \/ start
    \/ pause
    \/ shutdown
    \/ close
    \/ Accept
    \/ \E c \in Conns : accept_fails(c)
    \/ \E c \in Conns : connection_lost(c)
    \/ aenter
    \/ serve_forever
    \/ serve_cancelled
    \/ aexit
    \/ aexit_done

Spec == Init /\ [][Next]_vars

\* The loop finishes the callback it runs and, in every iteration, runs all
\* that are ready: polled listeners, the resumed task, and the end of a
\* connection, which is assumed to come.  Fairness is strong because an accept
\* loop disables the others (idle) again and again, but never for good.
Fairness ==
    /\ WF_vars(Accept)
    /\ \A l \in Listeners : SF_vars(read_from_listener(l))
    /\ \A c \in Conns : SF_vars(connection_lost(c))
    /\ SF_vars(aexit_done)

FairSpec == Spec /\ Fairness
-------------------------------------------------------------------------------
(* Properties *)

\* The shape of the state.
TypeOK ==
    /\ state \in ChannelState
    /\ resolving \subseteq Listeners
    /\ listeners \subseteq Listeners
    /\ reading \subseteq Listeners
    /\ accepting \in Listeners \cup {None}
    /\ backlog \in [Listeners -> SUBSET Conns]
    /\ transports \subseteq Conns
    /\ seen \subseteq Conns
    /\ closed_event \in BOOLEAN
    /\ pc \in {"new", "body", "serving", "waiting", "done", "failed"}

\* However many clients wait on however many listeners, and whatever start()
\* and pause() calls intervene, a channel never holds more than MAX_CONNECTIONS.
CapacityRespected == Cardinality(transports) <= MAX_CONNECTIONS

\* A listener is polled only while the channel is started and still owns it,
\* so nothing is accepted during pause, shutdown or close.
PolledOnlyWhenStarted ==
    reading # {} => state = STARTED /\ reading \subseteq listeners

\* A closing channel still has a connection whose loss will finalise it, and a
\* finalised one has none: close() and connection_lost() between them set
\* closed_event exactly when the last connection has gone.
ClosedWhenDrained ==
    /\ state = CLOSING => transports # {} /\ ~closed_event
    /\ state = CLOSED => transports = {} /\ closed_event

\* A channel that nobody paused is paused only because it is full: the loss of
\* a connection restarts it at once.
PausedOnlyWhenFull == state = PAUSED => is_full

\* The connections of a closing channel only become fewer.
NoConnectionsWhileClosing ==
    [][state >= CLOSING => transports' \subseteq transports /\ state' >= state]_vars

\* Leaving the `async with` block ends: __aexit__ gets past wait_for_closed().
ExitCompletes == pc = "waiting" ~> pc = "done"

\* A client waiting on a polled listener, or on any listener of a channel that
\* is paused because it is full, is accepted in the end unless the channel is
\* shut down first (a listener added after start() is not polled until the
\* next start).
ClientsServed ==
    \A c \in Conns, l \in Listeners :
        (c \in backlog[l] /\ (l \in reading \/ state = PAUSED))
            ~> (c \notin backlog[l] \/ state >= SHUTTING_DOWN)
===============================================================================
