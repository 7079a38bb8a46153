------------------------------- MODULE Stream --------------------------------
(***************************************************************************)
(* One pymaid stream transport: SocketTransport (pymaid/net/transport.py)  *)
(* and Stream (pymaid/net/stream.py) on an asyncio event loop.             *)
(*                                                                         *)
(* Every action is one callback or one task step of the loop, so it is     *)
(* atomic; tasks suspend only in wait_for_write_all, and resume in a later *)
(* step than the one that resolved (or cancelled) the future they await.   *)
(* The kernel socket and the peer are the environment.                     *)
(***************************************************************************)
EXTENDS Naturals, Sequences

CONSTANTS Tasks,              \* the tasks that may call write()
          None,               \* Python's None
          KEEP_OPEN_ON_EOF,   \* the class attribute of that name
          Env,                \* the optional events of the environment
          MaxBytes            \* bound: bytes ever written

\* "close", "shutdown": the owner calls close(), shutdown(); "socket": recv or
\* send fails; "callback": data_received raises; "cancel": a waiting task is
\* cancelled.
EnvEvents == {"close", "shutdown", "socket", "callback", "cancel"}

ASSUME StreamAssumption ==
    /\ None \notin Tasks
    /\ KEEP_OPEN_ON_EOF \in BOOLEAN
    /\ Env \subseteq EnvEvents
    /\ MaxBytes \in Nat

VARIABLES
    state,                \* "OPENED", "CLOSING" or "CLOSED"
    closed_event,         \* set; _sock and _loop are None from then on
    reader, writer,       \* _reader, _writer registered with the loop
    shut_wr,              \* SHUT_WR was done on the socket
    write_buffer,         \* bytes not yet given to the kernel
    write_empty_waiter,   \* whose future _write_empty_waiter is, or None
    fut,                  \* per task: the future it awaits
    soon,                 \* _finnal_close calls scheduled with call_soon
    lost,                 \* times the on_close callbacks have run
    written,              \* history: bytes accepted by _write_sync, in order
    wire,                 \* history: bytes the kernel took, in order
    dropped               \* history: bytes _force_close discarded

closing == <<state, closed_event, lost>>
bytes == <<write_buffer, written, wire, dropped>>
waiting == <<write_empty_waiter, fut>>
vars == <<state, closed_event, reader, writer, shut_wr, write_buffer,
          write_empty_waiter, fut, soon, lost, written, wire, dropped>>

\* Bytes are numbered in the order they are written.
Data(n) == [i \in 1..n |-> Len(written) + i]

Init ==
    /\ state = "OPENED"
    /\ closed_event = FALSE
    /\ reader = TRUE
    /\ writer = FALSE
    /\ shut_wr = FALSE
    /\ write_buffer = <<>>
    /\ write_empty_waiter = None
    /\ fut = [t \in Tasks |-> "none"]
    /\ soon = 0
    /\ lost = 0
    /\ written = <<>>
    /\ wire = <<>>
    /\ dropped = <<>>
-------------------------------------------------------------------------------
(* Closing *)

\* Mutant: the callbacks are kept, so that a second call runs them again.
finnal_close_again ==
    /\ state' = "CLOSED"
    /\ closed_event' = TRUE
    /\ lost' = lost + 1

\* A second call fails at `self.on_close`, which the first one deleted.
finnal_close ==
    /\ state' = "CLOSED"
    /\ closed_event' = TRUE
    /\ lost' = IF closed_event THEN lost ELSE lost + 1

\* Only reached with a live socket, so never in state CLOSED.
force_close ==
    /\ write_buffer' = <<>>
    /\ dropped' = write_buffer
    /\ writer' = (writer /\ write_buffer = <<>>)
    /\ reader' = FALSE
    /\ finnal_close
    /\ UNCHANGED <<written, wire>>

\* Mutant: finalises although bytes are buffered.
do_close_at_once ==
    /\ state # "CLOSING" /\ ~closed_event
    /\ reader' = FALSE
    /\ writer' = FALSE
    /\ finnal_close
    /\ UNCHANGED <<shut_wr, soon, bytes, waiting>>

\* close() of a transport that is already closed sets the state before it
\* trips over `_loop` being None.
do_close ==
    /\ state # "CLOSING"
    /\ \/ /\ closed_event
          /\ state' = "CLOSING"
          /\ UNCHANGED <<closed_event, lost, reader, writer>>
       \/ /\ ~closed_event
          /\ reader' = FALSE
          /\ IF write_buffer = <<>>
             THEN writer' = FALSE /\ finnal_close
             ELSE state' = "CLOSING" /\ UNCHANGED <<closed_event, lost, writer>>
    /\ UNCHANGED <<shut_wr, soon, bytes, waiting>>

close == "close" \in Env /\ do_close

\* The socket's own shutdown() can fail (ENOTCONN) once the writer is gone.
shutdown ==
    /\ "shutdown" \in Env
    /\ ~closed_event
    /\ writer' = FALSE
    /\ shut_wr' \in {TRUE} \cup (IF "socket" \in Env THEN {shut_wr} ELSE {})
    /\ UNCHANGED <<closing, reader, soon, bytes, waiting>>

\* The `_loop.call_soon(self._finnal_close, None)` of _write_sync.
finnal_close_soon ==
    /\ soon > 0
    /\ soon' = soon - 1
    /\ finnal_close
    /\ UNCHANGED <<reader, writer, shut_wr, bytes, waiting>>
-------------------------------------------------------------------------------
(* Writing *)

\* The kernel takes n of the bytes (0: it would block).
SendTakes(data, n) ==
    /\ ~shut_wr
    /\ n \in 0..Len(data)
    /\ wire' = wire \o SubSeq(data, 1, n)

SendFails == shut_wr \/ "socket" \in Env

\* The part of _write_sync that sends at once because nothing is buffered.
TrySend(data) ==
    /\ ~closed_event
    /\ write_buffer = <<>>
    /\ \/ \E n \in 0..Len(data) :
            /\ SendTakes(data, n)
            /\ write_buffer' = SubSeq(data, n + 1, Len(data))
            /\ writer' = (writer \/ n < Len(data))
            /\ soon' = IF n = Len(data) /\ state = "CLOSING" THEN soon + 1 ELSE soon
            /\ written' = written \o data
            /\ UNCHANGED <<closing, reader, dropped>>
       \/ /\ SendFails
          /\ force_close
          /\ UNCHANGED soon

\* Mutant: new data goes in front of what is buffered.
Enqueue_in_front(data) ==
    /\ write_buffer # <<>>
    /\ write_buffer' = data \o write_buffer
    /\ written' = written \o data
    /\ UNCHANGED <<closing, reader, writer, soon, wire, dropped>>

\* Behind buffered data new data only queues up, closed or not.
Enqueue(data) ==
    /\ write_buffer # <<>>
    /\ write_buffer' = write_buffer \o data
    /\ written' = written \o data
    /\ UNCHANGED <<closing, reader, writer, soon, wire, dropped>>

\* On a closed transport with nothing buffered it raises and changes nothing.
write_sync(data) ==
    /\ TrySend(data) \/ Enqueue(data)
    /\ UNCHANGED shut_wr

\* wait_for_write_all of task t on a buffer with the given contents; it
\* raises, changing nothing, when another future is already there.
WaitAll(t, buffer) ==
    IF buffer # <<>> /\ write_empty_waiter = None /\ ~closed_event
    THEN /\ write_empty_waiter' = t
         /\ fut' = [fut EXCEPT ![t] = "pending"]
    ELSE UNCHANGED waiting

\* write_sync() called by synchronous code (data_received, middleware, ...).
WriteSync(n) ==
    /\ write_sync(Data(n))
    /\ UNCHANGED waiting

\* `await write(data)` up to its suspension, if it suspends.
Write(t, n) ==
    /\ fut[t] = "none"
    /\ write_sync(Data(n))
    /\ WaitAll(t, write_buffer')

\* `await wait_for_write_all()` called on its own.
WaitForWriteAll(t) ==
    /\ fut[t] = "none"
    /\ WaitAll(t, write_buffer)
    /\ UNCHANGED <<closing, reader, writer, shut_wr, soon, bytes>>

\* The task runs again: the `finally` of wait_for_write_all.
Resume(t) ==
    /\ fut[t] \in {"done", "cancelled"}
    /\ fut' = [fut EXCEPT ![t] = "none"]
    /\ write_empty_waiter' = None
    /\ UNCHANGED <<closing, reader, writer, shut_wr, soon, bytes>>

\* The task, or by the timeout its future, is cancelled while it waits.
CancelWait(t) ==
    /\ "cancel" \in Env
    /\ fut[t] = "pending"
    /\ fut' = [fut EXCEPT ![t] = "cancelled"]
    /\ UNCHANGED <<closing, reader, writer, shut_wr, soon, bytes, write_empty_waiter>>

\* Mutant: forgets the future without resolving it.
WakeWaiter_forgets ==
    /\ write_empty_waiter' = None
    /\ UNCHANGED fut

\* Mutant: resolves nothing.
WakeWaiter_leaves == UNCHANGED waiting

\* set_result raises InvalidStateError on a cancelled future, and then the
\* rest of _writer is not executed.
WakeWaiter ==
    IF write_empty_waiter = None \/ fut[write_empty_waiter] = "cancelled"
    THEN UNCHANGED waiting
    ELSE /\ fut' = [fut EXCEPT ![write_empty_waiter] = "done"]
         /\ write_empty_waiter' = None

WakeFails == write_empty_waiter # None /\ fut[write_empty_waiter] = "cancelled"

\* Mutant: the drained writer stays registered.
Drained_polling ==
    /\ WakeWaiter
    /\ IF state = "CLOSING" /\ ~WakeFails THEN finnal_close ELSE UNCHANGED closing
    /\ UNCHANGED writer

\* Mutant: the drained buffer of a closing transport does not finalise it.
Drained_open ==
    /\ writer' = FALSE
    /\ WakeWaiter
    /\ UNCHANGED closing

\* The end of _writer when the buffer has become empty.
Drained ==
    /\ writer' = FALSE
    /\ WakeWaiter
    /\ IF state = "CLOSING" /\ ~WakeFails THEN finnal_close ELSE UNCHANGED closing

\* _writer when the socket takes n bytes of the buffer.
WriterSends(n) ==
    /\ writer /\ ~closed_event
    /\ SendTakes(write_buffer, n)
    /\ write_buffer' = SubSeq(write_buffer, n + 1, Len(write_buffer))
    /\ IF write_buffer' = <<>>
       THEN Drained
       ELSE UNCHANGED <<writer, waiting, closing>>
    /\ UNCHANGED <<reader, shut_wr, soon, written, dropped>>

WriterFails ==
    /\ writer /\ ~closed_event
    /\ SendFails
    /\ force_close
    /\ UNCHANGED <<shut_wr, soon, waiting>>
-------------------------------------------------------------------------------
(* Reading *)

ReadEOF ==
    /\ reader /\ ~closed_event
    /\ IF KEEP_OPEN_ON_EOF /\ state # "OPENED"
       THEN /\ reader' = FALSE
            /\ UNCHANGED <<closing, writer, shut_wr, soon, bytes, waiting>>
       ELSE do_close

\* recv failed, or _data_received raised.
ReadFails ==
    /\ reader /\ ~closed_event
    /\ Env \cap {"socket", "callback"} # {}
    /\ force_close
    /\ UNCHANGED <<shut_wr, soon, waiting>>
-------------------------------------------------------------------------------
Room == 1..(MaxBytes - Len(written))

Writer == (\E n \in 1..Len(write_buffer) : WriterSends(n)) \/ WriterFails

Next ==
    \/ close
    \/ shutdown
    \/ finnal_close_soon
    \/ \E n \in Room : WriteSync(n)
    \/ \E t \in Tasks, n \in Room : Write(t, n)
    \/ \E t \in Tasks : WaitForWriteAll(t)
    \/ \E t \in Tasks : Resume(t)
    \/ \E t \in Tasks : CancelWait(t)
    \/ Writer
    \/ ReadEOF
    \/ ReadFails

Spec == Init /\ [][Next]_vars

\* The loop polls a registered writer and runs what it has scheduled; the
\* peer keeps reading, so that a polled socket is writable again and again.
Fairness ==
    /\ WF_vars(Writer)
    /\ WF_vars(finnal_close_soon)
    /\ \A t \in Tasks : WF_vars(Resume(t))

FairSpec == Spec /\ Fairness
-------------------------------------------------------------------------------
(* Properties *)

\* The shape of the state: what each attribute of a Stream can hold.
TypeOK ==
    /\ state \in {"OPENED", "CLOSING", "CLOSED"}
    /\ closed_event \in BOOLEAN /\ reader \in BOOLEAN /\ writer \in BOOLEAN
    /\ shut_wr \in BOOLEAN
    /\ write_buffer \in Seq(Nat) /\ written \in Seq(Nat)
    /\ wire \in Seq(Nat) /\ dropped \in Seq(Nat)
    /\ write_empty_waiter \in Tasks \cup {None}
    /\ fut \in [Tasks -> {"none", "pending", "done", "cancelled"}]
    /\ soon \in Nat /\ lost \in Nat

\* Every byte _write_sync accepted is on the wire, in write_buffer or was
\* discarded by _force_close, each once and in the order of the calls: sending
\* directly never overtakes buffered bytes and a partial send never repeats any.
DeliveredInOrder == wire \o write_buffer \o dropped = written

\* The on_close callbacks (a channel's connection_lost asserts that it knows
\* the connection) have run exactly once when closed_event is set and not
\* before, although close, _force_close, _writer and a scheduled call can all
\* reach _finnal_close.
OnCloseOnce == lost = (IF closed_event THEN 1 ELSE 0)

\* `assert self.write_buffer, 'data should not be empty'` in _writer never
\* fails: the loop polls for writability only while there are bytes to send.
WriterHasData == writer /\ ~closed_event => write_buffer # <<>>

\* A finalised transport leaves no callback behind on its file descriptor,
\* which the kernel may give to the next connection.
QuietWhenClosed == closed_event => ~reader /\ ~writer

\* An orderly close() finalises only after every accepted byte was sent.
CloseLosesNothing == closed_event => wire = written

\* Whoever waits in wait_for_write_all holds the future that _writer will
\* resolve, and _writer is registered.
NoForgottenWaiter ==
    \A t \in Tasks : fut[t] = "pending" => write_empty_waiter = t /\ writer

\* A closing transport gets closed: the buffer drains and _writer finalises.
ClosingFinishes == (state = "CLOSING") ~> closed_event

\* Backpressure ends: a task suspended in wait_for_write_all runs again.
WaitersWake == \A t \in Tasks : (fut[t] # "none") ~> (fut[t] = "none")

\* The transport as its owner sees it.
Lifecycle == INSTANCE TransportLifecycle WITH
    MayAbort <- Env \cap {"socket", "callback", "shutdown"} # {},
    phase <- IF closed_event THEN "closed"
             ELSE IF state = "CLOSING" THEN "closing" ELSE "open",
    accepted <- written,
    delivered <- wire

\* A Stream whose waiting tasks are not cancelled is a TransportLifecycle: it
\* never reopens, never accepts or delivers once closed, notifies its owner
\* once, and loses bytes only when something failed.
ImplementsLifecycle == Lifecycle!Spec
===============================================================================
