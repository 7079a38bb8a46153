# Verification of pymaid

pymaid is an asyncio networking and RPC library with a client for web pages.
This directory holds TLA+ models of its core and of that client, TLC
configurations that check them on small instances, and TLAPS proofs of the main
properties for every instance.  Source paths below are relative to `src/pymaid`,
those of the client (`pymaid.js`, `pb`) to `src/plugin/js`; `PROJECT.json` maps
every definition to its lines.

    tlc -workers 2 -config MCStream_faults.cfg MCStream.tla     # one run
    tlapm StreamProofs.tla                                      # one set of proofs

## 1. The system

| component | state it keeps | operations | hard behaviour |
|---|---|---|---|
| stream transport (`net/transport.py`, `net/stream.py`) | state, socket, write buffer, registered reader and writer callbacks, the backpressure future, `closed_event`, `on_close` callbacks | `_write_sync`, `write`, `wait_for_write_all`, `_writer`, `_reader`, `shutdown`, `close`, `_force_close`, `_finnal_close` | callbacks against suspended tasks, partial sends, failure in any callback, four ways to finalise |
| stream channel (`net/channel.py`) | lifecycle state, listeners, transports, `closed_event` | `listen`, `start`, `pause`, `shutdown`, `close`, accept loop, `connection_lost`, `serve_forever`, `async with` | the connection limit, automatic resume, a close that waits for the last connection |
| serial handler (`ext/handler.py`) | deque of jobs, event, closing flags, the `run()` task | `submit`, `shutdown`, `join`, `close`, `run` | wakeups, the sentinel in the queue, a job that fails or never suspends, `close` from outside |
| parallel handler and `AioPool` (`ext/handler.py`, `ext/pools/worker.py`) | the same, a semaphore, a set of tasks, `waiter_count`, `empty_event` | `spawn`, `task_done`, `join`, `on_exception` | cancellation inside `acquire`, joins against the last task, close-on-exception |
| rpc connection (`rpc/connection.py`) | read buffer, handler, context manager | `data_received`, `eof_received`, `close` | a transport and a handler that end in different orders |
| rpc contexts (`rpc/context.py`, `rpc/pb/context.py`) | transmission ids, queues, one waiter each | `open`, `send_message`, `recv_message`, `close`, `cancel` | both ends open contexts; packets for contexts that are gone; timers |
| protobuf router and framing (`rpc/pb/router.py`, `rpc/pb/protocol.py`) | routes; the read buffer for framing | `feed_messages`, `feed_data`, `encode` | split and coalesced reads, unknown ids |
| rpc channel, methods, stubs (`rpc/channel.py`, `rpc/method.py`) | none of their own | the four kinds of call | ends of streams |
| heartbeat (`ext/monitor`) | a timer and a counter per connection | activity, timeout | timer against data and close |
| raw sockets, dial, serve (`net/raw.py`, `net/__init__.py`) | sockets being set up | connect, listen | retries, partial failure |
| websocket (`net/ws`) | fragments, handshake state | frames in and out | control frames inside a message |
| settings, errors, timeouts, hash ring | tables | lookups, registration | overlay order, races of a timer |
| JavaScript client: channel, connections, stubs (`pymaid.js`, `Channel`, `WSConnection`, `Stub`, `StubManager`, `Listener`) | the channel's connection, the stubs' connection, per connection a counter and a table of callbacks | `connect`, `close`, stub calls, `onopen`, `onclose`, `onmessage`, `cleanup` | events of an old connection after a new one is made, callbacks that call or throw inside a clean-up |
| JavaScript client: messages and packets (`pymaid.js`, `PBParser` and `pb`; `pb/pymaid_pb.js`; `examples/complicated/pb.js`) | none of their own | `instantiate`, `deserialize`, `pack`, `unpack`, the generated codecs | names rewritten four times on a round trip, maps, defaults that are not sent, two-byte lengths |
| JavaScript client: `HttpManager` (`pymaid.js`) | middlewares, cookie jar, root url | `get`, `post`, `put`, `del`, `onload`, `ontimeout`, `onerror` | redirects made inside a handler, requests that share the jar |
| command line, daemon, autoreload, logging, code generators | - | - | outside the models, section 7 |

Components interact in one thread, on one event loop.  A **channel** owns
**transports**: it creates one per accepted socket and passes
`connection_lost` as `on_close`, which the transport calls from
`_finnal_close`; the channel's own `closed_event` waits for all of them.  An
rpc **connection** is a transport with a **handler**: `data_received` cuts
frames, the **router** feeds each either to the **context** that is waiting for
it or to a new one whose `run()` is submitted to the handler.  Between two
awaits nothing else runs; what makes the code hard is which callback or task
runs next, what it finds changed since it last looked, and what remains to be
done when one of them fails or is cancelled.

The client is one thread as well, the page's.  Its **channel** makes one
**WSConnection** per address it connects to; a **stub** writes a packet, puts
its callback into the connection's table under the id it sent and is told by
`onmessage`, by `cleanup` when the connection ends, or by a timer.  What it says
arrives at `data_received` of a Python connection like the packets of any other
peer.

What makes each part correct:

- transport: bytes arrive in order, once; the owner learns of the end exactly
  once; a close loses nothing and ends; whoever waits for the buffer is woken.
- channel: never more than `MAX_CONNECTIONS`; a full channel resumes; a closing
  one takes nothing new, never goes back and finishes with its last connection.
- rpc: a context gets the messages of its call and no others, lives as long as
  it is in use, and every call ends with all that was sent to it.
- handlers: jobs run in order, none lost, none after a failure that should stop
  them; shutdown drains and `join()` returns; permits are conserved.
- client: a callback runs once, with the answer to its own call; no connection
  ends with somebody waiting in its table; an open channel has usable stubs.
- messages: what reaches the router is what was sent, however the stream is cut;
  an object that goes there and back means what it meant.
- http: a request ends and calls back once, through every redirect.

`PROJECT.json` lists the hazards line by line, with the property that watches
each, the plan for it, or the reason why none does.

## 2. Modules

| module | models | used by |
|---|---|---|
| `TransportLifecycle` | abstract: what an owner may expect of a transport | `Stream` implements it; `StreamChannel` relies on the part it sees |
| `Stream` | one transport, its writers and its socket | `MCStream`, `StreamProofs` |
| `JobQueue` | abstract: what a connection may expect of its handler | `SerialHandler` and `ParallelHandler` implement it |
| `RemoteCalls` | abstract: what the two sides of a call may expect of a connection | `RpcCalls` implements it |
| `StreamChannel` | one listening channel and its connections | `MCStreamChannel`, `StreamChannelProofs` |
| `SerialHandler` | one serial handler | `MCSerialHandler`, `SerialHandlerProofs` |
| `ParallelHandler` | one parallel handler with its pool | `MCParallelHandler`, `ParallelHandlerProofs` |
| `RpcCalls` | one rpc connection with its contexts, router and handler at both ends | `MCRpcCalls`, `RpcCallsProofs`, `RpcOrderProofs` |
| `JsClient` | the client's channel with its connections, stubs and listener | `MCJsClient`, `JsClientProofs` |
| `JsMessages` | a message from the page's object to the router and back, with both framings | `MCJsMessages` |
| `JsHttp` | the requests of one `HttpManager` | `MCJsHttp`, `JsHttpProofs` |

An action is one callback or one step of a task between two suspensions, so
that it is atomic exactly where the event loop makes it so.  Definitions have
the names of the methods they model.  Most modules have an `Env` constant, the
set of optional things the application or the operating system may do (fail a
socket, cancel a task, call `close()`); a run, or the hypothesis of a theorem,
says which of them are allowed.

**Stream.**  Bytes are numbered in the order they are written, `wire`,
`dropped` and `written` are histories.  A direct send takes any prefix of the
data; `_writer` sends any non-empty prefix of the buffer; either may fail.
`write` suspends in `wait_for_write_all`: `fut[t]` is the future task `t`
awaits, and resuming is a step of its own after the one that resolved the
future.  That gap is where a second task can come in.  A cancelled future makes
`set_result` raise, which skips the end of `_writer` (`WakeFails`).
`finnal_close` a second time fails at the deleted `on_close`, hence the `IF`.
`close()` on a finalised transport leaves it in state CLOSING, as in the code,
where `_loop` is `None` by then.

**StreamChannel.**  `ChannelState` keeps the numbers of the `IntEnum`, since
the code compares them.  The accept loop is modelled one iteration at a time
with `accepting` naming the running listener; clients may connect between
iterations, the rest of the program may not run.  `listen` is two steps, around
its await.  A connection is born in `connection_made` and may be lost at any
time.  A transport's `shutdown()` may raise (`shutdown_raises`), which skips
what its caller would have done next.

**SerialHandler, ParallelHandler.**  `pending_tasks` is the deque with the
`None` sentinel.  The inner loop of the serial `run()` is taken to its next
suspension by `take_next`.  The parallel one suspends only in
`semaphore.acquire`, in the error handler and in `worker.join`; `pc = "loop"`
marks that it has not suspended, and nothing else runs then.  Jobs end by
returning, by an `Exception`, by a `BaseEx` or, in the parallel handler, in the
call that creates the coroutine (`bad_call`).  `submitted`, `quota`, `started`
or `spawned`, `failed` and `doomed` are histories.

**JobQueue** says the same of both handlers to whoever submits to them: jobs begin
in order, each once, at most `Width` at a time; a `Shutdown` fixes which of them
are `due`; the queue stops when these are done, or earlier (`Halt`) only where
`MayHalt` says that something can fail or `close()` may come.  `Queue` in either
module is the mapping: the width is one or the size of the pool, `busy` the job
that runs or the tasks of the pool, and the queue stops with `is_closed`, or with
the assertion that ends the serial handler's task.

**RpcCalls.**  `call[c]` is a stub with its `OutboundContext`, `method[c]` the
method it is to with its `InboundContext`; `contexts[e]` is the table of one
end's manager, `wire[e]` what is on its way to that end.  A packet is its header
and whether it has a payload; `packet_type` is absent from `handle_error` and
`shutdown`, as in the code.  A message whose fields all have their defaults has no
payload.  `Fed` appends nothing for it, but `feed_waiter` wakes a `recv_message()`
that waits, which finds the queue empty unless something else has come meanwhile:
`woken` is the set of calls in that position, `ReceiveFails` and `ReadFails` the
`IndexError` that follows.  The message of a unary call or response may always be
empty (its END is what is read, as `None`); that of a stream only where `Env` has
`empty_request` or `empty_response`, since much of what one expects of a stream is
not so then.  END comes with the last message of a stream or alone after it
(`Payloads`).  Each message also names its call, and so do the items of the
queues: a history that no guard reads.  `feed_raises` collects what ends in an
exception out of `data_received`, which the transport answers by closing.  The
transport is taken to be writable at once and the handler is a queue served in
order; `Stream` and `SerialHandler` model them in full.  A method that raises
`BaseEx` ends the handler's task (`crashed`), after which no method of that end
runs.  A method answers after the end of the requests, or
during them where the kind allows; "early" lets it return while requests are
still to come, "again" respond once more than is due: the check that should
refuse this looks at `response_sent_count`, which nothing counts
(`rpc/pb/context.py:70`).

**RemoteCalls** has neither ids nor messages nor ends: a call is made or refused,
its method begins and ends once, requests and responses are counted as they are
sent and read.  It says what is left of a call when the connection may break:
nothing is read that was not sent, a method does not begin unasked or twice, and
whatever breaks, a call that is done has all the responses its method gave and a
unary one exactly one.  `MayBreak` allows a caller to fail and a method to be
interrupted; without it a method has read every request when it ends.
`RpcCalls!Calling` is the mapping, from the point of view of the two programs:
`Replies`, `CallerState`, `MethodState` and `SentCount`.

**JsClient.**  An action is an event handler, a timer or a call of the page with
everything it calls; since handlers call each other deeply (`onclose` closes the
channel, which closes a connection, which cleans up, which runs callbacks, which
make calls), each is a function from one `heap` to the next and the action is
`Become` of its result.  `conn[c]` is the `WSConnection` with the state of its
socket, `transmissions` its table.  `Stops` says at whose callback a clean-up may
end with an exception, `Retries` which call a callback that is told of an error
may make.  An entry and a packet name the call they are for, a history that no
guard reads.  The socket and the server are external: a connection may be lost at
any time, the server answers late, twice, with a packet that is no response, or
with a request of its own.

**JsMessages.**  A value of the page is a pair of its type and what it holds, an
object keeps its attributes in the order in which they are visited, since the
code's loops depend on it.  `transform`, `camel`, `fromObject`,
`serializeBinaryToWriter`, `pack`, `feed_data_once`, `unpack`,
`deserializeBinaryFromReader`, `toObject`, `underscore` and `untransform` are
operators on such values, so that a run composes them as a call does.  Bytes are
counted in units, one per field and as many more as its value takes, so that a
length can wrap (`MaxUint16`) and a read can end inside a field.  The same module
holds the Python side of the wire: `decode`, `feed_data_once` and `feed_data` of
the protocol, `data_received` with its buffer, fed from a websocket (a packet a
read) or from a stream cut anywhere.

**JsHttp.**  A request is the `XMLHttpRequest` it is at by now, the number of
redirects it has followed and how its callback was told.  `onload` runs the
middlewares, which put the response's cookie into the jar, and then ends the
request, follows it or drops it.

## 3. Runs

| run | question | instance | distinct states |
|---|---|---|---|
| `MCStream_faults` | is data ordered and the owner told once, under every failure, close and cancellation, also where an end of data may leave the transport open? | 2 tasks, 5 bytes, all events, `KEEP_OPEN_ON_EOF` | 5 420 |
| `MCStream_graceful` | does `close()` lose nothing and end, does backpressure end, and is Stream a `TransportLifecycle`, quiet once closed? | 1 asynchronous and a synchronous writer, 7 bytes, only `close()` | 199 |
| `MCStreamChannel_safety` | do capacity and the closing states hold against every call order and failure? | 3 clients, 2 listeners, limit 2 | 1 678 |
| `MCStreamChannel_serving` | are all clients served, does leaving the block end? | 3 clients, 1 listener, limit 1, nobody calls `pause()` | 1 022 |
| `MCSerialHandler` | is it a `JobQueue`, in order and one at a time; draining, stopping at a failure; do jobs run and shutdowns end? | 4 jobs, every outcome, `close()` at any time | 21 382 |
| `MCParallelHandler` | permits, cancellation after a failure; is it a `JobQueue`; does shutdown drain in order and `join()` return? | 3 jobs, 2 permits, every outcome, `close()` | 32 418 |
| `MCRpcCalls_faults` | does a context get only its own messages, is none leaked or lost? | a call of any kind but bidi one way, two unary calls the other, with ids for one of them; up to 2 requests and 1 response a stream, any of them empty; every event, every outcome but "again" | 1 883 982 |
| `MCRpcCalls_orderly` | does an undisturbed connection stay open, run each call once, do what `RemoteCalls` promises and return every call? | 2 unary or bidirectional calls one way, a void call the other, streams of up to 1, with their END or before it | 264 184 |
| `MCJsClient` | are callbacks told once, of their own call, and none forgotten; has an open channel usable stubs? | 3 calls, one of them without response, 2 addresses, 2 connections, 1 packet on its way; losses, retries and exceptions in callbacks | 220 678 |
| `MCJsMessages` | do objects come back as they were meant, does framing deliver exactly what was sent, is every answer told? | 3 calls out of 10 objects or 3 messages of a Python peer; a long string of 7 units, packets of up to 8, lengths up to 9 | 21 118 |
| `MCJsHttp` | does every request end and call back once, does a redirect carry its cookie? | 2 requests, 2 cookies, 2 hosts, 1 redirect each | 26 136 |

`MCStream_two_writers` ends in a counterexample; section 6 tells what it shows.

**Bounds.**  `MaxBytes` bounds what is ever written.  Five bytes and two tasks
allow a partial direct send, a second write behind it, a partial `_writer` run and
a write after the drain, with a waiter on each side; the code treats all buffers
alike except for being empty.  One client more than `MAX_CONNECTIONS` is what
makes a channel full with somebody waiting; two listeners let one be added after
`start()` and let a pause in one listener's loop concern another. A stream of one
message and its end has a first, a last and, when it ends alone, no message; a
second call of one end waits behind the first in the other's handler while its
requests are already fed.  Two requests (`MaxRequests`) are the empty one that
ends the method and the one that finds no context; one response (`MaxResponses`)
and the method's own `shutdown` do the same at the caller. `server_stream` and
`client_stream` calls occur in the faults run only; a bidirectional call has the
streams of both, and occurs in the orderly run only: to each fault its two
directions are those two kinds, and with it the faults run does not end in a few
minutes.  The outcome "again" and bidirectional calls under faults are covered by
the theorems of `RpcCallsProofs`, which state the two invariants of that run for
them as well. `MAX_TRANSMISSION_ID` is two in the faults run, so that a call
without an id is reached. Three jobs on two permits give two running and one
waiting for a permit, with the sentinel in the deque; the code treats a longer
deque alike.  Each job is submitted once.  Two connections are an old and a new
one, which is where the events of the client mix; of three calls one has no
response, so that two share a table, follow each other or are on different
connections.  One packet on its way is enough for a late one, as a server may
answer again; with two, `OwnAnswer` and the counts say nothing new, since handlers
take one packet at a time.  Of the objects each has another shape: empty, with a
default, an array under its own or its generated name, a map of none, one or two
entries before or after other attributes, a text that is too large alone or only
together with others. `Long = 7` puts such texts on both sides of
`MAX_PACKET_LENGTH`, and `MaxUint16 = 9` is between the limit and twice it, so
that a size can pass the limit and wrap.  Symmetry is used in runs that have no
liveness property.  Deadlock checking is off everywhere: every one of these
objects ends, or rests when nothing is asked of it; that they do not rest too
early is what the liveness properties say.

**Fairness.**  Weak fairness of a callback or task step says that the event loop
runs what is ready, which asyncio does in every iteration. `Stream!Fairness` also
assumes that a polled socket is writable again and again (the peer reads);
`StreamChannel!Fairness` that connections end; the handlers' that jobs and error
handlers return.  It is strong for the steps of a channel because an accept loop
in progress disables them and lets them be enabled again without end; the loop
runs them in between.  `RpcCalls!Fairness` assumes that callers end their request
streams and methods return; `JsHttp!FairSpec` that a request which was sent loads,
fails or times out, which is what `XMLHttpRequest` promises.  No fairness is
assumed of calls by the application.

## 4. Proofs

Each theorem holds for every value of the constants that satisfies the module's
`ASSUME`.

*StreamProofs.*  `TypeCorrect` first.  `OrderKept` and `PolledWithData` rest on
`OrderInv`: besides `wire \o write_buffer \o dropped = written` it needs that
only a finalised transport with an empty buffer has dropped bytes
(`DroppedLast`): what is written later fails at the missing socket.  Without it
the equation is not inductive, since a byte written after a discard would have
to stand before the dropped ones.
`ClosedOnce` and `Quiet` rest on `LifeInv`: a call scheduled with `call_soon`
exists only where a cancelled waiter has left the transport CLOSING with an
empty buffer, so without cancellation a transport in CLOSING still has bytes to send,
and a closed one has neither bytes nor callbacks.  `Implements` shows the initial
state and every step to be ones of `TransportLifecycle`, or stutters, under the
mapping of `Stream!Lifecycle`; direct and buffered sends are `Transfer`, an
orderly end `Finish`, a failure `Abort`.
`ClosedAfterSending` and `WaiterKept` assume that only `close()` is called
(`Orderly`; the peer may still end its data): section 6 tells what a failure,
`shutdown()` and a cancelled waiter do to the buffer and to who waits for it.
`CloseLosesNothing` is inductive only with the facts that nothing was ever
discarded and that buffered bytes have a registered writer (`CalmInv`).
`WaiterKept` assumes one writing task besides: with two, the `finally` of one
clears the future of the other.

*StreamChannelProofs.*  `Capacity` is inductive with the fact that only
`connection_made`, which has just seen `~is_full`, adds to the set
(`TransportsStep`).  `PolledWhenStarted` needs that an accept loop runs only in
STARTED.  `ClosedDrained` and `ClosingIsFinal` assume that nobody calls
`pause()` after `close()`; the code does not prevent it and then really goes
back to PAUSED, from where the next `connection_lost` or `start()` serves
again.  `PausedMeansFull` assumes that the application leaves `pause()` alone.

*SerialHandlerProofs.*  `InOrder` and `Drains` follow from `OrderInv`: what has
begun followed by the jobs in the deque is what was submitted (`Queued`,
elementwise), the sentinel stands exactly after the jobs counted by `quota`,
and `run()` that has met it has begun them all (`Progress`, `Ended`).  `Stops`
and `Wakeups` have small invariants of their own.  `Implements` shows every step to
be one of a `JobQueue` of width one, or a stutter.  It needs `OrderInv` to see
that the job taken from the deque is the next that is due, that none is left at
the sentinel, and `HaltInv` besides, that a closed handler runs nothing.

*ParallelHandlerProofs.*  `TypeCorrect`, `Permits`, `DoomedStayDown` and `Drains`,
with no hypothesis beyond the module's, are parts of one invariant, `PoolInv`.
`QueueInv` says what the deque is as a value: what `run()` has taken, followed by
the deque, is what was submitted, with the sentinel exactly behind the first
`quota` jobs.  `PermitInv` alone is not inductive: that `task_done` gives back a
permit it took needs that a finished task was in the pool, and that a spawned job
was not, for which jobs must be distinct and taken in order.  `DoomInv` says that
a doomed job still in the pool is being cancelled, and `EndInv` why `run()` can
have ended: by an error in a call, or by the sentinel, which was then all that was
left of the jobs before it.  `Implements` is the refinement of a `JobQueue` as
wide as the pool, from `PoolInv` and `FateInv`: `run()` stops of its own accord
only at the sentinel with all that was due spawned, and otherwise only for an
error that `MayHalt` names.

*RpcCallsProofs.*  `TypeCorrect`, and `ContextsFedByOwnCall`: `NoCrossTalk` for any
calls from both ends, any outcomes and events.  It is not inductive alone, as a
message on its way is not yet in a queue.  `OwnInv` adds `Ids` (an id that is
given out lies below its end's counter and has that end's parity, so no two calls
ever share one; zero stands for none) and `Owned` (each message, job and context
carries the id of the call it was made for).  Feeding by id is then feeding by
call (`SameId`, `FeedOwn`).  It assumes that messages are of the two managers'
making: a peer that invents ids is no pymaid end.
`NoContextLeaked` states `ContextsMatch` under the same generality.  `MatchInv`
adds to `OwnInv` that requests travel only to the called end (`Routing`), that a
queued method's job stands in that handler's queue exactly once (`JobsQueued`),
and that a method which runs has its context in the table of its end
(`RunningHere`): otherwise a second job of a call could release the context that
the first still reads.

*RpcOrderProofs.*  Four theorems about what is still on its way, which no single
context sees, for any number of calls of all kinds from both ends and streams of
any length. `MethodsRunOnce` assumes that methods return after the end of their
requests and that no request of a stream is empty (`MethodsReturn`), and allows
everything else between the ends, empty responses among it; `RunOnce` fails for
early returns, errors and empty requests, where a request finds its context gone
and makes a new one (section 6).  `OnceInv` says that a last request is last on
the wire and that behind it, or once the method has read it, nothing is left that
could start another method. `ProtocolKeepsOpen` and `StreamsArrive` assume the
environment of the orderly run besides (`Orderly`): nobody cancels or cuts, every
request has a route, no message of a stream is empty.  Each event that this leaves
out closes a connection, or loses a message, by one of the differences of section
6.  Of the invariants they rest on, `OrderInv` holds under `MethodsReturn` alone.
`OrderInv` says, for both ends at once, that a last response is last on the wire
and that its caller's context waits until it has come (`Whole`); a call that was
cancelled is excepted, since what it sends the wrong way may be answered by an
error, but does not disturb any other call (`AnswerAt`).  In the orderly
environment nothing read from the wire then trips an assertion (`NothingRaises`).
`WakeInv` says where `woken` can hold a call at all: with an empty request or
response allowed, at a `recv_message()` that waits for one; so nobody is woken for
nothing without (`ReadsInTurn`). `StreamInv`, for streams without empty messages
(`NoneEmpty`), counts: what was sent in one direction of a call is on the wire, in
the queue of the context or read, and END is last in whichever of them it is
(`RequestsAt`, `ResponsesAt`).  Where an end has been closed part of it is lost,
so the counts are bounds there, and equal while the end is open *or once the last
message has come*: what is lost is always a tail. `CallsCarried` is the
refinement: under `MethodsReturn` and `NoneEmpty`, whatever callers cancel and
however the connection ends, `RpcCalls` implements `RemoteCalls`.  `CarryInv` is
`StreamInv` with the fact that nothing is closed where nothing can break.  The
definitions of `RemoteCalls`' steps as one call sees them (`Opens` to `Finishes`)
split the proof: `CallerMoved` and `MethodMoved` are about the mapping only, and
one lemma for each action of `RpcCalls` about the state (`OpenCarried` to
`MethodCarried`).  What carries it is that a caller which is done has seen the
last response (`AnswerRead`), after which the counts are equal although the
connection may be gone, and that its method then has sent its last (`Spoken`).

*JsClientProofs.*  The module's steps are functions from one heap to the next, so
the proof first shows of each of them (`stub`, `told`, `retried`, `Cut`,
`answered` and what is built from them) that it keeps `HeapInv`: the ids of a
connection are counted up and none is in its table twice, a request or response
with the id of an entry is of the entry's call (`Own`); an entry is there for a
call that waits on that connection (`Pending`) and a waiting call has its entry
(`Told`), unless its callback has thrown in a clean-up.  None of the four checked
invariants is inductive alone: whether a response fits depends on requests still
with the server, and whether a callback was told already on the entry being gone.
`SysInv` adds what relates a heap to the channel: connections are made in order
(`Fresh`), an open channel and its stubs have connections that are open and not
closed (`Bound`), and a closed connection has an empty table unless a callback has
thrown (`Swept`).  Then each handler is one lemma, and the theorems
(`OwnAnswers`, `ToldOnce`, `NothingForgotten`, `StubsStayBound`) are parts of the
invariant.  `NoneAfterClose` says that no step, not even the call that a callback
makes during its own clean-up, leaves an entry in a closed connection.  They
assume a server that answers requests it was sent, in any order and number.

*JsHttpProofs.*  `AnsweredOnce` and `CookieFollows` for any requests, cookies,
hosts and redirects.  `HttpInv` says of each request apart what its handlers left
(`Sound`): an answer was given exactly if it has returned, and a request that
follows a redirect carries the cookie that came with it.  The proof shows that no
handler touches any other request, though all share the jar, the root url and the
middlewares.

`TypeOK` of every module, `WriterHasData`, `PolledOnlyWhenStarted` and
`NoLostWakeup` are proved for every instance and for that reason not run again.
Nor are two properties that a refinement which is run contains: `StartedInOrder`
(what has begun is a prefix of what was submitted) and `StreamsComplete` (without
`MayBreak` a method has taken all its requests when it ends, and a call that is
done has received all its responses).  `QuietWhenClosed` and `ImplementsLifecycle`
are run in `MCStream_graceful` and proved for every environment without cancelled
waiters.  `ImplementsRemoteCalls` is run where nothing may break and proved
wherever methods return and no message of a stream is empty.

*Model-checked only.*  Everything about liveness: `ClosingFinishes`,
`WaitersWake`, `ExitCompletes`, `ClientsServed`, `JobsRun`, `ShutdownCompletes`,
`JoinReturns`, `CallsReturn` and `RequestsEnd` rest on fairness and ENABLED, which
these provers do not handle.  Of the invariants, the three of `JsMessages`
(`RoundTrip`, `FramesExact`, `NothingLost`): the module is recursive all through,
as it follows data of any depth, cut at any places, and no induction over data is
within reach.  Every other invariant and action property of a passing run is stated
by a theorem, under the hypotheses named above.

## 5. Why these properties

Each would take a schedule to break: data written while a partial send is
pending, a waiter that resumes after another has begun to wait, the last
connection lost while the block is left, a job that fails while the deque fills
up, the close event of a connection that has been replaced, a map that stands
before an array.  `CallbackAtMostOnce` allows a second call to a callback that
threw in a clean-up, `NoneForgotten` speaks of what still waits, and `RoundTrip`
of objects that `instantiate` does not cut (`Intact`), `StaysOpen`, `RunOnce`,
`ImplementsRemoteCalls` and `CallsReturn` of streams without empty messages: each
exception is one of
the differences of section 6, named in the property so that everything else is
still checked.  Of `StubsBound` a reader may expect more: that the stubs have the
channel's own connection.  They do not always.

## 6. Where the code differs from what it says

- `MCStream_two_writers`: `wait_for_write_all` promises to "Wait for all
  buffered data to send", but its `finally` clears `_write_empty_waiter`
  although another task may have put its own future there since.  That task
  waits for ever.  `MCStream_graceful` shows that one waiting task is safe.

Two more were found with these models and have no run of their own.
`eof_received` says its result decides "whether to keep the transport open or
not" (`net/stream.py:146`), but the test that follows lets it decide only for
transports that are closing already (`Stream!ReadEOF`).  "Wake up join waiters"
(`ext/pools/worker.py:120`) fails after `close()` cancelled `run()` while it
waited for a permit: `waiter_count` stays up, the pool is never empty and
`join()` never returns.  `JoinReturns` therefore asks nothing of a handler that is
closed with a waiter counted.

About the rpc modules, all of them steps of `RpcCalls` with more outcomes or
events than the orderly run has:

- a response to a call that is gone should be "ignored" with a warning
  (`rpc/pb/router.py:87`), but `Router` has no `logger`: the exception closes
  the connection.  Cancelling a call is enough to get there;
- a request without a route should be answered by `RPCNotFound`, but
  `handle_error` is called without `conn` (`rpc/pb/router.py:73`): again the
  connection is closed;
- leaving a client stream early sends a `shutdown` without `packet_type`, which
  the assertion of `PBInboundContext.feed_message` (`rpc/pb/context.py:44`)
  turns into a closed connection, and so is an error sent back for an error;
- a method that returns before the end of its request stream is started again
  by the next request (`rpc/pb/router.py:77`).  The caller can then be fed two
  responses, as `response_fed_count` (`rpc/pb/context.py:97`) is never counted;
- an empty message in a stream, that is one whose fields all have their defaults,
  is not queued (`if payload:`, `rpc/pb/context.py:53` and `:112`), but it wakes
  the `recv_message()` that waits.  This then takes from an empty queue
  (`rpc/context.py:153` and `:201`), where its docstring says "Wait for request"
  or "response".  An empty response so ends its caller by an `IndexError`, and the
  next response finds it gone and closes the connection; an empty request ends its
  method, and the next one starts it again.  If another message has come in the
  same read the empty one is lost without an error.  A unary response that is
  empty, like the `Pong()` of `ext/monitor/service.py:12`, reaches the caller as
  `None`.  With `Env = {"empty_response"}` TLC finds `StaysOpen`,
  `ImplementsRemoteCalls` and `StreamsComplete` violated by methods that return,
  with `{"empty_request"}` and two requests `RunOnce`;
- a method may respond twice to a unary call: `response_sent_count`, which is to
  refuse this (`rpc/pb/context.py:70`), is never counted, nor are
  `request_sent_count` and `response_fed_count`.  The second response finds the
  call gone;
- a unary method that raises an `Exception` answers nothing, a lost connection
  wakes no caller, and a timeout (`rpc/context.py:88`) makes a coroutine that is
  never awaited: in each case the caller waits for ever;
- a method that raises `BaseEx` informs its caller and then stops the handler
  of the connection by its assertion (`ext/handler.py:139`).

The models also contain, and the environments of the passing runs leave out or
the properties allow for, these: a failed send or receive drops the future a
task waits on (`net/transport.py:123`); `shutdown()` with bytes buffered removes
the writer, and a `close()` after it never finalises (`net/transport.py:97`); a
cancelled waiter's `set_result` keeps a closing transport from being finalised
(`net/stream.py:216`); `pause()` after `close()` reopens a channel
(`net/channel.py:122`); an exception of one connection's `shutdown()` skips
those of the others and the channel's `close()` (`net/channel.py:241`);
listeners whose `listen()` returns after `close()` stay open
(`net/channel.py:77`); a job that raises `BaseEx` ends `run()` with jobs queued
(`ext/handler.py:139`).  With `close_on_exception` an `on_exception` task that
closes the handler while `run()` waits for a permit leaks `waiter_count` in the
same way as an outside `close()`.

About the JavaScript client, all of them in the models:

- it counts its calls from 0 (`pymaid.js`, `WSConnection`) and sends calls
  without response under no id at all, which is 0 again, while the Python side
  takes only odd ids from whoever dials (`rpc/context.py:262`): the first call of
  `examples/echo/test.js` is answered by a closed connection.  The server of
  `JsMessages` is external and answers any id, or the client could not be
  checked any further;
- errors made by pymaid carry no `packet_type`, so that the client takes them for
  requests (`pymaid.js:376`) and the callback is not told before the connection
  closes; a request without content, such as an empty message, is never answered;
- a `Listener` that has an implementation fails in its answer, where it calls
  `setPacketType` of a plain object (`pymaid.js:562`);
- `Channel.connection_closed` closes whichever connection the channel has by then
  (`pymaid.js:281`) and leaves the stubs without one.  `bindConnection` keeps the
  old connection of the stubs while it is not closed, so that stubs and channel
  can be on different ones;
- a callback that makes a new call while it is told that its connection is closed
  may have it dropped with the table (`pymaid.js:361`); one that throws there is
  told twice, and those after it only by the next clean-up (`pymaid.js:353`).
  `Channel.close` then keeps a connection that it takes for closed;
- an object that is sent twice has lost its map, because `instantiate` rewrites
  the page's own object; behind a map attributes are skipped, as two loops share
  a variable (`pymaid.js:71` and `:108`);
- the error of a closed connection is made with the number 400 for a string, which
  the generated code writes as no string; the callback is told a reason without
  its code (`pymaid.js:356`);
- sizes beyond 65535 are cut to two bytes (`pymaid.js:156`) and the packet is read
  as several others;
- a 401 and a redirect without `Location` never call back; a redirect forgets
  method, data and the caller's timeout (`pymaid.js:724`); a 400 whose body is
  `null` is reported as a success (`pymaid.js:726`).

## 7. Not modelled

`AioPool.submit` raises `TypeError` at every call (`_spawn` takes no `callback`);
`AioPool.shutdown` and `ConnectionPool` have no working user. TLS, logging,
`repr`, argument parsing, daemonising, reloading and process supervision are input
and output.  `datagram` classes are stubs.  The h11 state machine and protobuf
encoding belong to other projects, and so does the minified
`pb/google-protobuf.js` and `pb/well_known_types.js`, whose classes no message of
the repository uses.  Of the generated JavaScript code the four classes that are
sent and received are modelled; `RpcAck` and `Void` have no content, `echo.js`
repeats `Message`.  The code generators print text. `JSONParser` is commented out.
An error handler that raises itself (`ext/handler.py:141` and `:230`) ends `run()`
before it closes the handler; the handlers' models take error handlers to return.
Everything else in the table of section 1 that has no module yet is in the plan.

## 8. Plan

1. `RpcConnection`: one end of `RpcCalls` over `Stream` and `SerialHandler` in
   full (`eof_received`, `close` and `_finnal_close` with bytes still buffered),
   relying on `TransportLifecycle` and `JobQueue` for what it sees of them, and
   shown to implement `RemoteCalls`.
2. `StreamServer`: `StreamChannel` with a `TransportLifecycle` per connection,
   where `__aexit__` meets transports that cannot drain.
3. `HashRing`, `Settings`, `ErrorManager`: functions, compared with reference
   definitions over bounded inputs.
4. `Heartbeat`, `Timeout`, `RawSockets`, `WebSocket`.
5. Proofs: the refinements of `RpcConnection` and `StreamServer`; what `RemoteCalls`
   may still promise for methods that fail or return early.
