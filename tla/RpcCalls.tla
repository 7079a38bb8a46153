------------------------------- MODULE RpcCalls -------------------------------
(***************************************************************************)
(* Remote calls over one pymaid connection, seen from both of its ends:    *)
(* the contexts and context managers (pymaid/rpc/context.py and            *)
(* rpc/pb/context.py), the router (rpc/pb/router.py), the stubs and        *)
(* methods (rpc/method.py) and the connection that ties them to a          *)
(* transport and a SerialHandler (rpc/connection.py).  Both ends may call. *)
(*                                                                         *)
(* An action is a callback or a step of a task.  The transport is a        *)
(* TransportLifecycle whose buffer never fills, the handler a              *)
(* SerialHandler, whose order of jobs is a queue here.  A message is       *)
(* its header and the call it belongs to; that last field is history, no   *)
(* decision of the code looks at it.                                       *)
(***************************************************************************)
EXTENDS Naturals, Sequences, FiniteSets

CONSTANTS DialerCalls, ListenerCalls,   \* the calls each end may make
          DialerKinds, ListenerKinds,   \* the kinds of method they are to
          Outcomes,                     \* how a method may leave its body
          Env,                          \* the optional events
          MAX_TRANSMISSION_ID,
          MaxRequests, MaxResponses,   \* bounds: messages of a stream
          None

\* "void" is unary with an empty response type, for which nothing is sent.
MethodKinds == {"unary", "void", "server_stream", "client_stream", "bidi"}
\* "early": it returns before the end of the request stream; "exception": an
\* Exception; "BaseEx": one of pymaid's own errors, meant for the caller;
\* "again": it responds once more after its last response.
MethodOutcomes == {"ok", "early", "exception", "BaseEx", "again"}
\* "cancel": a caller is cancelled, or leaves its loop over the responses;
\* "cut": the connection is lost or closed; "unknown": a method has no route;
\* "empty_request", "empty_response": in a stream of them one has no field set.
EnvEvents == {"cancel", "cut", "unknown", "empty_request", "empty_response"}

ASSUME RpcAssumption ==
    /\ DialerCalls \cap ListenerCalls = {}
    /\ None \notin DialerCalls \cup ListenerCalls
    /\ DialerKinds \cup ListenerKinds \subseteq MethodKinds
    /\ Outcomes \subseteq MethodOutcomes
    /\ Env \subseteq EnvEvents
    /\ MAX_TRANSMISSION_ID \in Nat
    /\ MaxRequests \in Nat /\ MaxResponses \in Nat

Ends == {"dialer", "listener"}
Calls == DialerCalls \cup ListenerCalls
Peer(e) == IF e = "dialer" THEN "listener" ELSE "dialer"
Caller(c) == IF c \in DialerCalls THEN "dialer" ELSE "listener"
Callee(c) == Peer(Caller(c))
Kinds(c) == IF c \in DialerCalls THEN DialerKinds ELSE ListenerKinds

VARIABLES
    open,      \* per end: the transport is not finalised
    wire,      \* per end: messages on the way to it
    outbound_transmission_id, contexts,   \* per end: its ContextManager
    jobs,      \* per end: the handler's queue, each job as the message it is for
    running,   \* per end: the call whose method the handler is running
    crashed,   \* per end: the handler's run() was ended by its assertion
    call,      \* per call: its stub and OutboundContext
    method,    \* per call: its method and InboundContext
    woken      \* per end: the calls whose recv_message() there was woken by a
               \* message that added nothing to the queue

ends == <<open, jobs, running, crashed>>
vars == <<open, wire, outbound_transmission_id, contexts, jobs, running,
          crashed, call, method, woken>>

client_streaming(c) == call[c].kind \in {"client_stream", "bidi"}
server_streaming(c) == call[c].kind \in {"server_stream", "bidi"}

\* What a context manager has under an id: the context of which call, on the
\* calling ("out") or the called ("in") side.
Context(id, dir, c) == [id |-> id, dir |-> dir, call |-> c]
Without(e, id) == {x \in contexts[e] : x.id # id}

\* A Meta header and whether the payload has any bytes: a message without a
\* field that differs from its default has none.  `call` is history.
Message(id, c, type, end, failed, payload) ==
    [id |-> id, type |-> type, end |-> end, failed |-> failed,
     payload |-> payload, call |-> c]

\* Both leave packet_type at its default.
handle_error(c) == Message(call[c].id, c, "UNKNOWN", TRUE, TRUE, TRUE)
shutdown(c) == Message(call[c].id, c, "UNKNOWN", TRUE, FALSE, FALSE)

\* What feed_message appends to the queue of a context.
Fed(m) == (IF m.failed THEN <<[what |-> "error", call |-> m.call]>>
           ELSE IF m.payload THEN <<[what |-> "message", call |-> m.call]>>
           ELSE <<>>)
          \o (IF m.end THEN <<[what |-> "end", call |-> m.call]>> ELSE <<>>)

\* A message that adds nothing wakes a recv_message() that waits all the same;
\* of one that has yet to be called it leaves no trace.
feed_waiter(e, c, waits, m) ==
    \/ UNCHANGED woken
    \/ waits /\ Fed(m) = <<>> /\ woken' = [woken EXCEPT ![e] = @ \cup {c}]

Forget(e, c) == woken' = [woken EXCEPT ![e] = @ \ {c}]

\* What send_message() is given for a stream: nothing, which a message marked
\* as the end may be, or a message that is empty or not.
Payloads(event) == {"none", "full"} \cup (IF event \in Env THEN {"empty"} ELSE {})

\* Mutant: both ends count from one.
first_transmission_id_same(e) == 1

first_transmission_id(e) == IF e = "dialer" THEN 1 ELSE 2

NoMethod == [pc |-> "none", queue |-> <<>>, fed |-> FALSE, read |-> FALSE, got |-> 0,
             responded |-> 0, ended |-> FALSE, runs |-> 0]
\* Only the counts outlive the context.
Ended(m) == [NoMethod EXCEPT !.pc = "ended", !.got = m.got, !.responded = m.responded,
                             !.runs = m.runs]

Init ==
    /\ open = [e \in Ends |-> TRUE]
    /\ wire = [e \in Ends |-> <<>>]
    /\ outbound_transmission_id = [e \in Ends |-> first_transmission_id(e)]
    /\ contexts = [e \in Ends |-> {}]
    /\ jobs = [e \in Ends |-> <<>>]
    /\ running = [e \in Ends |-> None]
    /\ crashed = [e \in Ends |-> FALSE]
    /\ \E kind \in [Calls -> MethodKinds] :
          /\ \A c \in Calls : kind[c] \in Kinds(c)
          /\ call = [c \in Calls |-> [kind |-> kind[c], pc |-> "new", id |-> 0,
                                      queue |-> <<>>, sent |-> 0, received |-> 0]]
    /\ method = [c \in Calls |-> NoMethod]
    /\ woken = [e \in Ends |-> {}]

\* What an end with a live transport sends reaches an end that reads.
Deliver(e, messages) ==
    wire' = IF open[Peer(e)] THEN [wire EXCEPT ![Peer(e)] = @ \o messages] ELSE wire
-------------------------------------------------------------------------------
(* The calling side: stubs and OutboundContext *)

\* open() and, unless requests are streamed, the request.  A call to a method
\* without response is over at once; on a finalised connection sending raises.
Open(c) ==
    LET e == Caller(c)
        id == outbound_transmission_id[e]
    IN  /\ call[c].pc = "new"
        /\ id <= MAX_TRANSMISSION_ID
        /\ outbound_transmission_id' = [outbound_transmission_id EXCEPT ![e] = @ + 2]
        /\ \/ /\ client_streaming(c)
              /\ contexts' = [contexts EXCEPT ![e] = Without(e, id) \cup {Context(id, "out", c)}]
              /\ call' = [call EXCEPT ![c].id = id, ![c].pc = "sending"]
              /\ UNCHANGED wire
           \/ /\ ~client_streaming(c) /\ open[e]
              /\ \E payload \in BOOLEAN :
                    Deliver(e, <<Message(id, c, "REQUEST", TRUE, FALSE, payload)>>)
              /\ IF call[c].kind = "void"
                 THEN /\ contexts' = [contexts EXCEPT ![e] = Without(e, id)]
                      /\ call' = [call EXCEPT ![c].id = id, ![c].pc = "done"]
                 ELSE /\ contexts' = [contexts EXCEPT ![e] = Without(e, id) \cup {Context(id, "out", c)}]
                      /\ call' = [call EXCEPT ![c].id = id, ![c].pc = "receiving"]
           \/ /\ ~client_streaming(c) /\ ~open[e]
              /\ contexts' = [contexts EXCEPT ![e] = Without(e, id)]
              /\ call' = [call EXCEPT ![c].id = id, ![c].pc = "failed"]
              /\ UNCHANGED wire
        /\ UNCHANGED <<ends, method, woken>>

\* next_transmission_id() raises.
OpenFails(c) ==
    /\ call[c].pc = "new"
    /\ outbound_transmission_id[Caller(c)] > MAX_TRANSMISSION_ID
    /\ call' = [call EXCEPT ![c].pc = "failed"]
    /\ UNCHANGED <<ends, wire, outbound_transmission_id, contexts, method, woken>>

\* The requests of a stream; the last one, or a message after it, ends it.
SendRequest(c) ==
    /\ call[c].pc = "sending" /\ open[Caller(c)]
    /\ \E end \in BOOLEAN, request \in Payloads("empty_request") :
          /\ IF request = "none" THEN end ELSE call[c].sent < MaxRequests
          /\ Deliver(Caller(c),
                     <<Message(call[c].id, c, "REQUEST", end, FALSE, request = "full")>>)
          /\ call' = [call EXCEPT ![c].sent = IF request = "none" THEN @ ELSE @ + 1,
                                  ![c].pc = IF end THEN "receiving" ELSE @]
    /\ UNCHANGED <<ends, outbound_transmission_id, contexts, method, woken>>

\* Sending on a finalised connection raises; so does the shutdown() in close(),
\* before the context is released.
SendFails(c) ==
    /\ call[c].pc = "sending" /\ ~open[Caller(c)]
    /\ call' = [call EXCEPT ![c].pc = "failed"]
    /\ UNCHANGED <<ends, wire, outbound_transmission_id, contexts, method, woken>>

\* Mutant: the context stays with the manager.
close_out_unreleased(c, messages) ==
    /\ IF open[Caller(c)] THEN Deliver(Caller(c), messages) ELSE UNCHANGED wire
    /\ UNCHANGED contexts

\* OutboundContext.close(), which may have something to send first.
close_out(c, messages) ==
    LET e == Caller(c) IN
    \/ /\ messages = <<>> \/ open[e]
       /\ contexts' = [contexts EXCEPT ![e] = Without(e, call[c].id)]
       /\ Deliver(e, messages)
    \/ /\ messages # <<>> /\ ~open[e]
       /\ UNCHANGED <<contexts, wire>>

\* recv_message(): a message, the end of the responses, or an error.  What
\* stands for the end is, of a single response, the response without content.
Receive(c) ==
    /\ call[c].pc = "receiving"
    /\ call[c].queue # <<>>
    /\ LET item == Head(call[c].queue)
           pc == IF item.what = "error" THEN "error"
                 ELSE IF item.what = "message" /\ server_streaming(c) THEN "receiving"
                 ELSE "done"
       IN  /\ call' = [call EXCEPT ![c].queue = IF pc = "receiving" THEN Tail(@) ELSE <<>>,
                                   ![c].pc = pc,
                                   ![c].received = IF \/ item.what = "message"
                                                      \/ item.what = "end" /\ ~server_streaming(c)
                                                   THEN @ + 1 ELSE @]
           /\ IF pc = "receiving"
              THEN UNCHANGED <<contexts, wire>>
              ELSE close_out(c, IF pc = "error" THEN <<handle_error(c)>> ELSE <<>>)
    /\ Forget(Caller(c), c)
    /\ UNCHANGED <<ends, outbound_transmission_id, method>>

\* An exception that is not a BaseEx leaves the `async with`, while requests
\* are sent or a response is awaited.
leave(c) ==
    /\ call' = [call EXCEPT ![c].pc = "cancelled", ![c].queue = <<>>]
    /\ close_out(c, IF call[c].pc = "sending" THEN <<shutdown(c)>> ELSE <<>>)
    /\ Forget(Caller(c), c)
    /\ UNCHANGED <<ends, outbound_transmission_id, method>>

Cancel(c) ==
    /\ "cancel" \in Env
    /\ call[c].pc \in {"sending", "receiving"}
    /\ leave(c)

\* recv_message() pops from the empty queue: an IndexError.
ReceiveFails(c) ==
    /\ call[c].pc = "receiving"
    /\ call[c].queue = <<>> /\ c \in woken[Caller(c)]
    /\ leave(c)
-------------------------------------------------------------------------------
(* The connection *)

\* _finnal_close(): the handler is closed, its queue dropped and its task
\* cancelled; the method it ran leaves its context, unless shutdown() raises.
finnal_close(e) ==
    /\ open' = [open EXCEPT ![e] = FALSE]
    /\ wire' = [wire EXCEPT ![e] = <<>>]
    /\ jobs' = [jobs EXCEPT ![e] = <<>>]
    /\ running' = [running EXCEPT ![e] = None]
    /\ \/ /\ running[e] = None
          /\ UNCHANGED <<contexts, method, woken>>
       \/ \E c \in Calls :
            /\ running[e] = c
            /\ Forget(e, c)
            /\ method' = [method EXCEPT ![c] = Ended(@)]
            /\ contexts' = IF server_streaming(c) /\ ~method[c].ended THEN contexts
                           ELSE [contexts EXCEPT ![e] = Without(e, call[c].id)]
    /\ UNCHANGED <<outbound_transmission_id, crashed, call>>

\* The connection is lost, or one end closes it.
Cut(e) ==
    /\ "cut" \in Env
    /\ open[e]
    /\ finnal_close(e)

\* The other end is gone: end of file, after what it had sent, or a reset.
PeerGone(e) ==
    /\ open[e] /\ ~open[Peer(e)]
    /\ finnal_close(e)
-------------------------------------------------------------------------------
(* The router *)

Received(e, m) ==
    /\ open[e]
    /\ wire[e] # <<>>
    /\ m = Head(wire[e])
    /\ wire' = [wire EXCEPT ![e] = Tail(@)]

\* A message for a call of this end.
feed_out(e, m, x) ==
    /\ x.dir = "out"
    /\ m.type # "REQUEST"
    /\ call' = [call EXCEPT ![x.call].queue = @ \o Fed(m)]
    /\ feed_waiter(e, x.call, call[x.call].pc = "receiving" /\ call[x.call].queue = <<>>, m)
    /\ UNCHANGED <<ends, outbound_transmission_id, contexts, method>>

\* A message for a method that has not ended.
feed_in(e, m, x) ==
    /\ x.dir = "in"
    /\ m.type = "REQUEST"
    /\ method[x.call].fed => client_streaming(x.call)
    /\ method' = [method EXCEPT ![x.call].queue = @ \o Fed(m), ![x.call].fed = TRUE]
    /\ feed_waiter(e, x.call, running[e] = x.call /\ ~method[x.call].read
                              /\ method[x.call].queue = <<>>, m)
    /\ UNCHANGED <<ends, outbound_transmission_id, contexts, call>>

\* A request under an id without context starts a method.
new_inbound(e, m) ==
    /\ m.type = "REQUEST"
    /\ e = "listener" => m.id % 2 = 1
    /\ method' = [method EXCEPT ![m.call] =
          [NoMethod EXCEPT !.pc = "queued", !.queue = Fed(m), !.fed = TRUE,
                           !.runs = method[m.call].runs + 1]]
    /\ contexts' = [contexts EXCEPT ![e] = @ \cup {Context(m.id, "in", m.call)}]
    /\ jobs' = [jobs EXCEPT ![e] = Append(@, m)]
    /\ UNCHANGED <<open, running, crashed, outbound_transmission_id, call, woken>>

\* Neither request nor response: answered by a job of its own.
invalid_packet_type(e, m) ==
    /\ m.type = "UNKNOWN"
    /\ jobs' = [jobs EXCEPT ![e] = Append(@, m)]
    /\ UNCHANGED <<open, running, crashed, outbound_transmission_id, contexts, call, method, woken>>

\* Mutant: a request starts a method without a look at the contexts.
feed_unshared(e, m) ==
    /\ Received(e, m)
    /\ \/ \E x \in contexts[e] : x.id = m.id /\ feed_out(e, m, x)
       \/ new_inbound(e, m)
       \/ /\ \A x \in contexts[e] : x.id # m.id
          /\ invalid_packet_type(e, m)

\* feed_messages() for one message.
feed(e, m) ==
    /\ Received(e, m)
    /\ \/ \E x \in contexts[e] : x.id = m.id /\ (feed_out(e, m, x) \/ feed_in(e, m, x))
       \/ /\ \A x \in contexts[e] : x.id # m.id
          /\ new_inbound(e, m) \/ invalid_packet_type(e, m)

\* feed_messages() raises, and data_received() with it: an assertion on the
\* packet type, a second request to a unary method, an even id, a response to
\* a call that is gone (Router has no logger), a method without route.
feed_raises(e) ==
    /\ open[e]
    /\ wire[e] # <<>>
    /\ LET m == Head(wire[e]) IN
       \/ \E x \in contexts[e] :
            /\ x.id = m.id
            /\ \/ x.dir = "out" /\ m.type = "REQUEST"
               \/ x.dir = "in" /\ m.type # "REQUEST"
               \/ x.dir = "in" /\ method[x.call].fed /\ ~client_streaming(x.call)
       \/ /\ \A x \in contexts[e] : x.id # m.id
          /\ \/ m.type = "RESPONSE"
             \/ m.type = "REQUEST" /\ e = "listener" /\ m.id % 2 = 0
             \/ m.type = "REQUEST" /\ "unknown" \in Env
    /\ finnal_close(e)
-------------------------------------------------------------------------------
(* The called side: handler, Method and InboundContext *)

\* The handler takes the next job: a method, or the answer to a message of
\* unknown type.
StartJob(e) ==
    /\ open[e] /\ ~crashed[e] /\ running[e] = None
    /\ jobs[e] # <<>>
    /\ jobs' = [jobs EXCEPT ![e] = Tail(@)]
    /\ LET m == Head(jobs[e]) IN
       \/ /\ m.type = "REQUEST"
          /\ running' = [running EXCEPT ![e] = m.call]
          /\ method' = [method EXCEPT ![m.call].pc = "running"]
          /\ UNCHANGED wire
       \/ /\ m.type # "REQUEST"
          /\ Deliver(e, <<[m EXCEPT !.type = "RESPONSE", !.failed = TRUE, !.payload = TRUE]>>)
          /\ UNCHANGED <<running, method>>
    /\ UNCHANGED <<open, crashed, outbound_transmission_id, contexts, call, woken>>

Running(c) == running[Callee(c)] = c

\* Mutant: a streaming method takes the first message for the last.
ReadRequest_once(c) ==
    /\ Running(c) /\ ~method[c].read
    /\ method[c].queue # <<>>
    /\ LET item == Head(method[c].queue)
       IN  method' = [method EXCEPT ![c].queue = Tail(@), ![c].read = TRUE,
                                    ![c].got = IF item.what = "message" \/ ~client_streaming(c)
                                               THEN @ + 1 ELSE @]
    /\ Forget(Callee(c), c)
    /\ UNCHANGED <<ends, wire, outbound_transmission_id, contexts, call>>

\* recv_message(): the request, or the next one of a stream up to its end.
ReadRequest(c) ==
    /\ Running(c) /\ ~method[c].read
    /\ method[c].queue # <<>>
    /\ LET item == Head(method[c].queue)
       IN  method' = [method EXCEPT ![c].queue = Tail(@),
                                    ![c].read = ~client_streaming(c) \/ item.what = "end",
                                    ![c].got = IF item.what = "message" \/ ~client_streaming(c)
                                               THEN @ + 1 ELSE @]
    /\ Forget(Callee(c), c)
    /\ UNCHANGED <<ends, wire, outbound_transmission_id, contexts, call>>

MayAnswer(c) == method[c].read \/ "early" \in Outcomes

Speaking(c) == Running(c) /\ c \notin woken[Callee(c)]

\* send_message(): the response, or one of a stream, perhaps with its end.  No
\* check keeps a method from more (bounds: two where one is due, MaxResponses and
\* one end without a response in a stream).
SendResponse(c) ==
    /\ Speaking(c)
    /\ ~method[c].ended \/ "again" \in Outcomes
    /\ \/ /\ call[c].kind \in {"unary", "client_stream"}
          /\ MayAnswer(c) /\ method[c].responded < 2
          /\ method' = [method EXCEPT ![c].responded = @ + 1, ![c].ended = TRUE]
          /\ \E payload \in BOOLEAN :
                Deliver(Callee(c), <<Message(call[c].id, c, "RESPONSE", TRUE, FALSE, payload)>>)
       \/ /\ server_streaming(c)
          /\ MayAnswer(c) \/ client_streaming(c)
          /\ \E end \in BOOLEAN, response \in Payloads("empty_response") :
                /\ IF response = "none" THEN end /\ ~method[c].ended
                   ELSE method[c].responded < MaxResponses
                /\ method' = [method EXCEPT
                      ![c].responded = IF response = "none" THEN @ ELSE @ + 1,
                      ![c].ended = @ \/ end]
                /\ Deliver(Callee(c),
                      <<Message(call[c].id, c, "RESPONSE", end, FALSE, response = "full")>>)
    /\ UNCHANGED <<ends, outbound_transmission_id, contexts, call, woken>>

\* Mutant: nothing tells the caller that the stream has ended.
close_in_silently(c, messages) ==
    LET e == Callee(c) IN
    /\ UNCHANGED wire
    /\ contexts' = [contexts EXCEPT ![e] = Without(e, call[c].id)]
    /\ method' = [method EXCEPT ![c] = Ended(@)]
    /\ running' = [running EXCEPT ![e] = None]
    /\ Forget(e, c)

\* InboundContext.close() at the end of the method.
close_in(c, messages) ==
    LET e == Callee(c) IN
    /\ Deliver(e, messages)
    /\ contexts' = [contexts EXCEPT ![e] = Without(e, call[c].id)]
    /\ method' = [method EXCEPT ![c] = Ended(@)]
    /\ running' = [running EXCEPT ![e] = None]
    /\ Forget(e, c)

\* Mutant: the end is sent even if the last response was marked as the end.
EndOfStream_again(c) == IF server_streaming(c) THEN <<shutdown(c)>> ELSE <<>>

EndOfStream(c) ==
    IF server_streaming(c) /\ ~method[c].ended THEN <<shutdown(c)>> ELSE <<>>

Return(c) ==
    /\ Speaking(c)
    /\ MayAnswer(c)
    /\ call[c].kind \in {"unary", "client_stream"} => method[c].ended
    /\ close_in(c, EndOfStream(c))
    /\ UNCHANGED <<open, jobs, crashed, outbound_transmission_id, call>>

\* The handler's `except Exception` writes a log.
RaiseException(c) ==
    /\ "exception" \in Outcomes
    /\ Speaking(c)
    /\ close_in(c, EndOfStream(c))
    /\ UNCHANGED <<open, jobs, crashed, outbound_transmission_id, call>>

\* recv_message() pops from the empty queue: an Exception like another.
ReadFails(c) ==
    /\ Running(c) /\ ~method[c].read
    /\ method[c].queue = <<>> /\ c \in woken[Callee(c)]
    /\ close_in(c, EndOfStream(c))
    /\ UNCHANGED <<open, jobs, crashed, outbound_transmission_id, call>>

\* The caller is told; the handler's `except BaseEx` asserts False.
RaiseBaseEx(c) ==
    /\ "BaseEx" \in Outcomes
    /\ Speaking(c)
    /\ close_in(c, <<handle_error(c)>>)
    /\ crashed' = [crashed EXCEPT ![Callee(c)] = TRUE]
    /\ UNCHANGED <<open, jobs, outbound_transmission_id, call>>
-------------------------------------------------------------------------------
feed_messages(e) == (wire[e] # <<>> /\ feed(e, Head(wire[e]))) \/ feed_raises(e)

Method(c) == ReadRequest(c) \/ SendResponse(c) \/ Return(c)

Next ==
    \/ \E c \in Calls : Open(c) \/ OpenFails(c)
    \/ \E c \in Calls : SendRequest(c) \/ SendFails(c)
    \/ \E c \in Calls : Receive(c) \/ ReceiveFails(c)
    \/ \E c \in Calls : Cancel(c)
    \/ \E e \in Ends : Cut(e)
    \/ \E e \in Ends : PeerGone(e)
    \/ \E e \in Ends : feed_messages(e)
    \/ \E e \in Ends : StartJob(e)
    \/ \E c \in Calls : Method(c)
    \/ \E c \in Calls : RaiseException(c) \/ ReadFails(c)
    \/ \E c \in Calls : RaiseBaseEx(c)

Spec == Init /\ [][Next]_vars

\* The loop reads what arrives and runs every task that can go on; callers end
\* their streams and methods return.
Fairness ==
    /\ \A e \in Ends : WF_vars(feed_messages(e)) /\ WF_vars(StartJob(e))
    /\ \A c \in Calls :
          /\ WF_vars(SendRequest(c)) /\ WF_vars(Receive(c) \/ ReceiveFails(c))
          /\ WF_vars(Method(c) \/ ReadFails(c))

FairSpec == Spec /\ Fairness
-------------------------------------------------------------------------------
Items == [what : {"message", "end", "error"}, call : Calls]
Messages ==
    [id : Nat, type : {"REQUEST", "RESPONSE", "UNKNOWN"}, end : BOOLEAN,
     failed : BOOLEAN, payload : BOOLEAN, call : Calls]

Contexts == [id : Nat, dir : {"out", "in"}, call : Calls]

\* The shape of the state; each end numbers its calls in its own parity.
TypeOK ==
    /\ open \in [Ends -> BOOLEAN] /\ crashed \in [Ends -> BOOLEAN]
    /\ wire \in [Ends -> Seq(Messages)] /\ jobs \in [Ends -> Seq(Messages)]
    /\ running \in [Ends -> Calls \cup {None}]
    /\ outbound_transmission_id \in [Ends -> Nat]
    /\ outbound_transmission_id["dialer"] % 2 = 1
    /\ outbound_transmission_id["listener"] % 2 = 0
    /\ contexts \in [Ends -> SUBSET Contexts]
    /\ woken \in [Ends -> SUBSET Calls]
    /\ call \in [Calls -> [kind : MethodKinds, id : 0 .. MAX_TRANSMISSION_ID,
                           pc : {"new", "sending", "receiving", "done", "error",
                                 "failed", "cancelled"},
                           queue : Seq(Items), sent : 0 .. MaxRequests, received : Nat]]
    /\ method \in [Calls -> [pc : {"none", "queued", "running", "ended"},
                             queue : Seq(Items), fed : BOOLEAN, read : BOOLEAN,
                             got : Nat, responded : Nat, ended : BOOLEAN, runs : Nat]]

\* Whatever is cancelled, fails or comes late, a context is only ever fed with
\* messages of its own call: the ids of the two ends do not collide and a
\* released id is not taken over (next_transmission_id, feed_messages).
NoCrossTalk ==
    \A c \in Calls :
        /\ \A i \in DOMAIN call[c].queue : call[c].queue[i].call = c
        /\ \A i \in DOMAIN method[c].queue : method[c].queue[i].call = c

\* While an end is open its manager holds one context for each call that still
\* waits and each method that still runs, and no other: none is leaked, none
\* released while in use (Context.close, release_context).
ContextsMatch ==
    \A e \in Ends : open[e] =>
        contexts[e] =
            {Context(call[c].id, "out", c) :
                c \in {d \in Calls : Caller(d) = e /\ call[d].pc \in {"sending", "receiving"}}}
            \cup {Context(call[c].id, "in", c) :
                c \in {d \in Calls : Callee(d) = e /\ method[d].pc \in {"queued", "running"}}}

\* Two ends that keep to the protocol never make each other close: no message
\* trips an assertion of feed_message or feed_messages.  (Not to put an empty
\* response into a stream is part of it: the caller leaves by an IndexError and
\* the next response finds it gone.)
StaysOpen == \A e \in Ends : open[e]

\* The messages of one call start one method: a request never finds the
\* context of its stream gone (the check before new_inbound_context).  An empty
\* request of a stream ends its method, and the next one starts it again.
RunOnce == \A c \in Calls : method[c].runs <= 1

\* When a call is done and its method has ended, the method has read every
\* request of the stream and the caller every response (the END flags).
StreamsComplete ==
    \A c \in Calls :
        call[c].pc = "done" /\ method[c].pc = "ended" =>
        /\ call[c].received = method[c].responded
        /\ method[c].got = IF client_streaming(c) THEN call[c].sent ELSE 1

\* Every call that has been opened returns to its caller, also when calls of
\* both ends queue behind each other in the two serial handlers.  (A call is
\* opened once: if each of them returns, at last none is under way.)  It is asked
\* of an open connection and streams without empty messages.
CallsReturn ==
    <>[](\A c \in Calls : call[c].pc \in {"new", "done"})

\* A call as the two programs at its ends see it.
Replies(c) == IF call[c].kind = "void" THEN "none"
              ELSE IF server_streaming(c) THEN "many" ELSE "one"
CallerState(c) == IF call[c].pc \in {"new", "done"} THEN call[c].pc
                  ELSE IF call[c].pc \in {"sending", "receiving"} THEN "open" ELSE "failed"
MethodState(c) == IF method[c].pc \in {"running", "ended"} THEN method[c].pc ELSE "idle"
SentCount(c) == IF client_streaming(c) THEN call[c].sent
                ELSE IF call[c].pc \in {"new", "failed"} THEN 0 ELSE 1

Calling == INSTANCE RemoteCalls WITH
    MayBreak <- Env # {},
    replies <- [c \in Calls |-> Replies(c)],
    caller <- [c \in Calls |-> CallerState(c)],
    method <- [c \in Calls |-> MethodState(c)],
    sent <- [c \in Calls |-> SentCount(c)],
    taken <- [c \in Calls |-> method[c].got],
    given <- [c \in Calls |-> method[c].responded],
    received <- [c \in Calls |-> call[c].received]

\* As long as methods return and no message of a stream is empty, a connection
\* carries RemoteCalls, whatever is cancelled or lost on the way: at most one run
\* of a method for each call, no message that was not sent, and no call done
\* without all of its responses.
ImplementsRemoteCalls == Calling!Spec
===============================================================================
