------------------------------- MODULE JsClient -------------------------------
(***************************************************************************)
(* The JavaScript client (plugin/js/pymaid.js): a Channel, the             *)
(* WSConnections it makes, the StubManager whose stubs the page calls and  *)
(* the Listener for what the server asks.                                  *)
(*                                                                         *)
(* The page is one thread: an action is one event handler, timer or call   *)
(* of the page with everything it calls, callbacks included, and is        *)
(* written as a function from one heap to the next.  The browser's         *)
(* WebSocket is external: send() throws while it connects, is silently     *)
(* ignored once it is closing, and only an open socket delivers messages.  *)
(* So is the server, which answers in any order, more than once, with      *)
(* packets that are no responses, or not at all.                           *)
(***************************************************************************)
EXTENDS Naturals, Sequences, FiniteSets

CONSTANTS Calls,        \* the calls the page may make
          Voids,        \* those whose output_type is Void
          Addresses,
          MaxConns,     \* bound: connections made
          MaxReplies,   \* bound: packets on their way from the server
          Env,          \* the optional events
          None

\* "lost": a connection fails or is closed by the server; "retry": a callback
\* that gets an error makes another call; "throw": such a callback throws.
EnvEvents == {"lost", "retry", "throw"}

Conns == 1 .. MaxConns

ASSUME JsAssumption ==
    /\ Voids \subseteq Calls
    /\ MaxConns \in Nat /\ MaxReplies \in Nat
    /\ Env \subseteq EnvEvents
    /\ None \notin Calls \cup Conns

VARIABLES
    CONNID,     \* connections made so far
    conn,       \* per connection: the WSConnection and the state of its ws
    requests,   \* per connection: packets the server has yet to deal with
    replies,    \* per connection: packets on their way to the page
    channel,    \* the Channel: conn and is_closed
    stubs,      \* conn of the StubManager
    call,       \* per call: how far it is and what its callback was given
    thrown      \* history: calls whose callback threw inside a cleanup

heap == [conn |-> conn, requests |-> requests, replies |-> replies, call |-> call]
vars == <<CONNID, conn, requests, replies, channel, stubs, call, thrown>>

\* A pending callback, or a request: which id stands for which call.  Packets
\* name their call as well, a history that no decision looks at.
Entry(id, x) == [id |-> id, call |-> x]
Packet(type, id, x) == [type |-> type, id |-> id, call |-> x]

\* is_closed is undefined from the constructor until onopen.
WSConnection(ws, address) ==
    [ws |-> ws, address |-> address, is_closed |-> "undefined",
     transmissionId |-> 0, transmissions |-> {}]

NewCall == [pc |-> "new", conn |-> None, answers |-> 0, of |-> None]

Init ==
    /\ CONNID = 0
    /\ conn = [c \in Conns |-> WSConnection("none", None)]
    /\ requests = [c \in Conns |-> {}]
    /\ replies = [c \in Conns |-> <<>>]
    /\ channel = [conn |-> None, is_closed |-> TRUE]
    /\ stubs = None
    /\ call = [x \in Calls |-> NewCall]
    /\ thrown = {}

\* The new heap of a step, variable by variable.
Become(h) ==
    /\ conn' = h.conn /\ requests' = h.requests
    /\ replies' = h.replies /\ call' = h.call
-------------------------------------------------------------------------------
(* Callbacks, stubs and clean-up, as functions of the heap *)

\* Bound: a callback is counted up to two times.
Once(n) == IF n = 2 THEN 2 ELSE n + 1

\* A call whose callback runs.
called_back(k) == [k EXCEPT !.pc = "returned", !.answers = Once(@)]

\* The callbacks of the calls in S run with an error.
failed(h, S) ==
    [h EXCEPT !.call = [x \in Calls |->
        IF x \in S THEN called_back(h.call[x]) ELSE h.call[x]]]

\* Mutant: the id is taken but not counted on.
stub_same_id(h, x, s) ==
    IF s = None \/ h.conn[s].is_closed = "yes" THEN [h EXCEPT !.call[x].pc = "timer"]
    ELSE [h EXCEPT !.conn[s].transmissions = @ \cup {Entry(0, x)},
                   !.requests[s] = IF h.conn[s].ws = "OPEN" THEN @ \cup {Entry(0, x)} ELSE @,
                   !.call[x].pc = "waiting", !.call[x].conn = s]

\* A call with a response takes an id of its connection.
transmission_id(h, x, s) == IF x \in Voids THEN 0 ELSE h.conn[s].transmissionId
numbered(h, x, s) ==
    IF x \in Voids THEN h ELSE [h EXCEPT !.conn[s].transmissionId = @ + 1]

\* send() of a socket that is closing does nothing.
sent(h, x, s) ==
    [numbered(h, x, s) EXCEPT !.requests[s] =
        IF h.conn[s].ws = "OPEN" THEN @ \cup {Entry(transmission_id(h, x, s), x)} ELSE @]

registered(h, x, s) ==
    [sent(h, x, s) EXCEPT
        !.conn[s].transmissions = @ \cup {Entry(transmission_id(h, x, s), x)},
        !.call[x].pc = "waiting", !.call[x].conn = s]

\* stub.method(req, cb, conn) on connection s: a timer reports a connection
\* that is gone, and a method without response; otherwise an id is taken, the
\* packet is sent and the callback registered, whatever became of the packet.
stub(h, x, s) ==
    IF s = None \/ h.conn[s].is_closed = "yes" THEN [h EXCEPT !.call[x].pc = "timer"]
    ELSE IF h.conn[s].ws = "CONNECTING" THEN [numbered(h, x, s) EXCEPT !.call[x].pc = "raised"]
    ELSE IF x \in Voids THEN [sent(h, x, s) EXCEPT !.call[x].pc = "timer"]
    ELSE registered(h, x, s)

\* A callback that failed may call again.  An entry made on the connection that
\* is being cleaned is dropped with the table.
retried(h, c, r, s) ==
    IF r = None THEN h
    ELSE LET h1 == stub(h, r, s)
         IN  IF h1.call[r].pc = "waiting" /\ h1.call[r].conn = c
             THEN [h1 EXCEPT !.call[r].pc = "dropped", !.conn[c].transmissions = {}]
             ELSE h1

\* Mutant: the table is emptied and nobody is told.
cleanup_silent(h, c, stop, r, s) == [h EXCEPT !.conn[c].transmissions = {}]

\* Mutant: the callbacks run, the table stays.
cleanup_keeping(h, c, stop, r, s) ==
    failed(h, {e.call : e \in h.conn[c].transmissions})

\* Callbacks run in the order of their ids, each before its entry is deleted.
\* stop is the entry whose callback throws, which ends the loop.
Reached(h, c, stop) == {e \in h.conn[c].transmissions : stop = None \/ e.id <= stop.id}
Left(h, c, stop) == {e \in h.conn[c].transmissions : stop # None /\ e.id >= stop.id}

told(h, c, stop) ==
    [failed(h, {e.call : e \in Reached(h, c, stop)})
        EXCEPT !.conn[c].transmissions = Left(h, c, stop)]

cleanup(h, c, stop, r, s) ==
    retried(told(h, c, stop), c, IF Reached(h, c, stop) = {} THEN None ELSE r, s)

\* Neither side gets what is still under way.
Cut(h, c, ws) ==
    [h EXCEPT !.conn[c].ws = ws, !.requests[c] = {}, !.replies[c] = <<>>]

\* WSConnection.close(): ws.close() does nothing to a socket that is closing.
close(h, c, stop, r, s) ==
    cleanup(Cut(h, c, IF h.conn[c].ws = "CLOSED" THEN "CLOSED" ELSE "CLOSING"),
            c, stop, r, s)

\* Where the callbacks of a connection may stop, and the calls they may make.
Stops(c) == {None} \cup (IF "throw" \in Env THEN conn[c].transmissions ELSE {})
Retries(stop) ==
    {None} \cup (IF "retry" \in Env /\ stop = None
                 THEN {x \in Calls : call[x].pc = "new"} ELSE {})
Throwing(stop) == IF stop = None THEN {} ELSE {stop.call}
-------------------------------------------------------------------------------
(* The page *)

isAlreadyConnected(a) ==
    /\ channel.conn # None
    /\ conn[channel.conn].address = a
    /\ conn[channel.conn].is_closed # "yes"

\* connect() to an address it is not connected to already.
connect(a) ==
    /\ CONNID < MaxConns
    /\ ~isAlreadyConnected(a)
    /\ CONNID' = CONNID + 1
    /\ conn' = [conn EXCEPT ![CONNID + 1] = WSConnection("CONNECTING", a)]
    /\ UNCHANGED <<requests, replies, channel, stubs, call, thrown>>

\* A call through the stubs, or on a connection that connect() returned.
Call(x) ==
    /\ call[x].pc = "new"
    /\ \E s \in {stubs} \cup 1 .. CONNID : Become(stub(heap, x, s))
    /\ UNCHANGED <<CONNID, channel, stubs, thrown>>

\* setTimeout(cb, 0)
timeout(x) ==
    /\ call[x].pc = "timer"
    /\ call' = [call EXCEPT ![x] = called_back(@)]
    /\ UNCHANGED <<CONNID, conn, requests, replies, channel, stubs, thrown>>

\* Channel.close().  A callback that throws skips its last assignment.
Channel_close ==
    /\ ~channel.is_closed
    /\ \E stop \in Stops(channel.conn) : \E r \in Retries(stop) :
          /\ Become(close(heap, channel.conn, stop, r, stubs))
          /\ channel' = [conn |-> IF stop = None THEN None ELSE channel.conn,
                         is_closed |-> TRUE]
          /\ thrown' = thrown \cup Throwing(stop)
    /\ UNCHANGED <<CONNID, stubs>>

\* conn.close() by the page, of a connection that connect() returned.
conn_close(c) ==
    /\ c <= CONNID
    /\ \E stop \in Stops(c) : \E r \in Retries(stop) :
          /\ Become(close(heap, c, stop, r, stubs))
          /\ thrown' = thrown \cup Throwing(stop)
    /\ UNCHANGED <<CONNID, channel, stubs>>

\* A new StubManager is bound to whatever the channel has.
init_stubs ==
    /\ stubs' = channel.conn
    /\ UNCHANGED <<CONNID, conn, requests, replies, channel, call, thrown>>
-------------------------------------------------------------------------------
(* Events of a WebSocket *)

\* Mutant: the stubs stay with the connection they have.
bindConnection_never(c) == stubs

\* The stubs take the connection unless theirs is not closed.
bindConnection(c) ==
    IF stubs # None /\ conn[stubs].is_closed # "yes" THEN stubs ELSE c

\* onopen, and connection_made of the channel.
onopen(c) ==
    /\ conn[c].ws = "CONNECTING"
    /\ conn' = [conn EXCEPT ![c].ws = "OPEN", ![c].is_closed = "no"]
    /\ channel' = [conn |-> c, is_closed |-> FALSE]
    /\ stubs' = bindConnection(c)
    /\ UNCHANGED <<CONNID, requests, replies, call, thrown>>

\* connection_closed() of the channel closes the connection it has by now, be
\* it the one that was closed or a later one.
connection_closed(h, c, stop, r) ==
    IF channel.is_closed THEN h ELSE close(h, channel.conn, stop, r, stubs)

\* onclose: the channel first, then the clean-up of the connection itself.  A
\* callback that throws in the first leaves the rest of the handler undone.
onclose(c) ==
    LET closed == [Cut(heap, c, "CLOSED") EXCEPT !.conn[c].is_closed = "yes"]
        stops == IF channel.is_closed THEN {None} ELSE Stops(channel.conn)
    IN  /\ conn[c].ws \in {"CONNECTING", "OPEN", "CLOSING"}
        /\ \/ \E stop \in Stops(c) : \E r \in Retries(stop) :
                 LET h == connection_closed(closed, c, None, r)
                     again == IF r # None /\ h.call[r].pc = "new" THEN r ELSE None
                 IN  /\ Become(cleanup(h, c, IF stop \in h.conn[c].transmissions
                                             THEN stop ELSE None, again, None))
                     /\ channel' = IF channel.is_closed THEN channel
                                   ELSE [conn |-> None, is_closed |-> TRUE]
                     /\ stubs' = None
                     /\ thrown' = thrown \cup
                           (IF stop \in h.conn[c].transmissions THEN Throwing(stop) ELSE {})
           \/ \E stop \in stops \ {None} :
                 /\ Become(connection_closed(closed, c, stop, None))
                 /\ channel' = [channel EXCEPT !.is_closed = TRUE]
                 /\ thrown' = thrown \cup Throwing(stop)
                 /\ UNCHANGED stubs
        /\ UNCHANGED CONNID

\* The closing handshake that close() has begun ends.
Closed(c) == conn[c].ws = "CLOSING" /\ onclose(c)

\* A connection fails, before or after it was open.
Lost(c) ==
    /\ "lost" \in Env
    /\ conn[c].ws \in {"CONNECTING", "OPEN"}
    /\ onclose(c)

\* The server begins the closing handshake; no handler runs yet.
PeerCloses(c) ==
    /\ "lost" \in Env
    /\ conn[c].ws = "OPEN"
    /\ Become(Cut(heap, c, "CLOSING"))
    /\ UNCHANGED <<CONNID, channel, stubs, thrown>>

\* The callback of entry e is run with packet p.
answered(h, c, e, p) ==
    [h EXCEPT !.conn[c].transmissions = @ \ {e},
              !.call[e.call] = [called_back(@) EXCEPT !.of = p.call]]

\* onmessage for a response: the callback of its id runs, or there is none.
onmessage(c) ==
    /\ conn[c].ws = "OPEN" /\ replies[c] # <<>>
    /\ LET p == Head(replies[c])
           taken == [heap EXCEPT !.replies[c] = Tail(@)]
       IN  /\ p.type = "RESPONSE"
           /\ \/ \E e \in conn[c].transmissions :
                    e.id = p.id /\ Become(answered(taken, c, e, p))
              \/ /\ \A e \in conn[c].transmissions : e.id # p.id
                 /\ Become(taken)
    /\ UNCHANGED <<CONNID, channel, stubs, thrown>>

\* Every other packet goes to the listener.  One without an implementation is
\* logged; where there is one, the answer it gives raises an exception before
\* it is sent, as `context` is a plain object without setters.
Listener_onmessage(c) ==
    /\ conn[c].ws = "OPEN" /\ replies[c] # <<>>
    /\ Head(replies[c]).type # "RESPONSE"
    /\ Become([heap EXCEPT !.replies[c] = Tail(@)])
    /\ UNCHANGED <<CONNID, channel, stubs, thrown>>
-------------------------------------------------------------------------------
(* The server (external) *)

Reply(c, p) == replies' = [replies EXCEPT ![c] = Append(@, p)]

\* A response, the last one of its call or not.
ServerAnswers(c, e) ==
    /\ e \in requests[c] /\ e.call \notin Voids
    /\ Reply(c, Packet("RESPONSE", e.id, e.call))
    /\ \/ requests' = [requests EXCEPT ![c] = @ \ {e}]
       \/ UNCHANGED requests

\* pymaid's own errors carry no packet_type.
ServerFails(c, e) ==
    /\ e \in requests[c]
    /\ Reply(c, Packet("UNKNOWN", e.id, e.call))
    /\ requests' = [requests EXCEPT ![c] = @ \ {e}]

\* The server calls a method of the page.
ServerCalls(c) ==
    /\ Reply(c, Packet("REQUEST", 0, None))
    /\ UNCHANGED requests

Server(c) ==
    /\ conn[c].ws = "OPEN" /\ Len(replies[c]) < MaxReplies
    /\ \/ \E e \in requests[c] : ServerAnswers(c, e) \/ ServerFails(c, e)
       \/ ServerCalls(c)
    /\ UNCHANGED <<CONNID, conn, channel, stubs, call, thrown>>
-------------------------------------------------------------------------------
Next ==
    \/ \E a \in Addresses : connect(a)
    \/ \E x \in Calls : Call(x) \/ timeout(x)
    \/ Channel_close \/ init_stubs
    \/ \E c \in Conns :
          \/ conn_close(c) \/ onopen(c) \/ Closed(c) \/ Lost(c) \/ PeerCloses(c)
          \/ onmessage(c) \/ Listener_onmessage(c) \/ Server(c)

Spec == Init /\ [][Next]_vars
-------------------------------------------------------------------------------
(* Properties *)

PCs == {"new", "waiting", "timer", "returned", "raised", "dropped"}

\* The shape of the state.
TypeOK ==
    /\ CONNID \in 0 .. MaxConns
    /\ conn \in [Conns -> [ws : {"none", "CONNECTING", "OPEN", "CLOSING", "CLOSED"},
                           address : Addresses \cup {None},
                           is_closed : {"undefined", "no", "yes"},
                           transmissionId : Nat,
                           transmissions : SUBSET [id : Nat, call : Calls]]]
    /\ requests \in [Conns -> SUBSET [id : Nat, call : Calls]]
    /\ replies \in [Conns -> Seq([type : {"RESPONSE", "UNKNOWN", "REQUEST"},
                                  id : Nat, call : Calls \cup {None}])]
    /\ channel \in [conn : Conns \cup {None}, is_closed : BOOLEAN]
    /\ stubs \in Conns \cup {None}
    /\ call \in [Calls -> [pc : PCs, conn : Conns \cup {None}, answers : 0 .. 2,
                           of : Calls \cup {None}]]
    /\ thrown \in SUBSET Calls

\* A callback runs at most once, by whichever of a response, a timer, a close
\* by the page, a close event and a failed send it is reached, unless it threw
\* inside a clean-up (pymaid.js, cleanup: the entry is deleted after the call).
CallbackAtMostOnce ==
    \A x \in Calls : call[x].answers <= (IF x \in thrown THEN 2 ELSE 1)

\* A callback is never given the response to another call, whatever the order
\* and number of responses and however often the page connects again.
OwnAnswer == \A x \in Calls : call[x].of \in {None, x}

\* What waits is in the table of its connection, and that connection still has
\* its close event to come, which will tell it (onclose, cleanup).
NoneForgotten ==
    \A x \in Calls : call[x].pc = "waiting" =>
        LET c == conn[call[x].conn]
        IN  /\ \E e \in c.transmissions : e.call = x
            /\ c.is_closed = "yes" => thrown # {}

\* While the channel is open its stubs have a connection that is not closed,
\* though it may not be the channel's own (bindConnection, connection_closed).
StubsBound ==
    ~channel.is_closed => stubs # None /\ conn[stubs].is_closed = "no"

\* A closed connection takes no further call: a callback that is registered
\* there would never be told (Stub: conn.is_closed).
ClosedTakesNothing ==
    [][\A c \in Conns : conn[c].is_closed = "yes" =>
           conn'[c].transmissions \subseteq conn[c].transmissions]_vars
===============================================================================
