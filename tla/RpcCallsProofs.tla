---------------------------- MODULE RpcCallsProofs ----------------------------
(***************************************************************************)
(* Proofs about RpcCalls, for any calls of any kinds from both ends, any   *)
(* outcome of the methods and any of the optional events.                  *)
(***************************************************************************)
EXTENDS RpcCalls, SequenceTheorems, TLAPS

CallRecords ==
    [kind : MethodKinds, id : 0 .. MAX_TRANSMISSION_ID,
     pc : {"new", "sending", "receiving", "done", "error", "failed", "cancelled"},
     queue : Seq(Items), sent : 0 .. MaxRequests, received : Nat]
MethodRecords ==
    [pc : {"none", "queued", "running", "ended"}, queue : Seq(Items), fed : BOOLEAN,
     read : BOOLEAN, got : Nat, responded : Nat, ended : BOOLEAN, runs : Nat]
-------------------------------------------------------------------------------
(* Facts about the operators *)

\* The two ends and the calls between them.
LEMMA EndFacts ==
  /\ \A e \in Ends : Peer(e) \in Ends
  /\ \A c \in Calls : Caller(c) \in Ends /\ Callee(c) \in Ends
  BY DEF Ends, Peer, Caller, Callee

\* A sequence of one element.
LEMMA OneElement == ASSUME NEW S, NEW s \in S PROVE <<s>> \in Seq(S)
  OBVIOUS

\* Sending appends messages of the same sort to one wire, or to none.
LEMMA DeliverKeeps ==
  ASSUME NEW S, wire \in [Ends -> Seq(S)], NEW e \in Ends, NEW messages \in Seq(S),
         Deliver(e, messages)
  PROVE  wire' \in [Ends -> Seq(S)]
<1>1. wire[Peer(e)] \o messages \in Seq(S)
  BY EndFacts, ConcatProperties
<1>2. QED
  BY <1>1, EndFacts DEF Deliver

\* The items of one call's queues.
OwnItems(c) == {i \in Items : i.call = c}

\* What feed_message appends belongs to the call of the message.
LEMMA FedOwn ==
  ASSUME NEW m \in Messages
  PROVE  Fed(m) \in Seq(OwnItems(m.call))
<1> DEFINE it(w) == [what |-> w, call |-> m.call]
<1>1. m.call \in Calls
  BY DEF Messages
<1>2. \A w \in {"message", "end", "error"} : it(w) \in OwnItems(m.call)
  BY <1>1 DEF OwnItems, Items
<1>3. /\ <<it("error")>> \in Seq(OwnItems(m.call))
      /\ <<it("message")>> \in Seq(OwnItems(m.call))
      /\ <<it("end")>> \in Seq(OwnItems(m.call))
  BY <1>2, OneElement
<1>4. <<>> \in Seq(OwnItems(m.call))
  BY EmptySeq
<1> QED
  BY <1>3, <1>4, ConcatProperties DEF Fed

LEMMA FedItems == ASSUME NEW m \in Messages PROVE Fed(m) \in Seq(Items)
<1>1. OwnItems(m.call) \subseteq Items
  BY DEF OwnItems
<1>2. Fed(m) \in Seq(OwnItems(m.call))
  BY FedOwn
<1> HIDE DEF OwnItems
<1>3. QED
  BY <1>1, <1>2, SeqMonotonic

\* Stepping by two keeps the parity.
LEMMA ParityKept == \A n \in Nat : (n + 2) % 2 = n % 2
  BY SMT
-------------------------------------------------------------------------------
(* The shape of the state *)

\* A function with one value changed.
LEMMA FunctionUpdated ==
  ASSUME NEW S, NEW T, NEW f \in [S -> T], NEW x \in S, NEW v \in T
  PROVE  [f EXCEPT ![x] = v] \in [S -> T]
  OBVIOUS

\* TypeOK by variable.
LEMMA TypeFacts ==
  TypeOK <=>
    /\ open \in [Ends -> BOOLEAN] /\ crashed \in [Ends -> BOOLEAN]
    /\ wire \in [Ends -> Seq(Messages)] /\ jobs \in [Ends -> Seq(Messages)]
    /\ running \in [Ends -> Calls \cup {None}]
    /\ outbound_transmission_id \in [Ends -> Nat]
    /\ outbound_transmission_id["dialer"] % 2 = 1
    /\ outbound_transmission_id["listener"] % 2 = 0
    /\ contexts \in [Ends -> SUBSET Contexts]
    /\ woken \in [Ends -> SUBSET Calls]
    /\ call \in [Calls -> CallRecords]
    /\ method \in [Calls -> MethodRecords]
  BY DEF TypeOK, CallRecords, MethodRecords

LEMMA TypeInit == Init => TypeOK
<1> SUFFICES ASSUME Init PROVE TypeOK
  OBVIOUS
<1>1. \A S : <<>> \in Seq(S)
  BY EmptySeq
<1>2. call \in [Calls -> CallRecords]
  <2> PICK kind \in [Calls -> MethodKinds] :
        call = [c \in Calls |-> [kind |-> kind[c], pc |-> "new", id |-> 0,
                                 queue |-> <<>>, sent |-> 0, received |-> 0]]
    BY DEF Init
  <2> QED
    BY <1>1, RpcAssumption DEF CallRecords
<1>3. method \in [Calls -> MethodRecords]
  BY <1>1 DEF Init, MethodRecords, NoMethod
<1>4. /\ outbound_transmission_id \in [Ends -> Nat]
      /\ outbound_transmission_id["dialer"] % 2 = 1
      /\ outbound_transmission_id["listener"] % 2 = 0
  BY SMT DEF Init, first_transmission_id, Ends
<1>5. /\ open \in [Ends -> BOOLEAN] /\ crashed \in [Ends -> BOOLEAN]
      /\ wire \in [Ends -> Seq(Messages)] /\ jobs \in [Ends -> Seq(Messages)]
      /\ running \in [Ends -> Calls \cup {None}]
      /\ contexts \in [Ends -> SUBSET Contexts]
      /\ woken \in [Ends -> SUBSET Calls]
  BY <1>1 DEF Init
<1>6. QED
  BY <1>2, <1>3, <1>4, <1>5, TypeFacts

\* The messages the calls and methods send.
LEMMA MessageTypes ==
  ASSUME TypeOK, NEW c \in Calls
  PROVE  /\ handle_error(c) \in Messages /\ shutdown(c) \in Messages
         /\ \A type \in {"REQUEST", "RESPONSE", "UNKNOWN"} : \A end \in BOOLEAN :
              \A failed \in BOOLEAN : \A payload \in BOOLEAN :
                Message(call[c].id, c, type, end, failed, payload) \in Messages
<1>1. call[c].id \in Nat
  BY RpcAssumption, TypeFacts DEF CallRecords
<1>2. QED
  BY <1>1 DEF handle_error, shutdown, Message, Messages

\* Contexts are added and removed by id.
LEMMA ContextTypes ==
  ASSUME TypeOK, NEW e \in Ends, NEW id \in Nat
  PROVE  /\ Without(e, id) \in SUBSET Contexts
         /\ \A dir \in {"out", "in"} : \A c \in Calls : Context(id, dir, c) \in Contexts
  BY TypeFacts DEF Without, Context, Contexts

\* Whom a message wakes, and who wakes.
LEMMA WokenType ==
  ASSUME TypeOK, NEW e \in Ends, NEW c \in Calls,
         UNCHANGED woken \/ Forget(e, c) \/ (\E m, w : feed_waiter(e, c, w, m))
  PROVE  woken' \in [Ends -> SUBSET Calls]
<1>1. woken \in [Ends -> SUBSET Calls]
  BY TypeFacts
<1>2. woken[e] \ {c} \in SUBSET Calls /\ woken[e] \cup {c} \in SUBSET Calls
  BY <1>1
<1>3. \/ woken' = woken
      \/ woken' = [woken EXCEPT ![e] = woken[e] \ {c}]
      \/ woken' = [woken EXCEPT ![e] = woken[e] \cup {c}]
  BY DEF Forget, feed_waiter
<1>4. QED
  BY <1>1, <1>2, <1>3, FunctionUpdated

\* close() keeps the shape of the two variables it changes.
LEMMA CloseOutType ==
  ASSUME TypeOK, NEW c \in Calls, NEW messages \in Seq(Messages), close_out(c, messages)
  PROVE  contexts' \in [Ends -> SUBSET Contexts] /\ wire' \in [Ends -> Seq(Messages)]
<1>1. Caller(c) \in Ends /\ call[c].id \in Nat
  BY EndFacts, RpcAssumption, TypeFacts DEF CallRecords
<1>2. wire' \in [Ends -> Seq(Messages)]
  BY <1>1, DeliverKeeps, TypeFacts DEF close_out
<1>3. contexts' \in [Ends -> SUBSET Contexts]
  <2>1. contexts \in [Ends -> SUBSET Contexts] /\ Without(Caller(c), call[c].id) \in SUBSET Contexts
    BY <1>1, ContextTypes, TypeFacts
  <2>2. \/ contexts' = [contexts EXCEPT ![Caller(c)] = Without(Caller(c), call[c].id)]
        \/ contexts' = contexts
    BY DEF close_out
  <2>3. QED
    BY <1>1, <2>1, <2>2
<1>4. QED
  BY <1>2, <1>3

\* A request of a stream, or its end alone: what is counted, what is sent.
LEMMA RequestGiven ==
  ASSUME TypeOK, NEW c \in Calls, SendRequest(c)
  PROVE  \E end, payload \in BOOLEAN, n \in {0, 1} :
           /\ n = 0 => end /\ ~payload
           /\ n = 1 => call[c].sent < MaxRequests
           /\ n = 1 /\ ~payload => "empty_request" \in Env
           /\ call' = [call EXCEPT ![c].sent = @ + n,
                                  ![c].pc = IF end THEN "receiving" ELSE "sending"]
           /\ Deliver(Caller(c),
                      <<Message(call[c].id, c, "REQUEST", end, FALSE, payload)>>)
<1>1. call \in [Calls -> CallRecords] /\ call[c].sent \in 0 .. MaxRequests
  BY TypeFacts DEF CallRecords
<1>2. PICK end \in BOOLEAN, request \in Payloads("empty_request") :
        /\ IF request = "none" THEN end ELSE call[c].sent < MaxRequests
        /\ Deliver(Caller(c),
                   <<Message(call[c].id, c, "REQUEST", end, FALSE, request = "full")>>)
        /\ call' = [call EXCEPT ![c].sent = IF request = "none" THEN @ ELSE @ + 1,
                                ![c].pc = IF end THEN "receiving" ELSE @]
  BY DEF SendRequest
<1> DEFINE n == IF request = "none" THEN 0 ELSE 1
           payload == (request = "full")
<1>3. /\ n \in {0, 1} /\ payload \in BOOLEAN
      /\ n = 0 => end /\ ~payload
      /\ n = 1 => call[c].sent < MaxRequests
      /\ n = 1 /\ ~payload => "empty_request" \in Env
  BY <1>2 DEF Payloads
<1>4. call' = [call EXCEPT ![c].sent = @ + n,
                          ![c].pc = IF end THEN "receiving" ELSE "sending"]
  <2>1. call[c].pc = "sending"
    BY DEF SendRequest
  <2>2. (IF request = "none" THEN call[c].sent ELSE call[c].sent + 1) = call[c].sent + n
    BY <1>1
  <2>3. QED
    BY <1>1, <1>2, <2>1, <2>2
<1> HIDE DEF n
<1>5. QED
  BY <1>2, <1>3, <1>4

\* A response likewise.
LEMMA ResponseGiven ==
  ASSUME TypeOK, NEW c \in Calls, SendResponse(c)
  PROVE  \E end, payload \in BOOLEAN, n \in {0, 1} :
           /\ ~server_streaming(c) => end /\ n = 1
           /\ n = 0 => end /\ ~payload
           /\ server_streaming(c) /\ n = 1 /\ ~payload => "empty_response" \in Env
           /\ method' = [method EXCEPT ![c].responded = @ + n, ![c].ended = @ \/ end]
           /\ Deliver(Callee(c),
                      <<Message(call[c].id, c, "RESPONSE", end, FALSE, payload)>>)
<1>1. /\ method \in [Calls -> MethodRecords]
      /\ method[c].responded \in Nat /\ method[c].ended \in BOOLEAN
  BY TypeFacts DEF MethodRecords
<1>2. CASE call[c].kind \in {"unary", "client_stream"}
  <2>1. PICK payload \in BOOLEAN :
          Deliver(Callee(c), <<Message(call[c].id, c, "RESPONSE", TRUE, FALSE, payload)>>)
    BY <1>2 DEF SendResponse, server_streaming
  <2>2. method' = [method EXCEPT ![c].responded = @ + 1, ![c].ended = @ \/ TRUE]
    BY <1>1, <1>2 DEF SendResponse, server_streaming
  <2>3. ~server_streaming(c)
    BY <1>2 DEF server_streaming
  <2>4. WITNESS TRUE \in BOOLEAN, payload \in BOOLEAN, 1 \in {0, 1}
  <2>5. QED
    BY <2>1, <2>2, <2>3
<1>3. CASE server_streaming(c)
  <2>1. PICK end \in BOOLEAN, response \in Payloads("empty_response") :
          /\ response = "none" => end
          /\ method' = [method EXCEPT
                ![c].responded = IF response = "none" THEN @ ELSE @ + 1,
                ![c].ended = @ \/ end]
          /\ Deliver(Callee(c),
                <<Message(call[c].id, c, "RESPONSE", end, FALSE, response = "full")>>)
    BY <1>3 DEF SendResponse, server_streaming
  <2> DEFINE n == IF response = "none" THEN 0 ELSE 1
             payload == (response = "full")
  <2>2. /\ n \in {0, 1} /\ payload \in BOOLEAN
        /\ n = 0 => end /\ ~payload
        /\ n = 1 /\ ~payload => "empty_response" \in Env
    BY <2>1 DEF Payloads
  <2>3. (IF response = "none" THEN method[c].responded ELSE method[c].responded + 1)
          = method[c].responded + n
    BY <1>1
  <2>4. method' = [method EXCEPT ![c].responded = @ + n, ![c].ended = @ \/ end]
    BY <1>1, <2>1, <2>3
  <2> HIDE DEF n
  <2>5. QED
    BY <1>3, <2>1, <2>2, <2>4
<1>4. QED
  BY <1>2, <1>3 DEF SendResponse

LEMMA OpenType == ASSUME TypeOK, NEW c \in Calls, Open(c) PROVE TypeOK'
<1> DEFINE e == Caller(c)
           id == outbound_transmission_id[e]
<1>1. e \in Ends /\ id \in Nat /\ id \in 0 .. MAX_TRANSMISSION_ID
  BY EndFacts, TypeFacts, RpcAssumption DEF Open
<1>2. /\ outbound_transmission_id' \in [Ends -> Nat]
      /\ outbound_transmission_id'["dialer"] % 2 = 1
      /\ outbound_transmission_id'["listener"] % 2 = 0
  <2>1. outbound_transmission_id' = [outbound_transmission_id EXCEPT ![e] = id + 2]
    BY DEF Open
  <2>2. \A f \in Ends : outbound_transmission_id'[f] =
          IF f = e THEN outbound_transmission_id[f] + 2 ELSE outbound_transmission_id[f]
    BY <2>1, <1>1, TypeFacts
  <2>3. "dialer" \in Ends /\ "listener" \in Ends
    BY DEF Ends
  <2>4. outbound_transmission_id' \in [Ends -> Nat]
    BY <1>1, <2>1, TypeFacts
  <2>5. QED
    BY <2>2, <2>3, <2>4, ParityKept, TypeFacts
<1>3. call' \in [Calls -> CallRecords]
  <2>1. PICK pc \in {"sending", "receiving", "done", "failed"} :
          call' = [call EXCEPT ![c].id = id, ![c].pc = pc]
    BY DEF Open
  <2>2. call \in [Calls -> CallRecords]
    BY TypeFacts
  <2>3. QED
    <3>1. [call[c] EXCEPT !.id = id, !.pc = pc] \in CallRecords
      BY <1>1, <2>2 DEF CallRecords
    <3>2. call' = [call EXCEPT ![c] = [call[c] EXCEPT !.id = id, !.pc = pc]]
      BY <2>1, <2>2
    <3>3. QED
      BY <2>2, <3>1, <3>2, FunctionUpdated
<1>4. wire' \in [Ends -> Seq(Messages)]
  <2>1. \A payload \in BOOLEAN :
          Message(id, c, "REQUEST", TRUE, FALSE, payload) \in Messages
    BY <1>1 DEF Message, Messages
  <2>2. CASE wire' = wire
    BY <2>2, TypeFacts
  <2>3. ASSUME NEW m \in Messages, Deliver(e, <<m>>) PROVE wire' \in [Ends -> Seq(Messages)]
    BY <1>1, <2>3, OneElement, DeliverKeeps, TypeFacts
  <2>4. QED
    BY <2>1, <2>2, <2>3 DEF Open
<1>5. contexts' \in [Ends -> SUBSET Contexts]
  <2>1. Without(e, id) \cup {Context(id, "out", c)} \in SUBSET Contexts
    BY <1>1, ContextTypes
  <2>2. \/ contexts' = [contexts EXCEPT ![e] = Without(e, id) \cup {Context(id, "out", c)}]
        \/ contexts' = [contexts EXCEPT ![e] = Without(e, id)]
    BY DEF Open
  <2>3. QED
    BY <1>1, <2>1, <2>2, ContextTypes, TypeFacts
<1>6. UNCHANGED <<ends, method, woken>>
  BY DEF Open
<1>7. QED
  BY <1>2, <1>3, <1>4, <1>5, <1>6, TypeFacts DEF ends, TypeOK, CallRecords, MethodRecords

\* The calling side.
LEMMA CallerTypes ==
  ASSUME TypeOK, NEW c \in Calls,
         \/ OpenFails(c) \/ SendRequest(c) \/ SendFails(c)
         \/ Receive(c) \/ Cancel(c) \/ ReceiveFails(c)
  PROVE  TypeOK'
<1>1. call \in [Calls -> CallRecords] /\ Caller(c) \in Ends /\ <<>> \in Seq(Messages)
  BY EndFacts, TypeFacts, EmptySeq
<1>2. CASE OpenFails(c)
  <2>1. call' \in [Calls -> CallRecords]
    BY <1>1, <1>2 DEF OpenFails, CallRecords
  <2>2. UNCHANGED <<ends, wire, outbound_transmission_id, contexts, method, woken>>
    BY <1>2 DEF OpenFails
  <2>3. QED
    BY <2>1, <2>2, TypeFacts DEF ends, TypeOK, CallRecords, MethodRecords
<1>3. CASE SendRequest(c)
  <2>1. call' \in [Calls -> CallRecords]
    <3>1. PICK sent \in 0 .. MaxRequests, pc \in {"sending", "receiving"} :
            call' = [call EXCEPT ![c].sent = sent, ![c].pc = pc]
      <4>1. call[c].sent \in 0 .. MaxRequests /\ MaxRequests \in Nat
        BY <1>1, RpcAssumption DEF CallRecords
      <4>2. PICK end \in BOOLEAN, n \in {0, 1} :
              /\ n = 1 => call[c].sent < MaxRequests
              /\ call' = [call EXCEPT ![c].sent = @ + n,
                                     ![c].pc = IF end THEN "receiving" ELSE "sending"]
        BY <1>3, RequestGiven
      <4>3. call[c].sent + n \in 0 .. MaxRequests
        BY <4>1, <4>2
      <4>4. QED
        BY <4>2, <4>3
    <3>2. [call[c] EXCEPT !.sent = sent, !.pc = pc] \in CallRecords
      BY <1>1 DEF CallRecords
    <3>3. QED
      BY <1>1, <3>1, <3>2
  <2>2. wire' \in [Ends -> Seq(Messages)]
    <3>1. PICK m \in Messages : Deliver(Caller(c), <<m>>)
      BY <1>3, MessageTypes DEF SendRequest
    <3>2. QED
      BY <1>1, <3>1, OneElement, DeliverKeeps, TypeFacts
  <2>3. UNCHANGED <<ends, outbound_transmission_id, contexts, method, woken>>
    BY <1>3 DEF SendRequest
  <2>4. QED
    BY <2>1, <2>2, <2>3, TypeFacts DEF ends, TypeOK, CallRecords, MethodRecords
<1>4. CASE SendFails(c)
  <2>1. call' \in [Calls -> CallRecords]
    BY <1>1, <1>4 DEF SendFails, CallRecords
  <2>2. UNCHANGED <<ends, wire, outbound_transmission_id, contexts, method, woken>>
    BY <1>4 DEF SendFails
  <2>3. QED
    BY <2>1, <2>2, TypeFacts DEF ends, TypeOK, CallRecords, MethodRecords
<1>5. CASE Receive(c)
  <2>1. call' \in [Calls -> CallRecords]
    <3>1. call[c].queue \in Seq(Items) /\ call[c].queue # <<>>
      BY <1>1, <1>5 DEF Receive, CallRecords
    <3>2. Tail(call[c].queue) \in Seq(Items) /\ <<>> \in Seq(Items)
      BY <3>1, HeadTailProperties, EmptySeq
    <3>3. PICK queue \in Seq(Items), pc \in {"receiving", "done", "error"},
               received \in {call[c].received, call[c].received + 1} :
            call' = [call EXCEPT ![c].queue = queue, ![c].pc = pc, ![c].received = received]
      BY <1>5, <3>2 DEF Receive
    <3>4. received \in Nat
      BY <1>1 DEF CallRecords
    <3>5. [call[c] EXCEPT !.queue = queue, !.pc = pc, !.received = received] \in CallRecords
      BY <1>1, <3>4 DEF CallRecords
    <3>6. QED
      BY <1>1, <3>3, <3>5
  <2>2. wire' \in [Ends -> Seq(Messages)] /\ contexts' \in [Ends -> SUBSET Contexts]
    <3>1. CASE UNCHANGED <<contexts, wire>>
      BY <3>1, TypeFacts
    <3>2. CASE close_out(c, <<handle_error(c)>>) \/ close_out(c, <<>>)
      <4>1. <<handle_error(c)>> \in Seq(Messages)
        BY MessageTypes, OneElement
      <4>2. QED
        BY <1>1, <3>2, <4>1, CloseOutType
    <3>3. QED
      BY <1>5, <3>1, <3>2 DEF Receive
  <2>3. UNCHANGED <<ends, outbound_transmission_id, method>> /\ Forget(Caller(c), c)
    BY <1>5 DEF Receive
  <2>4. woken' \in [Ends -> SUBSET Calls]
    BY <1>1, <2>3, WokenType
  <2>5. QED
    BY <2>1, <2>2, <2>3, <2>4, TypeFacts DEF ends, TypeOK, CallRecords, MethodRecords
<1>6. CASE Cancel(c) \/ ReceiveFails(c)
  <2>1. call' \in [Calls -> CallRecords]
    <3>1. call' = [call EXCEPT ![c].pc = "cancelled", ![c].queue = <<>>]
      BY <1>6 DEF Cancel, ReceiveFails, leave
    <3>2. <<>> \in Seq(Items)
      BY EmptySeq
    <3>3. QED
      <4>1. call \in [Calls -> CallRecords]
        BY TypeFacts
      <4>2. [call[c] EXCEPT !.pc = "cancelled", !.queue = <<>>] \in CallRecords
        BY <3>2, <4>1 DEF CallRecords
      <4>3. call' = [call EXCEPT ![c] = [call[c] EXCEPT !.pc = "cancelled", !.queue = <<>>]]
        BY <3>1, <4>1
      <4>4. QED
        BY <4>1, <4>2, <4>3, FunctionUpdated
  <2>2. wire' \in [Ends -> Seq(Messages)] /\ contexts' \in [Ends -> SUBSET Contexts]
    <3>1. <<shutdown(c)>> \in Seq(Messages)
      BY MessageTypes, OneElement
    <3>2. close_out(c, <<shutdown(c)>>) \/ close_out(c, <<>>)
      BY <1>6 DEF Cancel, ReceiveFails, leave
    <3>3. QED
      BY <1>1, <3>1, <3>2, CloseOutType
  <2>3. UNCHANGED <<ends, outbound_transmission_id, method>> /\ Forget(Caller(c), c)
    BY <1>6 DEF Cancel, ReceiveFails, leave
  <2>4. woken' \in [Ends -> SUBSET Calls]
    BY <1>1, <2>3, WokenType
  <2>5. QED
    BY <2>1, <2>2, <2>3, <2>4, TypeFacts DEF ends, TypeOK, CallRecords, MethodRecords
<1>7. QED
  BY <1>2, <1>3, <1>4, <1>5, <1>6

\* The end of a method keeps the shape of its record.
LEMMA EndedType ==
  ASSUME NEW m \in MethodRecords
  PROVE  Ended(m) \in MethodRecords
<1>1. <<>> \in Seq(Items)
  BY EmptySeq
<1>2. QED
  BY <1>1 DEF Ended, NoMethod, MethodRecords

\* The end of a connection.
LEMMA FinnalCloseType == ASSUME TypeOK, NEW e \in Ends, finnal_close(e) PROVE TypeOK'
<1>1. <<>> \in Seq(Messages)
  BY EmptySeq
<1>2. /\ open' \in [Ends -> BOOLEAN] /\ wire' \in [Ends -> Seq(Messages)]
      /\ jobs' \in [Ends -> Seq(Messages)] /\ running' \in [Ends -> Calls \cup {None}]
  BY <1>1, TypeFacts DEF finnal_close
<1>3. contexts' \in [Ends -> SUBSET Contexts] /\ method' \in [Calls -> MethodRecords]
  <2>1. CASE UNCHANGED <<contexts, method>>
    BY <2>1, TypeFacts
  <2>2. ASSUME NEW c \in Calls,
               method' = [method EXCEPT ![c] = Ended(@)],
               contexts' = contexts \/ contexts' = [contexts EXCEPT ![e] = Without(e, call[c].id)]
        PROVE  contexts' \in [Ends -> SUBSET Contexts] /\ method' \in [Calls -> MethodRecords]
    <3>1. method \in [Calls -> MethodRecords] /\ Ended(method[c]) \in MethodRecords
      BY TypeFacts, EndedType
    <3>2. contexts \in [Ends -> SUBSET Contexts] /\ Without(e, call[c].id) \in SUBSET Contexts
      <4>1. call[c].id \in Nat
        BY RpcAssumption, TypeFacts DEF CallRecords
      <4>2. QED
        BY <4>1, ContextTypes, TypeFacts
    <3>3. QED
      BY <2>2, <3>1, <3>2
  <2>3. QED
    BY <2>1, <2>2 DEF finnal_close
<1>4. UNCHANGED <<outbound_transmission_id, crashed, call>>
  BY DEF finnal_close
<1>5. woken' \in [Ends -> SUBSET Calls]
  BY WokenType, TypeFacts DEF finnal_close
<1>6. QED
  BY <1>2, <1>3, <1>4, <1>5, TypeFacts DEF TypeOK, CallRecords, MethodRecords

\* The router.
LEMMA FeedType ==
  ASSUME TypeOK, NEW e \in Ends, wire[e] # <<>>, feed(e, Head(wire[e]))
  PROVE  TypeOK'
<1> DEFINE m == Head(wire[e])
<1>1. m \in Messages /\ Tail(wire[e]) \in Seq(Messages)
  BY HeadTailProperties, TypeFacts
<1>2. wire' \in [Ends -> Seq(Messages)]
  BY <1>1, TypeFacts DEF feed, Received
<1>3. Fed(m) \in Seq(Items) /\ m.call \in Calls /\ m.id \in Nat
  BY <1>1, FedItems DEF Messages
<1>4. /\ method \in [Calls -> MethodRecords] /\ call \in [Calls -> CallRecords]
      /\ contexts \in [Ends -> SUBSET Contexts]
  BY TypeFacts
<1>5. Append(jobs[e], m) \in Seq(Messages) /\ jobs \in [Ends -> Seq(Messages)]
  BY <1>1, AppendProperties, TypeFacts
<1> HIDE DEF m
<1>6. ASSUME NEW x \in contexts[e], feed_out(e, m, x) PROVE TypeOK'
  <2>1. x.call \in Calls
    BY <1>4 DEF Contexts
  <2>2. call' = [call EXCEPT ![x.call].queue = @ \o Fed(m)]
    BY <1>6 DEF feed_out
  <2>3. call[x.call].queue \o Fed(m) \in Seq(Items)
    BY <1>3, <1>4, <2>1, ConcatProperties DEF CallRecords
  <2>4. call' \in [Calls -> CallRecords]
    <3>1. call \in [Calls -> CallRecords]
      BY TypeFacts
    <3>2. [call[x.call] EXCEPT !.queue = call[x.call].queue \o Fed(m)] \in CallRecords
      BY <2>1, <2>3, <3>1 DEF CallRecords
    <3>3. call' = [call EXCEPT ![x.call] =
                     [call[x.call] EXCEPT !.queue = call[x.call].queue \o Fed(m)]]
      BY <2>2
    <3>4. QED
      BY <2>1, <3>1, <3>2, <3>3, FunctionUpdated
  <2>5. UNCHANGED <<ends, outbound_transmission_id, contexts, method>>
    BY <1>6 DEF feed_out
  <2>6. woken' \in [Ends -> SUBSET Calls]
    <3>1. PICK w : feed_waiter(e, x.call, w, m)
      BY <1>6 DEF feed_out
    <3>2. QED
      BY <2>1, <3>1, WokenType
  <2>7. QED
    BY <1>2, <2>4, <2>5, <2>6, TypeFacts DEF ends, TypeOK, CallRecords, MethodRecords
<1>7. ASSUME NEW x \in contexts[e], feed_in(e, m, x) PROVE TypeOK'
  <2>1. x.call \in Calls
    BY <1>4 DEF Contexts
  <2>2. method' = [method EXCEPT ![x.call].queue = @ \o Fed(m), ![x.call].fed = TRUE]
    BY <1>7 DEF feed_in
  <2>3. method[x.call].queue \o Fed(m) \in Seq(Items)
    BY <1>3, <1>4, <2>1, ConcatProperties DEF MethodRecords
  <2>4. method' \in [Calls -> MethodRecords]
    <3>1. [method[x.call] EXCEPT !.queue = @ \o Fed(m), !.fed = TRUE] \in MethodRecords
      <4>1. ASSUME NEW r \in MethodRecords, NEW queue \in Seq(Items)
            PROVE  [r EXCEPT !.queue = queue, !.fed = TRUE] \in MethodRecords
        BY DEF MethodRecords
      <4>2. QED
        BY <1>4, <2>1, <2>3, <4>1
    <3>2. QED
      BY <1>4, <2>1, <2>2, <3>1
  <2>5. UNCHANGED <<ends, outbound_transmission_id, contexts, call>>
    BY <1>7 DEF feed_in
  <2>6. woken' \in [Ends -> SUBSET Calls]
    <3>1. PICK w : feed_waiter(e, x.call, w, m)
      BY <1>7 DEF feed_in
    <3>2. QED
      BY <2>1, <3>1, WokenType
  <2>7. QED
    BY <1>2, <2>4, <2>5, <2>6, TypeFacts DEF ends, TypeOK, CallRecords, MethodRecords
<1>8. CASE new_inbound(e, m)
  <2>1. method' \in [Calls -> MethodRecords]
    <3>1. method[m.call].runs + 1 \in Nat
      BY <1>3, <1>4 DEF MethodRecords
    <3>2. [NoMethod EXCEPT !.pc = "queued", !.queue = Fed(m), !.fed = TRUE,
                           !.runs = method[m.call].runs + 1] \in MethodRecords
      BY <1>3, <3>1 DEF MethodRecords, NoMethod
    <3>3. QED
      BY <1>3, <1>4, <1>8, <3>2 DEF new_inbound
  <2>2. contexts' \in [Ends -> SUBSET Contexts]
    <3>1. Context(m.id, "in", m.call) \in Contexts
      BY <1>3, ContextTypes
    <3>2. QED
      BY <1>4, <1>8, <3>1 DEF new_inbound
  <2>3. jobs' \in [Ends -> Seq(Messages)]
    BY <1>5, <1>8 DEF new_inbound
  <2>4. UNCHANGED <<open, running, crashed, outbound_transmission_id, call, woken>>
    BY <1>8 DEF new_inbound
  <2>5. QED
    BY <1>2, <2>1, <2>2, <2>3, <2>4, TypeFacts DEF TypeOK, CallRecords, MethodRecords
<1>9. CASE invalid_packet_type(e, m)
  <2>1. jobs' \in [Ends -> Seq(Messages)]
    BY <1>5, <1>9 DEF invalid_packet_type
  <2>2. UNCHANGED <<open, running, crashed, outbound_transmission_id, contexts, call, method, woken>>
    BY <1>9 DEF invalid_packet_type
  <2>3. QED
    BY <1>2, <2>1, <2>2, TypeFacts DEF TypeOK, CallRecords, MethodRecords
<1>10. QED
  BY <1>6, <1>7, <1>8, <1>9 DEF feed, m

\* The end of a method.
LEMMA CloseInType ==
  ASSUME TypeOK, NEW c \in Calls, NEW messages \in Seq(Messages), close_in(c, messages)
  PROVE  /\ wire' \in [Ends -> Seq(Messages)]
         /\ contexts' \in [Ends -> SUBSET Contexts]
         /\ method' \in [Calls -> MethodRecords]
         /\ running' \in [Ends -> Calls \cup {None}]
         /\ woken' \in [Ends -> SUBSET Calls]
<1>1. Callee(c) \in Ends /\ call[c].id \in Nat
  BY EndFacts, RpcAssumption, TypeFacts DEF CallRecords
<1>2. wire' \in [Ends -> Seq(Messages)]
  BY <1>1, DeliverKeeps, TypeFacts DEF close_in
<1>3. contexts' \in [Ends -> SUBSET Contexts]
  BY <1>1, ContextTypes, TypeFacts DEF close_in
<1>4. method' \in [Calls -> MethodRecords]
  <2>1. method \in [Calls -> MethodRecords]
    BY TypeFacts
  <2>2. Ended(method[c]) \in MethodRecords
    BY <2>1, EndedType
  <2>3. QED
    BY <2>1, <2>2 DEF close_in
<1>5. running' \in [Ends -> Calls \cup {None}]
  BY <1>1, TypeFacts DEF close_in
<1>6. woken' \in [Ends -> SUBSET Calls]
  BY <1>1, WokenType DEF close_in
<1>7. QED
  BY <1>2, <1>3, <1>4, <1>5, <1>6

\* The handler starts a job.
LEMMA StartJobType == ASSUME TypeOK, NEW e \in Ends, StartJob(e) PROVE TypeOK'
<1> DEFINE m == Head(jobs[e])
<1>1. m \in Messages /\ Tail(jobs[e]) \in Seq(Messages)
  BY HeadTailProperties, TypeFacts DEF StartJob
<1>2. jobs' \in [Ends -> Seq(Messages)]
  BY <1>1, TypeFacts DEF StartJob
<1>3. m.call \in Calls
  BY <1>1 DEF Messages
<1>4. running' \in [Ends -> Calls \cup {None}]
  BY <1>3, TypeFacts DEF StartJob
<1>5. method' \in [Calls -> MethodRecords]
  <2>1. method \in [Calls -> MethodRecords]
    BY TypeFacts
  <2>2. [method[m.call] EXCEPT !.pc = "running"] \in MethodRecords
    <3>1. method[m.call] \in MethodRecords
      BY <1>3, <2>1
    <3> HIDE DEF m
    <3>2. QED
      BY <3>1 DEF MethodRecords
  <2>3. method' = method \/ method' = [method EXCEPT ![m.call].pc = "running"]
    BY DEF StartJob
  <2>4. QED
    BY <1>3, <2>1, <2>2, <2>3
<1>6. wire' \in [Ends -> Seq(Messages)]
  <2>1. [m EXCEPT !.type = "RESPONSE", !.failed = TRUE, !.payload = TRUE] \in Messages
    BY <1>1 DEF Messages
  <2>2. QED
    BY <2>1, OneElement, DeliverKeeps, TypeFacts DEF StartJob
<1>7. UNCHANGED <<open, crashed, outbound_transmission_id, contexts, call, woken>>
  BY DEF StartJob
<1>8. QED
  BY <1>2, <1>4, <1>5, <1>6, <1>7, TypeFacts DEF TypeOK, CallRecords, MethodRecords

\* The called side.
LEMMA MethodTypes ==
  ASSUME TypeOK, NEW c \in Calls,
         \/ ReadRequest(c) \/ SendResponse(c) \/ Return(c)
         \/ RaiseException(c) \/ ReadFails(c) \/ RaiseBaseEx(c)
  PROVE  TypeOK'
<1>1. method \in [Calls -> MethodRecords] /\ Callee(c) \in Ends
  BY EndFacts, TypeFacts
<1>2. CASE ReadRequest(c)
  <2>1. method[c].queue \in Seq(Items) /\ method[c].queue # <<>> /\ method[c].got \in Nat
    BY <1>1, <1>2 DEF ReadRequest, MethodRecords
  <2>2. Tail(method[c].queue) \in Seq(Items)
    BY <2>1, HeadTailProperties
  <2>3. PICK read \in BOOLEAN, got \in {method[c].got, method[c].got + 1} :
          method' = [method EXCEPT ![c].queue = Tail(@), ![c].read = read, ![c].got = got]
    BY <1>2 DEF ReadRequest
  <2>4. [method[c] EXCEPT !.queue = Tail(@), !.read = read, !.got = got] \in MethodRecords
    <3>1. ASSUME NEW r \in MethodRecords, NEW queue \in Seq(Items), NEW g \in Nat
          PROVE  [r EXCEPT !.queue = queue, !.read = read, !.got = g] \in MethodRecords
      BY DEF MethodRecords
    <3>2. method[c] \in MethodRecords /\ got \in Nat
      BY <1>1, <2>1
    <3>3. QED
      BY <2>2, <3>1, <3>2
  <2>5. method' \in [Calls -> MethodRecords]
    BY <1>1, <2>3, <2>4
  <2>6. UNCHANGED <<ends, wire, outbound_transmission_id, contexts, call>>
    BY <1>2 DEF ReadRequest
  <2>7. woken' \in [Ends -> SUBSET Calls]
    BY <1>1, <1>2, WokenType DEF ReadRequest
  <2>8. QED
    BY <2>5, <2>6, <2>7, TypeFacts DEF ends, TypeOK, CallRecords, MethodRecords
<1>3. CASE SendResponse(c)
  <2>1. PICK responded \in {method[c].responded, method[c].responded + 1}, ended \in BOOLEAN :
          method' = [method EXCEPT ![c].responded = responded, ![c].ended = ended]
    <3>1. method[c].responded \in Nat /\ method[c].ended \in BOOLEAN
      BY <1>1 DEF MethodRecords
    <3>2. PICK end \in BOOLEAN, n \in {0, 1} :
            method' = [method EXCEPT ![c].responded = @ + n, ![c].ended = @ \/ end]
      BY <1>3, ResponseGiven
    <3>3. (method[c].ended \/ end) \in BOOLEAN
          /\ method[c].responded + n \in {method[c].responded, method[c].responded + 1}
      BY <3>1
    <3>4. QED
      BY <3>2, <3>3
  <2>2. method[c].responded \in Nat
    BY <1>1 DEF MethodRecords
  <2>3. [method[c] EXCEPT !.responded = responded, !.ended = ended] \in MethodRecords
    <3>1. ASSUME NEW r \in MethodRecords, NEW n \in Nat
          PROVE  [r EXCEPT !.responded = n, !.ended = ended] \in MethodRecords
      BY DEF MethodRecords
    <3>2. method[c] \in MethodRecords /\ responded \in Nat
      BY <1>1, <2>2
    <3>3. QED
      BY <3>1, <3>2
  <2>4. method' \in [Calls -> MethodRecords]
    BY <1>1, <2>1, <2>3
  <2>5. wire' \in [Ends -> Seq(Messages)]
    <3>1. PICK m \in Messages : Deliver(Callee(c), <<m>>)
      BY <1>3, MessageTypes DEF SendResponse
    <3>2. QED
      BY <1>1, <3>1, OneElement, DeliverKeeps, TypeFacts
  <2>6. UNCHANGED <<ends, outbound_transmission_id, contexts, call, woken>>
    BY <1>3 DEF SendResponse
  <2>7. QED
    BY <2>4, <2>5, <2>6, TypeFacts DEF ends, TypeOK, CallRecords, MethodRecords
<1>4. CASE Return(c) \/ RaiseException(c) \/ ReadFails(c) \/ RaiseBaseEx(c)
  <2>1. PICK messages \in Seq(Messages) : close_in(c, messages)
    <3>1. EndOfStream(c) \in Seq(Messages) /\ <<handle_error(c)>> \in Seq(Messages)
      BY MessageTypes, OneElement, EmptySeq DEF EndOfStream
    <3>2. QED
      BY <1>4, <3>1 DEF Return, RaiseException, ReadFails, RaiseBaseEx
  <2>2. crashed' \in [Ends -> BOOLEAN]
    BY <1>1, <1>4, TypeFacts DEF Return, RaiseException, ReadFails, RaiseBaseEx
  <2>3. UNCHANGED <<open, jobs, outbound_transmission_id, call>>
    BY <1>4 DEF Return, RaiseException, ReadFails, RaiseBaseEx
  <2>4. QED
    BY <2>1, <2>2, <2>3, CloseInType, TypeFacts DEF TypeOK, CallRecords, MethodRecords
<1>5. QED
  BY <1>2, <1>3, <1>4

LEMMA TypeStep == TypeOK /\ [Next]_vars => TypeOK'
<1> SUFFICES ASSUME TypeOK, [Next]_vars PROVE TypeOK'
  OBVIOUS
<1>1. ASSUME NEW c \in Calls, Open(c) PROVE TypeOK'
  BY <1>1, OpenType
<1>2. ASSUME NEW c \in Calls,
             \/ OpenFails(c) \/ SendRequest(c) \/ SendFails(c)
             \/ Receive(c) \/ Cancel(c) \/ ReceiveFails(c)
      PROVE  TypeOK'
  BY <1>2, CallerTypes
<1>3. ASSUME NEW e \in Ends, Cut(e) \/ PeerGone(e) \/ feed_raises(e) PROVE TypeOK'
  BY <1>3, FinnalCloseType DEF Cut, PeerGone, feed_raises
<1>4. ASSUME NEW e \in Ends, wire[e] # <<>>, feed(e, Head(wire[e])) PROVE TypeOK'
  BY <1>4, FeedType
<1>5. ASSUME NEW e \in Ends, StartJob(e) PROVE TypeOK'
  BY <1>5, StartJobType
<1>6. ASSUME NEW c \in Calls,
             Method(c) \/ RaiseException(c) \/ ReadFails(c) \/ RaiseBaseEx(c)
      PROVE  TypeOK'
  BY <1>6, MethodTypes DEF Method
<1>7. CASE UNCHANGED vars
  BY <1>7 DEF vars, TypeOK
<1>8. QED
  BY <1>1, <1>2, <1>3, <1>4, <1>5, <1>6, <1>7 DEF Next, feed_messages

\* Whatever the methods do and however the connection ends, the state keeps its
\* shape and each end numbers its calls in its own parity.
THEOREM TypeCorrect == Spec => []TypeOK
  BY TypeInit, TypeStep, PTL DEF Spec

-------------------------------------------------------------------------------
(* Contexts and messages belong to the call they name *)

\* Ids are given out once, and never by both ends; zero stands for none.
Ids ==
    /\ \A e \in Ends : outbound_transmission_id[e] > 0
    /\ \A c \in Calls :
        /\ call[c].pc = "new" => call[c].id = 0
        /\ call[c].pc \in {"sending", "receiving"} => call[c].id > 0
        /\ call[c].id > 0 =>
            /\ call[c].id < outbound_transmission_id[Caller(c)]
            /\ call[c].id % 2 = outbound_transmission_id[Caller(c)] % 2
    /\ \A c, d \in Calls : call[c].id = call[d].id /\ call[c].id > 0 => c = d

\* Messages that carry the id of their call.
OwnMessages == {m \in Messages : m.id = call[m.call].id /\ m.id > 0}

\* Everything that names a call carries its id, and queues hold the items of
\* their own call.
Owned ==
    /\ wire \in [Ends -> Seq(OwnMessages)] /\ jobs \in [Ends -> Seq(OwnMessages)]
    /\ \A e \in Ends : \A x \in contexts[e] : x.id = call[x.call].id /\ x.id > 0
    /\ \A e \in Ends : running[e] # None => call[running[e]].id > 0
    /\ \A c \in Calls :
        call[c].queue \in Seq(OwnItems(c)) /\ method[c].queue \in Seq(OwnItems(c))

OwnInv == TypeOK /\ Ids /\ Owned

LEMMA OwnInit == Init => OwnInv
<1> SUFFICES ASSUME Init PROVE OwnInv
  OBVIOUS
<1>1. \A S : <<>> \in Seq(S)
  BY EmptySeq
<1>2. /\ \A c \in Calls : call[c].id = 0 /\ call[c].pc = "new" /\ call[c].queue = <<>>
      /\ \A c \in Calls : method[c].queue = <<>>
  BY DEF Init, NoMethod
<1>3. \A e \in Ends : outbound_transmission_id[e] > 0
  BY DEF Init, first_transmission_id
<1>4. Ids
  BY <1>2, <1>3 DEF Ids
<1>5. Owned
  BY <1>1, <1>2 DEF Owned, Init
<1>6. QED
  BY <1>4, <1>5, TypeInit DEF OwnInv

\* While no call gets an id, what carries its call's id goes on doing so.
LEMMA IdsSame ==
  ASSUME \A c \in Calls : call'[c].id = call[c].id
  PROVE  OwnMessages' = OwnMessages
<1>1. \A m \in Messages : m.call \in Calls
  BY DEF Messages
<1>2. QED
  BY <1>1 DEF OwnMessages

\* Ids after a step that gives none out.
LEMMA IdsKept ==
  ASSUME Ids, UNCHANGED outbound_transmission_id,
         \A c \in Calls :
            /\ call'[c].id = call[c].id
            /\ call'[c].pc = "new" => call[c].pc = "new"
            /\ call'[c].pc \in {"sending", "receiving"} =>
                  call[c].pc \in {"sending", "receiving"}
  PROVE  Ids'
  BY DEF Ids

\* Two calls never have the same id.
LEMMA SameId ==
  ASSUME Ids, NEW c \in Calls, NEW d \in Calls,
         call[c].id = call[d].id, call[c].id > 0
  PROVE  c = d
  BY DEF Ids

\* The messages the calls and methods send are their own.
LEMMA SentOwn ==
  ASSUME TypeOK, NEW c \in Calls, call[c].id > 0
  PROVE  /\ handle_error(c) \in OwnMessages /\ shutdown(c) \in OwnMessages
         /\ \A type \in {"REQUEST", "RESPONSE", "UNKNOWN"} : \A end \in BOOLEAN :
              \A failed \in BOOLEAN : \A payload \in BOOLEAN :
                Message(call[c].id, c, type, end, failed, payload) \in OwnMessages
  BY MessageTypes DEF handle_error, shutdown, Message, OwnMessages

LEMMA OpenOwn == ASSUME OwnInv, NEW c \in Calls, Open(c) PROVE Ids' /\ Owned'
<1> DEFINE e == Caller(c)
           id == outbound_transmission_id[e]
<1>1. TypeOK /\ Ids /\ Owned
  BY DEF OwnInv
<1>2. /\ e \in Ends /\ id \in Nat /\ id > 0
      /\ call \in [Calls -> CallRecords] /\ call[c].id = 0
      /\ outbound_transmission_id \in [Ends -> Nat]
  BY <1>1, EndFacts, TypeFacts DEF Open, Ids
<1>3. PICK pc \in {"sending", "receiving", "done", "failed"} :
        call' = [call EXCEPT ![c].id = id, ![c].pc = pc]
  BY DEF Open
<1>4. /\ call'[c].id = id /\ call'[c].pc = pc /\ call'[c].queue = call[c].queue
      /\ \A d \in Calls \ {c} : call'[d] = call[d]
  BY <1>2, <1>3 DEF CallRecords
<1>5. /\ outbound_transmission_id'[e] = id + 2
      /\ \A f \in Ends \ {e} : outbound_transmission_id'[f] = outbound_transmission_id[f]
  BY <1>2 DEF Open
<1> HIDE DEF e, id
<1>6. \A d \in Calls \ {c} : call[d].id > 0 => call[d].id # id
  <2>1. SUFFICES ASSUME NEW d \in Calls \ {c}, call[d].id > 0 PROVE call[d].id # id
    OBVIOUS
  <2>2. /\ call[d].id < outbound_transmission_id[Caller(d)]
        /\ call[d].id % 2 = outbound_transmission_id[Caller(d)] % 2
    BY <1>1, <2>1 DEF Ids
  <2>3. CASE Caller(d) = e
    <3>1. call[d].id \in Nat
      BY <1>2, RpcAssumption DEF CallRecords
    <3>2. QED
      BY <1>2, <2>2, <2>3, <3>1 DEF id
  <2>4. CASE Caller(d) # e
    <3>1. /\ outbound_transmission_id["dialer"] % 2 = 1
          /\ outbound_transmission_id["listener"] % 2 = 0
      BY <1>1, TypeFacts
    <3>2. outbound_transmission_id[Caller(d)] % 2 # id % 2
      BY <2>4, <3>1 DEF Caller, e, id
    <3>3. QED
      BY <2>2, <3>2
  <2>5. QED
    BY <2>3, <2>4
<1>7. Ids'
  <2>1. \A f \in Ends : outbound_transmission_id'[f] > 0
    BY <1>1, <1>2, <1>5 DEF Ids
  <2>2. ASSUME NEW d \in Calls
        PROVE  /\ call'[d].pc = "new" => call'[d].id = 0
               /\ call'[d].pc \in {"sending", "receiving"} => call'[d].id > 0
               /\ call'[d].id > 0 =>
                    /\ call'[d].id < outbound_transmission_id'[Caller(d)]
                    /\ call'[d].id % 2 = outbound_transmission_id'[Caller(d)] % 2
    <3>1. CASE d = c
      BY <1>2, <1>4, <1>5, <3>1, ParityKept DEF e
    <3>2. CASE d # c
      <4>1. call[d].id \in Nat /\ Caller(d) \in Ends
        BY <1>2, EndFacts, RpcAssumption DEF CallRecords
      <4>2. /\ outbound_transmission_id'[Caller(d)] % 2 = outbound_transmission_id[Caller(d)] % 2
            /\ outbound_transmission_id'[Caller(d)] >= outbound_transmission_id[Caller(d)]
        BY <1>2, <1>5, <4>1, ParityKept DEF id
      <4>3. outbound_transmission_id'[Caller(d)] \in Nat /\ outbound_transmission_id[Caller(d)] \in Nat
        BY <1>2, <1>5, <4>1
      <4>4. QED
        BY <1>1, <1>4, <3>2, <4>1, <4>2, <4>3 DEF Ids
    <3>3. QED
      BY <3>1, <3>2
  <2>3. \A d, f \in Calls : call'[d].id = call'[f].id /\ call'[d].id > 0 => d = f
    BY <1>1, <1>4, <1>6 DEF Ids
  <2>4. QED
    BY <2>1, <2>2, <2>3 DEF Ids
<1>8. OwnMessages \subseteq OwnMessages'
  <2>1. \A m \in OwnMessages : m \in Messages /\ m.call \in Calls \ {c}
    BY <1>2 DEF OwnMessages, Messages
  <2>2. QED
    BY <1>4, <2>1 DEF OwnMessages
<1>9. Owned'
  <2>1. wire \in [Ends -> Seq(OwnMessages')] /\ jobs \in [Ends -> Seq(OwnMessages')]
    BY <1>1, <1>8, SeqMonotonic DEF Owned
  <2>2. wire' \in [Ends -> Seq(OwnMessages')] /\ jobs' \in [Ends -> Seq(OwnMessages')]
    <3>1. \A payload \in BOOLEAN :
            Message(id, c, "REQUEST", TRUE, FALSE, payload) \in OwnMessages'
      BY <1>2, <1>4 DEF Message, OwnMessages, Messages
    <3>2. wire' = wire \/ \E m \in OwnMessages' : Deliver(e, <<m>>)
      BY <3>1 DEF Open, e, id
    <3>3. wire' \in [Ends -> Seq(OwnMessages')]
      <4>1. ASSUME NEW m \in OwnMessages', Deliver(e, <<m>>)
            PROVE  wire' \in [Ends -> Seq(OwnMessages')]
        BY <1>2, <2>1, <4>1, OneElement, DeliverKeeps
      <4>2. QED
        BY <2>1, <3>2, <4>1
    <3>4. QED
      BY <2>1, <3>3 DEF Open, ends
  <2>3. \A f \in Ends : \A x \in contexts'[f] : x.id = call'[x.call].id /\ x.id > 0
    <3>1. contexts \in [Ends -> SUBSET Contexts]
      BY <1>1, TypeFacts
    <3>2. \A f \in Ends : contexts'[f] \subseteq contexts[f] \cup {Context(id, "out", c)}
      <4>1. \/ contexts' = [contexts EXCEPT ![e] = Without(e, id)]
            \/ contexts' = [contexts EXCEPT ![e] = Without(e, id) \cup {Context(id, "out", c)}]
        BY DEF Open, e, id
      <4>2. Without(e, id) \subseteq contexts[e]
        BY DEF Without
      <4>3. QED
        BY <1>2, <3>1, <4>1, <4>2
    <3>3. \A f \in Ends : \A x \in contexts[f] : x.call \in Calls /\ x.call # c
      BY <1>1, <1>2, <3>1 DEF Owned, Contexts
    <3>4. \A f \in Ends : \A x \in contexts[f] : x.id = call'[x.call].id /\ x.id > 0
      BY <1>1, <1>4, <3>3 DEF Owned
    <3>5. Context(id, "out", c).id = call'[c].id /\ Context(id, "out", c).call = c
      BY <1>4 DEF Context
    <3>6. QED
      BY <1>2, <1>4, <3>2, <3>4, <3>5
  <2>4. \A f \in Ends : running'[f] # None => call'[running'[f]].id > 0
    <3>1. \A f \in Ends : running[f] # None => running[f] \in Calls \ {c}
      BY <1>1, <1>2, TypeFacts DEF Owned
    <3>2. QED
      BY <1>1, <1>4, <3>1 DEF Owned, Open, ends
  <2>5. \A d \in Calls :
          call'[d].queue \in Seq(OwnItems(d)) /\ method'[d].queue \in Seq(OwnItems(d))
    BY <1>1, <1>4 DEF Owned, Open
  <2>6. QED
    BY <2>2, <2>3, <2>4, <2>5 DEF Owned, OwnItems, Items
<1>10. QED
  BY <1>7, <1>9

\* The other actions leave every id alone; what is left to show of each is that
\* the variables it changes stay in the hands of their calls.
LEMMA OwnKept ==
  ASSUME OwnInv, UNCHANGED outbound_transmission_id,
         \A c \in Calls :
            /\ call'[c].id = call[c].id
            /\ call'[c].pc = "new" => call[c].pc = "new"
            /\ call'[c].pc \in {"sending", "receiving"} =>
                  call[c].pc \in {"sending", "receiving"}
            /\ call'[c].queue \in Seq(OwnItems(c)) /\ method'[c].queue \in Seq(OwnItems(c)),
         wire' \in [Ends -> Seq(OwnMessages)], jobs' \in [Ends -> Seq(OwnMessages)],
         \A e \in Ends : \A x \in contexts'[e] : x.call \in Calls /\ x.id = call[x.call].id /\ x.id > 0,
         \A e \in Ends : running'[e] # None => running'[e] \in Calls /\ call[running'[e]].id > 0
  PROVE  Ids' /\ Owned'
<1>1. Ids'
  BY IdsKept DEF OwnInv
<1>2. OwnMessages' = OwnMessages
  BY IdsSame
<1>3. Owned'
  BY <1>2 DEF Owned, OwnItems, Items
<1>4. QED
  BY <1>1, <1>3

\* What OwnInv says of each variable.
LEMMA OwnFacts ==
  ASSUME OwnInv
  PROVE  /\ wire \in [Ends -> Seq(OwnMessages)] /\ jobs \in [Ends -> Seq(OwnMessages)]
         /\ contexts \in [Ends -> SUBSET Contexts]
         /\ \A e \in Ends : \A x \in contexts[e] :
              x.call \in Calls /\ x.id = call[x.call].id /\ x.id > 0
         /\ \A e \in Ends : running[e] # None => running[e] \in Calls /\ call[running[e]].id > 0
         /\ call \in [Calls -> CallRecords] /\ method \in [Calls -> MethodRecords]
         /\ \A c \in Calls : /\ call[c].queue \in Seq(OwnItems(c))
                             /\ method[c].queue \in Seq(OwnItems(c))
                             /\ call[c].id \in Nat
                             /\ call[c].pc \in {"sending", "receiving"} => call[c].id > 0
  BY TypeFacts, RpcAssumption DEF OwnInv, Owned, Ids, Contexts, CallRecords

LEMMA CloseOutOwn ==
  ASSUME OwnInv, NEW c \in Calls, NEW messages \in Seq(OwnMessages), close_out(c, messages)
  PROVE  /\ wire' \in [Ends -> Seq(OwnMessages)]
         /\ \A e \in Ends : contexts'[e] \subseteq contexts[e]
<1>1. Caller(c) \in Ends
  BY EndFacts
<1>2. wire' \in [Ends -> Seq(OwnMessages)]
  BY <1>1, OwnFacts, DeliverKeeps DEF close_out
<1>3. \A e \in Ends : contexts'[e] \subseteq contexts[e]
  <2>1. \/ contexts' = [contexts EXCEPT ![Caller(c)] = Without(Caller(c), call[c].id)]
        \/ contexts' = contexts
    BY DEF close_out
  <2>2. QED
    BY <1>1, <2>1, OwnFacts DEF Without
<1>4. QED
  BY <1>2, <1>3

LEMMA CallerOwn ==
  ASSUME OwnInv, NEW c \in Calls,
         \/ OpenFails(c) \/ SendRequest(c) \/ SendFails(c)
         \/ Receive(c) \/ Cancel(c) \/ ReceiveFails(c)
  PROVE  Ids' /\ Owned'
<1>1. TypeOK /\ <<>> \in Seq(OwnMessages) /\ <<>> \in Seq(OwnItems(c)) /\ Caller(c) \in Ends
  BY EmptySeq, EndFacts DEF OwnInv
<1>2. /\ UNCHANGED <<ends, outbound_transmission_id, method>>
      /\ \A d \in Calls \ {c} : call'[d] = call[d]
      /\ call'[c].id = call[c].id
      /\ call'[c].pc # "new"
      /\ call'[c].pc \in {"sending", "receiving"} => call[c].pc \in {"sending", "receiving"}
  <2>1. call \in [Calls -> CallRecords]
    BY OwnFacts
  <2>2. CASE OpenFails(c)
    BY <2>1, <2>2 DEF OpenFails, CallRecords
  <2>3. CASE SendRequest(c)
    <3>1. /\ call[c].pc = "sending"
          /\ UNCHANGED <<ends, outbound_transmission_id, contexts, method>>
      BY <2>3 DEF SendRequest
    <3>2. PICK end \in BOOLEAN, n \in {0, 1} :
            call' = [call EXCEPT ![c].sent = @ + n,
                                 ![c].pc = IF end THEN "receiving" ELSE "sending"]
      BY <1>1, <2>3, RequestGiven
    <3>3. QED
      BY <2>1, <3>1, <3>2 DEF CallRecords
  <2>4. CASE SendFails(c)
    BY <2>1, <2>4 DEF SendFails, CallRecords
  <2>5. CASE Receive(c)
    BY <2>1, <2>5 DEF Receive, CallRecords
  <2>6. CASE Cancel(c) \/ ReceiveFails(c)
    BY <2>1, <2>6 DEF Cancel, ReceiveFails, leave, CallRecords
  <2>7. QED
    BY <2>2, <2>3, <2>4, <2>5, <2>6
<1>3. call'[c].queue \in Seq(OwnItems(c))
  <2>1. call \in [Calls -> CallRecords] /\ call[c].queue \in Seq(OwnItems(c))
    BY OwnFacts
  <2>2. CASE OpenFails(c) \/ SendRequest(c) \/ SendFails(c)
    <3>1. CASE OpenFails(c) \/ SendFails(c)
      BY <2>1, <3>1 DEF OpenFails, SendFails, CallRecords
    <3>2. CASE SendRequest(c)
      <4>1. PICK end \in BOOLEAN, n \in {0, 1} :
              call' = [call EXCEPT ![c].sent = @ + n,
                                   ![c].pc = IF end THEN "receiving" ELSE "sending"]
        BY <1>1, <3>2, RequestGiven
      <4>2. QED
        BY <2>1, <4>1 DEF CallRecords
    <3>3. QED
      BY <2>2, <3>1, <3>2
  <2>3. CASE Receive(c)
    <3>1. Tail(call[c].queue) \in Seq(OwnItems(c))
      BY <2>1, <2>3, HeadTailProperties DEF Receive
    <3>2. QED
      BY <1>1, <2>1, <2>3, <3>1 DEF Receive, CallRecords
  <2>4. CASE Cancel(c) \/ ReceiveFails(c)
    BY <1>1, <2>1, <2>4 DEF Cancel, ReceiveFails, leave, CallRecords
  <2>5. QED
    BY <2>2, <2>3, <2>4
<1>4. /\ wire' \in [Ends -> Seq(OwnMessages)]
      /\ \A e \in Ends : contexts'[e] \subseteq contexts[e]
  <2>1. CASE UNCHANGED <<wire, contexts>>
    BY <2>1, OwnFacts
  <2>2. CASE SendRequest(c)
    <3>1. call[c].id > 0
      BY <2>2, OwnFacts DEF SendRequest
    <3>2. PICK m \in OwnMessages : Deliver(Caller(c), <<m>>)
      BY <1>1, <2>2, <3>1, RequestGiven, SentOwn
    <3>3. wire' \in [Ends -> Seq(OwnMessages)]
      BY <1>1, <3>2, OneElement, DeliverKeeps, OwnFacts
    <3>4. QED
      BY <2>2, <3>3 DEF SendRequest
  <2>3. CASE Receive(c) \/ Cancel(c) \/ ReceiveFails(c)
    <3>1. call[c].id > 0
      BY <2>3, OwnFacts DEF Receive, Cancel, ReceiveFails
    <3>2. <<handle_error(c)>> \in Seq(OwnMessages) /\ <<shutdown(c)>> \in Seq(OwnMessages)
      BY <1>1, <3>1, SentOwn, OneElement
    <3>3. \/ UNCHANGED <<wire, contexts>>
          \/ close_out(c, <<handle_error(c)>>) \/ close_out(c, <<shutdown(c)>>)
          \/ close_out(c, <<>>)
      BY <2>3 DEF Receive, Cancel, ReceiveFails, leave
    <3>4. QED
      BY <1>1, <2>1, <3>2, <3>3, CloseOutOwn
  <2>4. QED
    BY <2>1, <2>2, <2>3 DEF OpenFails, SendFails
<1>5. QED
  BY <1>2, <1>3, <1>4, OwnFacts, OwnKept DEF ends

LEMMA FinnalCloseOwn == ASSUME OwnInv, NEW e \in Ends, finnal_close(e) PROVE Ids' /\ Owned'
<1>1. \A S : <<>> \in Seq(S)
  BY EmptySeq
<1>2. wire' \in [Ends -> Seq(OwnMessages)] /\ jobs' \in [Ends -> Seq(OwnMessages)]
  BY <1>1, OwnFacts DEF finnal_close
<1>3. \A f \in Ends : running'[f] # None => running'[f] = running[f]
  <2>1. running \in [Ends -> Calls \cup {None}]
    BY TypeFacts DEF OwnInv
  <2>2. QED
    BY <2>1 DEF finnal_close
<1>4. /\ \A c \in Calls : method'[c].queue \in Seq(OwnItems(c))
      /\ \A f \in Ends : contexts'[f] \subseteq contexts[f]
  <2>1. /\ method \in [Calls -> MethodRecords] /\ contexts \in [Ends -> SUBSET Contexts]
        /\ \A c \in Calls : method[c].queue \in Seq(OwnItems(c))
    BY OwnFacts
  <2>2. CASE UNCHANGED <<contexts, method>>
    BY <2>1, <2>2
  <2>3. ASSUME NEW c \in Calls,
               method' = [method EXCEPT ![c] = Ended(@)],
               contexts' = contexts \/ contexts' = [contexts EXCEPT ![e] = Without(e, call[c].id)]
        PROVE  /\ \A d \in Calls : method'[d].queue \in Seq(OwnItems(d))
               /\ \A f \in Ends : contexts'[f] \subseteq contexts[f]
    <3>1. Ended(method[c]).queue = <<>>
      BY DEF Ended, NoMethod
    <3>2. \A d \in Calls : method'[d] = IF d = c THEN Ended(method[c]) ELSE method[d]
      BY <2>1, <2>3
    <3>3. Without(e, call[c].id) \subseteq contexts[e]
      BY DEF Without
    <3>4. \A f \in Ends : contexts'[f] \subseteq contexts[f]
      BY <2>1, <2>3, <3>3
    <3>5. QED
      BY <1>1, <2>1, <3>1, <3>2, <3>4
  <2>4. QED
    BY <2>2, <2>3 DEF finnal_close
<1>5. UNCHANGED <<outbound_transmission_id, call>>
  BY DEF finnal_close
<1>6. QED
  BY <1>2, <1>3, <1>4, <1>5, OwnFacts, OwnKept

\* A message fed to a context under its id belongs to the context's call.
LEMMA FeedOwn ==
  ASSUME OwnInv, NEW e \in Ends, wire[e] # <<>>, feed(e, Head(wire[e]))
  PROVE  Ids' /\ Owned'
<1> DEFINE m == Head(wire[e])
<1>1. m \in OwnMessages /\ Tail(wire[e]) \in Seq(OwnMessages)
  BY HeadTailProperties, OwnFacts
<1>2. wire' \in [Ends -> Seq(OwnMessages)]
  BY <1>1, OwnFacts DEF feed, Received
<1>3. /\ m.call \in Calls /\ m.id = call[m.call].id /\ m.id > 0
      /\ Fed(m) \in Seq(OwnItems(m.call))
  BY <1>1, FedOwn DEF OwnMessages, Messages
<1>4. Append(jobs[e], m) \in Seq(OwnMessages) /\ jobs \in [Ends -> Seq(OwnMessages)]
  BY <1>1, AppendProperties, OwnFacts
<1>5. /\ method \in [Calls -> MethodRecords] /\ call \in [Calls -> CallRecords]
      /\ contexts \in [Ends -> SUBSET Contexts]
  BY OwnFacts
<1> HIDE DEF m
<1>6. ASSUME NEW x \in contexts[e], x.id = m.id PROVE x.call = m.call
  <2>1. x.call \in Calls /\ x.id = call[x.call].id
    BY OwnFacts
  <2>2. QED
    BY <1>3, <1>6, <2>1, SameId DEF OwnInv
<1>7. ASSUME NEW x \in contexts[e], x.id = m.id, feed_out(e, m, x) PROVE Ids' /\ Owned'
  <2>1. x.call = m.call
    BY <1>6, <1>7
  <2>2. call' = [call EXCEPT ![m.call].queue = @ \o Fed(m)]
    BY <1>7, <2>1 DEF feed_out
  <2>3. call[m.call].queue \o Fed(m) \in Seq(OwnItems(m.call))
    BY <1>3, ConcatProperties, OwnFacts
  <2>4. \A c \in Calls : /\ call'[c].id = call[c].id /\ call'[c].pc = call[c].pc
                         /\ call'[c].queue \in Seq(OwnItems(c))
    <3>1. /\ call'[m.call].queue = call[m.call].queue \o Fed(m)
          /\ call'[m.call].id = call[m.call].id /\ call'[m.call].pc = call[m.call].pc
      BY <1>3, <1>5, <2>2 DEF CallRecords
    <3>2. \A c \in Calls \ {m.call} : call'[c] = call[c]
      BY <1>5, <2>2
    <3>3. QED
      BY <2>3, <3>1, <3>2, OwnFacts
  <2>5. UNCHANGED <<open, jobs, running, crashed, outbound_transmission_id, contexts, method>>
    BY <1>7 DEF feed_out, ends
  <2>6. QED
    BY <1>2, <2>4, <2>5, OwnFacts, OwnKept
<1>8. ASSUME NEW x \in contexts[e], x.id = m.id, feed_in(e, m, x) PROVE Ids' /\ Owned'
  <2>1. x.call = m.call
    BY <1>6, <1>8
  <2>2. method' = [method EXCEPT ![m.call].queue = @ \o Fed(m), ![m.call].fed = TRUE]
    BY <1>8, <2>1 DEF feed_in
  <2>3. method[m.call].queue \o Fed(m) \in Seq(OwnItems(m.call))
    BY <1>3, ConcatProperties, OwnFacts
  <2>4. \A c \in Calls : method'[c].queue \in Seq(OwnItems(c))
    <3>1. method'[m.call].queue = method[m.call].queue \o Fed(m)
      BY <1>3, <1>5, <2>2 DEF MethodRecords
    <3>2. \A c \in Calls \ {m.call} : method'[c] = method[c]
      BY <1>5, <2>2
    <3>3. QED
      BY <2>3, <3>1, <3>2, OwnFacts
  <2>5. UNCHANGED <<open, jobs, running, crashed, outbound_transmission_id, contexts, call>>
    BY <1>8 DEF feed_in, ends
  <2>6. QED
    BY <1>2, <2>4, <2>5, OwnFacts, OwnKept
<1>9. CASE new_inbound(e, m)
  <2>1. \A c \in Calls : method'[c].queue \in Seq(OwnItems(c))
    <3>1. method'[m.call].queue = Fed(m)
      BY <1>3, <1>5, <1>9 DEF new_inbound, NoMethod
    <3>2. \A c \in Calls \ {m.call} : method'[c] = method[c]
      BY <1>5, <1>9 DEF new_inbound
    <3>3. QED
      BY <1>3, <3>1, <3>2, OwnFacts
  <2>2. \A f \in Ends : \A x \in contexts'[f] :
          x.call \in Calls /\ x.id = call[x.call].id /\ x.id > 0
    <3>1. \A f \in Ends : contexts'[f] \subseteq contexts[f] \cup {Context(m.id, "in", m.call)}
      BY <1>5, <1>9 DEF new_inbound
    <3>2. Context(m.id, "in", m.call).id = m.id /\ Context(m.id, "in", m.call).call = m.call
      BY DEF Context
    <3>3. QED
      BY <1>3, <3>1, <3>2, OwnFacts
  <2>3. jobs' \in [Ends -> Seq(OwnMessages)]
    BY <1>4, <1>9 DEF new_inbound
  <2>4. UNCHANGED <<open, running, crashed, outbound_transmission_id, call>>
    BY <1>9 DEF new_inbound
  <2>5. QED
    BY <1>2, <2>1, <2>2, <2>3, <2>4, OwnFacts, OwnKept
<1>10. CASE invalid_packet_type(e, m)
  <2>1. jobs' \in [Ends -> Seq(OwnMessages)]
    BY <1>4, <1>10 DEF invalid_packet_type
  <2>2. UNCHANGED <<open, running, crashed, outbound_transmission_id, contexts, call, method>>
    BY <1>10 DEF invalid_packet_type
  <2>3. QED
    BY <1>2, <2>1, <2>2, OwnFacts, OwnKept
<1>11. QED
  BY <1>7, <1>8, <1>9, <1>10 DEF feed, m

LEMMA StartJobOwn == ASSUME OwnInv, NEW e \in Ends, StartJob(e) PROVE Ids' /\ Owned'
<1> DEFINE m == Head(jobs[e])
<1>1. m \in OwnMessages /\ Tail(jobs[e]) \in Seq(OwnMessages)
  BY HeadTailProperties, OwnFacts DEF StartJob
<1>2. jobs' \in [Ends -> Seq(OwnMessages)]
  BY <1>1, OwnFacts DEF StartJob
<1>3. m.call \in Calls /\ call[m.call].id > 0 /\ m.id = call[m.call].id
  BY <1>1 DEF OwnMessages, Messages
<1>4. running \in [Ends -> Calls \cup {None}] /\ method \in [Calls -> MethodRecords]
  BY TypeFacts DEF OwnInv
<1>5. \A f \in Ends : running'[f] # None => running'[f] \in Calls /\ call[running'[f]].id > 0
  <2>1. \A f \in Ends : running'[f] \in {running[f], m.call}
    BY <1>4 DEF StartJob
  <2>2. QED
    BY <1>3, <2>1, OwnFacts
<1>6. \A c \in Calls : method'[c].queue = method[c].queue
  <2>1. method' = method \/ method' = [method EXCEPT ![m.call].pc = "running"]
    BY DEF StartJob
  <2>2. ASSUME NEW r \in MethodRecords PROVE [r EXCEPT !.pc = "running"].queue = r.queue
    BY DEF MethodRecords
  <2>3. QED
    BY <1>3, <1>4, <2>1, <2>2
<1>7. wire' \in [Ends -> Seq(OwnMessages)]
  <2>1. [m EXCEPT !.type = "RESPONSE", !.failed = TRUE, !.payload = TRUE] \in OwnMessages
    BY <1>1, <1>3 DEF OwnMessages, Messages
  <2>2. QED
    BY <2>1, OneElement, DeliverKeeps, OwnFacts DEF StartJob
<1>8. UNCHANGED <<outbound_transmission_id, contexts, call>>
  BY DEF StartJob
<1>9. QED
  BY <1>2, <1>5, <1>6, <1>7, <1>8, OwnFacts, OwnKept

LEMMA MethodOwn ==
  ASSUME OwnInv, NEW c \in Calls,
         \/ ReadRequest(c) \/ SendResponse(c) \/ Return(c)
         \/ RaiseException(c) \/ ReadFails(c) \/ RaiseBaseEx(c)
  PROVE  Ids' /\ Owned'
<1>1. /\ method \in [Calls -> MethodRecords] /\ contexts \in [Ends -> SUBSET Contexts]
      /\ running \in [Ends -> Calls \cup {None}] /\ Callee(c) \in Ends /\ TypeOK
  BY EndFacts, TypeFacts DEF OwnInv
<1>2. call[c].id > 0
  <2>1. running[Callee(c)] = c /\ c # None
    BY RpcAssumption DEF ReadRequest, SendResponse, Return, RaiseException, ReadFails,
                         RaiseBaseEx, Speaking, Running, Calls
  <2>2. QED
    BY <1>1, <2>1, OwnFacts
<1>3. CASE ReadRequest(c)
  <2>1. method[c].queue \in Seq(OwnItems(c)) /\ method[c].queue # <<>>
    BY <1>3, OwnFacts DEF ReadRequest
  <2>2. Tail(method[c].queue) \in Seq(OwnItems(c))
    BY <2>1, HeadTailProperties
  <2>3. /\ method'[c].queue = Tail(method[c].queue)
        /\ \A d \in Calls \ {c} : method'[d] = method[d]
    BY <1>1, <1>3 DEF ReadRequest, MethodRecords
  <2>4. UNCHANGED <<open, jobs, running, crashed, wire, outbound_transmission_id, contexts, call>>
    BY <1>3 DEF ReadRequest, ends
  <2>5. QED
    BY <2>2, <2>3, <2>4, OwnFacts, OwnKept
<1>4. CASE SendResponse(c)
  <2>1. PICK responded, ended :
          method' = [method EXCEPT ![c].responded = responded, ![c].ended = ended]
    BY <1>1, <1>4, ResponseGiven
  <2>2. \A d \in Calls : method'[d].queue = method[d].queue
    BY <1>1, <2>1 DEF MethodRecords
  <2>3. wire' \in [Ends -> Seq(OwnMessages)]
    <3>1. PICK m \in OwnMessages : Deliver(Callee(c), <<m>>)
      BY <1>1, <1>2, <1>4, ResponseGiven, SentOwn
    <3>2. QED
      BY <1>1, <3>1, OneElement, DeliverKeeps, OwnFacts
  <2>4. UNCHANGED <<open, jobs, running, crashed, outbound_transmission_id, contexts, call>>
    BY <1>4 DEF SendResponse, ends
  <2>5. QED
    BY <2>2, <2>3, <2>4, OwnFacts, OwnKept
<1>5. CASE Return(c) \/ RaiseException(c) \/ ReadFails(c) \/ RaiseBaseEx(c)
  <2>1. PICK messages \in Seq(OwnMessages) : close_in(c, messages)
    <3>1. EndOfStream(c) \in Seq(OwnMessages) /\ <<handle_error(c)>> \in Seq(OwnMessages)
      BY <1>1, <1>2, SentOwn, OneElement, EmptySeq DEF EndOfStream
    <3>2. QED
      BY <1>5, <3>1 DEF Return, RaiseException, ReadFails, RaiseBaseEx
  <2>2. wire' \in [Ends -> Seq(OwnMessages)]
    BY <1>1, <2>1, DeliverKeeps, OwnFacts DEF close_in
  <2>3. \A f \in Ends : contexts'[f] \subseteq contexts[f]
    BY <1>1, <2>1 DEF close_in, Without
  <2>4. \A d \in Calls : method'[d].queue \in Seq(OwnItems(d))
    <3>1. Ended(method[c]).queue = <<>> /\ <<>> \in Seq(OwnItems(c))
      BY EmptySeq DEF Ended, NoMethod
    <3>2. \A d \in Calls : method'[d] = IF d = c THEN Ended(method[c]) ELSE method[d]
      BY <1>1, <2>1 DEF close_in
    <3>3. QED
      BY <3>1, <3>2, OwnFacts
  <2>5. \A f \in Ends : running'[f] # None => running'[f] = running[f]
    BY <1>1, <2>1 DEF close_in
  <2>6. UNCHANGED <<jobs, outbound_transmission_id, call>>
    BY <1>5 DEF Return, RaiseException, ReadFails, RaiseBaseEx
  <2>7. QED
    BY <2>2, <2>3, <2>4, <2>5, <2>6, OwnFacts, OwnKept
<1>6. QED
  BY <1>3, <1>4, <1>5

LEMMA OwnStep == OwnInv /\ [Next]_vars => OwnInv'
<1> SUFFICES ASSUME OwnInv, [Next]_vars PROVE OwnInv'
  OBVIOUS
<1>1. TypeOK'
  BY TypeStep DEF OwnInv
<1>2. ASSUME NEW c \in Calls, Open(c) PROVE OwnInv'
  BY <1>1, <1>2, OpenOwn DEF OwnInv
<1>3. ASSUME NEW c \in Calls,
             \/ OpenFails(c) \/ SendRequest(c) \/ SendFails(c)
             \/ Receive(c) \/ Cancel(c) \/ ReceiveFails(c)
      PROVE  OwnInv'
  BY <1>1, <1>3, CallerOwn DEF OwnInv
<1>4. ASSUME NEW e \in Ends, Cut(e) \/ PeerGone(e) \/ feed_raises(e) PROVE OwnInv'
  BY <1>1, <1>4, FinnalCloseOwn DEF OwnInv, Cut, PeerGone, feed_raises
<1>5. ASSUME NEW e \in Ends, wire[e] # <<>>, feed(e, Head(wire[e])) PROVE OwnInv'
  BY <1>1, <1>5, FeedOwn DEF OwnInv
<1>6. ASSUME NEW e \in Ends, StartJob(e) PROVE OwnInv'
  BY <1>1, <1>6, StartJobOwn DEF OwnInv
<1>7. ASSUME NEW c \in Calls, Method(c) \/ RaiseException(c) \/ ReadFails(c) \/ RaiseBaseEx(c)
      PROVE  OwnInv'
  BY <1>1, <1>7, MethodOwn DEF OwnInv, Method
<1>8. CASE UNCHANGED vars
  <2>1. UNCHANGED <<outbound_transmission_id, call, wire, jobs, contexts, running, method>>
    BY <1>8 DEF vars
  <2>2. OwnMessages' = OwnMessages
    BY <2>1, IdsSame
  <2>3. Ids' /\ Owned'
    BY <2>1, <2>2 DEF OwnInv, Ids, Owned, OwnItems, Items
  <2>4. QED
    BY <1>1, <2>3 DEF OwnInv
<1>9. QED
  BY <1>2, <1>3, <1>4, <1>5, <1>6, <1>7, <1>8 DEF Next, feed_messages

\* However calls are cancelled or fail at either end, and however late
\* what was sent for them arrives: a context is only ever fed with messages of
\* its own call, for no released id is given out again and no id by both ends.
THEOREM ContextsFedByOwnCall == Spec => []NoCrossTalk
<1>1. OwnInv => NoCrossTalk
  <2>1. SUFFICES ASSUME OwnInv, NEW c \in Calls, NEW q \in Seq(OwnItems(c)), NEW i \in DOMAIN q
                 PROVE  q[i].call = c
    BY OwnFacts DEF NoCrossTalk
  <2>2. q[i] \in OwnItems(c)
    BY <2>1, ElementOfSeq, LenProperties
  <2>3. QED
    BY <2>2 DEF OwnItems
<1>2. QED
  BY <1>1, OwnInit, OwnStep, PTL DEF Spec

-------------------------------------------------------------------------------
(* Contexts match the calls that wait and the methods that run *)

Waiting == {"sending", "receiving"}
Serving == {"queued", "running"}

\* What a context is there for.
Holds(e, x) ==
    \/ x.dir = "out" /\ Caller(x.call) = e /\ call[x.call].pc \in Waiting
    \/ x.dir = "in" /\ Callee(x.call) = e /\ method[x.call].pc \in Serving

\* One end's contexts are those of its waiting calls and its methods.
MatchedAt(e) ==
    /\ \A x \in contexts[e] : Holds(e, x)
    /\ \A c \in Calls :
        /\ Caller(c) = e /\ call[c].pc \in Waiting =>
              Context(call[c].id, "out", c) \in contexts[e]
        /\ Callee(c) = e /\ method[c].pc \in Serving =>
              Context(call[c].id, "in", c) \in contexts[e]

\* Requests go to the called end only.
Routed(e) == {m \in Messages : m.type = "REQUEST" => Callee(m.call) = e}
Routing == \A e \in Ends : wire[e] \in Seq(Routed(e)) /\ jobs[e] \in Seq(Routed(e))

\* A method's job stands in the queue once, as long as the method is queued.
Request(q, i) == i \in 1 .. Len(q) /\ q[i].type = "REQUEST"
Distinct(q) == \A i, j \in 1 .. Len(q) :
    Request(q, i) /\ Request(q, j) /\ q[i].call = q[j].call => i = j
JobsAt(e) ==
    /\ Distinct(jobs[e])
    /\ \A i \in 1 .. Len(jobs[e]) : Request(jobs[e], i) => method[jobs[e][i].call].pc = "queued"
JobsQueued == \A e \in Ends : JobsAt(e)

RunningHere == \A e \in Ends :
    running[e] # None => Callee(running[e]) = e /\ method[running[e]].pc = "running"

Matched == \A e \in Ends : open[e] => MatchedAt(e)

MatchInv == OwnInv /\ Routing /\ JobsQueued /\ RunningHere /\ Matched

\* A step that leaves an end's contexts alone, and the standing of its calls.
LEMMA MatchedKept ==
  ASSUME OwnInv, NEW e \in Ends, MatchedAt(e), contexts'[e] = contexts[e],
         \A c \in Calls :
            /\ Caller(c) = e => (call'[c].pc \in Waiting <=> call[c].pc \in Waiting)
            /\ Caller(c) = e /\ call[c].pc \in Waiting => call'[c].id = call[c].id
            /\ Callee(c) = e => (method'[c].pc \in Serving <=> method[c].pc \in Serving)
            /\ Callee(c) = e /\ method[c].pc \in Serving => call'[c].id = call[c].id
  PROVE  MatchedAt(e)'
<1>1. \A x \in contexts[e] : x.call \in Calls
  BY OwnFacts
<1>2. \A x \in contexts'[e] : Holds(e, x)'
  BY <1>1 DEF MatchedAt, Holds
<1>3. QED
  BY <1>2 DEF MatchedAt

\* A step that changes the contexts of one call only.
LEMMA MatchedFor ==
  ASSUME NEW e \in Ends, NEW c \in Calls, MatchedAt(e),
         \A x \in contexts'[e] : x.call \in Calls,
         \A x : x.call # c => (x \in contexts'[e] <=> x \in contexts[e]),
         \A x \in contexts'[e] : x.call = c => Holds(e, x)',
         \A d \in Calls \ {c} : /\ call'[d].id = call[d].id /\ call'[d].pc = call[d].pc
                                /\ method'[d].pc = method[d].pc,
         Caller(c) = e /\ call'[c].pc \in Waiting =>
            Context(call'[c].id, "out", c) \in contexts'[e],
         Callee(c) = e /\ method'[c].pc \in Serving =>
            Context(call'[c].id, "in", c) \in contexts'[e]
  PROVE  MatchedAt(e)'
<1>1. ASSUME NEW x \in contexts'[e] PROVE Holds(e, x)'
  <2>1. CASE x.call = c
    BY <2>1
  <2>2. CASE x.call # c
    <3>1. x \in contexts[e] /\ x.call \in Calls \ {c}
      BY <2>2
    <3>2. Holds(e, x)
      BY <3>1 DEF MatchedAt
    <3>3. QED
      BY <3>1, <3>2 DEF Holds
  <2>3. QED
    BY <2>1, <2>2
<1>2. ASSUME NEW d \in Calls
      PROVE  /\ Caller(d) = e /\ call'[d].pc \in Waiting =>
                  Context(call'[d].id, "out", d) \in contexts'[e]
             /\ Callee(d) = e /\ method'[d].pc \in Serving =>
                  Context(call'[d].id, "in", d) \in contexts'[e]
  <2>1. CASE d = c
    BY <2>1
  <2>2. CASE d # c
    <3>1. \A id : \A dir : Context(id, dir, d).call # c
      BY <2>2 DEF Context
    <3>2. QED
      BY <2>2, <3>1 DEF MatchedAt
  <2>3. QED
    BY <2>1, <2>2
<1>3. QED
  BY <1>1, <1>2 DEF MatchedAt

\* Releasing an id removes the contexts of its call and no other.
LEMMA WithoutOwn ==
  ASSUME OwnInv, NEW e \in Ends, NEW c \in Calls, call[c].id > 0, NEW x
  PROVE  x \in Without(e, call[c].id) <=> x \in contexts[e] /\ x.call # c
<1>1. \A y \in contexts[e] : y.call \in Calls /\ y.id = call[y.call].id
  BY OwnFacts
<1>2. \A d \in Calls : call[d].id = call[c].id => d = c
  BY SameId DEF OwnInv
<1>3. QED
  BY <1>1, <1>2 DEF Without

\* When a call, or a method, is over and its id released, the rest still match.
LEMMA MatchedReleased ==
  ASSUME OwnInv, NEW e \in Ends, NEW c \in Calls, MatchedAt(e), call[c].id > 0,
         contexts'[e] = Without(e, call[c].id),
         \A d \in Calls \ {c} : /\ call'[d].id = call[d].id /\ call'[d].pc = call[d].pc
                                /\ method'[d].pc = method[d].pc,
         Caller(c) = e => call'[c].pc \notin Waiting,
         Callee(c) = e => method'[c].pc \notin Serving
  PROVE  MatchedAt(e)'
<1>1. \A x : x \in contexts'[e] <=> x \in contexts[e] /\ x.call # c
  BY WithoutOwn
<1>2. \A x \in contexts[e] : x.call \in Calls
  BY OwnFacts
<1>3. QED
  BY <1>1, <1>2, MatchedFor

\* A call's two ends.
LEMMA TwoEnds ==
  /\ \A c \in Calls : Callee(c) = Peer(Caller(c)) /\ Callee(c) # Caller(c)
  /\ \A e \in Ends : Peer(e) # e
  BY DEF Callee, Caller, Peer, Ends

\* Requests are sent to the called end.
LEMMA SentRouted ==
  ASSUME TypeOK, NEW c \in Calls
  PROVE  /\ \A e \in Ends : handle_error(c) \in Routed(e) /\ shutdown(c) \in Routed(e)
         /\ \A id \in Nat : \A end \in BOOLEAN : \A payload \in BOOLEAN :
              Message(id, c, "REQUEST", end, FALSE, payload) \in Routed(Peer(Caller(c)))
         /\ \A e \in Ends : \A end \in BOOLEAN : \A payload \in BOOLEAN :
              Message(call[c].id, c, "RESPONSE", end, FALSE, payload) \in Routed(e)
<1>1. \A e \in Ends : handle_error(c) \in Routed(e) /\ shutdown(c) \in Routed(e)
  BY MessageTypes DEF handle_error, shutdown, Message, Routed
<1>2. \A id \in Nat : \A end \in BOOLEAN : \A payload \in BOOLEAN :
        Message(id, c, "REQUEST", end, FALSE, payload) \in Routed(Peer(Caller(c)))
  BY TwoEnds DEF Message, Routed, Messages
<1>3. \A e \in Ends : \A end \in BOOLEAN : \A payload \in BOOLEAN :
        Message(call[c].id, c, "RESPONSE", end, FALSE, payload) \in Routed(e)
  BY MessageTypes DEF Message, Routed
<1>4. QED
  BY <1>1, <1>2, <1>3

\* Delivery to the other end keeps the wires routed.
LEMMA DeliverRouted ==
  ASSUME MatchInv, NEW e \in Ends, NEW messages \in Seq(Routed(Peer(e))),
         Deliver(e, messages)
  PROVE  \A f \in Ends : wire'[f] \in Seq(Routed(f))
<1>1. /\ Peer(e) \in Ends /\ wire \in [Ends -> Seq(OwnMessages)]
      /\ \A f \in Ends : wire[f] \in Seq(Routed(f))
  BY EndFacts, OwnFacts DEF MatchInv, Routing
<1>2. wire[Peer(e)] \o messages \in Seq(Routed(Peer(e)))
  BY <1>1, ConcatProperties
<1>3. \A f \in Ends : wire'[f] = wire[f] \/ (f = Peer(e) /\ wire'[f] = wire[f] \o messages)
  BY <1>1 DEF Deliver
<1>4. QED
  BY <1>1, <1>2, <1>3

\* A call that takes its id has had no context and no method before.
LEMMA NewCall ==
  ASSUME OwnInv, NEW e \in Ends, MatchedAt(e), NEW c \in Calls, call[c].pc = "new"
  PROVE  /\ \A x \in contexts[e] : x.call # c
         /\ Callee(c) = e => method[c].pc \notin Serving
<1>1. call[c].id = 0
  BY DEF OwnInv, Ids
<1>2. \A x \in contexts[e] : x.id = call[x.call].id /\ x.id > 0
  BY OwnFacts
<1>3. \A x \in contexts[e] : x.call # c
  BY <1>1, <1>2
<1>4. Context(call[c].id, "in", c).call = c
  BY DEF Context
<1>5. QED
  BY <1>3, <1>4 DEF MatchedAt

\* The id that is given out next is in no context of its end.
LEMMA NextIdFree ==
  ASSUME OwnInv, NEW e \in Ends, MatchedAt(e)
  PROVE  Without(e, outbound_transmission_id[e]) = contexts[e]
<1> DEFINE id == outbound_transmission_id[e]
<1>1. SUFFICES ASSUME NEW x \in contexts[e] PROVE x.id # id
  BY DEF Without
<1>2. x.call \in Calls /\ x.id = call[x.call].id /\ x.id > 0 /\ x.id \in Nat
  BY OwnFacts
<1>3. /\ x.id < outbound_transmission_id[Caller(x.call)]
      /\ x.id % 2 = outbound_transmission_id[Caller(x.call)] % 2
  BY <1>2 DEF OwnInv, Ids
<1>4. CASE Caller(x.call) = e
  <2>1. id \in Nat
    BY TypeFacts DEF OwnInv
  <2>2. x.id < id
    BY <1>3, <1>4
  <2>3. QED
    BY <1>2, <2>1, <2>2
<1>5. CASE Caller(x.call) # e
  <2>1. /\ outbound_transmission_id["dialer"] % 2 = 1
        /\ outbound_transmission_id["listener"] % 2 = 0
        /\ Caller(x.call) \in Ends
    BY <1>2, EndFacts, TypeFacts DEF OwnInv
  <2>2. outbound_transmission_id[Caller(x.call)] % 2 # id % 2
    BY <1>5, <2>1 DEF Ends
  <2>3. QED
    BY <1>3, <2>2
<1>6. QED
  BY <1>4, <1>5

\* A call is opened: unless it is over at once, it gets the one new context.
LEMMA OpenMatched == ASSUME MatchInv, NEW c \in Calls, Open(c) PROVE Matched'
<1> DEFINE e == Caller(c)
           id == outbound_transmission_id[e]
<1>1. /\ OwnInv /\ e \in Ends /\ call[c].pc = "new"
      /\ call \in [Calls -> CallRecords] /\ contexts \in [Ends -> SUBSET Contexts]
  BY EndFacts, OwnFacts DEF MatchInv, Open
<1>2. PICK pc \in {"sending", "receiving", "done", "failed"} :
        /\ call' = [call EXCEPT ![c].id = id, ![c].pc = pc]
        /\ contexts' = [contexts EXCEPT ![e] =
              IF pc \in Waiting THEN Without(e, id) \cup {Context(id, "out", c)}
              ELSE Without(e, id)]
  BY DEF Open, Waiting
<1>3. UNCHANGED <<open, method>>
  BY DEF Open, ends
<1>4. /\ call'[c].id = id /\ call'[c].pc = pc
      /\ \A d \in Calls \ {c} : call'[d] = call[d]
  BY <1>1, <1>2 DEF CallRecords
<1>5. SUFFICES ASSUME NEW f \in Ends, open[f], MatchedAt(f) PROVE MatchedAt(f)'
  BY <1>3 DEF MatchInv, Matched
<1>6. /\ \A x \in contexts[f] : x.call # c /\ x.call \in Calls
      /\ Callee(c) = f => method[c].pc \notin Serving
  BY <1>1, <1>5, NewCall, OwnFacts
<1>7. CASE f = e
  <2>1. Without(e, id) = contexts[e]
    BY <1>1, <1>5, <1>7, NextIdFree
  <2>2. contexts'[e] = IF pc \in Waiting THEN contexts[e] \cup {Context(id, "out", c)}
                       ELSE contexts[e]
    BY <1>1, <1>2, <2>1
  <2>3. /\ Context(id, "out", c).call = c /\ Context(id, "out", c).dir = "out"
    BY DEF Context
  <2>4. \A x \in contexts'[e] : x.call \in Calls
    BY <1>6, <1>7, <2>2, <2>3
  <2>5. \A x : x.call # c => (x \in contexts'[e] <=> x \in contexts[e])
    BY <2>2, <2>3
  <2>6. \A x \in contexts'[e] : x.call = c => Holds(e, x)'
    BY <1>4, <1>6, <1>7, <2>2, <2>3 DEF Holds
  <2>7. call'[c].pc \in Waiting => Context(call'[c].id, "out", c) \in contexts'[e]
    BY <1>4, <2>2
  <2>8. Callee(c) # e
    BY TwoEnds
  <2> HIDE DEF e, id
  <2>9. QED
    BY <1>1, <1>3, <1>4, <1>5, <1>7, <2>4, <2>5, <2>6, <2>7, <2>8, MatchedFor
<1>8. CASE f # e
  <2>1. contexts'[f] = contexts[f]
    BY <1>1, <1>2, <1>8
  <2> HIDE DEF id
  <2>2. QED
    BY <1>1, <1>3, <1>4, <1>5, <1>6, <1>8, <2>1, MatchedKept
<1>9. QED
  BY <1>7, <1>8

\* A caller's step keeps the standing of its call, or releases its id.
LEMMA CallerMatched ==
  ASSUME MatchInv, NEW c \in Calls,
         \/ OpenFails(c) \/ SendRequest(c) \/ SendFails(c)
         \/ Receive(c) \/ Cancel(c) \/ ReceiveFails(c)
  PROVE  Matched'
<1> DEFINE e == Caller(c)
<1>1. /\ OwnInv /\ e \in Ends /\ Callee(c) # e
      /\ call \in [Calls -> CallRecords] /\ contexts \in [Ends -> SUBSET Contexts]
  BY EndFacts, TwoEnds, OwnFacts DEF MatchInv
<1>2. /\ UNCHANGED <<open, method>>
      /\ call'[c].id = call[c].id
      /\ \A d \in Calls \ {c} : call'[d] = call[d]
  <2>1. CASE OpenFails(c)
    BY <1>1, <2>1 DEF OpenFails, CallRecords, ends
  <2>2. CASE SendRequest(c)
    <3>1. UNCHANGED <<open, method>>
      BY <2>2 DEF SendRequest, ends
    <3>2. PICK end \in BOOLEAN, n \in {0, 1} :
            call' = [call EXCEPT ![c].sent = @ + n,
                                 ![c].pc = IF end THEN "receiving" ELSE "sending"]
      BY <1>1, <2>2, RequestGiven DEF OwnInv
    <3>3. QED
      BY <1>1, <3>1, <3>2 DEF CallRecords
  <2>3. CASE SendFails(c)
    BY <1>1, <2>3 DEF SendFails, CallRecords, ends
  <2>4. CASE Receive(c)
    BY <1>1, <2>4 DEF Receive, CallRecords, ends
  <2>5. CASE Cancel(c) \/ ReceiveFails(c)
    BY <1>1, <2>5 DEF Cancel, ReceiveFails, leave, CallRecords, ends
  <2>6. QED
    BY <2>1, <2>2, <2>3, <2>4, <2>5
<1>3. open[e] => \/ /\ contexts' = contexts
                    /\ call'[c].pc \in Waiting <=> call[c].pc \in Waiting
                 \/ /\ contexts' = [contexts EXCEPT ![e] = Without(e, call[c].id)]
                    /\ call[c].id > 0
                    /\ call'[c].pc \notin Waiting
  <2>1. CASE OpenFails(c)
    BY <1>1, <2>1 DEF OpenFails, CallRecords, Waiting
  <2>2. CASE SendRequest(c)
    <3>1. contexts' = contexts /\ call[c].pc = "sending"
      BY <2>2 DEF SendRequest
    <3>2. PICK end \in BOOLEAN, n \in {0, 1} :
            call' = [call EXCEPT ![c].sent = @ + n,
                                 ![c].pc = IF end THEN "receiving" ELSE "sending"]
      BY <1>1, <2>2, RequestGiven DEF OwnInv
    <3>3. QED
      BY <1>1, <3>1, <3>2 DEF CallRecords, Waiting
  <2>3. CASE SendFails(c)
    BY <2>3 DEF SendFails
  <2>4. CASE Receive(c)
    <3>1. call[c].id > 0
      BY <1>1, <2>4, OwnFacts DEF Receive
    <3>2. QED
      BY <1>1, <2>4, <3>1 DEF Receive, close_out, CallRecords, Waiting
  <2>5. CASE Cancel(c) \/ ReceiveFails(c)
    <3>1. call[c].id > 0 /\ leave(c)
      BY <1>1, <2>5, OwnFacts DEF Cancel, ReceiveFails
    <3>2. QED
      BY <1>1, <3>1 DEF leave, close_out, CallRecords, Waiting
  <2>6. QED
    BY <2>1, <2>2, <2>3, <2>4, <2>5
<1>4. contexts' = contexts \/ contexts' = [contexts EXCEPT ![e] = Without(e, call[c].id)]
  BY DEF OpenFails, SendRequest, SendFails, Receive, Cancel, ReceiveFails, leave,
         close_out
<1>5. SUFFICES ASSUME NEW f \in Ends, open[f], MatchedAt(f) PROVE MatchedAt(f)'
  BY <1>2 DEF MatchInv, Matched
<1>6. CASE f # e
  <2>1. contexts'[f] = contexts[f]
    BY <1>1, <1>4, <1>6
  <2>2. QED
    BY <1>1, <1>2, <1>5, <1>6, <2>1, MatchedKept
<1>7. CASE /\ f = e /\ contexts' = contexts
           /\ call'[c].pc \in Waiting <=> call[c].pc \in Waiting
  BY <1>1, <1>2, <1>5, <1>7, MatchedKept
<1>8. CASE /\ f = e /\ contexts' = [contexts EXCEPT ![e] = Without(e, call[c].id)]
           /\ call[c].id > 0 /\ call'[c].pc \notin Waiting
  <2>1. contexts'[f] = Without(f, call[c].id) /\ Callee(c) # f
    BY <1>1, <1>8
  <2> HIDE DEF e
  <2>2. QED
    BY <1>1, <1>2, <1>5, <1>8, <2>1, MatchedReleased
<1>9. QED
  BY <1>3, <1>5, <1>6, <1>7, <1>8

\* Nothing the caller's steps do concerns the two handlers.
LEMMA HandlerKept ==
  ASSUME JobsQueued, RunningHere, UNCHANGED <<jobs, running>>,
         \A c \in Calls : method'[c].pc = method[c].pc,
         Routing, running \in [Ends -> Calls \cup {None}]
  PROVE  JobsQueued' /\ RunningHere'
<1>1. \A e \in Ends : \A i \in 1 .. Len(jobs[e]) : jobs[e][i].call \in Calls
  <2>1. SUFFICES ASSUME NEW e \in Ends, NEW i \in 1 .. Len(jobs[e]) PROVE jobs[e][i].call \in Calls
    OBVIOUS
  <2>2. jobs[e] \in Seq(Routed(e))
    BY DEF Routing
  <2>3. jobs[e][i] \in Routed(e)
    BY <2>2, ElementOfSeq
  <2>4. QED
    BY <2>3 DEF Routed, Messages
<1>2. JobsQueued'
  BY <1>1 DEF JobsQueued, JobsAt, Request, Distinct
<1>3. RunningHere'
  BY DEF RunningHere
<1>4. QED
  BY <1>2, <1>3

LEMMA CallerStep ==
  ASSUME MatchInv, NEW c \in Calls,
         \/ Open(c) \/ OpenFails(c) \/ SendRequest(c) \/ SendFails(c)
         \/ Receive(c) \/ Cancel(c) \/ ReceiveFails(c)
  PROVE  Routing' /\ JobsQueued' /\ RunningHere' /\ Matched'
<1> DEFINE e == Caller(c)
<1>1. /\ OwnInv /\ TypeOK /\ e \in Ends /\ Routing /\ JobsQueued /\ RunningHere
      /\ running \in [Ends -> Calls \cup {None}] /\ outbound_transmission_id[e] \in Nat
      /\ call[c].id \in Nat
  BY EndFacts, OwnFacts, TypeFacts DEF MatchInv, OwnInv
<1>2. UNCHANGED <<jobs, running, method>>
  BY DEF Open, OpenFails, SendRequest, SendFails, Receive, Cancel, ReceiveFails, leave,
         ends
<1>3. \A f \in Ends : wire'[f] \in Seq(Routed(f))
  <2>1. CASE wire' = wire
    BY <1>1, <2>1 DEF Routing
  <2>2. CASE Open(c) \/ SendRequest(c)
    <3>1. \/ wire' = wire
          \/ \E id \in Nat : \E end \in BOOLEAN : \E payload \in BOOLEAN :
                Deliver(e, <<Message(id, c, "REQUEST", end, FALSE, payload)>>)
      <4>1. CASE Open(c)
        BY <1>1, <4>1 DEF Open
      <4>2. CASE SendRequest(c)
        BY <1>1, <4>2, RequestGiven
      <4>3. QED
        BY <2>2, <4>1, <4>2
    <3>2. CASE \E id \in Nat : \E end \in BOOLEAN : \E payload \in BOOLEAN :
                Deliver(e, <<Message(id, c, "REQUEST", end, FALSE, payload)>>)
      <4>1. PICK m \in Routed(Peer(e)) : Deliver(e, <<m>>)
        BY <1>1, <3>2, SentRouted
      <4>2. <<m>> \in Seq(Routed(Peer(e)))
        BY OneElement
      <4>3. QED
        BY <1>1, <4>1, <4>2, DeliverRouted
    <3>3. QED
      BY <2>1, <3>1, <3>2
  <2>3. CASE Receive(c) \/ Cancel(c) \/ ReceiveFails(c)
    <3>1. PICK messages \in {<<>>, <<handle_error(c)>>, <<shutdown(c)>>} :
            wire' = wire \/ Deliver(e, messages)
      BY <2>3 DEF Receive, Cancel, ReceiveFails, leave, close_out
    <3>2. messages \in Seq(Routed(Peer(e)))
      <4>1. handle_error(c) \in Routed(Peer(e)) /\ shutdown(c) \in Routed(Peer(e))
        BY <1>1, EndFacts, SentRouted
      <4>2. /\ <<handle_error(c)>> \in Seq(Routed(Peer(e)))
            /\ <<shutdown(c)>> \in Seq(Routed(Peer(e)))
        BY <4>1, OneElement
      <4>3. <<>> \in Seq(Routed(Peer(e)))
        BY EmptySeq
      <4>4. QED
        BY <4>2, <4>3
    <3>3. QED
      BY <1>1, <2>1, <3>1, <3>2, DeliverRouted
  <2>4. QED
    BY <2>1, <2>2, <2>3 DEF OpenFails, SendFails
<1>4. Routing'
  BY <1>1, <1>2, <1>3 DEF Routing
<1>5. JobsQueued' /\ RunningHere'
  BY <1>1, <1>2, HandlerKept
<1>6. QED
  BY <1>4, <1>5, OpenMatched, CallerMatched

\* The calls whose methods are queued or run at two ends are different ones.
LEMMA JobFacts ==
  ASSUME MatchInv, NEW e \in Ends
  PROVE  /\ jobs[e] \in Seq(Routed(e)) /\ jobs[e] \in Seq(Messages)
         /\ \A i \in 1 .. Len(jobs[e]) :
              /\ jobs[e][i] \in Routed(e) /\ jobs[e][i].call \in Calls
              /\ Request(jobs[e], i) => /\ Callee(jobs[e][i].call) = e
                                        /\ method[jobs[e][i].call].pc = "queued"
<1>1. jobs[e] \in Seq(Routed(e)) /\ jobs[e] \in Seq(Messages)
  BY TypeFacts DEF MatchInv, OwnInv, Routing
<1>2. \A i \in 1 .. Len(jobs[e]) : jobs[e][i] \in Routed(e)
  BY <1>1, ElementOfSeq
<1>3. \A i \in 1 .. Len(jobs[e]) : jobs[e][i].call \in Calls
  BY <1>2 DEF Routed, Messages
<1>4. \A i \in 1 .. Len(jobs[e]) :
        Request(jobs[e], i) => /\ Callee(jobs[e][i].call) = e
                               /\ method[jobs[e][i].call].pc = "queued"
  BY <1>2 DEF MatchInv, JobsQueued, JobsAt, Request, Routed
<1>5. QED
  BY <1>1, <1>2, <1>3, <1>4

\* The queue of an end stays as it is, and so do the methods it is for.
LEMMA JobsKept ==
  ASSUME MatchInv, NEW e \in Ends, jobs'[e] = jobs[e],
         \A c \in Calls : Callee(c) = e /\ method[c].pc = "queued" => method'[c].pc = "queued"
  PROVE  JobsAt(e)'
<1>1. \A i \in 1 .. Len(jobs[e]) :
        /\ jobs[e][i].call \in Calls
        /\ Request(jobs[e], i) => /\ Callee(jobs[e][i].call) = e
                                  /\ method[jobs[e][i].call].pc = "queued"
  BY JobFacts
<1>2. Distinct(jobs[e])
  BY DEF MatchInv, JobsQueued, JobsAt
<1>3. QED
  BY <1>1, <1>2 DEF JobsAt, Request, Distinct

\* The method of a running call ends, and with it its context.
LEMMA EndedMatched ==
  ASSUME MatchInv, NEW c \in Calls, NEW e \in Ends, running[e] = c,
         method' = [method EXCEPT ![c] = Ended(@)],
         running' = [running EXCEPT ![e] = None],
         \A f \in Ends : jobs'[f] = jobs[f] \/ jobs'[f] = <<>>
  PROVE  JobsQueued' /\ RunningHere'
<1>1. /\ running \in [Ends -> Calls \cup {None}] /\ method \in [Calls -> MethodRecords]
      /\ c # None
  BY TypeFacts, RpcAssumption DEF MatchInv, OwnInv, Calls
<1>2. Callee(c) = e /\ method[c].pc = "running"
  BY <1>1 DEF MatchInv, RunningHere
<1>3. \A d \in Calls \ {c} : method'[d] = method[d]
  BY <1>1
<1>4. RunningHere'
  <2>1. SUFFICES ASSUME NEW f \in Ends, running'[f] # None
                 PROVE  Callee(running'[f]) = f /\ method'[running'[f]].pc = "running"
    BY DEF RunningHere
  <2>2. f # e /\ running'[f] = running[f]
    BY <1>1, <2>1
  <2>3. Callee(running[f]) = f /\ method[running[f]].pc = "running"
    BY <2>1, <2>2 DEF MatchInv, RunningHere
  <2>4. running[f] \in Calls \ {c}
    BY <1>1, <1>2, <2>1, <2>2, <2>3
  <2>5. QED
    BY <1>3, <2>2, <2>3, <2>4
<1>5. JobsQueued'
  <2>1. SUFFICES ASSUME NEW f \in Ends PROVE JobsAt(f)'
    BY DEF JobsQueued
  <2>2. CASE jobs'[f] = <<>>
    BY <2>2 DEF JobsAt, Distinct
  <2>3. CASE jobs'[f] = jobs[f]
    <3>1. \A d \in Calls : method[d].pc = "queued" => method'[d].pc = "queued"
      BY <1>2, <1>3
    <3>2. QED
      BY <2>3, <3>1, JobsKept
  <2>4. QED
    BY <2>2, <2>3
<1>6. QED
  BY <1>4, <1>5

\* The end of the connection, at one end.
LEMMA FinnalCloseStep ==
  ASSUME MatchInv, NEW e \in Ends, finnal_close(e)
  PROVE  Routing' /\ JobsQueued' /\ RunningHere' /\ Matched'
<1>1. /\ open \in [Ends -> BOOLEAN]
      /\ wire \in [Ends -> Seq(Messages)] /\ jobs \in [Ends -> Seq(Messages)]
      /\ running \in [Ends -> Calls \cup {None}] /\ method \in [Calls -> MethodRecords]
      /\ contexts \in [Ends -> SUBSET Contexts] /\ OwnInv /\ Routing
  BY TypeFacts DEF MatchInv, OwnInv
<1>2. \A f \in Ends : /\ jobs'[f] = jobs[f] \/ jobs'[f] = <<>>
                      /\ wire'[f] = wire[f] \/ wire'[f] = <<>>
  BY <1>1 DEF finnal_close
<1>3. Routing'
  <2>1. \A f \in Ends : <<>> \in Seq(Routed(f))
    BY EmptySeq
  <2>2. QED
    BY <1>1, <1>2, <2>1 DEF Routing
<1>4. running' = [running EXCEPT ![e] = None] /\ call' = call
  BY DEF finnal_close
<1>5. CASE running[e] = None
  <2>1. running' = running /\ UNCHANGED <<contexts, method>>
    BY <1>1, <1>4, <1>5, RpcAssumption DEF finnal_close, Calls
  <2>2. RunningHere'
    BY <2>1 DEF MatchInv, RunningHere
  <2>3. ASSUME NEW f \in Ends PROVE JobsAt(f)'
    <3>1. CASE jobs'[f] = <<>>
      BY <3>1 DEF JobsAt, Distinct
    <3>2. CASE jobs'[f] = jobs[f]
      BY <2>1, <3>2, JobsKept
    <3>3. QED
      BY <1>2, <3>1, <3>2
  <2>4. Matched'
    <3>1. SUFFICES ASSUME NEW f \in Ends, open[f], MatchedAt(f) PROVE MatchedAt(f)'
      BY <1>1 DEF Matched, MatchInv, finnal_close
    <3>2. QED
      BY <1>1, <1>4, <2>1, <3>1, MatchedKept
  <2>5. QED
    BY <1>3, <2>2, <2>3, <2>4 DEF JobsQueued
<1>6. CASE running[e] # None
  <2>1. PICK c \in Calls : /\ running[e] = c
                           /\ method' = [method EXCEPT ![c] = Ended(@)]
                           /\ contexts' = contexts \/
                              contexts' = [contexts EXCEPT ![e] = Without(e, call[c].id)]
    BY <1>6 DEF finnal_close
  <2>2. JobsQueued' /\ RunningHere'
    BY <1>2, <1>4, <2>1, EndedMatched
  <2>3. Callee(c) = e
    BY <1>6, <2>1 DEF MatchInv, RunningHere
  <2>4. Matched'
    <3>1. SUFFICES ASSUME NEW f \in Ends, f # e, MatchedAt(f) PROVE MatchedAt(f)'
      BY <1>1 DEF Matched, MatchInv, finnal_close
    <3>2. contexts'[f] = contexts[f]
      BY <1>1, <2>1, <3>1
    <3>3. \A d \in Calls \ {c} : method'[d] = method[d]
      BY <1>1, <2>1
    <3>4. QED
      BY <1>1, <1>4, <2>3, <3>1, <3>2, <3>3, MatchedKept
  <2>5. QED
    BY <1>3, <2>2, <2>4
<1>7. QED
  BY <1>5, <1>6

\* What the router knows of the message it takes.
LEMMA HeadFacts ==
  ASSUME MatchInv, NEW e \in Ends, wire[e] # <<>>
  PROVE  /\ Head(wire[e]) \in OwnMessages /\ Head(wire[e]) \in Routed(e)
         /\ Tail(wire[e]) \in Seq(Routed(e))
<1>1. wire[e] \in Seq(OwnMessages) /\ wire[e] \in Seq(Routed(e))
  BY OwnFacts DEF MatchInv, Routing
<1>2. QED
  BY <1>1, HeadTailProperties

\* A request that finds no context is for a method that is neither queued nor
\* running.
LEMMA NotServed ==
  ASSUME MatchInv, NEW e \in Ends, open[e], NEW m \in OwnMessages, m \in Routed(e),
         m.type = "REQUEST", \A x \in contexts[e] : x.id # m.id
  PROVE  /\ m.call \in Calls /\ m.id = call[m.call].id /\ Callee(m.call) = e
         /\ method[m.call].pc \notin Serving
         /\ \A x \in contexts[e] : x.call # m.call
<1>1. m.call \in Calls /\ m.id = call[m.call].id /\ Callee(m.call) = e
  BY DEF OwnMessages, Messages, Routed
<1>2. MatchedAt(e)
  BY DEF MatchInv, Matched
<1>3. Context(call[m.call].id, "in", m.call).id = m.id
  BY <1>1 DEF Context
<1>4. method[m.call].pc \notin Serving
  BY <1>1, <1>2, <1>3 DEF MatchedAt
<1>5. \A x \in contexts[e] : x.id = call[x.call].id
  BY OwnFacts DEF MatchInv
<1>6. QED
  BY <1>1, <1>4, <1>5

\* The wires after the router took a message.
LEMMA TakenRouted ==
  ASSUME MatchInv, NEW e \in Ends, wire[e] # <<>>, wire' = [wire EXCEPT ![e] = Tail(@)]
  PROVE  \A f \in Ends : wire'[f] \in Seq(Routed(f))
<1>1. wire \in [Ends -> Seq(OwnMessages)] /\ Tail(wire[e]) \in Seq(Routed(e))
  BY HeadFacts, OwnFacts DEF MatchInv
<1>2. \A f \in Ends : wire'[f] = IF f = e THEN Tail(wire[e]) ELSE wire[f]
  BY <1>1
<1>3. QED
  BY <1>1, <1>2 DEF MatchInv, Routing

\* A request starts a method.
LEMMA NewInboundStep ==
  ASSUME MatchInv, NEW e \in Ends, open[e], NEW m \in OwnMessages, m \in Routed(e),
         \A x \in contexts[e] : x.id # m.id, new_inbound(e, m)
  PROVE  JobsQueued' /\ RunningHere' /\ Matched' /\ \A f \in Ends : jobs'[f] \in Seq(Routed(f))
<1> DEFINE c == m.call
<1>1. /\ c \in Calls /\ m.id = call[c].id /\ Callee(c) = e
      /\ method[c].pc \notin Serving
      /\ \A x \in contexts[e] : x.call # c
  BY NotServed DEF new_inbound
<1>2. /\ method \in [Calls -> MethodRecords] /\ contexts \in [Ends -> SUBSET Contexts]
      /\ jobs \in [Ends -> Seq(Messages)] /\ running \in [Ends -> Calls \cup {None}]
      /\ OwnInv /\ m.type = "REQUEST"
  BY TypeFacts DEF MatchInv, OwnInv, new_inbound
<1>3. UNCHANGED <<open, running, call>> /\ jobs' = [jobs EXCEPT ![e] = Append(@, m)]
  BY DEF new_inbound
<1>4. /\ \A d \in Calls \ {c} : method'[d] = method[d]
      /\ method'[c].pc = "queued"
  BY <1>1, <1>2 DEF new_inbound, NoMethod
<1>5. /\ contexts'[e] = contexts[e] \cup {Context(m.id, "in", c)}
      /\ \A f \in Ends \ {e} : contexts'[f] = contexts[f]
  BY <1>2 DEF new_inbound
<1>6. /\ jobs'[e] = Append(jobs[e], m)
      /\ \A f \in Ends \ {e} : jobs'[f] = jobs[f]
  BY <1>2, <1>3
<1> HIDE DEF c
<1>7. RunningHere'
  <2>1. SUFFICES ASSUME NEW f \in Ends, running[f] # None
                 PROVE  Callee(running[f]) = f /\ method'[running[f]].pc = "running"
    BY <1>3 DEF RunningHere
  <2>2. Callee(running[f]) = f /\ method[running[f]].pc = "running"
    BY <2>1 DEF MatchInv, RunningHere
  <2>3. running[f] # c /\ running[f] \in Calls
    BY <1>1, <1>2, <2>1, <2>2 DEF Serving
  <2>4. QED
    BY <1>4, <2>2, <2>3
<1>8. JobsAt(e)'
  <2> DEFINE q == jobs[e]
             r == jobs'[e]
  <2>1. /\ q \in Seq(Messages) /\ Distinct(q)
        /\ \A i \in 1 .. Len(q) : /\ q[i].call \in Calls
                                  /\ Request(q, i) => method[q[i].call].pc = "queued"
    BY JobFacts DEF MatchInv, JobsQueued, JobsAt
  <2>2. /\ r = Append(q, m) /\ Len(q) \in Nat /\ m \in Messages
        /\ Len(r) = Len(q) + 1 /\ r[Len(q) + 1] = m
        /\ \A i \in 1 .. Len(q) : r[i] = q[i]
    BY <1>6, <2>1, AppendProperties, LenProperties DEF OwnMessages
  <2> HIDE DEF q, r
  <2>3. \A i \in 1 .. Len(r) : i \in 1 .. Len(q) \/ i = Len(q) + 1
    BY <2>2
  <2>4. \A i \in 1 .. Len(q) : Request(q, i) => q[i].call # c
    BY <1>1, <2>1 DEF Serving
  <2>5. \A i \in 1 .. Len(q) : Request(r, i) => Request(q, i)
    BY <2>2 DEF Request
  <2>6. Distinct(r)
    <3>1. SUFFICES ASSUME NEW i \in 1 .. Len(r), NEW j \in 1 .. Len(r),
                          Request(r, i), Request(r, j), r[i].call = r[j].call
                   PROVE  i = j
      BY DEF Distinct
    <3>2. CASE i \in 1 .. Len(q) /\ j \in 1 .. Len(q)
      BY <2>1, <2>2, <2>5, <3>1, <3>2 DEF Distinct
    <3>3. CASE i = Len(q) + 1 /\ j = Len(q) + 1
      BY <3>3
    <3>4. CASE i \in 1 .. Len(q) /\ j = Len(q) + 1
      BY <2>2, <2>4, <2>5, <3>1, <3>4 DEF c
    <3>5. CASE i = Len(q) + 1 /\ j \in 1 .. Len(q)
      BY <2>2, <2>4, <2>5, <3>1, <3>5 DEF c
    <3>6. QED
      BY <2>3, <3>2, <3>3, <3>4, <3>5
  <2>7. \A i \in 1 .. Len(r) : Request(r, i) => method'[r[i].call].pc = "queued"
    <3>1. SUFFICES ASSUME NEW i \in 1 .. Len(r), Request(r, i)
                   PROVE  method'[r[i].call].pc = "queued"
      OBVIOUS
    <3>2. CASE i \in 1 .. Len(q)
      <4>1. /\ method[q[i].call].pc = "queued" /\ q[i].call \in Calls \ {c}
            /\ r[i] = q[i]
        BY <2>1, <2>2, <2>4, <2>5, <3>1, <3>2
      <4>2. QED
        BY <1>4, <4>1
    <3>3. CASE i = Len(q) + 1
      BY <1>4, <2>2, <3>3 DEF c
    <3>4. QED
      BY <2>3, <3>2, <3>3
  <2>8. QED
    BY <2>6, <2>7 DEF JobsAt, r
<1>9. JobsQueued'
  <2>1. SUFFICES ASSUME NEW f \in Ends, f # e PROVE JobsAt(f)'
    BY <1>8 DEF JobsQueued
  <2>2. \A d \in Calls : Callee(d) = f => method'[d] = method[d]
    BY <1>1, <1>4, <2>1
  <2>3. QED
    BY <1>6, <2>1, <2>2, JobsKept
<1>10. Matched'
  <2>1. SUFFICES ASSUME NEW f \in Ends, open[f], MatchedAt(f) PROVE MatchedAt(f)'
    BY <1>3 DEF MatchInv, Matched
  <2>2. CASE f = e
    <3>1. Context(m.id, "in", c).call = c /\ Context(m.id, "in", c).dir = "in"
      BY DEF Context
    <3>2. \A x \in contexts'[e] : x.call \in Calls
      BY <1>1, <1>2, <1>5, <3>1, OwnFacts
    <3>3. \A x : x.call # c => (x \in contexts'[e] <=> x \in contexts[e])
      BY <1>5, <3>1
    <3>4. \A x \in contexts'[e] : x.call = c => Holds(e, x)'
      BY <1>1, <1>4, <1>5, <3>1 DEF Holds, Serving
    <3>5. Context(call'[c].id, "in", c) \in contexts'[e]
      BY <1>1, <1>3, <1>5
    <3>6. Caller(c) # e
      BY <1>1, TwoEnds
    <3>7. QED
      BY <1>1, <1>3, <1>4, <2>1, <2>2, <3>2, <3>3, <3>4, <3>5, <3>6, MatchedFor
  <2>3. CASE f # e
    <3>1. \A d \in Calls : Callee(d) = f => method'[d] = method[d]
      BY <1>1, <1>4, <2>3
    <3>2. QED
      BY <1>2, <1>3, <1>5, <2>1, <2>3, <3>1, MatchedKept
  <2>4. QED
    BY <2>2, <2>3
<1>11. \A f \in Ends : jobs'[f] \in Seq(Routed(f))
  <2>1. m \in Routed(e) /\ \A f \in Ends : jobs[f] \in Seq(Routed(f))
    BY DEF MatchInv, Routing
  <2>2. Append(jobs[e], m) \in Seq(Routed(e))
    BY <2>1, AppendProperties
  <2>3. TAKE f \in Ends
  <2>4. CASE f = e
    BY <1>6, <2>2, <2>4
  <2>5. CASE f # e
    BY <1>6, <2>1, <2>5
  <2>6. QED
    BY <2>4, <2>5
<1>12. QED
  BY <1>7, <1>9, <1>10, <1>11

\* The router takes one message.
LEMMA FeedStep ==
  ASSUME MatchInv, NEW e \in Ends, wire[e] # <<>>, feed(e, Head(wire[e]))
  PROVE  Routing' /\ JobsQueued' /\ RunningHere' /\ Matched'
<1> DEFINE m == Head(wire[e])
<1>1. m \in OwnMessages /\ m \in Routed(e)
  BY HeadFacts
<1>2. open[e] /\ \A f \in Ends : wire'[f] \in Seq(Routed(f))
  BY TakenRouted DEF feed, Received
<1>3. /\ method \in [Calls -> MethodRecords] /\ call \in [Calls -> CallRecords]
      /\ running \in [Ends -> Calls \cup {None}] /\ jobs \in [Ends -> Seq(Messages)]
      /\ OwnInv /\ Routing /\ JobsQueued /\ RunningHere
  BY TypeFacts DEF MatchInv, OwnInv
<1> HIDE DEF m
<1>4. ASSUME UNCHANGED <<open, running, jobs, contexts>>,
             \A c \in Calls : /\ method'[c].pc = method[c].pc
                              /\ call'[c].id = call[c].id /\ call'[c].pc = call[c].pc
      PROVE  Routing' /\ JobsQueued' /\ RunningHere' /\ Matched'
  <2>1. Routing'
    BY <1>2, <1>3, <1>4 DEF Routing
  <2>2. JobsQueued' /\ RunningHere'
    BY <1>3, <1>4, HandlerKept
  <2>3. Matched'
    BY <1>3, <1>4, MatchedKept DEF Matched, MatchInv
  <2>4. QED
    BY <2>1, <2>2, <2>3
<1>5. ASSUME NEW x \in contexts[e], feed_out(e, m, x)
      PROVE  Routing' /\ JobsQueued' /\ RunningHere' /\ Matched'
  <2>1. x.call \in Calls
    BY <1>3, OwnFacts
  <2>2. \A c \in Calls : call'[c].id = call[c].id /\ call'[c].pc = call[c].pc
    BY <1>3, <1>5, <2>1 DEF feed_out, CallRecords
  <2>3. UNCHANGED <<open, running, jobs, contexts, method>>
    BY <1>5 DEF feed_out, ends
  <2>4. QED
    BY <1>4, <2>2, <2>3
<1>6. ASSUME NEW x \in contexts[e], feed_in(e, m, x)
      PROVE  Routing' /\ JobsQueued' /\ RunningHere' /\ Matched'
  <2>1. x.call \in Calls
    BY <1>3, OwnFacts
  <2>2. \A c \in Calls : method'[c].pc = method[c].pc
    BY <1>3, <1>6, <2>1 DEF feed_in, MethodRecords
  <2>3. UNCHANGED <<open, running, jobs, contexts, call>>
    BY <1>6 DEF feed_in, ends
  <2>4. QED
    BY <1>4, <2>2, <2>3
<1>7. CASE (\A x \in contexts[e] : x.id # m.id) /\ new_inbound(e, m)
  BY <1>1, <1>2, <1>7, NewInboundStep DEF Routing
<1>8. CASE invalid_packet_type(e, m)
  <2>1. /\ UNCHANGED <<open, running, contexts, call, method>>
        /\ jobs' = [jobs EXCEPT ![e] = Append(@, m)] /\ m.type # "REQUEST"
    BY <1>8 DEF invalid_packet_type
  <2>2. /\ jobs'[e] = Append(jobs[e], m)
        /\ \A f \in Ends \ {e} : jobs'[f] = jobs[f]
    BY <1>3, <2>1
  <2>3. Routing'
    <3>1. \A f \in Ends : jobs[f] \in Seq(Routed(f))
      BY <1>3 DEF Routing
    <3>2. Append(jobs[e], m) \in Seq(Routed(e))
      BY <1>1, <3>1, AppendProperties
    <3>3. \A f \in Ends : jobs'[f] \in Seq(Routed(f))
      BY <2>2, <3>1, <3>2
    <3>4. QED
      BY <1>2, <3>3 DEF Routing
  <2>4. RunningHere'
    BY <1>3, <2>1 DEF RunningHere
  <2>5. JobsAt(e)'
    <3> DEFINE q == jobs[e]
               r == jobs'[e]
    <3>1. /\ q \in Seq(Messages) /\ Distinct(q)
          /\ \A i \in 1 .. Len(q) : Request(q, i) => method[q[i].call].pc = "queued"
      BY JobFacts DEF MatchInv, JobsQueued, JobsAt
    <3>2. /\ Len(q) \in Nat /\ m \in Messages
          /\ Len(r) = Len(q) + 1 /\ r[Len(q) + 1] = m
          /\ \A i \in 1 .. Len(q) : r[i] = q[i]
      BY <1>1, <2>2, <3>1, AppendProperties, LenProperties DEF OwnMessages
    <3> HIDE DEF q, r
    <3>3. \A i \in 1 .. Len(r) : Request(r, i) => i \in 1 .. Len(q) /\ Request(q, i) /\ r[i] = q[i]
      BY <2>1, <3>2 DEF Request
    <3>4. Distinct(r)
      BY <3>1, <3>3 DEF Distinct
    <3>5. \A i \in 1 .. Len(r) : Request(r, i) => method'[r[i].call].pc = "queued"
      BY <2>1, <3>1, <3>3
    <3>6. QED
      BY <3>4, <3>5 DEF JobsAt, r
  <2>6. JobsQueued'
    BY <2>1, <2>2, <2>5, JobsKept DEF JobsQueued
  <2>7. Matched'
    BY <1>3, <2>1, MatchedKept DEF Matched, MatchInv
  <2>8. QED
    BY <2>3, <2>4, <2>6, <2>7
<1>9. QED
  BY <1>5, <1>6, <1>7, <1>8 DEF feed, m

\* The handler takes a job; a method that starts was queued, and once.
LEMMA StartJobStep ==
  ASSUME MatchInv, NEW e \in Ends, StartJob(e)
  PROVE  Routing' /\ JobsQueued' /\ RunningHere' /\ Matched'
<1> DEFINE q == jobs[e]
           m == Head(q)
<1>1. /\ method \in [Calls -> MethodRecords] /\ jobs \in [Ends -> Seq(Messages)]
      /\ running \in [Ends -> Calls \cup {None}] /\ OwnInv /\ TypeOK /\ Routing
      /\ open[e] /\ running[e] = None /\ q # <<>>
      /\ UNCHANGED <<open, contexts, call>> /\ jobs' = [jobs EXCEPT ![e] = Tail(@)]
  BY TypeFacts DEF MatchInv, OwnInv, StartJob
<1>2. /\ q \in Seq(Routed(e)) /\ q \in Seq(Messages) /\ Distinct(q) /\ Len(q) \in Nat
      /\ \A i \in 1 .. Len(q) : /\ q[i].call \in Calls
                                /\ Request(q, i) => /\ Callee(q[i].call) = e
                                                    /\ method[q[i].call].pc = "queued"
  BY JobFacts, LenProperties DEF MatchInv, JobsQueued, JobsAt
<1>3. /\ Tail(q) \in Seq(Routed(e)) /\ m \in Messages /\ Len(Tail(q)) = Len(q) - 1
      /\ \A i \in 1 .. Len(Tail(q)) : Tail(q)[i] = q[i + 1]
      /\ Len(q) >= 1 /\ q[1] = m
  BY <1>1, <1>2, HeadTailProperties, EmptySeq, LenProperties
<1>4. /\ jobs'[e] = Tail(q)
      /\ \A f \in Ends \ {e} : jobs'[f] = jobs[f]
  BY <1>1
<1>5. \/ /\ m.type = "REQUEST"
         /\ running' = [running EXCEPT ![e] = m.call]
         /\ method' = [method EXCEPT ![m.call].pc = "running"]
         /\ UNCHANGED wire
      \/ /\ m.type # "REQUEST"
         /\ Deliver(e, <<[m EXCEPT !.type = "RESPONSE", !.failed = TRUE, !.payload = TRUE]>>)
         /\ UNCHANGED <<running, method>>
  BY DEF StartJob
<1> HIDE DEF q, m
<1>6. Routing'
  <2>1. \A f \in Ends : jobs'[f] \in Seq(Routed(f))
    BY <1>1, <1>3, <1>4 DEF Routing
  <2>2. \A f \in Ends : wire'[f] \in Seq(Routed(f))
    <3>1. CASE wire' = wire
      BY <1>1, <3>1 DEF Routing
    <3> DEFINE n == [m EXCEPT !.type = "RESPONSE", !.failed = TRUE, !.payload = TRUE]
    <3>2. CASE Deliver(e, <<n>>)
      <4>1. n \in Routed(Peer(e))
        BY <1>3 DEF Messages, Routed
      <4> HIDE DEF n
      <4>2. <<n>> \in Seq(Routed(Peer(e)))
        BY <4>1, OneElement
      <4>3. QED
        BY <3>2, <4>2, DeliverRouted
    <3>3. QED
      BY <1>5, <3>1, <3>2
  <2>3. QED
    BY <2>1, <2>2 DEF Routing
\* What is left in the queue stood behind the first job.
<1>7. \A i \in 1 .. Len(Tail(q)) :
        /\ i + 1 \in 1 .. Len(q) /\ Tail(q)[i] = q[i + 1]
        /\ Request(Tail(q), i) => Request(q, i + 1)
  BY <1>2, <1>3 DEF Request
<1>8. Distinct(Tail(q))
  <2>1. SUFFICES ASSUME NEW i \in 1 .. Len(Tail(q)), NEW j \in 1 .. Len(Tail(q)),
                        Request(Tail(q), i), Request(Tail(q), j),
                        Tail(q)[i].call = Tail(q)[j].call
                 PROVE  i = j
    BY DEF Distinct
  <2>2. i + 1 = j + 1
    BY <1>2, <1>7, <2>1 DEF Distinct
  <2>3. QED
    BY <1>2, <1>3, <2>2
<1>9. CASE m.type = "REQUEST"
  <2> DEFINE c == m.call
  <2>1. /\ c \in Calls /\ Request(q, 1) /\ Callee(c) = e /\ method[c].pc = "queued"
    BY <1>2, <1>3, <1>9 DEF Request
  <2>2. /\ running' = [running EXCEPT ![e] = c]
        /\ method' = [method EXCEPT ![c].pc = "running"]
    BY <1>5, <1>9
  <2>3. /\ method'[c].pc = "running" /\ \A d \in Calls \ {c} : method'[d] = method[d]
    BY <1>1, <2>1, <2>2 DEF MethodRecords
  <2>4. \A i \in 1 .. Len(Tail(q)) : Request(Tail(q), i) => Tail(q)[i].call # c
    <3>1. SUFFICES ASSUME NEW i \in 1 .. Len(Tail(q)), Request(Tail(q), i), Tail(q)[i].call = c
                   PROVE  FALSE
      OBVIOUS
    <3>2. i + 1 = 1
      <4>1. /\ i + 1 \in 1 .. Len(q) /\ 1 \in 1 .. Len(q)
            /\ Request(q, i + 1) /\ q[i + 1].call = q[1].call
        BY <1>2, <1>3, <1>7, <3>1
      <4>2. QED
        BY <1>2, <2>1, <4>1 DEF Distinct
    <3>3. QED
      BY <1>2, <1>3, <3>2
  <2> HIDE DEF c
  <2>5. JobsAt(e)'
    <3>1. \A i \in 1 .. Len(Tail(q)) :
            Request(Tail(q), i) => method'[Tail(q)[i].call].pc = "queued"
      <4>1. SUFFICES ASSUME NEW i \in 1 .. Len(Tail(q)), Request(Tail(q), i)
                     PROVE  method'[Tail(q)[i].call].pc = "queued"
        OBVIOUS
      <4>2. Tail(q)[i].call \in Calls \ {c} /\ method[Tail(q)[i].call].pc = "queued"
        BY <1>2, <1>7, <2>4, <4>1
      <4>3. QED
        BY <2>3, <4>2
    <3>2. QED
      BY <1>4, <1>8, <3>1 DEF JobsAt
  <2>6. JobsQueued'
    <3>1. SUFFICES ASSUME NEW f \in Ends, f # e PROVE JobsAt(f)'
      BY <2>5 DEF JobsQueued
    <3>2. \A d \in Calls : Callee(d) = f => method'[d] = method[d]
      BY <2>1, <2>3, <3>1
    <3>3. QED
      BY <1>4, <3>1, <3>2, JobsKept
  <2>7. RunningHere'
    <3>1. SUFFICES ASSUME NEW f \in Ends, running'[f] # None
                   PROVE  Callee(running'[f]) = f /\ method'[running'[f]].pc = "running"
      BY DEF RunningHere
    <3>2. CASE f = e
      BY <1>1, <2>1, <2>2, <2>3, <3>2
    <3>3. CASE f # e
      <4>1. running'[f] = running[f] /\ running[f] \in Calls
        BY <1>1, <2>2, <3>1, <3>3
      <4>2. Callee(running[f]) = f /\ method[running[f]].pc = "running"
        BY <3>1, <4>1 DEF MatchInv, RunningHere
      <4>3. running[f] # c
        BY <2>1, <3>3, <4>2
      <4>4. QED
        BY <2>3, <4>1, <4>2, <4>3
    <3>4. QED
      BY <3>2, <3>3
  <2>8. Matched'
    <3>1. SUFFICES ASSUME NEW f \in Ends, open[f], MatchedAt(f) PROVE MatchedAt(f)'
      BY <1>1 DEF Matched, MatchInv
    <3>2. \A d \in Calls : method'[d].pc \in Serving <=> method[d].pc \in Serving
      BY <2>1, <2>3 DEF Serving
    <3>3. QED
      BY <1>1, <3>1, <3>2, MatchedKept
  <2>9. QED
    BY <1>6, <2>6, <2>7, <2>8
<1>10. CASE m.type # "REQUEST"
  <2>1. UNCHANGED <<running, method>>
    BY <1>5, <1>10
  <2>2. JobsAt(e)'
    <3>1. \A i \in 1 .. Len(Tail(q)) :
            Request(Tail(q), i) => method'[Tail(q)[i].call].pc = "queued"
      BY <1>2, <1>7, <2>1
    <3>2. QED
      BY <1>4, <1>8, <3>1 DEF JobsAt
  <2>3. JobsQueued'
    BY <1>4, <2>1, <2>2, JobsKept DEF JobsQueued
  <2>4. RunningHere'
    BY <2>1 DEF RunningHere, MatchInv
  <2>5. Matched'
    BY <1>1, <2>1, MatchedKept DEF Matched, MatchInv
  <2>6. QED
    BY <1>6, <2>3, <2>4, <2>5
<1>11. QED
  BY <1>9, <1>10

\* A method reads, answers or ends.
LEMMA MethodStep ==
  ASSUME MatchInv, NEW c \in Calls,
         \/ ReadRequest(c) \/ SendResponse(c) \/ Return(c)
         \/ RaiseException(c) \/ ReadFails(c) \/ RaiseBaseEx(c)
  PROVE  Routing' /\ JobsQueued' /\ RunningHere' /\ Matched'
<1> DEFINE e == Callee(c)
<1>1. /\ method \in [Calls -> MethodRecords] /\ contexts \in [Ends -> SUBSET Contexts]
      /\ running \in [Ends -> Calls \cup {None}] /\ e \in Ends /\ OwnInv /\ TypeOK
      /\ Routing /\ JobsQueued /\ RunningHere /\ e # Caller(c)
  BY EndFacts, TwoEnds, TypeFacts DEF MatchInv, OwnInv
<1>2. running[e] = c /\ c # None /\ call[c].id > 0
  <2>1. running[e] = c /\ c # None
    BY RpcAssumption DEF ReadRequest, SendResponse, Return, RaiseException, ReadFails,
                         RaiseBaseEx, Speaking, Running, Calls
  <2>2. QED
    BY <1>1, <2>1, OwnFacts
<1>3. UNCHANGED <<open, jobs, call>>
  BY DEF ReadRequest, SendResponse, Return, RaiseException, ReadFails, RaiseBaseEx, ends
<1>4. \A f \in Ends : wire'[f] \in Seq(Routed(f))
  <2>1. CASE ReadRequest(c)
    BY <1>1, <2>1 DEF ReadRequest, Routing
  <2>2. CASE SendResponse(c)
    <3>1. PICK end \in BOOLEAN, payload \in BOOLEAN :
            Deliver(e, <<Message(call[c].id, c, "RESPONSE", end, FALSE, payload)>>)
      BY <1>1, <2>2, ResponseGiven
    <3>2. Message(call[c].id, c, "RESPONSE", end, FALSE, payload) \in Routed(Peer(e))
      BY <1>1, <3>1, EndFacts, SentRouted
    <3>3. QED
      BY <1>1, <3>1, <3>2, OneElement, DeliverRouted
  <2>3. CASE Return(c) \/ RaiseException(c) \/ ReadFails(c) \/ RaiseBaseEx(c)
    <3>1. PICK messages \in {<<>>, <<handle_error(c)>>, <<shutdown(c)>>} : Deliver(e, messages)
      BY <2>3 DEF Return, RaiseException, ReadFails, RaiseBaseEx, close_in, EndOfStream
    <3>2. messages \in Seq(Routed(Peer(e)))
      <4>1. handle_error(c) \in Routed(Peer(e)) /\ shutdown(c) \in Routed(Peer(e))
        BY <1>1, EndFacts, SentRouted
      <4>2. /\ <<handle_error(c)>> \in Seq(Routed(Peer(e)))
            /\ <<shutdown(c)>> \in Seq(Routed(Peer(e)))
        BY <4>1, OneElement
      <4>3. <<>> \in Seq(Routed(Peer(e)))
        BY EmptySeq
      <4>4. QED
        BY <4>2, <4>3
    <3>3. QED
      BY <1>1, <3>1, <3>2, DeliverRouted
  <2>4. QED
    BY <2>1, <2>2, <2>3
<1>5. Routing'
  BY <1>1, <1>3, <1>4 DEF Routing
<1>6. CASE ReadRequest(c) \/ SendResponse(c)
  <2>1. UNCHANGED <<running, contexts>>
    BY <1>6 DEF ReadRequest, SendResponse, ends
  <2>2. \A d \in Calls : method'[d].pc = method[d].pc
    <3>1. CASE ReadRequest(c)
      BY <1>1, <3>1 DEF ReadRequest, MethodRecords
    <3>2. CASE SendResponse(c)
      <4>1. PICK end \in BOOLEAN, n \in {0, 1} :
              method' = [method EXCEPT ![c].responded = @ + n, ![c].ended = @ \/ end]
        BY <1>1, <3>2, ResponseGiven
      <4>2. QED
        BY <1>1, <4>1 DEF MethodRecords
    <3>3. QED
      BY <1>6, <3>1, <3>2
  <2>3. JobsQueued' /\ RunningHere'
    BY <1>1, <1>3, <2>1, <2>2, HandlerKept
  <2>4. Matched'
    BY <1>1, <1>3, <2>1, <2>2, MatchedKept DEF Matched, MatchInv
  <2>5. QED
    BY <1>5, <2>3, <2>4
<1>7. CASE Return(c) \/ RaiseException(c) \/ ReadFails(c) \/ RaiseBaseEx(c)
  <2>1. /\ contexts' = [contexts EXCEPT ![e] = Without(e, call[c].id)]
        /\ method' = [method EXCEPT ![c] = Ended(@)]
        /\ running' = [running EXCEPT ![e] = None]
    BY <1>7 DEF Return, RaiseException, ReadFails, RaiseBaseEx, close_in
  <2>2. JobsQueued' /\ RunningHere'
    BY <1>1, <1>2, <1>3, <2>1, EndedMatched
  <2>3. /\ method'[c].pc = "ended" /\ \A d \in Calls \ {c} : method'[d] = method[d]
    BY <1>1, <2>1 DEF Ended, NoMethod
  <2>4. Matched'
    <3>1. SUFFICES ASSUME NEW f \in Ends, open[f], MatchedAt(f) PROVE MatchedAt(f)'
      BY <1>3 DEF Matched, MatchInv
    <3>2. CASE f = e
      <4>1. contexts'[f] = Without(f, call[c].id) /\ Caller(c) # f
        BY <1>1, <2>1, <3>2
      <4>2. QED
        BY <1>1, <1>2, <1>3, <2>3, <3>1, <4>1, MatchedReleased DEF Serving
    <3>3. CASE f # e
      <4>1. contexts'[f] = contexts[f]
        BY <1>1, <2>1, <3>3
      <4>2. QED
        BY <1>1, <1>3, <2>3, <3>1, <3>3, <4>1, MatchedKept
    <3>4. QED
      BY <3>2, <3>3
  <2>5. QED
    BY <1>5, <2>2, <2>4
<1>8. QED
  BY <1>6, <1>7

LEMMA MatchInit == Init => MatchInv
<1> SUFFICES ASSUME Init PROVE MatchInv
  OBVIOUS
<1>1. OwnInv
  BY OwnInit
<1>2. \A S : <<>> \in Seq(S)
  BY EmptySeq
<1>3. Routing /\ JobsQueued /\ RunningHere
  BY <1>2 DEF Init, Routing, JobsQueued, JobsAt, Distinct, RunningHere
<1>4. \A c \in Calls : call[c].pc = "new" /\ method[c].pc = "none"
  BY DEF Init, NoMethod
<1>5. Matched
  BY <1>4 DEF Init, Matched, MatchedAt, Waiting, Serving
<1>6. QED
  BY <1>1, <1>3, <1>5 DEF MatchInv

LEMMA MatchStep == MatchInv /\ [Next]_vars => MatchInv'
<1> SUFFICES ASSUME MatchInv, [Next]_vars PROVE MatchInv'
  OBVIOUS
<1>1. OwnInv'
  BY OwnStep DEF MatchInv
<1>2. ASSUME NEW c \in Calls,
             \/ Open(c) \/ OpenFails(c) \/ SendRequest(c) \/ SendFails(c)
             \/ Receive(c) \/ Cancel(c) \/ ReceiveFails(c)
      PROVE  MatchInv'
  BY <1>1, <1>2, CallerStep DEF MatchInv
<1>3. ASSUME NEW e \in Ends, Cut(e) \/ PeerGone(e) \/ feed_raises(e) PROVE MatchInv'
  BY <1>1, <1>3, FinnalCloseStep DEF MatchInv, Cut, PeerGone, feed_raises
<1>4. ASSUME NEW e \in Ends, wire[e] # <<>>, feed(e, Head(wire[e])) PROVE MatchInv'
  BY <1>1, <1>4, FeedStep DEF MatchInv
<1>5. ASSUME NEW e \in Ends, StartJob(e) PROVE MatchInv'
  BY <1>1, <1>5, StartJobStep DEF MatchInv
<1>6. ASSUME NEW c \in Calls, Method(c) \/ RaiseException(c) \/ ReadFails(c) \/ RaiseBaseEx(c)
      PROVE  MatchInv'
  BY <1>1, <1>6, MethodStep DEF MatchInv, Method
<1>7. CASE UNCHANGED vars
  <2>1. UNCHANGED <<open, wire, contexts, jobs, running, call, method>>
    BY <1>7 DEF vars
  <2>2. Routing' /\ JobsQueued' /\ RunningHere'
    BY <2>1 DEF MatchInv, Routing, JobsQueued, JobsAt, RunningHere
  <2>3. Matched'
    BY <2>1 DEF MatchInv, Matched, MatchedAt, Holds
  <2>4. QED
    BY <1>1, <2>2, <2>3 DEF MatchInv
<1>8. QED
  BY <1>2, <1>3, <1>4, <1>5, <1>6, <1>7 DEF Next, feed_messages

\* While an end is open it holds a context for each call of its own that waits
\* and each method it runs, and no other, whatever is cancelled or fails and
\* however messages of ended calls arrive (open, close, feed_messages).
THEOREM NoContextLeaked == Spec => []ContextsMatch
<1>1. MatchInv => ContextsMatch
  <2>1. SUFFICES ASSUME MatchInv, NEW e \in Ends, open[e], NEW x
                 PROVE  x \in contexts[e] <=>
                          \/ \E c \in Calls : /\ Caller(c) = e /\ call[c].pc \in Waiting
                                              /\ x = Context(call[c].id, "out", c)
                          \/ \E c \in Calls : /\ Callee(c) = e /\ method[c].pc \in Serving
                                              /\ x = Context(call[c].id, "in", c)
    BY DEF ContextsMatch, Waiting, Serving
  <2>2. MatchedAt(e) /\ OwnInv
    BY <2>1 DEF MatchInv, Matched
  <2>3. ASSUME x \in contexts[e]
        PROVE  x.call \in Calls /\ x = Context(call[x.call].id, x.dir, x.call) /\ Holds(e, x)
    <3>1. contexts[e] \subseteq Contexts /\ x.id = call[x.call].id
      BY <2>2, <2>3, OwnFacts
    <3>2. QED
      BY <2>2, <2>3, <3>1 DEF Contexts, Context, MatchedAt
  <2>4. QED
    BY <2>2, <2>3 DEF MatchedAt, Holds
<1>2. QED
  BY <1>1, MatchInit, MatchStep, PTL DEF Spec
===============================================================================
