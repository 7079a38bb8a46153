---------------------------- MODULE RpcOrderProofs ----------------------------
(***************************************************************************)
(* Proofs about the order of a call's messages in RpcCalls, for any calls  *)
(* of any kinds from both ends: a call starts one method, two ends that    *)
(* keep to the protocol stay open, whole streams arrive, and RpcCalls      *)
(* implements RemoteCalls.                                                 *)
(***************************************************************************)
EXTENDS RpcCallsProofs, FiniteSetTheorems

(* Sequences of messages *)

\* No element of R stands in w.
Free(w, R) == \A i \in 1 .. Len(w) : w[i] \notin R

\* No element of R stands behind one of L.
LastOnly(w, R, L) == \A i, j \in 1 .. Len(w) : i < j /\ w[i] \in L => w[j] \notin R

\* v has no element of R, and no order of them, that w had not.
Calmer(w, v, R, L) ==
    /\ LastOnly(w, R, L) => LastOnly(v, R, L)
    /\ Free(w, R) => Free(v, R)
    /\ Free(w, L) => Free(v, L)

\* Nothing is in an empty sequence.
LEMMA EmptyOrder ==
  ASSUME NEW R, NEW L
  PROVE  Free(<<>>, R) /\ LastOnly(<<>>, R, L) /\ \A w : Calmer(w, <<>>, R, L)
<1>1. Len(<<>>) = 0
  OBVIOUS
<1>2. QED
  BY <1>1 DEF Free, LastOnly, Calmer

\* Taking the first element.
LEMMA TailOrder ==
  ASSUME NEW S, NEW w \in Seq(S), w # <<>>, NEW R, NEW L
  PROVE  /\ Calmer(w, Tail(w), R, L)
         /\ Head(w) \in L /\ LastOnly(w, R, L) => Free(Tail(w), R)
         /\ Free(w, R) => Head(w) \notin R
<1>1. /\ Len(w) \in Nat /\ Len(w) >= 1 /\ Head(w) = w[1]
      /\ Len(Tail(w)) = Len(w) - 1
      /\ \A i \in 1 .. Len(Tail(w)) : Tail(w)[i] = w[i + 1]
  BY HeadTailProperties, LenProperties, EmptySeq
<1> DEFINE v == Tail(w)
<1>2. \A i \in 1 .. Len(v) : i + 1 \in 1 .. Len(w) /\ 1 < i + 1 /\ v[i] = w[i + 1]
  BY <1>1
<1>3. \A i, j \in 1 .. Len(v) : i < j => i + 1 < j + 1
  BY <1>1
<1>4. 1 \in 1 .. Len(w)
  BY <1>1
<1> HIDE DEF v
<1>5. Free(w, R) => Free(v, R)
  BY <1>2 DEF Free
<1>6. Free(w, L) => Free(v, L)
  BY <1>2 DEF Free
<1>7. LastOnly(w, R, L) => LastOnly(v, R, L)
  BY <1>2, <1>3 DEF LastOnly
<1>8. Head(w) \in L /\ LastOnly(w, R, L) => Free(v, R)
  BY <1>1, <1>2, <1>4 DEF LastOnly, Free
<1>9. Free(w, R) => Head(w) \notin R
  BY <1>1, <1>4 DEF Free
<1>10. QED
  BY <1>5, <1>6, <1>7, <1>8, <1>9 DEF Calmer, v

\* Appending one element.
LEMMA AppendOrder ==
  ASSUME NEW S, NEW w \in Seq(S), NEW m \in S, NEW R, NEW L
  PROVE  /\ Free(w \o <<m>>, R) <=> Free(w, R) /\ m \notin R
         /\ LastOnly(w, R, L) /\ (m \in R => Free(w, L)) => LastOnly(w \o <<m>>, R, L)
<1> DEFINE v == w \o <<m>>
<1>1. /\ Len(w) \in Nat /\ Len(v) = Len(w) + 1 /\ v[Len(w) + 1] = m
      /\ \A i \in 1 .. Len(w) : v[i] = w[i]
  BY ConcatProperties, LenProperties
<1> HIDE DEF v
<1>2. \A i \in 1 .. Len(v) : i \in 1 .. Len(w) \/ i = Len(w) + 1
  BY <1>1
<1>3. \A i \in 1 .. Len(w) : i \in 1 .. Len(v)
  BY <1>1
<1>4. Len(w) + 1 \in 1 .. Len(v)
  BY <1>1
<1>5. Free(v, R) <=> Free(w, R) /\ m \notin R
  BY <1>1, <1>2, <1>3, <1>4 DEF Free
<1>6. ASSUME LastOnly(w, R, L), m \in R => Free(w, L) PROVE LastOnly(v, R, L)
  <2>1. SUFFICES ASSUME NEW i \in 1 .. Len(v), NEW j \in 1 .. Len(v), i < j, v[i] \in L
                 PROVE  v[j] \notin R
    BY DEF LastOnly
  <2>2. i \in 1 .. Len(w)
    BY <1>1, <2>1
  <2>3. CASE j \in 1 .. Len(w)
    BY <1>1, <1>6, <2>1, <2>2, <2>3 DEF LastOnly
  <2>4. CASE j = Len(w) + 1
    BY <1>1, <1>6, <2>1, <2>2, <2>4 DEF Free
  <2>5. QED
    BY <1>2, <2>3, <2>4
<1>7. QED
  BY <1>5, <1>6 DEF v

\* What is sent without being of R leaves every wire as it was in what concerns R.
LEMMA DeliverCalm ==
  ASSUME wire \in [Ends -> Seq(Messages)], NEW e \in Ends, NEW R, NEW L, L \subseteq R,
         NEW messages,
         messages = <<>> \/ \E m \in Messages : m \notin R /\ messages = <<m>>,
         Deliver(e, messages), NEW f \in Ends
  PROVE  Calmer(wire[f], wire'[f], R, L)
<1>1. wire'[f] = wire[f] \/ wire'[f] = wire[f] \o messages
  BY EndFacts DEF Deliver
<1>2. Calmer(wire[f], wire[f], R, L)
  BY DEF Calmer
<1>3. CASE messages = <<>>
  <2>1. wire[f] \o <<>> = wire[f]
    BY ConcatProperties, EmptySeq
  <2>2. QED
    BY <1>1, <1>2, <1>3, <2>1
<1>4. ASSUME NEW m \in Messages, m \notin R, messages = <<m>>
      PROVE  Calmer(wire[f], wire[f] \o messages, R, L)
  <2>1. wire[f] \in Seq(Messages) /\ m \notin L
    BY <1>4
  <2>2. QED
    BY <1>4, <2>1, AppendOrder DEF Calmer
<1>5. QED
  BY <1>1, <1>2, <1>3, <1>4
-------------------------------------------------------------------------------
(* Messages that add nothing to a queue *)

\* What the proofs below use of the state's shape.
LEMMA Shapes ==
  ASSUME MatchInv
  PROVE  /\ OwnInv /\ TypeOK
         /\ open \in [Ends -> BOOLEAN] /\ wire \in [Ends -> Seq(Messages)]
         /\ jobs \in [Ends -> Seq(Messages)] /\ running \in [Ends -> Calls \cup {None}]
         /\ call \in [Calls -> CallRecords] /\ method \in [Calls -> MethodRecords]
         /\ \A c \in Calls : Caller(c) \in Ends /\ Callee(c) \in Ends
  BY TypeFacts, EndFacts DEF MatchInv, OwnInv

\* A message without payload or end is an empty one of a stream.
Filled(m) ==
    \/ m.payload \/ m.end
    \/ IF m.type = "REQUEST" THEN "empty_request" \in Env ELSE "empty_response" \in Env

Filling == {m \in Messages : Filled(m)}

\* Only such a message wakes who then finds the queue empty.
WakeInv ==
    /\ wire \in [Ends -> Seq(Filling)]
    /\ \A c \in Calls : /\ c \in woken[Callee(c)] => "empty_request" \in Env
                        /\ c \in woken[Caller(c)] => "empty_response" \in Env

\* What the two ends send beside the messages of streams.
LEMMA SentFilled ==
  ASSUME TypeOK, NEW c \in Calls
  PROVE  /\ <<>> \in Seq(Filling)
         /\ <<handle_error(c)>> \in Seq(Filling) /\ <<shutdown(c)>> \in Seq(Filling)
<1>1. handle_error(c) \in Filling /\ shutdown(c) \in Filling
  BY MessageTypes DEF handle_error, shutdown, Message, Filling, Filled
<1>2. QED
  BY <1>1, OneElement, EmptySeq

\* A message that appends nothing has neither payload nor end.
LEMMA FedNothing ==
  ASSUME NEW m \in Messages, Fed(m) = <<>> PROVE ~m.payload /\ ~m.end
<1> DEFINE it(w) == [what |-> w, call |-> m.call]
           f == IF m.failed THEN <<it("error")>> ELSE IF m.payload THEN <<it("message")>> ELSE <<>>
           g == IF m.end THEN <<it("end")>> ELSE <<>>
<1>1. m.call \in Calls /\ \A w \in {"message", "end", "error"} : it(w) \in Items
  BY DEF Items, Messages
<1>2. f \in Seq(Items) /\ g \in Seq(Items)
  BY <1>1, OneElement, EmptySeq
<1>3. Len(f \o g) = Len(f) + Len(g) /\ Len(f) \in Nat /\ Len(g) \in Nat
  BY <1>2, ConcatProperties, LenProperties
<1>4. Fed(m) = f \o g
  BY DEF Fed
<1>5. Len(<<>>) = 0
  OBVIOUS
<1> HIDE DEF it
<1>6. (m.end => Len(g) = 1) /\ (m.payload => Len(f) = 1)
  OBVIOUS
<1> HIDE DEF f, g
<1>7. Len(f) + Len(g) = 0
  BY <1>3, <1>4, <1>5
<1>8. Len(f) = 0 /\ Len(g) = 0
  BY <1>3, <1>7
<1>9. QED
  BY <1>6, <1>8

\* A step that wakes nobody in vain.
LEMMA WakeKept ==
  ASSUME WakeInv, wire' \in [Ends -> Seq(Filling)],
         \A e \in Ends : woken'[e] \subseteq woken[e]
  PROVE  WakeInv'
<1>1. Filling' = Filling
  BY DEF Filling, Filled, Messages, Calls
<1>2. QED
  BY <1>1, EndFacts DEF WakeInv

\* Forgetting a call that was woken.
LEMMA ForgetKeeps ==
  ASSUME TypeOK, NEW c \in Calls, NEW f \in Ends, woken' = woken \/ Forget(f, c)
  PROVE  \A e \in Ends : woken'[e] \subseteq woken[e]
BY TypeFacts DEF Forget

LEMMA FinnalCloseWake ==
  ASSUME TypeOK, WakeInv, NEW e \in Ends, finnal_close(e) PROVE WakeInv'
<1>1. wire \in [Ends -> Seq(Filling)] /\ <<>> \in Seq(Filling)
  BY EmptySeq DEF WakeInv
<1>2. wire' \in [Ends -> Seq(Filling)]
  BY <1>1 DEF finnal_close
<1>3. woken' = woken \/ \E c \in Calls : Forget(e, c)
  BY DEF finnal_close
<1>4. \A f \in Ends : woken'[f] \subseteq woken[f]
  BY <1>3, ForgetKeeps
<1>5. QED
  BY <1>2, <1>4, WakeKept

LEMMA CallerWake ==
  ASSUME TypeOK, WakeInv, NEW c \in Calls,
         \/ Open(c) \/ OpenFails(c) \/ SendRequest(c) \/ SendFails(c)
         \/ Receive(c) \/ Cancel(c) \/ ReceiveFails(c)
  PROVE  WakeInv'
<1>1. /\ Caller(c) \in Ends /\ outbound_transmission_id[Caller(c)] \in Nat
      /\ wire \in [Ends -> Seq(Filling)]
  <2>1. Caller(c) \in Ends /\ outbound_transmission_id[Caller(c)] \in Nat
    BY EndFacts, TypeFacts
  <2>2. QED
    BY <2>1 DEF WakeInv
<1>2. \A e \in Ends : woken'[e] \subseteq woken[e]
  <2>1. woken' = woken \/ Forget(Caller(c), c)
    BY DEF Open, OpenFails, SendRequest, SendFails, Receive, Cancel, ReceiveFails, leave
  <2>2. QED
    BY <1>1, <2>1, ForgetKeeps
<1>3. \E messages \in Seq(Filling) : wire' = wire \/ Deliver(Caller(c), messages)
  <2>1. CASE Open(c)
    <3>1. PICK id \in Nat, payload \in BOOLEAN :
            wire' = wire \/ Deliver(Caller(c), <<Message(id, c, "REQUEST", TRUE, FALSE, payload)>>)
      BY <1>1, <2>1 DEF Open
    <3>2. Message(id, c, "REQUEST", TRUE, FALSE, payload) \in Filling
      BY DEF Message, Messages, Filling, Filled
    <3>3. QED
      BY <3>1, <3>2, OneElement
  <2>2. CASE SendRequest(c)
    <3>1. PICK end \in BOOLEAN, payload \in BOOLEAN :
            /\ payload \/ end \/ "empty_request" \in Env
            /\ Deliver(Caller(c), <<Message(call[c].id, c, "REQUEST", end, FALSE, payload)>>)
      BY <2>2, RequestGiven
    <3>2. Message(call[c].id, c, "REQUEST", end, FALSE, payload) \in Filling
      BY <3>1, MessageTypes DEF Message, Filling, Filled
    <3>3. QED
      BY <3>1, <3>2, OneElement
  <2>3. CASE OpenFails(c) \/ SendFails(c)
    BY <2>3, EmptySeq DEF OpenFails, SendFails
  <2>4. CASE Receive(c) \/ Cancel(c) \/ ReceiveFails(c)
    <3>1. PICK messages \in {<<>>, <<handle_error(c)>>, <<shutdown(c)>>} :
            wire' = wire \/ Deliver(Caller(c), messages)
      BY <2>4 DEF Receive, Cancel, ReceiveFails, leave, close_out
    <3>2. QED
      BY <3>1, SentFilled
  <2>5. QED
    BY <2>1, <2>2, <2>3, <2>4
<1>4. wire' \in [Ends -> Seq(Filling)]
  BY <1>1, <1>3, DeliverKeeps
<1>5. QED
  BY <1>2, <1>4, WakeKept

LEMMA FeedWake ==
  ASSUME MatchInv, WakeInv, NEW e \in Ends, wire[e] # <<>>, feed(e, Head(wire[e]))
  PROVE  WakeInv'
<1> DEFINE m == Head(wire[e])
<1>1. /\ wire \in [Ends -> Seq(Filling)] /\ open[e] /\ MatchedAt(e) /\ TypeOK
      /\ woken \in [Ends -> SUBSET Calls] /\ \A x \in contexts[e] : x.call \in Calls
  BY OwnFacts, TypeFacts DEF WakeInv, MatchInv, OwnInv, Matched, feed, Received
<1>2. wire[e] \in Seq(Filling) /\ Head(wire[e]) \in Filling /\ Tail(wire[e]) \in Seq(Filling)
  <2>1. wire[e] \in Seq(Filling)
    BY <1>1
  <2>2. QED
    BY <2>1, HeadTailProperties
<1>3. m \in Messages /\ Filled(m)
  BY <1>2 DEF Filling
<1>4. wire' \in [Ends -> Seq(Filling)]
  BY <1>1, <1>2 DEF feed, Received
<1> HIDE DEF m
\* Whoever is woken in vain is so by an empty message of a stream.
<1>5. ASSUME NEW x \in contexts[e], feed_out(e, m, x) \/ feed_in(e, m, x) PROVE WakeInv'
  <2>1. /\ x.call \in Calls /\ Holds(e, x)
        /\ \/ x.dir = "out" /\ m.type # "REQUEST"
           \/ x.dir = "in" /\ m.type = "REQUEST"
    BY <1>1, <1>5 DEF MatchedAt, feed_out, feed_in
  <2>2. \/ woken' = woken
        \/ Fed(m) = <<>> /\ woken' = [woken EXCEPT ![e] = @ \cup {x.call}]
    BY <1>5 DEF feed_out, feed_in, feed_waiter
  <2>3. CASE woken' = woken
    BY <1>4, <2>3, WakeKept
  <2>4. CASE Fed(m) = <<>> /\ woken' = [woken EXCEPT ![e] = @ \cup {x.call}]
    <3>1. IF m.type = "REQUEST" THEN "empty_request" \in Env ELSE "empty_response" \in Env
      BY <1>3, <2>4, FedNothing DEF Filled
    <3>2. ASSUME NEW c \in Calls
          PROVE  /\ c \in woken'[Callee(c)] => "empty_request" \in Env
                 /\ c \in woken'[Caller(c)] => "empty_response" \in Env
      <4>1. /\ Caller(c) \in Ends /\ Callee(c) \in Ends /\ Callee(c) # Caller(c)
            /\ c \in woken[Callee(c)] => "empty_request" \in Env
            /\ c \in woken[Caller(c)] => "empty_response" \in Env
        BY EndFacts, TwoEnds DEF WakeInv
      <4>2. CASE x.call # c
        BY <1>1, <2>4, <4>1, <4>2
      <4>3. CASE x.call = c /\ x.dir = "out"
        <5>1. Caller(c) = e /\ m.type # "REQUEST"
          BY <2>1, <4>3 DEF Holds
        <5>2. woken'[Callee(c)] = woken[Callee(c)]
          BY <1>1, <2>4, <4>1, <5>1
        <5>3. QED
          BY <3>1, <4>1, <5>1, <5>2
      <4>4. CASE x.call = c /\ x.dir = "in"
        <5>1. Callee(c) = e /\ m.type = "REQUEST"
          BY <2>1, <4>4 DEF Holds
        <5>2. woken'[Caller(c)] = woken[Caller(c)]
          BY <1>1, <2>4, <4>1, <5>1
        <5>3. QED
          BY <3>1, <4>1, <5>1, <5>2
      <4>5. QED
        BY <2>1, <4>2, <4>3, <4>4
    <3>3. Filling' = Filling
      BY DEF Filling, Filled, Messages, Calls
    <3>4. QED
      BY <1>4, <3>2, <3>3 DEF WakeInv
  <2>5. QED
    BY <2>2, <2>3, <2>4
<1>6. CASE new_inbound(e, m) \/ invalid_packet_type(e, m)
  <2>1. woken' = woken
    BY <1>6 DEF new_inbound, invalid_packet_type
  <2>2. QED
    BY <1>4, <2>1, WakeKept
<1>7. QED
  BY <1>5, <1>6 DEF feed, m

LEMMA MethodWake ==
  ASSUME MatchInv, WakeInv, NEW c \in Calls,
         \/ ReadRequest(c) \/ SendResponse(c) \/ Return(c)
         \/ RaiseException(c) \/ ReadFails(c) \/ RaiseBaseEx(c)
  PROVE  WakeInv'
<1>1. TypeOK /\ Callee(c) \in Ends /\ wire \in [Ends -> Seq(Filling)]
  BY EndFacts DEF MatchInv, OwnInv, WakeInv
<1>2. \A e \in Ends : woken'[e] \subseteq woken[e]
  <2>1. woken' = woken \/ Forget(Callee(c), c)
    BY DEF ReadRequest, SendResponse, Return, RaiseException, ReadFails, RaiseBaseEx, close_in
  <2>2. QED
    BY <1>1, <2>1, ForgetKeeps
<1>3. \E messages \in Seq(Filling) : wire' = wire \/ Deliver(Callee(c), messages)
  <2>1. CASE ReadRequest(c)
    BY <2>1, EmptySeq DEF ReadRequest
  <2>2. CASE SendResponse(c)
    <3>1. PICK end \in BOOLEAN, payload \in BOOLEAN :
            /\ payload \/ end \/ "empty_response" \in Env
            /\ Deliver(Callee(c), <<Message(call[c].id, c, "RESPONSE", end, FALSE, payload)>>)
      BY <1>1, <2>2, ResponseGiven
    <3>2. Message(call[c].id, c, "RESPONSE", end, FALSE, payload) \in Filling
      BY <1>1, <3>1, MessageTypes DEF Message, Filling, Filled
    <3>3. QED
      BY <3>1, <3>2, OneElement
  <2>3. CASE Return(c) \/ RaiseException(c) \/ ReadFails(c) \/ RaiseBaseEx(c)
    <3>1. PICK messages \in {<<>>, <<handle_error(c)>>, <<shutdown(c)>>} :
            Deliver(Callee(c), messages)
      BY <2>3 DEF Return, RaiseException, ReadFails, RaiseBaseEx, close_in, EndOfStream
    <3>2. QED
      BY <1>1, <3>1, SentFilled
  <2>4. QED
    BY <2>1, <2>2, <2>3
<1>4. wire' \in [Ends -> Seq(Filling)]
  BY <1>1, <1>3, DeliverKeeps
<1>5. QED
  BY <1>2, <1>4, WakeKept

LEMMA StartJobWake ==
  ASSUME MatchInv, WakeInv, NEW e \in Ends, StartJob(e) PROVE WakeInv'
<1> DEFINE m == Head(jobs[e])
           n == [m EXCEPT !.type = "RESPONSE", !.failed = TRUE, !.payload = TRUE]
<1>1. wire \in [Ends -> Seq(Filling)] /\ woken' = woken /\ jobs[e] # <<>>
  BY DEF WakeInv, StartJob
<1>2. m \in Messages
  BY <1>1, Shapes, HeadTailProperties
<1>3. n \in Filling
  BY <1>2 DEF Messages, Filling, Filled
<1>4. wire' = wire \/ Deliver(e, <<n>>)
  BY DEF StartJob
<1> HIDE DEF n
<1>5. wire' \in [Ends -> Seq(Filling)]
  BY <1>1, <1>3, <1>4, OneElement, DeliverKeeps
<1>6. QED
  BY <1>1, <1>5, WakeKept

LEMMA WakeInit == Init => WakeInv
<1> SUFFICES ASSUME Init PROVE WakeInv
  OBVIOUS
<1>1. <<>> \in Seq(Filling) /\ \A e \in Ends : wire[e] = <<>> /\ woken[e] = {}
  BY EmptySeq DEF Init
<1>2. wire \in [Ends -> Seq(Filling)]
  BY <1>1 DEF Init
<1>3. QED
  BY <1>1, <1>2, EndFacts DEF WakeInv

LEMMA WakeStep == MatchInv /\ WakeInv /\ [Next]_vars => WakeInv'
<1> SUFFICES ASSUME MatchInv, WakeInv, [Next]_vars PROVE WakeInv'
  OBVIOUS
<1>1. TypeOK
  BY DEF MatchInv, OwnInv
<1>2. ASSUME NEW c \in Calls,
             \/ Open(c) \/ OpenFails(c) \/ SendRequest(c) \/ SendFails(c)
             \/ Receive(c) \/ Cancel(c) \/ ReceiveFails(c)
      PROVE  WakeInv'
  BY <1>1, <1>2, CallerWake
<1>3. ASSUME NEW e \in Ends, Cut(e) \/ PeerGone(e) \/ feed_raises(e) PROVE WakeInv'
  BY <1>1, <1>3, FinnalCloseWake DEF Cut, PeerGone, feed_raises
<1>4. ASSUME NEW e \in Ends, wire[e] # <<>>, feed(e, Head(wire[e])) PROVE WakeInv'
  BY <1>4, FeedWake
<1>5. ASSUME NEW e \in Ends, StartJob(e) PROVE WakeInv'
  BY <1>5, StartJobWake
<1>6. ASSUME NEW c \in Calls, Method(c) \/ RaiseException(c) \/ ReadFails(c) \/ RaiseBaseEx(c)
      PROVE  WakeInv'
  BY <1>6, MethodWake DEF Method
<1>7. CASE UNCHANGED vars
  <2>1. wire' = wire /\ woken' = woken
    BY <1>7 DEF vars
  <2>2. QED
    BY <2>1, WakeKept DEF WakeInv
<1>8. QED
  BY <1>2, <1>3, <1>4, <1>5, <1>6, <1>7 DEF Next, feed_messages
-------------------------------------------------------------------------------
(* A call starts one method *)

Requests(c) == {m \in Messages : m.call = c /\ m.type = "REQUEST"}
Responses(c) == {m \in Messages : m.call = c /\ m.type # "REQUEST"}

\* Those of them that end their direction of the call.
LastOf(R, streaming) == {m \in R : m.end \/ ~streaming}
LastRequests(c) == LastOf(Requests(c), client_streaming(c))
LastResponses(c) == LastOf(Responses(c), server_streaming(c))

HasEnd(q) == \E i \in 1 .. Len(q) : q[i].what = "end"

\* The caller has sent its last request, if any.
Sent(c) == call[c].pc \notin {"new", "sending"}

\* The last request has come to the method's context.
EndRead(c) ==
    \/ method[c].read \/ method[c].pc = "ended"
    \/ method[c].fed /\ ~client_streaming(c)
    \/ HasEnd(method[c].queue)

\* The last request of a call is the last on the wire, and behind it there is
\* nothing that could start another method.
OnceAt(c) ==
    LET w == wire[Callee(c)] IN
    /\ call[c].pc = "sending" => client_streaming(c)
    /\ LastOnly(w, Requests(c), LastRequests(c))
    /\ ~Sent(c) => Free(w, LastRequests(c))
    /\ open[Callee(c)] /\ EndRead(c) => Sent(c) /\ Free(w, Requests(c))
    /\ method[c].pc \in Serving => method[c].fed
    /\ method[c].pc = "none" => method[c].runs = 0
    /\ method[c].runs <= 1

OnceInv == MatchInv /\ WakeInv /\ \A c \in Calls : OnceAt(c)

\* A method only returns, when it has read its requests: its own code does not
\* fail, nor, as no request of a stream is empty, recv_message().
MethodsReturn == Outcomes \subseteq {"ok"} /\ "empty_request" \notin Env

\* Then recv_message() is never woken for nothing.
LEMMA ReadsInTurn ==
  ASSUME WakeInv, MethodsReturn, NEW c \in Calls
  PROVE  c \notin woken[Callee(c)] /\ ~ReadFails(c) /\ ~RaiseException(c) /\ ~RaiseBaseEx(c)
BY DEF WakeInv, MethodsReturn, ReadFails, RaiseException, RaiseBaseEx

\* A step that sends no request of the call and starts no method for it.
LEMMA OnceKept ==
  ASSUME NEW c \in Calls, OnceAt(c),
         call'[c].kind = call[c].kind, call'[c].pc = "sending" => call[c].pc = "sending",
         Sent(c) => Sent(c)',
         open'[Callee(c)] => open[Callee(c)],
         open'[Callee(c)] /\ EndRead(c)' => EndRead(c),
         method'[c].pc \in Serving => method[c].pc \in Serving,
         method[c].fed => method'[c].fed \/ method'[c].pc = "ended",
         method'[c].pc = "none" => method[c].pc = "none",
         method'[c].runs = method[c].runs,
         Calmer(wire[Callee(c)], wire'[Callee(c)], Requests(c), LastRequests(c))
  PROVE  OnceAt(c)'
<1>1. /\ client_streaming(c)' = client_streaming(c)
      /\ LastRequests(c)' = LastRequests(c)
  BY DEF client_streaming, LastRequests
<1>2. Requests(c)' = Requests(c) /\ Callee(c)' = Callee(c)
  OBVIOUS
<1>3. "ended" \notin Serving
  BY DEF Serving
<1> HIDE DEF Requests
<1>4. LastOnly(wire'[Callee(c)], Requests(c), LastRequests(c)')
  BY <1>1 DEF OnceAt, Calmer
<1>5. ~Sent(c)' => Free(wire'[Callee(c)], LastRequests(c)')
  BY <1>1 DEF OnceAt, Calmer
<1>6. open'[Callee(c)] /\ EndRead(c)' => Sent(c)' /\ Free(wire'[Callee(c)], Requests(c))
  BY DEF OnceAt, Calmer
<1>7. call'[c].pc = "sending" => client_streaming(c)'
  BY <1>1 DEF OnceAt
<1>8. /\ method'[c].pc \in Serving => method'[c].fed
      /\ method'[c].pc = "none" => method'[c].runs = 0
      /\ method'[c].runs <= 1
  BY <1>3 DEF OnceAt
<1>9. QED
  BY <1>4, <1>5, <1>6, <1>7, <1>8 DEF OnceAt

\* The caller sends a request; only the last one says that it has sent them all.
LEMMA OnceSends ==
  ASSUME TypeOK, NEW c \in Calls, OnceAt(c), ~Sent(c), NEW m \in Requests(c),
         m \in LastRequests(c) => Sent(c)',
         call'[c].kind = call[c].kind, call'[c].pc = "sending" => client_streaming(c),
         UNCHANGED <<open, method>>,
         \/ wire'[Callee(c)] = wire[Callee(c)]
         \/ wire'[Callee(c)] = wire[Callee(c)] \o <<m>>
  PROVE  OnceAt(c)'
<1> DEFINE w == wire[Callee(c)]
           R == Requests(c)
           L == LastRequests(c)
<1>1. /\ client_streaming(c)' = client_streaming(c)
      /\ LastRequests(c)' = L /\ EndRead(c)' = EndRead(c)
  BY DEF client_streaming, LastRequests, EndRead
<1>2. /\ w \in Seq(Messages) /\ m \in Messages /\ m \in R
  BY EndFacts, TypeFacts DEF Requests
<1>3. LastOnly(w, R, L) /\ Free(w, L)
  BY DEF OnceAt
<1>4. ~(open[Callee(c)] /\ EndRead(c))
  BY DEF OnceAt
<1> HIDE DEF w, R, L
<1>5. LastOnly(w \o <<m>>, R, L) /\ (m \notin L => Free(w \o <<m>>, L))
  BY <1>2, <1>3, AppendOrder
<1>6. LastOnly(wire'[Callee(c)], R, L) /\ (~Sent(c)' => Free(wire'[Callee(c)], L))
  BY <1>3, <1>5 DEF w, L
<1>7. QED
  BY <1>1, <1>4, <1>6 DEF OnceAt, R, L

\* The messages of a call are no requests of another.
LEMMA OtherCall ==
  ASSUME NEW c, NEW d, NEW id, NEW type, NEW end, NEW failed, NEW payload
  PROVE  LET m == Message(id, c, type, end, failed, payload) IN
         /\ c # d \/ type # "REQUEST" => m \notin Requests(d)
         /\ c # d \/ type = "REQUEST" => m \notin Responses(d)
  BY DEF Message, Requests, Responses

LEMMA LastOfSubset ==
  \A c : LastRequests(c) \subseteq Requests(c) /\ LastResponses(c) \subseteq Responses(c)
  BY DEF LastRequests, LastResponses, LastOf

\* A step that changes nothing a call's requests depend on.
LEMMA OnceSame ==
  ASSUME NEW c \in Calls, OnceAt(c), UNCHANGED open,
         call'[c].kind = call[c].kind, call'[c].pc = call[c].pc, method'[c] = method[c],
         Calmer(wire[Callee(c)], wire'[Callee(c)], Requests(c), LastRequests(c))
  PROVE  OnceAt(c)'
<1>1. EndRead(c)' = EndRead(c) /\ Sent(c)' = Sent(c)
  BY DEF EndRead, client_streaming, Sent
<1>2. QED
  BY <1>1, OnceKept

LEMMA OpenOnce ==
  ASSUME OnceInv, NEW c \in Calls, Open(c), NEW d \in Calls PROVE OnceAt(d)'
<1> DEFINE e == Caller(c)
           id == outbound_transmission_id[e]
<1>1. /\ MatchInv /\ OnceAt(c) /\ OnceAt(d) /\ e \in Ends /\ call \in [Calls -> CallRecords]
      /\ wire \in [Ends -> Seq(Messages)] /\ TypeOK /\ Peer(e) = Callee(c)
      /\ UNCHANGED <<open, method>> /\ id \in Nat
  BY Shapes, TypeFacts DEF OnceInv, Open, ends, Callee
<1>2. PICK pc \in {"sending", "receiving", "done", "failed"}, payload \in BOOLEAN :
        /\ call' = [call EXCEPT ![c].id = id, ![c].pc = pc]
        /\ pc = "sending" => client_streaming(c)
        /\ pc \in {"sending", "failed"} => wire' = wire
        /\ wire' = wire \/ Deliver(e, <<Message(id, c, "REQUEST", TRUE, FALSE, payload)>>)
  BY DEF Open
<1> DEFINE m == Message(id, c, "REQUEST", TRUE, FALSE, payload)
<1>3. /\ call'[c].kind = call[c].kind /\ call'[c].pc = pc
      /\ \A f \in Calls \ {c} : call'[f] = call[f]
  BY <1>1, <1>2 DEF CallRecords
<1>4. m \in Messages /\ m \in Requests(c) /\ \A f \in Calls \ {c} : m \notin Requests(f)
  BY <1>1 DEF Message, Messages, Requests
<1> HIDE DEF m, id
<1>5. CASE d = c
  <2>1. ~Sent(c)
    BY DEF Open, Sent
  <2>2. wire'[Callee(c)] = wire[Callee(c)] \/ wire'[Callee(c)] = wire[Callee(c)] \o <<m>>
    BY <1>1, <1>2 DEF Deliver, m
  <2>3. CASE pc # "sending"
    <3>1. Sent(c)'
      BY <1>3, <2>3 DEF Sent
    <3>2. QED
      BY <1>1, <1>3, <1>4, <1>5, <2>1, <2>2, <2>3, <3>1, OnceSends
  <2>4. CASE pc = "sending"
    <3>1. wire' = wire /\ client_streaming(c)
      BY <1>2, <2>4
    <3>2. EndRead(c)' = EndRead(c) /\ client_streaming(c)' = client_streaming(c)
      BY <1>1, <1>3 DEF EndRead, client_streaming
    <3>3. LastRequests(c)' = LastRequests(c)
      BY <3>2 DEF LastRequests
    <3>4. ~(open[Callee(c)] /\ EndRead(c)) /\ Free(wire[Callee(c)], LastRequests(c))
      BY <1>1, <2>1 DEF OnceAt
    <3>5. QED
      BY <1>1, <1>5, <3>1, <3>2, <3>3, <3>4 DEF OnceAt
  <2>5. QED
    BY <2>3, <2>4
<1>6. CASE d # c
  <2>1. Calmer(wire[Callee(d)], wire'[Callee(d)], Requests(d), LastRequests(d))
    <3>1. CASE wire' = wire
      BY <3>1 DEF Calmer
    <3>2. CASE Deliver(e, <<m>>)
      BY <1>1, <1>4, <1>6, <3>2, DeliverCalm, LastOfSubset, EndFacts
    <3>3. QED
      BY <1>2, <3>1, <3>2 DEF m
  <2>2. QED
    BY <1>1, <1>3, <1>6, <2>1, OnceSame
<1>7. QED
  BY <1>5, <1>6

LEMMA SendRequestOnce ==
  ASSUME OnceInv, NEW c \in Calls, SendRequest(c), NEW d \in Calls PROVE OnceAt(d)'
<1> DEFINE e == Caller(c)
<1>1. /\ MatchInv /\ OnceAt(c) /\ OnceAt(d) /\ e \in Ends /\ call \in [Calls -> CallRecords]
      /\ wire \in [Ends -> Seq(Messages)] /\ TypeOK /\ Peer(e) = Callee(c)
      /\ UNCHANGED <<open, method>> /\ call[c].pc = "sending"
  BY Shapes DEF OnceInv, SendRequest, ends, Callee
<1>2. PICK end \in BOOLEAN, payload \in BOOLEAN, n \in {0, 1} :
        /\ Deliver(e, <<Message(call[c].id, c, "REQUEST", end, FALSE, payload)>>)
        /\ call' = [call EXCEPT ![c].sent = @ + n,
                                ![c].pc = IF end THEN "receiving" ELSE "sending"]
  BY <1>1, RequestGiven
<1> DEFINE m == Message(call[c].id, c, "REQUEST", end, FALSE, payload)
<1>3. /\ call'[c].kind = call[c].kind
      /\ call'[c].pc = (IF end THEN "receiving" ELSE "sending")
      /\ \A f \in Calls \ {c} : call'[f] = call[f]
  BY <1>1, <1>2 DEF CallRecords
<1>4. m \in Requests(c) /\ m.end = end
  BY <1>1, MessageTypes DEF Message, Requests
<1>5. m \in Messages /\ \A f \in Calls \ {c} : m \notin Requests(f)
  BY <1>4 DEF Requests
<1> HIDE DEF m
<1>6. CASE d = c
  <2>1. ~Sent(c) /\ client_streaming(c)
    BY <1>1 DEF Sent, OnceAt
  <2>2. wire'[Callee(c)] = wire[Callee(c)] \/ wire'[Callee(c)] = wire[Callee(c)] \o <<m>>
    BY <1>1, <1>2 DEF Deliver, m
  <2>3. m \in LastRequests(c) => Sent(c)'
    BY <1>3, <1>4, <2>1 DEF LastRequests, LastOf, Sent
  <2>4. QED
    BY <1>1, <1>3, <1>4, <1>6, <2>1, <2>2, <2>3, OnceSends
<1>7. CASE d # c
  <2>1. Calmer(wire[Callee(d)], wire'[Callee(d)], Requests(d), LastRequests(d))
    BY <1>1, <1>2, <1>5, <1>7, DeliverCalm, LastOfSubset, EndFacts DEF m
  <2>2. QED
    BY <1>1, <1>3, <1>7, <2>1, OnceSame
<1>8. QED
  BY <1>6, <1>7

\* What a caller sends when it leaves is no request.
LEMMA LeaveOnce ==
  ASSUME OnceInv, NEW c \in Calls,
         OpenFails(c) \/ SendFails(c) \/ Receive(c) \/ Cancel(c) \/ ReceiveFails(c),
         NEW d \in Calls
  PROVE  OnceAt(d)'
<1> DEFINE e == Caller(c)
<1>1. /\ MatchInv /\ OnceAt(d) /\ e \in Ends /\ call \in [Calls -> CallRecords]
      /\ wire \in [Ends -> Seq(Messages)] /\ TypeOK
      /\ UNCHANGED <<open, method>>
  BY Shapes DEF OnceInv, OpenFails, SendFails, Receive, Cancel, ReceiveFails, leave, ends
<1>2. /\ call'[c].kind = call[c].kind /\ call'[c].pc \notin {"new", "sending"}
      /\ \A f \in Calls \ {c} : call'[f] = call[f]
  <2>1. CASE OpenFails(c) \/ SendFails(c)
    BY <1>1, <2>1 DEF OpenFails, SendFails, CallRecords
  <2>2. CASE Receive(c)
    BY <1>1, <2>2 DEF Receive, CallRecords
  <2>3. CASE Cancel(c) \/ ReceiveFails(c)
    BY <1>1, <2>3 DEF Cancel, ReceiveFails, leave, CallRecords
  <2>4. QED
    BY <2>1, <2>2, <2>3
<1>3. Calmer(wire[Callee(d)], wire'[Callee(d)], Requests(d), LastRequests(d))
  <2>1. CASE wire' = wire
    BY <2>1 DEF Calmer
  <2>2. PICK messages \in {<<>>, <<handle_error(c)>>, <<shutdown(c)>>} :
          wire' = wire \/ Deliver(e, messages)
    BY DEF OpenFails, SendFails, Receive, Cancel, ReceiveFails, leave, close_out
  <2>3. /\ handle_error(c) \in Messages /\ shutdown(c) \in Messages
        /\ handle_error(c) \notin Requests(d) /\ shutdown(c) \notin Requests(d)
    BY <1>1, MessageTypes, OtherCall DEF handle_error, shutdown
  <2>4. QED
    BY <1>1, <2>1, <2>2, <2>3, DeliverCalm, LastOfSubset, EndFacts
<1>4. CASE d # c
  BY <1>1, <1>2, <1>3, <1>4, OnceSame
<1>5. CASE d = c
  <2>1. EndRead(c)' = EndRead(c) /\ Sent(c)'
    BY <1>1, <1>2 DEF EndRead, client_streaming, Sent
  <2>2. QED
    BY <1>1, <1>2, <1>3, <1>5, <2>1, OnceKept
<1>6. QED
  BY <1>4, <1>5

LEMMA FinnalCloseOnce ==
  ASSUME OnceInv, NEW e \in Ends, finnal_close(e), NEW d \in Calls PROVE OnceAt(d)'
<1>1. /\ MatchInv /\ OnceAt(d) /\ open \in [Ends -> BOOLEAN]
      /\ wire \in [Ends -> Seq(Messages)] /\ method \in [Calls -> MethodRecords]
      /\ running \in [Ends -> Calls \cup {None}] /\ Callee(d) \in Ends
  BY Shapes DEF OnceInv
<1>2. /\ open' = [open EXCEPT ![e] = FALSE] /\ wire' = [wire EXCEPT ![e] = <<>>]
      /\ call' = call
  BY DEF finnal_close
<1>3. Calmer(wire[Callee(d)], wire'[Callee(d)], Requests(d), LastRequests(d))
  <2>1. wire'[Callee(d)] = wire[Callee(d)] \/ wire'[Callee(d)] = <<>>
    BY <1>1, <1>2
  <2>2. Calmer(wire[Callee(d)], wire[Callee(d)], Requests(d), LastRequests(d))
    BY DEF Calmer
  <2>3. QED
    BY <2>1, <2>2, EmptyOrder
<1>4. CASE method'[d] = method[d]
  <2>1. EndRead(d)' = EndRead(d) /\ Sent(d)' = Sent(d)
    BY <1>2, <1>4 DEF EndRead, client_streaming, Sent
  <2>2. open'[Callee(d)] => open[Callee(d)]
    BY <1>1, <1>2
  <2>3. QED
    BY <1>1, <1>2, <1>3, <1>4, <2>1, <2>2, OnceKept
<1>5. CASE method'[d] # method[d]
  <2>1. running[e] = d /\ running[e] # None /\ method' = [method EXCEPT ![d] = Ended(@)]
    BY <1>1, <1>5, RpcAssumption DEF finnal_close, Calls
  <2>2. /\ method'[d].pc = "ended" /\ method'[d].runs = method[d].runs
    BY <1>1, <2>1 DEF Ended, NoMethod
  <2>3. Callee(d) = e
    BY <1>1, <2>1 DEF MatchInv, RunningHere
  <2>4. ~open'[Callee(d)] /\ Sent(d)' = Sent(d)
    BY <1>1, <1>2, <2>3 DEF Sent
  <2>5. QED
    BY <1>1, <1>2, <1>3, <2>2, <2>4, OnceKept DEF Serving
<1>6. QED
  BY <1>4, <1>5

\* What feed_message appends has an end exactly if the message has.
LEMMA FedEnd ==
  ASSUME NEW m \in Messages, NEW q \in Seq(Items)
  PROVE  /\ HasEnd(Fed(m)) => m.end
         /\ HasEnd(q \o Fed(m)) => HasEnd(q) \/ m.end
<1> DEFINE it(w) == [what |-> w, call |-> m.call]
           f == IF m.failed THEN <<it("error")>> ELSE IF m.payload THEN <<it("message")>> ELSE <<>>
<1>1. ASSUME ~m.end PROVE ~HasEnd(Fed(m))
  <2>1. Fed(m) = f \o <<>>
    BY <1>1 DEF Fed
  <2>2. f = <<it("error")>> \/ f = <<it("message")>> \/ f = <<>>
    OBVIOUS
  <2>3. Fed(m) = <<it("error")>> \/ Fed(m) = <<it("message")>> \/ Fed(m) = <<>>
    BY <2>1, <2>2
  <2>4. QED
    BY <2>3 DEF HasEnd
<1>2. Fed(m) \in Seq(Items)
  BY FedItems
<1>3. ASSUME HasEnd(q \o Fed(m)) PROVE HasEnd(q) \/ HasEnd(Fed(m))
  <2>1. PICK i \in 1 .. Len(q \o Fed(m)) : (q \o Fed(m))[i].what = "end"
    BY <1>3 DEF HasEnd
  <2>2. /\ Len(q \o Fed(m)) = Len(q) + Len(Fed(m)) /\ Len(q) \in Nat /\ Len(Fed(m)) \in Nat
        /\ (q \o Fed(m))[i] = IF i <= Len(q) THEN q[i] ELSE Fed(m)[i - Len(q)]
    BY <1>2, <2>1, ConcatProperties, LenProperties
  <2>3. CASE i <= Len(q)
    BY <2>1, <2>2, <2>3 DEF HasEnd
  <2>4. CASE i > Len(q)
    <3>1. i - Len(q) \in 1 .. Len(Fed(m)) /\ Fed(m)[i - Len(q)].what = "end"
      BY <2>1, <2>2, <2>4
    <3>2. QED
      BY <3>1 DEF HasEnd
  <2>5. QED
    BY <2>2, <2>3, <2>4
<1>4. QED
  BY <1>1, <1>3

\* A request of the call is taken from the wire, and its context fed with it.
LEMMA OnceFed ==
  ASSUME TypeOK, NEW c \in Calls, OnceAt(c), NEW e \in Ends, Callee(c) = e,
         wire[e] # <<>>, Head(wire[e]) \in Requests(c), wire'[e] = Tail(wire[e]),
         open[e], UNCHANGED <<open, call>>,
         method'[c].fed, method'[c].read => method[c].read,
         method'[c].pc # "ended", method'[c].pc # "none",
         HasEnd(method'[c].queue) => HasEnd(method[c].queue) \/ Head(wire[e]).end,
         method'[c].runs <= 1
  PROVE  OnceAt(c)'
<1> DEFINE w == wire[e]
           m == Head(w)
           R == Requests(c)
           L == LastRequests(c)
<1>1. w \in Seq(Messages) /\ m \in R /\ m \in Messages
  BY TypeFacts DEF Requests
<1>2. LastRequests(c)' = L /\ client_streaming(c)' = client_streaming(c)
  BY DEF LastRequests, client_streaming
<1>3. /\ LastOnly(w, R, L) /\ (~Sent(c) => Free(w, L))
      /\ EndRead(c) => Sent(c) /\ Free(w, R)
      /\ (call[c].pc = "sending" => client_streaming(c))
  BY DEF OnceAt
<1> HIDE DEF w, R, L
<1>4. /\ Calmer(w, Tail(w), R, L) /\ (m \in L => Free(Tail(w), R))
      /\ Free(w, R) => m \notin R
      /\ Free(w, L) => m \notin L
  BY <1>1, <1>3, TailOrder DEF w
<1>5. ~EndRead(c)
  BY <1>1, <1>3, <1>4
<1>6. EndRead(c)' => m \in L
  <2>1. EndRead(c)' => m.end \/ ~client_streaming(c)
    BY <1>2, <1>5 DEF EndRead, w
  <2>2. QED
    BY <1>1, <2>1 DEF L, R, LastRequests, LastOf
<1>7. EndRead(c)' => Sent(c) /\ Free(Tail(w), R)
  BY <1>3, <1>4, <1>6
<1>8. LastOnly(Tail(w), R, L) /\ (~Sent(c) => Free(Tail(w), L)) /\ Sent(c)' = Sent(c)
  BY <1>3, <1>4 DEF Calmer, Sent
<1>9. QED
  BY <1>2, <1>3, <1>7, <1>8 DEF OnceAt, w, R, L

\* A request that finds no context starts the first method of its call.
LEMMA FreshMethod ==
  ASSUME OnceInv, NEW e \in Ends, wire[e] # <<>>, open[e], Head(wire[e]).type = "REQUEST",
         \A x \in contexts[e] : x.id # Head(wire[e]).id
  PROVE  LET d == Head(wire[e]).call IN
         /\ d \in Calls /\ Callee(d) = e /\ Head(wire[e]) \in Requests(d)
         /\ method[d].pc = "none" /\ method[d].runs = 0
<1> DEFINE m == Head(wire[e])
           d == m.call
<1>1. MatchInv /\ wire[e] \in Seq(Messages) /\ m \in OwnMessages /\ m \in Routed(e)
  BY Shapes, HeadFacts DEF OnceInv
<1>2. d \in Calls /\ Callee(d) = e /\ method[d].pc \notin Serving
  BY <1>1, NotServed
<1>3. m \in Requests(d)
  BY <1>1 DEF Requests, Routed
<1>4. ~Free(wire[e], Requests(d))
  BY <1>1, <1>3, TailOrder
<1>5. method[d] \in MethodRecords /\ OnceAt(d)
  BY <1>2, Shapes DEF OnceInv
<1> HIDE DEF d, m
<1>6. ~EndRead(d)
  BY <1>2, <1>4, <1>5 DEF OnceAt
<1>7. method[d].pc \in {"none", "queued", "running", "ended"}
  BY <1>5 DEF MethodRecords
<1>8. method[d].pc = "none" /\ method[d].runs = 0
  BY <1>2, <1>5, <1>6, <1>7 DEF EndRead, Serving, OnceAt
<1>9. QED
  BY <1>2, <1>3, <1>8 DEF d, m

LEMMA FeedOnce ==
  ASSUME OnceInv, NEW e \in Ends, wire[e] # <<>>, feed(e, Head(wire[e])), NEW d \in Calls
  PROVE  OnceAt(d)'
<1> DEFINE m == Head(wire[e])
<1>1. /\ MatchInv /\ OnceAt(d) /\ OwnInv /\ TypeOK /\ open[e]
      /\ wire \in [Ends -> Seq(Messages)] /\ method \in [Calls -> MethodRecords]
      /\ call \in [Calls -> CallRecords] /\ Callee(d) \in Ends
      /\ m \in OwnMessages /\ m \in Routed(e) /\ m \in Messages /\ m.call \in Calls
      /\ m.id = call[m.call].id /\ m.id > 0 /\ MatchedAt(e)
  BY Shapes, HeadFacts DEF OnceInv, feed, Received, OwnMessages, Messages, MatchInv, Matched
<1>2. wire' = [wire EXCEPT ![e] = Tail(@)]
  BY DEF feed, Received
<1>3. Calmer(wire[Callee(d)], wire'[Callee(d)], Requests(d), LastRequests(d))
  <2>1. wire'[Callee(d)] = wire[Callee(d)] \/ (Callee(d) = e /\ wire'[Callee(d)] = Tail(wire[e]))
    BY <1>1, <1>2
  <2>2. Calmer(wire[Callee(d)], wire[Callee(d)], Requests(d), LastRequests(d))
    BY DEF Calmer
  <2>3. Calmer(wire[e], Tail(wire[e]), Requests(d), LastRequests(d))
    <3>1. wire[e] \in Seq(Messages)
      BY <1>1
    <3>2. QED
      BY <3>1, TailOrder
  <2>4. QED
    BY <2>1, <2>2, <2>3
<1>4. wire'[e] = Tail(wire[e])
  BY <1>1, <1>2
<1>5. ASSUME NEW x \in contexts[e], x.id = m.id PROVE x.call = m.call
  <2>1. x.call \in Calls /\ x.id = call[x.call].id
    BY <1>1, OwnFacts
  <2>2. QED
    BY <1>1, <1>5, <2>1, SameId DEF OwnInv
<1> HIDE DEF m
<1>6. ASSUME NEW x \in contexts[e], x.id = m.id, feed_out(e, m, x) PROVE OnceAt(d)'
  <2>1. call'[d].kind = call[d].kind /\ call'[d].pc = call[d].pc
    BY <1>1, <1>5, <1>6 DEF feed_out, CallRecords
  <2>2. UNCHANGED <<open, method>>
    BY <1>6 DEF feed_out, ends
  <2>3. QED
    BY <1>1, <1>3, <2>1, <2>2, OnceSame
<1>7. ASSUME NEW x \in contexts[e], x.id = m.id, feed_in(e, m, x) PROVE OnceAt(d)'
  <2>1. /\ method' = [method EXCEPT ![m.call].queue = @ \o Fed(m), ![m.call].fed = TRUE]
        /\ UNCHANGED <<open, call>> /\ m.type = "REQUEST" /\ x.dir = "in"
    BY <1>5, <1>7 DEF feed_in, ends
  <2>2. CASE d # m.call
    <3>1. method'[d] = method[d]
      BY <1>1, <2>1, <2>2
    <3>2. QED
      BY <1>1, <1>3, <2>1, <3>1, OnceSame
  <2>3. CASE d = m.call
    <3>1. method[d].pc \in Serving /\ Callee(d) = e
      BY <1>1, <1>5, <1>7, <2>1, <2>3 DEF MatchedAt, Holds, Routed
    <3>2. method[d] \in MethodRecords
      BY <1>1
    <3>3. /\ method'[d].fed /\ method'[d].read = method[d].read
          /\ method'[d].pc = method[d].pc /\ method'[d].runs = method[d].runs
          /\ method'[d].queue = method[d].queue \o Fed(m)
      <4>1. method'[d] = [method[d] EXCEPT !.queue = @ \o Fed(m), !.fed = TRUE]
        BY <1>1, <2>1, <2>3
      <4>2. QED
        BY <3>2, <4>1 DEF MethodRecords
    <3>4. HasEnd(method'[d].queue) => HasEnd(method[d].queue) \/ m.end
      BY <1>1, <3>2, <3>3, FedEnd DEF MethodRecords
    <3>5. m \in Requests(d)
      BY <1>1, <2>1, <2>3 DEF Requests
    <3>6. method'[d].runs <= 1 /\ method'[d].pc # "ended" /\ method'[d].pc # "none"
      BY <1>1, <3>1, <3>3 DEF OnceAt, Serving
    <3>7. QED
      BY <1>1, <1>4, <2>1, <3>1, <3>3, <3>4, <3>5, <3>6, OnceFed DEF m
  <2>4. QED
    BY <2>2, <2>3
<1>8. CASE (\A x \in contexts[e] : x.id # m.id) /\ new_inbound(e, m)
  <2>1. /\ method' = [method EXCEPT ![m.call] =
              [NoMethod EXCEPT !.pc = "queued", !.queue = Fed(m), !.fed = TRUE,
                               !.runs = method[m.call].runs + 1]]
        /\ UNCHANGED <<open, call>> /\ m.type = "REQUEST"
    BY <1>8 DEF new_inbound
  <2>2. CASE d # m.call
    <3>1. method'[d] = method[d]
      BY <1>1, <2>1, <2>2
    <3>2. QED
      BY <1>1, <1>3, <2>1, <3>1, OnceSame
  <2>3. CASE d = m.call
    <3>1. /\ Callee(d) = e /\ m \in Requests(d)
          /\ method[d].pc = "none" /\ method[d].runs = 0
      <4>1. wire[e] # <<>> /\ open[e] /\ Head(wire[e]) = m
        BY <1>1 DEF m
      <4>2. QED
        BY <1>8, <2>1, <2>3, <4>1, FreshMethod
    <3>5. /\ method'[d].fed /\ ~method'[d].read
          /\ method'[d].pc = "queued" /\ method'[d].runs = 1
          /\ method'[d].queue = Fed(m)
      BY <1>1, <2>1, <2>3, <3>1 DEF NoMethod
    <3>6. HasEnd(method'[d].queue) => m.end
      <4>1. <<>> \in Seq(Items)
        BY EmptySeq
      <4>2. QED
        BY <1>1, <3>5, <4>1, FedEnd
    <3>7. /\ wire[e] # <<>> /\ open[e] /\ Head(wire[e]) \in Requests(d)
          /\ HasEnd(method'[d].queue) => Head(wire[e]).end
      BY <1>1, <3>1, <3>6 DEF m
    <3>8. /\ method'[d].pc # "ended" /\ method'[d].pc # "none" /\ method'[d].runs <= 1
          /\ ~method'[d].read /\ UNCHANGED <<open, call>>
      BY <2>1, <3>5
    <3>9. QED
      BY <1>1, <1>4, <3>1, <3>5, <3>7, <3>8, OnceFed
  <2>4. QED
    BY <2>2, <2>3
<1>9. CASE invalid_packet_type(e, m)
  <2>1. UNCHANGED <<open, call, method>>
    BY <1>9 DEF invalid_packet_type
  <2>2. QED
    BY <1>1, <1>3, <2>1, OnceSame
<1>10. QED
  BY <1>6, <1>7, <1>8, <1>9 DEF feed, m

LEMMA StartJobOnce ==
  ASSUME OnceInv, NEW e \in Ends, StartJob(e), NEW d \in Calls PROVE OnceAt(d)'
<1> DEFINE m == Head(jobs[e])
           n == [m EXCEPT !.type = "RESPONSE", !.failed = TRUE, !.payload = TRUE]
<1>1. /\ MatchInv /\ OnceAt(d) /\ OwnInv /\ TypeOK
      /\ wire \in [Ends -> Seq(Messages)] /\ method \in [Calls -> MethodRecords]
      /\ Callee(d) \in Ends /\ UNCHANGED <<open, call>>
  BY Shapes DEF OnceInv, StartJob
<1>2. m \in Messages /\ m.call \in Calls /\ m = jobs[e][1] /\ Len(jobs[e]) >= 1
      /\ Len(jobs[e]) \in Nat
  <2>1. jobs[e] \in Seq(Messages) /\ jobs[e] # <<>>
    BY JobFacts, <1>1 DEF StartJob
  <2>2. m \in Messages /\ m = jobs[e][1] /\ Len(jobs[e]) \in Nat /\ Len(jobs[e]) # 0
    BY <2>1, HeadTailProperties, EmptySeq, LenProperties
  <2>3. QED
    BY <2>2 DEF Messages
<1>3. Calmer(wire[Callee(d)], wire'[Callee(d)], Requests(d), LastRequests(d))
  <2>1. n \in Messages /\ n.type = "RESPONSE"
    BY <1>2 DEF Messages
  <2>2. n \notin Requests(d)
    BY <2>1 DEF Requests
  <2>3. wire' = wire \/ Deliver(e, <<n>>)
    BY DEF StartJob
  <2> HIDE DEF n, m
  <2>4. CASE wire' = wire
    BY <2>4 DEF Calmer
  <2>5. CASE Deliver(e, <<n>>)
    BY <1>1, <2>1, <2>2, <2>5, DeliverCalm, LastOfSubset
  <2>6. QED
    BY <2>3, <2>4, <2>5
<1>4. method' = method \/ (m.type = "REQUEST" /\ method' = [method EXCEPT ![m.call].pc = "running"])
  BY DEF StartJob
<1>5. CASE method'[d] = method[d]
  BY <1>1, <1>3, <1>5, OnceSame
<1>6. CASE d = m.call /\ m.type = "REQUEST" /\ method' = [method EXCEPT ![m.call].pc = "running"]
  <2>1. method[d].pc = "queued"
    <3>1. Request(jobs[e], 1)
      BY <1>2, <1>6 DEF Request
    <3>2. QED
      BY <1>1, <1>2, <1>6, <3>1, JobFacts
  <2>2. /\ method'[d].pc = "running" /\ method'[d].fed = method[d].fed
        /\ method'[d].read = method[d].read /\ method'[d].queue = method[d].queue
        /\ method'[d].runs = method[d].runs
    BY <1>1, <1>6 DEF MethodRecords
  <2>3. EndRead(d)' => EndRead(d)
    BY <1>1, <2>1, <2>2 DEF EndRead, client_streaming
  <2>4. Sent(d)' = Sent(d)
    BY <1>1 DEF Sent
  <2>5. QED
    BY <1>1, <1>3, <2>1, <2>2, <2>3, <2>4, OnceKept DEF Serving
<1>7. QED
  BY <1>1, <1>2, <1>4, <1>5, <1>6

\* A method reads and answers; when it returns it has read its last request.
LEMMA MethodOnce ==
  ASSUME OnceInv, MethodsReturn, NEW c \in Calls,
         \/ ReadRequest(c) \/ SendResponse(c) \/ Return(c)
         \/ RaiseException(c) \/ ReadFails(c) \/ RaiseBaseEx(c),
         NEW d \in Calls
  PROVE  OnceAt(d)'
<1> DEFINE e == Callee(c)
<1>1. /\ MatchInv /\ OnceAt(c) /\ OnceAt(d) /\ TypeOK /\ e \in Ends
      /\ wire \in [Ends -> Seq(Messages)] /\ method \in [Calls -> MethodRecords]
      /\ c # None /\ Callee(d) \in Ends
      /\ ReadRequest(c) \/ SendResponse(c) \/ Return(c)
  BY Shapes, ReadsInTurn, RpcAssumption DEF OnceInv, Calls
<1>2. method[c].pc = "running" /\ method[c].fed
  <2>1. running[e] = c
    BY <1>1 DEF ReadRequest, SendResponse, Return, Speaking, Running
  <2>2. method[c].pc = "running"
    BY <1>1, <2>1 DEF MatchInv, RunningHere
  <2>3. QED
    BY <1>1, <2>2 DEF OnceAt, Serving
<1>3. UNCHANGED <<open, call>> /\ Sent(d)' = Sent(d)
  BY <1>1 DEF ReadRequest, SendResponse, Return, ends, Sent
<1>4. CASE ReadRequest(c)
  <2>1. PICK read \in {~client_streaming(c) \/ Head(method[c].queue).what = "end"},
             got \in {method[c].got, method[c].got + 1} :
          method' = [method EXCEPT ![c].queue = Tail(@), ![c].read = read, ![c].got = got]
    BY <1>4 DEF ReadRequest
  <2>2. /\ method'[c].queue = Tail(method[c].queue) /\ method'[c].read = read
        /\ method'[c].pc = method[c].pc /\ method'[c].fed = method[c].fed
        /\ method'[c].runs = method[c].runs
        /\ \A f \in Calls \ {c} : method'[f] = method[f]
    BY <1>1, <2>1 DEF MethodRecords
  <2>3. Calmer(wire[Callee(d)], wire'[Callee(d)], Requests(d), LastRequests(d))
    BY <1>4 DEF ReadRequest, Calmer
  <2>4. CASE d # c
    BY <1>1, <1>3, <2>2, <2>3, <2>4, OnceSame
  <2>5. CASE d = c
    <3> DEFINE q == method[c].queue
    <3>1. q \in Seq(Items) /\ q # <<>>
      BY <1>1, <1>4 DEF ReadRequest, MethodRecords
    <3>2. /\ Len(q) \in Nat /\ Len(q) >= 1 /\ Head(q) = q[1] /\ Len(Tail(q)) = Len(q) - 1
          /\ \A i \in 1 .. Len(Tail(q)) : Tail(q)[i] = q[i + 1]
      BY <3>1, HeadTailProperties, LenProperties, EmptySeq
    <3> HIDE DEF q
    <3>3. (HasEnd(Tail(q)) => HasEnd(q)) /\ (Head(q).what = "end" => HasEnd(q))
      BY <3>2 DEF HasEnd
    <3>4. EndRead(c)' => EndRead(c)
      BY <1>2, <1>3, <2>1, <2>2, <3>3 DEF EndRead, client_streaming, q
    <3>5. QED
      BY <1>1, <1>2, <1>3, <2>2, <2>3, <2>5, <3>4, OnceKept DEF Serving
  <2>6. QED
    BY <2>4, <2>5
<1>5. CASE SendResponse(c)
  <2>1. PICK end \in BOOLEAN, payload \in BOOLEAN, n \in {0, 1} :
          /\ method' = [method EXCEPT ![c].responded = @ + n, ![c].ended = @ \/ end]
          /\ Deliver(e, <<Message(call[c].id, c, "RESPONSE", end, FALSE, payload)>>)
    BY <1>1, <1>5, ResponseGiven
  <2>2. /\ method'[c].queue = method[c].queue /\ method'[c].read = method[c].read
        /\ method'[c].pc = method[c].pc /\ method'[c].fed = method[c].fed
        /\ method'[c].runs = method[c].runs
        /\ \A f \in Calls \ {c} : method'[f] = method[f]
    BY <1>1, <2>1 DEF MethodRecords
  <2>3. Calmer(wire[Callee(d)], wire'[Callee(d)], Requests(d), LastRequests(d))
    <3> DEFINE m == Message(call[c].id, c, "RESPONSE", end, FALSE, payload)
    <3>1. m \in Messages /\ m \notin Requests(d)
      BY <1>1, MessageTypes, OtherCall
    <3>2. Deliver(e, <<m>>)
      BY <2>1
    <3> HIDE DEF m
    <3>3. QED
      BY <1>1, <3>1, <3>2, DeliverCalm, LastOfSubset
  <2>4. EndRead(d)' = EndRead(d)
    BY <1>3, <2>2 DEF EndRead, client_streaming
  <2>5. QED
    BY <1>1, <1>3, <2>2, <2>3, <2>4, OnceKept
<1>6. CASE Return(c)
  <2>1. Return(c) /\ method[c].read
    BY <1>6 DEF Return, MayAnswer, MethodsReturn
  <2>2. /\ method' = [method EXCEPT ![c] = Ended(@)] /\ Deliver(e, EndOfStream(c))
    BY <2>1 DEF Return, close_in
  <2>3. /\ method'[c].pc = "ended" /\ method'[c].runs = method[c].runs
        /\ \A f \in Calls \ {c} : method'[f] = method[f]
    BY <1>1, <2>2 DEF Ended, NoMethod
  <2>4. Calmer(wire[Callee(d)], wire'[Callee(d)], Requests(d), LastRequests(d))
    <3>1. shutdown(c) \in Messages /\ shutdown(c) \notin Requests(d)
      BY <1>1, MessageTypes, OtherCall DEF shutdown
    <3>2. EndOfStream(c) = <<>> \/ EndOfStream(c) = <<shutdown(c)>>
      BY DEF EndOfStream
    <3>3. QED
      BY <1>1, <2>2, <3>1, <3>2, DeliverCalm, LastOfSubset
  <2>5. CASE d = c
    <3>1. EndRead(c)
      BY <2>1 DEF EndRead
    <3>2. QED
      BY <1>1, <1>3, <2>3, <2>4, <2>5, <3>1, OnceKept DEF Serving
  <2>6. CASE d # c
    BY <1>1, <1>3, <2>3, <2>4, <2>6, OnceSame
  <2>7. QED
    BY <2>5, <2>6
<1>7. QED
  BY <1>1, <1>4, <1>5, <1>6

LEMMA OnceInit == Init => OnceInv
<1> SUFFICES ASSUME Init, NEW c \in Calls PROVE OnceAt(c)
  BY MatchInit, WakeInit DEF OnceInv
<1>1. /\ wire[Callee(c)] = <<>> /\ call[c].pc = "new" /\ method[c] = NoMethod
  BY EndFacts DEF Init
<1>2. /\ method[c].pc = "none" /\ method[c].runs = 0 /\ ~method[c].read /\ ~method[c].fed
      /\ method[c].queue = <<>>
  BY <1>1 DEF NoMethod
<1>3. ~EndRead(c)
  BY <1>2 DEF EndRead, HasEnd
<1>4. /\ LastOnly(<<>>, Requests(c), LastRequests(c)) /\ Free(<<>>, LastRequests(c))
      /\ Free(<<>>, Requests(c))
  BY EmptyOrder
<1>5. method[c].pc \notin Serving /\ call[c].pc # "sending"
  BY <1>1, <1>2 DEF Serving
<1>6. method[c].runs <= 1
  BY <1>2
<1>7. QED
  BY <1>1, <1>2, <1>3, <1>4, <1>5, <1>6 DEF OnceAt

LEMMA OnceStep == MethodsReturn /\ OnceInv /\ [Next]_vars => OnceInv'
<1> SUFFICES ASSUME MethodsReturn, OnceInv, [Next]_vars, NEW d \in Calls PROVE OnceAt(d)'
  BY MatchStep, WakeStep DEF OnceInv
<1>1. ASSUME NEW c \in Calls, Open(c) PROVE OnceAt(d)'
  BY <1>1, OpenOnce
<1>2. ASSUME NEW c \in Calls, SendRequest(c) PROVE OnceAt(d)'
  BY <1>2, SendRequestOnce
<1>3. ASSUME NEW c \in Calls,
             OpenFails(c) \/ SendFails(c) \/ Receive(c) \/ Cancel(c) \/ ReceiveFails(c)
      PROVE  OnceAt(d)'
  BY <1>3, LeaveOnce
<1>4. ASSUME NEW e \in Ends, Cut(e) \/ PeerGone(e) \/ feed_raises(e) PROVE OnceAt(d)'
  BY <1>4, FinnalCloseOnce DEF Cut, PeerGone, feed_raises
<1>5. ASSUME NEW e \in Ends, wire[e] # <<>>, feed(e, Head(wire[e])) PROVE OnceAt(d)'
  BY <1>5, FeedOnce
<1>6. ASSUME NEW e \in Ends, StartJob(e) PROVE OnceAt(d)'
  BY <1>6, StartJobOnce
<1>7. ASSUME NEW c \in Calls, Method(c) \/ RaiseException(c) \/ ReadFails(c) \/ RaiseBaseEx(c)
      PROVE  OnceAt(d)'
  BY <1>7, MethodOnce DEF Method
<1>8. CASE UNCHANGED vars
  <2>1. UNCHANGED <<open, wire, call, method>>
    BY <1>8 DEF vars
  <2>2. Calmer(wire[Callee(d)], wire'[Callee(d)], Requests(d), LastRequests(d))
    BY <2>1 DEF Calmer
  <2>3. QED
    BY <2>1, <2>2, OnceSame DEF OnceInv
<1>9. QED
  BY <1>1, <1>2, <1>3, <1>4, <1>5, <1>6, <1>7, <1>8 DEF Next, feed_messages

\* Whatever callers cancel, whatever responses are empty and however the
\* connection ends, methods that return when they have read their requests, of
\* which none is empty in a stream, are run once for a call: no request is left
\* on the wire when the context is released (feed_messages).
THEOREM MethodsRunOnce == MethodsReturn => (Spec => []RunOnce)
<1> SUFFICES ASSUME MethodsReturn PROVE Spec => []RunOnce
  OBVIOUS
<1>1. OnceInv /\ [Next]_vars => OnceInv'
  BY OnceStep
<1>2. OnceInv => RunOnce
  BY DEF OnceInv, OnceAt, RunOnce
<1>3. QED
  BY <1>1, <1>2, OnceInit, PTL DEF Spec
-------------------------------------------------------------------------------
(* The responses of a call, whoever else leaves it *)

Failed(R) == {m \in R : m.failed}

\* The method has sent its last response, or will send none.
Spoken(c) == method[c].ended \/ method[c].pc = "ended"

\* The last response has come to the caller's context.
AnswerRead(c) ==
    /\ call[c].kind # "void"
    /\ \/ call[c].pc = "done"
       \/ HasEnd(call[c].queue)
       \/ ~server_streaming(c) /\ call[c].queue # <<>>

NoError(q) == \A i \in 1 .. Len(q) : q[i].what # "error"

\* The last response of a call is the last on the wire; its caller waits until
\* it has come, and behind it there is nothing that would find the context gone.
\* No message of it goes the wrong way or is an error.
Whole(c) ==
    LET w == wire[Caller(c)] IN
    /\ LastOnly(w, Responses(c), LastResponses(c))
    /\ ~Spoken(c) => Free(w, LastResponses(c))
    /\ AnswerRead(c) => Spoken(c) /\ Free(w, Responses(c))
    /\ call[c].kind = "void" => Free(w, Responses(c)) /\ call[c].queue = <<>>
    /\ NoError(call[c].queue)
    /\ Free(w, Failed(Responses(c))) /\ Free(wire[Callee(c)], Responses(c))
    /\ \A e \in Ends : Free(jobs[e], Responses(c))

\* Where one response is due, a method that has sent it has ended.
OneAnswer(c) ==
    ~server_streaming(c) /\ method[c].pc # "ended" =>
        method[c].responded = IF method[c].ended THEN 1 ELSE 0

\* A call that is cancelled sends an end the wrong way, which may be answered.
AnswerAt(c) ==
    /\ call[c].pc # "cancelled" => Whole(c)
    /\ call[c].pc # "error"
    /\ call[c].pc = "failed" => call[c].id = 0 \/ ~open[Caller(c)]
    /\ OneAnswer(c)
    /\ method[c].ended => method[c].pc = "running"

OrderInv == OnceInv /\ \A c \in Calls : AnswerAt(c)

\* A step that sends no response of the call.
CalmAt(c) ==
    \A e \in Ends :
        /\ Calmer(wire[e], wire'[e], Responses(c), LastResponses(c))
        /\ Calmer(wire[e], wire'[e], Responses(c), Failed(Responses(c)))
        /\ Free(jobs[e], Responses(c)) => Free(jobs'[e], Responses(c))

\* A step that sends no response of the call and takes none for it.
LEMMA AnswerKept ==
  ASSUME NEW c \in Calls, AnswerAt(c), CalmAt(c),
         call'[c].kind = call[c].kind,
         call'[c].pc # "error",
         call'[c].pc = "failed" => call'[c].id = 0 \/ ~open'[Caller(c)],
         call'[c].pc # "cancelled" =>
            /\ call[c].pc # "cancelled"
            /\ NoError(call'[c].queue)
            /\ call[c].kind = "void" => call'[c].queue = <<>>
            /\ AnswerRead(c)' => AnswerRead(c)
            /\ Spoken(c) => Spoken(c)',
         OneAnswer(c)', method'[c].ended => method'[c].pc = "running"
  PROVE  AnswerAt(c)'
<1> DEFINE R == Responses(c)
           L == LastResponses(c)
           w == wire[Caller(c)]
           v == wire'[Caller(c)]
<1>1. /\ server_streaming(c)' = server_streaming(c)
      /\ LastResponses(c)' = L
  BY DEF server_streaming, LastResponses
<1>2. ASSUME call'[c].pc # "cancelled"
      PROVE  /\ LastOnly(v, R, L)
             /\ ~Spoken(c)' => Free(v, L)
             /\ AnswerRead(c)' => Spoken(c)' /\ Free(v, R)
             /\ call'[c].kind = "void" => Free(v, R) /\ call'[c].queue = <<>>
             /\ NoError(call'[c].queue)
             /\ Free(v, Failed(R)) /\ Free(wire'[Callee(c)], R)
             /\ \A e \in Ends : Free(jobs'[e], R)
  <2>1. /\ LastOnly(w, R, L)
        /\ ~Spoken(c) => Free(w, L)
        /\ AnswerRead(c) => Spoken(c) /\ Free(w, R)
        /\ call[c].kind = "void" => Free(w, R) /\ call[c].queue = <<>>
        /\ Free(w, Failed(R)) /\ Free(wire[Callee(c)], R)
        /\ \A e \in Ends : Free(jobs[e], R)
    BY <1>2 DEF AnswerAt, Whole
  <2>2. /\ Calmer(w, v, R, L) /\ Calmer(w, v, R, Failed(R))
        /\ Calmer(wire[Callee(c)], wire'[Callee(c)], R, L)
        /\ \A e \in Ends : Free(jobs[e], R) => Free(jobs'[e], R)
    BY EndFacts DEF CalmAt
  <2> HIDE DEF R, L, w, v
  <2>3. QED
    BY <1>2, <2>1, <2>2 DEF Calmer
<1>3. call'[c].pc # "cancelled" => Whole(c)'
  BY <1>1, <1>2 DEF Whole
<1>4. QED
  BY <1>1, <1>3 DEF AnswerAt

\* A step that changes nothing a call's responses depend on.
LEMMA AnswerSame ==
  ASSUME NEW c \in Calls, AnswerAt(c), CalmAt(c), call'[c] = call[c],
         open'[Caller(c)] => open[Caller(c)],
         method'[c].ended = method[c].ended, method'[c].responded = method[c].responded,
         method'[c].pc = method[c].pc
  PROVE  AnswerAt(c)'
<1>1. AnswerRead(c)' = AnswerRead(c) /\ Spoken(c)' = Spoken(c)
  BY DEF AnswerRead, server_streaming, Spoken
<1>2. /\ call[c].pc # "error"
      /\ call[c].pc = "failed" => call[c].id = 0 \/ ~open[Caller(c)]
      /\ call[c].pc # "cancelled" => /\ NoError(call[c].queue)
                                     /\ call[c].kind = "void" => call[c].queue = <<>>
      /\ method[c].ended => method[c].pc = "running"
      /\ OneAnswer(c)'
  BY DEF AnswerAt, Whole, OneAnswer, server_streaming
<1>3. QED
  BY <1>1, <1>2, AnswerKept

\* What a step may use of the state.
LEMMA OrderShapes ==
  ASSUME OrderInv
  PROVE  /\ MatchInv /\ OnceInv /\ OwnInv /\ TypeOK
         /\ open \in [Ends -> BOOLEAN] /\ wire \in [Ends -> Seq(Messages)]
         /\ jobs \in [Ends -> Seq(Messages)]
         /\ call \in [Calls -> CallRecords] /\ method \in [Calls -> MethodRecords]
         /\ \A e \in Ends : Peer(e) \in Ends /\ Peer(e) # e
         /\ \A c \in Calls : /\ AnswerAt(c) /\ OnceAt(c)
                             /\ Caller(c) \in Ends /\ Callee(c) \in Ends /\ Callee(c) # Caller(c)
                             /\ Peer(Caller(c)) = Callee(c) /\ Peer(Callee(c)) = Caller(c)
<1>1. \A c \in Calls : Peer(Caller(c)) = Callee(c) /\ Peer(Callee(c)) = Caller(c)
  BY DEF Peer, Caller, Callee
<1>2. MatchInv /\ OnceInv
  BY DEF OrderInv, OnceInv
<1>3. QED
  BY <1>1, <1>2, EndFacts, TwoEnds, Shapes DEF OrderInv, OnceInv

\* Sending nothing.
LEMMA NothingSent ==
  ASSUME wire \in [Ends -> Seq(Messages)], NEW e \in Ends, Deliver(e, <<>>)
  PROVE  wire' = wire
<1>1. \A w \in Seq(Messages) : w \o <<>> = w
  BY ConcatProperties, EmptySeq
<1>2. Peer(e) \in Ends
  BY EndFacts
<1>3. QED
  BY <1>1, <1>2 DEF Deliver

\* What is sent concerns no call's responses unless it is one of them.
LEMMA AnswerCalm ==
  ASSUME OrderInv, NEW e \in Ends, NEW d \in Calls, NEW m \in Messages, m \notin Responses(d),
         NEW messages \in {<<>>, <<m>>}, wire' = wire \/ Deliver(e, messages),
         \A f \in Ends : Free(jobs[f], Responses(d)) => Free(jobs'[f], Responses(d))
  PROVE  CalmAt(d)
<1>1. wire \in [Ends -> Seq(Messages)]
  BY OrderShapes
<1>2. Failed(Responses(d)) \subseteq Responses(d) /\ LastResponses(d) \subseteq Responses(d)
  BY LastOfSubset DEF Failed
<1> DEFINE R == Responses(d)
           L == LastResponses(d)
           F == Failed(R)
<1>3. m \notin R /\ L \subseteq R /\ F \subseteq R
  BY <1>2
<1> SUFFICES ASSUME NEW f \in Ends
             PROVE  Calmer(wire[f], wire'[f], R, L) /\ Calmer(wire[f], wire'[f], R, F)
  BY DEF CalmAt
<1> HIDE DEF R, L, F
<1>4. CASE wire' = wire
  BY <1>4 DEF Calmer
<1>5. CASE Deliver(e, messages)
  BY <1>1, <1>3, <1>5, DeliverCalm
<1>6. QED
  BY <1>4, <1>5

\* What is taken, or dropped, leaves the rest in order.
LEMMA ShorterCalm ==
  ASSUME OrderInv, NEW d \in Calls,
         \A f \in Ends : \/ wire'[f] = wire[f] \/ wire'[f] = <<>>
                         \/ wire[f] # <<>> /\ wire'[f] = Tail(wire[f]),
         \A f \in Ends : Free(jobs[f], Responses(d)) => Free(jobs'[f], Responses(d))
  PROVE  CalmAt(d)
<1> DEFINE R == Responses(d)
<1> SUFFICES ASSUME NEW f \in Ends, NEW L PROVE Calmer(wire[f], wire'[f], R, L)
  BY DEF CalmAt
<1>1. wire[f] \in Seq(Messages)
  BY OrderShapes
<1> HIDE DEF R
<1>2. CASE wire'[f] = wire[f]
  BY <1>2 DEF Calmer
<1>3. CASE wire'[f] = <<>>
  BY <1>3, EmptyOrder
<1>4. CASE wire[f] # <<>> /\ wire'[f] = Tail(wire[f])
  BY <1>1, <1>4, TailOrder
<1>5. QED
  BY <1>2, <1>3, <1>4

\* A message that is no request is on its way to its caller, whom it finds
\* waiting, unless the caller has left.
LEMMA AnswerAwaited ==
  ASSUME OrderInv, NEW e \in Ends, open[e], wire[e] # <<>>, Head(wire[e]).type # "REQUEST",
         call[Head(wire[e]).call].pc # "cancelled"
  PROVE  LET m == Head(wire[e]) IN
         /\ Caller(m.call) = e /\ ~m.failed /\ call[m.call].pc \in Waiting
         /\ \E x \in contexts[e] : x.id = m.id
<1> DEFINE m == Head(wire[e])
           c == m.call
<1>1. /\ MatchInv /\ OwnInv /\ wire[e] \in Seq(Messages) /\ MatchedAt(e) /\ m \in OwnMessages
  BY OrderShapes, HeadFacts DEF MatchInv, Matched
<1>2. m \in Messages /\ c \in Calls /\ m.id = call[c].id /\ m.id > 0
  BY <1>1 DEF OwnMessages, Messages
<1>3. m \in Responses(c)
  BY <1>2 DEF Responses
<1>4. ~Free(wire[e], Responses(c))
  BY <1>1, <1>3, TailOrder
<1>5. /\ AnswerAt(c) /\ call[c] \in CallRecords /\ (e = Caller(c) \/ e = Callee(c))
  BY <1>2, OrderShapes DEF Ends, Caller, Callee, Peer
<1>6. Context(call[c].id, "out", c).id = m.id
  BY <1>2 DEF Context
<1>7. m.failed => ~Free(wire[e], Failed(Responses(c)))
  <2>1. m.failed => m \in Failed(Responses(c))
    BY <1>3 DEF Failed
  <2>2. QED
    BY <1>1, <2>1, TailOrder
<1> HIDE DEF c, m
<1>8. Whole(c)
  BY <1>5 DEF AnswerAt, c, m
<1>9. Caller(c) = e
  BY <1>4, <1>5, <1>8 DEF Whole
<1>10. ~m.failed /\ call[c].pc # "done"
  BY <1>4, <1>7, <1>8, <1>9 DEF Whole, AnswerRead
<1>11. call[c].pc # "new" /\ call[c].id > 0
  BY <1>1, <1>2 DEF OwnInv, Ids
<1>12. call[c].pc \notin {"error", "failed", "cancelled"}
  BY <1>5, <1>9, <1>11 DEF AnswerAt, c, m
<1>13. call[c].pc \in {"new", "sending", "receiving", "done", "error", "failed", "cancelled"}
  BY <1>5 DEF CallRecords
<1>14. call[c].pc \in Waiting
  BY <1>10, <1>11, <1>12, <1>13 DEF Waiting
<1>15. Context(call[c].id, "out", c) \in contexts[e]
  BY <1>1, <1>2, <1>9, <1>14 DEF MatchedAt
<1>16. QED
  BY <1>6, <1>9, <1>10, <1>14, <1>15 DEF c, m

LEMMA OpenAnswer ==
  ASSUME OrderInv, NEW c \in Calls, Open(c), NEW d \in Calls
  PROVE  AnswerAt(d)'
<1> DEFINE e == Caller(c)
           id == outbound_transmission_id[e]
<1>1. /\ TypeOK /\ e \in Ends /\ id \in Nat /\ AnswerAt(d)
      /\ call \in [Calls -> CallRecords] /\ UNCHANGED <<open, jobs, method>>
  BY OrderShapes, TypeFacts DEF Open, ends
<1>2. PICK pc \in {"sending", "receiving", "done", "failed"}, payload \in BOOLEAN :
        /\ call' = [call EXCEPT ![c].id = id, ![c].pc = pc]
        /\ pc = "done" => call[c].kind = "void"
        /\ pc = "failed" => ~open[e]
        /\ wire' = wire \/ Deliver(e, <<Message(id, c, "REQUEST", TRUE, FALSE, payload)>>)
  BY DEF Open
<1> DEFINE m == Message(id, c, "REQUEST", TRUE, FALSE, payload)
<1>3. m \in Messages /\ m \notin Responses(d)
  BY <1>1 DEF Message, Messages, Responses
<1> HIDE DEF m, id
<1>4. CalmAt(d)
  BY <1>1, <1>2, <1>3, AnswerCalm DEF m
<1>5. CASE d # c
  BY <1>1, <1>2, <1>4, <1>5, AnswerSame
<1>6. CASE d = c
  <2>1. /\ call'[d].kind = call[d].kind /\ call'[d].queue = call[d].queue
        /\ call'[d].pc = pc
    BY <1>1, <1>2, <1>6 DEF CallRecords
  <2>2. AnswerRead(d)' => AnswerRead(d)
    BY <1>2, <1>6, <2>1 DEF AnswerRead, server_streaming
  <2>3. call[d].pc = "new"
    BY <1>6 DEF Open
  <2>4. /\ NoError(call[d].queue) /\ (call[d].kind = "void" => call[d].queue = <<>>)
        /\ (method[d].ended => method[d].pc = "running") /\ OneAnswer(d)'
    BY <1>1, <2>1, <2>3 DEF AnswerAt, Whole, OneAnswer, server_streaming
  <2>5. Spoken(d)' = Spoken(d)
    BY <1>1 DEF Spoken
  <2>6. pc = "failed" => ~open'[Caller(d)]
    BY <1>1, <1>2, <1>6
  <2>7. QED
    BY <1>1, <1>2, <1>4, <2>1, <2>2, <2>3, <2>4, <2>5, <2>6, AnswerKept
<1>7. QED
  BY <1>5, <1>6

\* The caller sends its requests, if the connection takes them.
LEMMA SendAnswer ==
  ASSUME OrderInv, NEW c \in Calls, OpenFails(c) \/ SendRequest(c) \/ SendFails(c),
         NEW d \in Calls
  PROVE  AnswerAt(d)'
<1>1. /\ TypeOK /\ MatchInv /\ Caller(c) \in Ends /\ AnswerAt(d)
      /\ call \in [Calls -> CallRecords] /\ UNCHANGED <<open, jobs, method>>
  BY OrderShapes DEF OpenFails, SendRequest, SendFails, ends
<1>2. PICK end \in BOOLEAN, payload \in BOOLEAN :
        \/ wire' = wire
        \/ Deliver(Caller(c), <<Message(call[c].id, c, "REQUEST", end, FALSE, payload)>>)
  <2>1. CASE SendRequest(c)
    BY <1>1, <2>1, RequestGiven
  <2>2. CASE OpenFails(c) \/ SendFails(c)
    BY <2>2 DEF OpenFails, SendFails
  <2>3. QED
    BY <2>1, <2>2
<1> DEFINE m == Message(call[c].id, c, "REQUEST", end, FALSE, payload)
<1>3. m \in Messages
  BY <1>1, MessageTypes
<1>4. m \notin Responses(d)
  BY <1>3 DEF Message, Responses
<1>5. wire' = wire \/ Deliver(Caller(c), <<m>>)
  BY <1>2
<1>6. /\ call'[c].kind = call[c].kind /\ call'[c].queue = call[c].queue
      /\ call[c].pc \in {"new", "sending"}
      /\ call'[c].pc \in {"sending", "receiving", "failed"}
      /\ call'[c].pc = "failed" => call'[c].id = 0 \/ ~open[Caller(c)]
      /\ \A f \in Calls \ {c} : call'[f] = call[f]
  <2>1. CASE OpenFails(c)
    BY <1>1, <2>1 DEF OpenFails, CallRecords, MatchInv, OwnInv, Ids
  <2>2. CASE SendRequest(c)
    <3>1. PICK end1 \in BOOLEAN, n \in {0, 1} :
            call' = [call EXCEPT ![c].sent = @ + n,
                                 ![c].pc = IF end1 THEN "receiving" ELSE "sending"]
      BY <1>1, <2>2, RequestGiven
    <3>2. call[c].pc = "sending"
      BY <2>2 DEF SendRequest
    <3>3. QED
      BY <1>1, <3>1, <3>2 DEF CallRecords
  <2>3. CASE SendFails(c)
    BY <1>1, <2>3 DEF SendFails, CallRecords
  <2>4. QED
    BY <2>1, <2>2, <2>3
<1> HIDE DEF m
<1>7. CalmAt(d)
  BY <1>1, <1>3, <1>4, <1>5, AnswerCalm
<1>8. CASE d # c
  BY <1>1, <1>6, <1>7, <1>8, AnswerSame
<1>9. CASE d = c
  <2>1. AnswerRead(d)' => AnswerRead(d)
    BY <1>6, <1>9 DEF AnswerRead, server_streaming
  <2>2. /\ NoError(call[d].queue) /\ (call[d].kind = "void" => call[d].queue = <<>>)
        /\ (method[d].ended => method[d].pc = "running") /\ OneAnswer(d)'
    BY <1>1, <1>6, <1>9 DEF AnswerAt, Whole, OneAnswer, server_streaming
  <2>3. Spoken(d)' = Spoken(d)
    BY <1>1 DEF Spoken
  <2>4. call'[d].pc = "failed" => call'[d].id = 0 \/ ~open'[Caller(d)]
    BY <1>1, <1>6, <1>9
  <2>5. call[d].pc # "cancelled" /\ call'[d].pc # "error"
    BY <1>6, <1>9
  <2>6. QED
    BY <1>1, <1>6, <1>7, <1>9, <2>1, <2>2, <2>3, <2>4, <2>5, AnswerKept
<1>10. QED
  BY <1>8, <1>9

\* Taking the first item of a queue.
LEMMA TailItems ==
  ASSUME NEW q \in Seq(Items), q # <<>>
  PROVE  /\ Head(q).what \in {"message", "end", "error"}
         /\ NoError(q) => Head(q).what # "error" /\ NoError(Tail(q))
         /\ HasEnd(q) <=> Head(q).what = "end" \/ HasEnd(Tail(q))
<1>1. /\ Len(q) \in Nat /\ Len(q) >= 1 /\ Head(q) = q[1] /\ Len(Tail(q)) = Len(q) - 1
      /\ \A i \in 1 .. Len(Tail(q)) : Tail(q)[i] = q[i + 1]
  BY HeadTailProperties, LenProperties, EmptySeq
<1>2. Head(q) \in Items
  BY HeadTailProperties
<1> DEFINE v == Tail(q)
<1>3. \A i \in 1 .. Len(v) : i + 1 \in 1 .. Len(q) /\ v[i] = q[i + 1]
  BY <1>1
<1>4. \A i \in 1 .. Len(q) : i = 1 \/ (i - 1 \in 1 .. Len(v) /\ v[i - 1] = q[i])
  <2>1. \A i \in 1 .. Len(q) : i = 1 \/ (i - 1 \in 1 .. Len(v) /\ (i - 1) + 1 = i)
    BY <1>1
  <2>2. QED
    BY <1>1, <2>1
<1>5. 1 \in 1 .. Len(q)
  BY <1>1
<1> HIDE DEF v
<1>6. NoError(q) => Head(q).what # "error" /\ NoError(v)
  BY <1>1, <1>3, <1>5 DEF NoError
<1>7. HasEnd(q) => Head(q).what = "end" \/ HasEnd(v)
  BY <1>1, <1>4 DEF HasEnd
<1>8. Head(q).what = "end" \/ HasEnd(v) => HasEnd(q)
  BY <1>1, <1>3, <1>5 DEF HasEnd
<1>9. Head(q).what \in {"message", "end", "error"}
  BY <1>2 DEF Items
<1>10. QED
  BY <1>6, <1>7, <1>8, <1>9 DEF v

\* A caller takes a response, or the end of them: never an error.
LEMMA Received_ok ==
  ASSUME OrderInv, NEW c \in Calls, Receive(c)
  PROVE  LET q == call[c].queue
             more == Head(q).what = "message" /\ server_streaming(c)
         IN  /\ q \in Seq(Items) /\ q # <<>> /\ NoError(q)
             /\ call[c].pc = "receiving" /\ call[c].kind # "void"
             /\ Head(q).what \in {"message", "end"}
             /\ call'[c].kind = call[c].kind /\ call'[c].sent = call[c].sent
             /\ call'[c].id = call[c].id
             /\ call'[c].received = IF Head(q).what = "message" \/ ~server_streaming(c)
                                    THEN call[c].received + 1 ELSE call[c].received
             /\ call'[c].queue = IF more THEN Tail(q) ELSE <<>>
             /\ call'[c].pc = IF more THEN "receiving" ELSE "done"
             /\ \A d \in Calls \ {c} : call'[d] = call[d]
             /\ UNCHANGED <<open, wire, jobs, method>>
<1> DEFINE q == call[c].queue
           more == Head(q).what = "message" /\ server_streaming(c)
<1>1. /\ TypeOK /\ Caller(c) \in Ends /\ call \in [Calls -> CallRecords]
      /\ UNCHANGED <<open, jobs, method>> /\ AnswerAt(c)
      /\ wire \in [Ends -> Seq(Messages)] /\ call[c].pc = "receiving"
  BY OrderShapes DEF Receive, ends
<1>2. q \in Seq(Items) /\ q # <<>> /\ NoError(q) /\ call[c].kind # "void"
  BY <1>1 DEF Receive, CallRecords, AnswerAt, Whole
<1>3. Head(q).what \in {"message", "end"}
  BY <1>2, TailItems
<1>4. call' = [call EXCEPT ![c].queue = IF more THEN Tail(@) ELSE <<>>,
                           ![c].pc = IF more THEN "receiving" ELSE "done",
                           ![c].received = IF Head(q).what = "message" \/ ~server_streaming(c)
                                            THEN @ + 1 ELSE @]
  BY <1>3 DEF Receive
<1>5. wire' = wire \/ Deliver(Caller(c), <<>>)
  BY <1>3 DEF Receive, close_out
<1>6. /\ call'[c].kind = call[c].kind /\ call'[c].sent = call[c].sent
      /\ call'[c].id = call[c].id
      /\ call'[c].received = (IF Head(q).what = "message" \/ ~server_streaming(c)
                              THEN call[c].received + 1 ELSE call[c].received)
      /\ call'[c].queue = (IF more THEN Tail(q) ELSE <<>>)
      /\ call'[c].pc = (IF more THEN "receiving" ELSE "done")
      /\ \A d \in Calls \ {c} : call'[d] = call[d]
  BY <1>1, <1>4 DEF CallRecords
<1>7. wire' = wire
  BY <1>1, <1>5, NothingSent
<1>8. QED
  BY <1>1, <1>2, <1>3, <1>6, <1>7

LEMMA ReceiveAnswer ==
  ASSUME OrderInv, NEW c \in Calls, Receive(c), NEW d \in Calls
  PROVE  AnswerAt(d)'
<1> DEFINE q == call[c].queue
           more == Head(q).what = "message" /\ server_streaming(c)
<1>1. AnswerAt(d) /\ wire \in [Ends -> Seq(Messages)]
  BY OrderShapes
<1>2. /\ q \in Seq(Items) /\ q # <<>> /\ NoError(q)
      /\ call[c].pc = "receiving" /\ call[c].kind # "void"
      /\ Head(q).what \in {"message", "end"}
      /\ call'[c].kind = call[c].kind
      /\ call'[c].queue = (IF more THEN Tail(q) ELSE <<>>)
      /\ call'[c].pc = (IF more THEN "receiving" ELSE "done")
      /\ \A f \in Calls \ {c} : call'[f] = call[f]
      /\ UNCHANGED <<open, wire, jobs, method>>
  BY Received_ok
<1>3. NoError(Tail(q)) /\ (HasEnd(q) <=> Head(q).what = "end" \/ HasEnd(Tail(q)))
  BY <1>2, TailItems
<1>4. CalmAt(d)
  BY <1>2, ShorterCalm
<1> HIDE DEF q
<1>5. CASE d # c
  BY <1>1, <1>2, <1>4, <1>5, AnswerSame
<1>6. CASE d = c
  <2>1. AnswerRead(c)' => AnswerRead(c)
    <3>1. CASE more
      <4>1. HasEnd(call'[c].queue) => HasEnd(q)
        BY <1>2, <1>3, <3>1
      <4>2. call'[c].pc # "done" /\ server_streaming(c)' /\ call'[c].kind = call[c].kind
        BY <1>2, <3>1 DEF server_streaming
      <4>3. QED
        BY <4>1, <4>2 DEF AnswerRead, q
    <3>2. CASE ~more
      <4>1. HasEnd(q) \/ ~server_streaming(c)
        BY <1>2, <1>3, <3>2
      <4>2. QED
        BY <1>2, <4>1 DEF AnswerRead, q
    <3>3. QED
      BY <3>1, <3>2
  <2>2. NoError(call'[c].queue)
    <3>1. NoError(<<>>)
      BY DEF NoError
    <3>2. QED
      BY <1>2, <1>3, <3>1
  <2>3. /\ call'[c].pc \notin {"error", "cancelled", "failed"}
        /\ (method[c].ended => method[c].pc = "running")
        /\ Spoken(c)' = Spoken(c) /\ OneAnswer(c)'
    BY <1>1, <1>2, <1>6 DEF AnswerAt, Spoken, OneAnswer, server_streaming
  <2>4. QED
    BY <1>1, <1>2, <1>4, <1>6, <2>1, <2>2, <2>3, AnswerKept
<1>7. QED
  BY <1>5, <1>6

\* A caller that leaves tells the other end, which no other call notices.
LEMMA CancelAnswer ==
  ASSUME OrderInv, NEW c \in Calls, Cancel(c) \/ ReceiveFails(c), NEW d \in Calls
  PROVE  AnswerAt(d)'
<1>1. /\ TypeOK /\ AnswerAt(d) /\ Caller(c) \in Ends /\ call \in [Calls -> CallRecords]
      /\ UNCHANGED <<open, jobs, method>>
  BY OrderShapes DEF Cancel, ReceiveFails, leave, ends
<1>2. /\ call'[c].kind = call[c].kind /\ call'[c].pc = "cancelled"
      /\ \A f \in Calls \ {c} : call'[f] = call[f]
  BY <1>1 DEF Cancel, ReceiveFails, leave, CallRecords
<1>3. CASE d = c
  BY <1>1, <1>2, <1>3 DEF AnswerAt, OneAnswer, server_streaming
<1>4. CASE d # c
  <2>1. PICK messages \in {<<>>, <<shutdown(c)>>} :
          wire' = wire \/ Deliver(Caller(c), messages)
    BY DEF Cancel, ReceiveFails, leave, close_out
  <2>2. shutdown(c) \in Messages /\ shutdown(c) \notin Responses(d)
    BY <1>1, <1>4, MessageTypes, OtherCall DEF shutdown
  <2>3. CalmAt(d)
    BY <1>1, <2>1, <2>2, AnswerCalm
  <2>4. QED
    BY <1>1, <1>2, <1>4, <2>3, AnswerSame
<1>5. QED
  BY <1>3, <1>4

\* What an end leaves behind when it is finalised.
LEMMA Finalised ==
  ASSUME OrderInv, NEW e \in Ends, finnal_close(e)
  PROVE  /\ open' = [open EXCEPT ![e] = FALSE] /\ wire' = [wire EXCEPT ![e] = <<>>]
         /\ jobs' = [jobs EXCEPT ![e] = <<>>] /\ call' = call
         /\ \A d \in Calls : open'[Caller(d)] => open[Caller(d)]
         /\ \A d \in Calls : CalmAt(d)
         /\ \A d \in Calls :
              \/ method'[d] = method[d]
              \/ /\ Callee(d) = e /\ method[d].pc = "running" /\ method'[d] = Ended(method[d])
                 /\ \A f \in Calls \ {d} : method'[f] = method[f]
<1>1. /\ MatchInv /\ open \in [Ends -> BOOLEAN] /\ wire \in [Ends -> Seq(Messages)]
      /\ jobs \in [Ends -> Seq(Messages)] /\ method \in [Calls -> MethodRecords]
      /\ \A d \in Calls : Caller(d) \in Ends
  BY OrderShapes
<1>2. /\ open' = [open EXCEPT ![e] = FALSE] /\ wire' = [wire EXCEPT ![e] = <<>>]
      /\ jobs' = [jobs EXCEPT ![e] = <<>>] /\ call' = call
  BY DEF finnal_close
<1>3. \A d \in Calls : open'[Caller(d)] => open[Caller(d)]
  BY <1>1, <1>2
<1>4. ASSUME NEW d \in Calls PROVE CalmAt(d)
  <2>1. \A f \in Ends : wire'[f] = wire[f] \/ wire'[f] = <<>>
    BY <1>1, <1>2
  <2>2. \A f \in Ends : jobs'[f] = jobs[f] \/ jobs'[f] = <<>>
    BY <1>1, <1>2
  <2>3. Free(<<>>, Responses(d))
    BY EmptyOrder
  <2>4. QED
    BY <2>1, <2>2, <2>3, ShorterCalm
<1>5. ASSUME NEW d \in Calls, method'[d] # method[d]
      PROVE  /\ Callee(d) = e /\ method[d].pc = "running" /\ method'[d] = Ended(method[d])
             /\ \A f \in Calls \ {d} : method'[f] = method[f]
  <2>1. running[e] = d /\ running[e] # None /\ method' = [method EXCEPT ![d] = Ended(@)]
    BY <1>1, <1>5, RpcAssumption DEF finnal_close, Calls
  <2>2. QED
    BY <1>1, <2>1 DEF MatchInv, RunningHere
<1>6. QED
  BY <1>2, <1>3, <1>4, <1>5

LEMMA CloseAnswer ==
  ASSUME OrderInv, NEW e \in Ends, finnal_close(e), NEW d \in Calls
  PROVE  AnswerAt(d)'
<1>1. /\ AnswerAt(d) /\ CalmAt(d) /\ call'[d] = call[d] /\ (open'[Caller(d)] => open[Caller(d)])
  BY OrderShapes, Finalised
<1>2. CASE method'[d] = method[d]
  BY <1>1, <1>2, AnswerSame
<1>3. CASE method'[d] = Ended(method[d])
  <2>1. method'[d].pc = "ended" /\ ~method'[d].ended /\ OneAnswer(d)'
    BY <1>3 DEF Ended, NoMethod, OneAnswer
  <2>2. AnswerRead(d)' = AnswerRead(d) /\ Spoken(d)'
    BY <1>1, <2>1 DEF AnswerRead, server_streaming, Spoken
  <2>3. /\ call[d].pc # "error"
        /\ call[d].pc = "failed" => call[d].id = 0 \/ ~open[Caller(d)]
        /\ call[d].pc # "cancelled" => /\ NoError(call[d].queue)
                                       /\ call[d].kind = "void" => call[d].queue = <<>>
    BY <1>1 DEF AnswerAt, Whole
  <2>4. QED
    BY <1>1, <2>1, <2>2, <2>3, AnswerKept
<1>4. QED
  BY <1>2, <1>3, Finalised

\* Only a failed message is fed as an error.
LEMMA JoinNoError ==
  ASSUME NEW p \in Seq(Items), NEW q \in Seq(Items), NoError(p), NoError(q)
  PROVE  NoError(p \o q)
<1>1. SUFFICES ASSUME NEW i \in 1 .. Len(p \o q) PROVE (p \o q)[i].what # "error"
  BY DEF NoError
<1>2. /\ Len(p \o q) = Len(p) + Len(q) /\ Len(p) \in Nat /\ Len(q) \in Nat
      /\ (p \o q)[i] = IF i <= Len(p) THEN p[i] ELSE q[i - Len(p)]
  BY ConcatProperties, LenProperties
<1>3. CASE i <= Len(p)
  BY <1>2, <1>3 DEF NoError
<1>4. CASE i > Len(p)
  <2>1. i - Len(p) \in 1 .. Len(q)
    BY <1>2, <1>4
  <2>2. QED
    BY <1>2, <1>4, <2>1 DEF NoError
<1>5. QED
  BY <1>2, <1>3, <1>4

LEMMA FedNoError ==
  ASSUME NEW m \in Messages, ~m.failed, NEW q \in Seq(Items), NoError(q)
  PROVE  NoError(q \o Fed(m))
<1> DEFINE it(w) == [what |-> w, call |-> m.call]
           f == IF m.payload THEN <<it("message")>> ELSE <<>>
           g == IF m.end THEN <<it("end")>> ELSE <<>>
<1>1. Fed(m) = f \o g /\ Fed(m) \in Seq(Items)
  BY FedItems DEF Fed
<1>2. it("message") \in Items /\ it("end") \in Items /\ <<>> \in Seq(Items)
  BY EmptySeq DEF Items, Messages
<1>3. f \in Seq(Items) /\ g \in Seq(Items)
  BY <1>2, OneElement
<1>4. NoError(f) /\ NoError(g)
  BY DEF NoError
<1> HIDE DEF f, g
<1>5. NoError(Fed(m))
  BY <1>1, <1>3, <1>4, JoinNoError
<1>6. QED
  BY <1>1, <1>5, JoinNoError

\* What the router does with a message it does not refuse.
LEMMA FeedCases ==
  ASSUME OrderInv, NEW e \in Ends, wire[e] # <<>>, feed(e, Head(wire[e]))
  PROVE  LET m == Head(wire[e])
             c == m.call
         IN  /\ open[e] /\ m \in Messages /\ c \in Calls
             /\ UNCHANGED open /\ wire' = [wire EXCEPT ![e] = Tail(@)]
             /\ \/ /\ m \in Responses(c) /\ Caller(c) = e /\ ~m.failed
                   /\ call[c].pc \in Waiting
                   /\ call' = [call EXCEPT ![c].queue = @ \o Fed(m)]
                   /\ UNCHANGED <<jobs, method>>
                \/ /\ m \in Requests(c) /\ Callee(c) = e /\ method[c].pc \in Serving
                   /\ method[c].fed => client_streaming(c)
                   /\ method' = [method EXCEPT ![c].queue = @ \o Fed(m), ![c].fed = TRUE]
                   /\ UNCHANGED <<jobs, call>>
                \/ /\ m \in Requests(c) /\ Callee(c) = e /\ method[c].pc = "none"
                   /\ method' = [method EXCEPT ![c] =
                         [NoMethod EXCEPT !.pc = "queued", !.queue = Fed(m), !.fed = TRUE,
                                          !.runs = method[c].runs + 1]]
                   /\ jobs' = [jobs EXCEPT ![e] = Append(@, m)]
                   /\ UNCHANGED call
                \/ /\ m \in Responses(c) /\ call[c].pc = "cancelled"
                   /\ jobs' = [jobs EXCEPT ![e] = Append(@, m)]
                   /\ UNCHANGED <<call, method>>
<1> DEFINE m == Head(wire[e])
           c == m.call
<1>1. /\ MatchInv /\ OnceInv /\ OwnInv /\ open[e] /\ MatchedAt(e)
      /\ m \in OwnMessages /\ m \in Routed(e) /\ m \in Messages /\ c \in Calls
      /\ m.id = call[c].id /\ m.id > 0
  BY OrderShapes, HeadFacts DEF feed, Received, OwnMessages, Messages, MatchInv, Matched
<1>2. wire' = [wire EXCEPT ![e] = Tail(@)] /\ open' = open
  BY DEF feed, Received, feed_out, feed_in, new_inbound, invalid_packet_type, ends
<1>3. ASSUME NEW x \in contexts[e], x.id = m.id PROVE x.call = c /\ Holds(e, x)
  <2>1. x.call \in Calls /\ x.id = call[x.call].id
    BY <1>1, OwnFacts
  <2>2. x.call = c
    BY <1>1, <1>3, <2>1, SameId DEF OwnInv
  <2>3. QED
    BY <1>1, <2>2 DEF MatchedAt
<1>4. /\ m.type # "REQUEST" => m \in Responses(c)
      /\ m.type = "REQUEST" => m \in Requests(c) /\ Callee(c) = e
  BY <1>1 DEF Responses, Requests, Routed
<1>5. m.type # "REQUEST" /\ call[c].pc # "cancelled" =>
        /\ Caller(c) = e /\ ~m.failed /\ call[c].pc \in Waiting
        /\ \E x \in contexts[e] : x.id = m.id
  BY <1>1, AnswerAwaited
<1>6. m.type = "REQUEST" /\ (\A x \in contexts[e] : x.id # m.id) => method[c].pc = "none"
  BY <1>1, FreshMethod
<1> HIDE DEF m, c
<1>7. ASSUME NEW x \in contexts[e], x.id = m.id, feed_out(e, m, x)
      PROVE  /\ m \in Responses(c) /\ Caller(c) = e /\ ~m.failed /\ call[c].pc \in Waiting
             /\ call' = [call EXCEPT ![c].queue = @ \o Fed(m)] /\ UNCHANGED <<jobs, method>>
  <2>1. /\ x.call = c /\ call[c].pc \in Waiting /\ m.type # "REQUEST"
        /\ call' = [call EXCEPT ![c].queue = @ \o Fed(m)] /\ UNCHANGED <<jobs, method>>
    BY <1>3, <1>7 DEF feed_out, Holds, ends
  <2>2. call[c].pc # "cancelled"
    BY <2>1 DEF Waiting
  <2>3. QED
    BY <1>4, <1>5, <2>1, <2>2
<1>8. ASSUME NEW x \in contexts[e], x.id = m.id, feed_in(e, m, x)
      PROVE  /\ m \in Requests(c) /\ Callee(c) = e /\ method[c].pc \in Serving
             /\ method[c].fed => client_streaming(c)
             /\ method' = [method EXCEPT ![c].queue = @ \o Fed(m), ![c].fed = TRUE]
             /\ UNCHANGED <<jobs, call>>
  BY <1>3, <1>4, <1>8 DEF feed_in, Holds, ends
<1>9. CASE (\A x \in contexts[e] : x.id # m.id) /\ new_inbound(e, m)
  <2>1. /\ method' = [method EXCEPT ![c] =
              [NoMethod EXCEPT !.pc = "queued", !.queue = Fed(m), !.fed = TRUE,
                               !.runs = method[c].runs + 1]]
        /\ jobs' = [jobs EXCEPT ![e] = Append(@, m)]
        /\ UNCHANGED call /\ m.type = "REQUEST"
    BY <1>9 DEF new_inbound, c
  <2>2. QED
    BY <1>1, <1>2, <1>4, <1>6, <1>9, <2>1 DEF m, c
<1>10. CASE (\A x \in contexts[e] : x.id # m.id) /\ invalid_packet_type(e, m)
  <2>1. /\ m.type # "REQUEST" /\ jobs' = [jobs EXCEPT ![e] = Append(@, m)]
        /\ UNCHANGED <<call, method>>
    BY <1>10 DEF invalid_packet_type
  <2>2. m \in Responses(c) /\ call[c].pc = "cancelled"
    BY <1>4, <1>5, <1>10, <2>1
  <2>3. QED
    BY <1>1, <1>2, <2>1, <2>2 DEF m, c
<1>11. \/ \E x \in contexts[e] : x.id = m.id /\ feed_out(e, m, x)
       \/ \E x \in contexts[e] : x.id = m.id /\ feed_in(e, m, x)
       \/ (\A x \in contexts[e] : x.id # m.id) /\ new_inbound(e, m)
       \/ (\A x \in contexts[e] : x.id # m.id) /\ invalid_packet_type(e, m)
  BY DEF feed, m
<1>12. CASE \E x \in contexts[e] : x.id = m.id /\ feed_out(e, m, x)
  <2>1. /\ m \in Responses(c) /\ Caller(c) = e /\ ~m.failed /\ call[c].pc \in Waiting
        /\ call' = [call EXCEPT ![c].queue = @ \o Fed(m)] /\ UNCHANGED <<jobs, method>>
    BY <1>7, <1>12
  <2>2. QED
    BY <1>1, <1>2, <2>1 DEF m, c
<1>13. CASE \E x \in contexts[e] : x.id = m.id /\ feed_in(e, m, x)
  <2>1. /\ m \in Requests(c) /\ Callee(c) = e /\ method[c].pc \in Serving
        /\ method[c].fed => client_streaming(c)
        /\ method' = [method EXCEPT ![c].queue = @ \o Fed(m), ![c].fed = TRUE]
        /\ UNCHANGED <<jobs, call>>
    BY <1>8, <1>13
  <2>2. QED
    BY <1>1, <1>2, <2>1 DEF m, c
<1>14. QED
  BY <1>9, <1>10, <1>11, <1>12, <1>13

\* A job behind others.
LEMMA AppendFree ==
  ASSUME NEW q \in Seq(Messages), NEW m \in Messages, NEW R
  PROVE  Free(q, R) /\ m \notin R => Free(Append(q, m), R)
<1>1. Append(q, m) = q \o <<m>>
  BY AppendIsConcat
<1>2. QED
  BY <1>1, AppendOrder

\* What the router's step leaves of a call's responses.
LEMMA FeedCalm ==
  ASSUME OrderInv, NEW e \in Ends, wire[e] # <<>>, feed(e, Head(wire[e])), NEW d \in Calls,
         jobs' = [jobs EXCEPT ![e] = Append(@, Head(wire[e]))] => Head(wire[e]) \notin Responses(d),
         jobs' = jobs \/ jobs' = [jobs EXCEPT ![e] = Append(@, Head(wire[e]))]
  PROVE  CalmAt(d)
<1> DEFINE m == Head(wire[e])
<1>1. /\ wire \in [Ends -> Seq(Messages)] /\ jobs \in [Ends -> Seq(Messages)]
      /\ m \in Messages /\ wire' = [wire EXCEPT ![e] = Tail(@)]
  BY OrderShapes, FeedCases
<1> HIDE DEF m
<1>2. \A f \in Ends : wire'[f] = wire[f] \/ (wire[f] # <<>> /\ wire'[f] = Tail(wire[f]))
  BY <1>1
<1>3. ASSUME NEW f \in Ends, Free(jobs[f], Responses(d)) PROVE Free(jobs'[f], Responses(d))
  <2>1. CASE jobs'[f] = jobs[f]
    BY <1>3, <2>1
  <2>2. CASE jobs'[f] # jobs[f]
    <3>1. /\ jobs' = [jobs EXCEPT ![e] = Append(@, m)] /\ m \notin Responses(d)
          /\ jobs[f] \in Seq(Messages) /\ jobs'[f] = Append(jobs[f], m)
      BY <1>1, <2>2 DEF m
    <3>2. QED
      BY <1>1, <1>3, <3>1, AppendFree
  <2>3. QED
    BY <2>1, <2>2
<1>4. QED
  BY <1>2, <1>3, ShorterCalm

\* A response is taken from the wire, and the caller's context fed with it.
LEMMA AnswerFed ==
  ASSUME OrderInv, NEW c \in Calls, CalmAt(c), NEW e \in Ends, Caller(c) = e,
         wire[e] # <<>>, Head(wire[e]) \in Responses(c), ~Head(wire[e]).failed,
         wire'[e] = Tail(wire[e]), open' = open, method'[c] = method[c],
         call[c].pc \in Waiting,
         call'[c].kind = call[c].kind, call'[c].pc = call[c].pc, call'[c].id = call[c].id,
         call'[c].queue = call[c].queue \o Fed(Head(wire[e]))
  PROVE  AnswerAt(c)'
<1> DEFINE w == wire[e]
           m == Head(w)
           R == Responses(c)
           L == LastResponses(c)
           q == call[c].queue
<1>1. /\ w \in Seq(Messages) /\ m \in R /\ m \in Messages /\ q \in Seq(Items)
  BY OrderShapes DEF Responses, CallRecords
<1>2. LastResponses(c)' = L /\ server_streaming(c)' = server_streaming(c)
  BY DEF LastResponses, server_streaming
<1>3. call[c].pc \notin {"cancelled", "error", "failed"}
  BY DEF Waiting
<1>4. /\ LastOnly(w, R, L) /\ (~Spoken(c) => Free(w, L))
      /\ AnswerRead(c) => Spoken(c) /\ Free(w, R)
      /\ (call[c].kind = "void" => Free(w, R)) /\ NoError(q)
      /\ Free(w, Failed(R)) /\ Free(wire[Callee(c)], R)
      /\ \A f \in Ends : Free(jobs[f], R)
      /\ OneAnswer(c)' /\ (method[c].ended => method[c].pc = "running")
  BY <1>2, <1>3, OrderShapes DEF AnswerAt, Whole, OneAnswer
<1>5. NoError(q \o Fed(m)) /\ (HasEnd(q \o Fed(m)) => HasEnd(q) \/ m.end)
  BY <1>1, <1>4, FedNoError, FedEnd
<1>6. /\ Free(Tail(w), Failed(R)) /\ Free(wire'[Callee(c)], R)
      /\ \A f \in Ends : Free(jobs'[f], R)
  BY <1>4, EndFacts DEF CalmAt, Calmer
<1> HIDE DEF w, R, L
<1>7. /\ Calmer(w, Tail(w), R, L) /\ (m \in L => Free(Tail(w), R))
      /\ Free(w, R) => m \notin R
      /\ Free(w, L) => m \notin L
  BY <1>1, <1>4, TailOrder DEF w
<1>8. ~AnswerRead(c) /\ call[c].kind # "void"
  BY <1>1, <1>4, <1>7
<1>9. AnswerRead(c)' => m \in L
  <2>1. AnswerRead(c)' => m.end \/ ~server_streaming(c)
    BY <1>2, <1>5, <1>8 DEF AnswerRead, w
  <2>2. QED
    BY <1>1, <2>1 DEF L, R, LastResponses, LastOf
<1>10. AnswerRead(c)' => Spoken(c) /\ Free(Tail(w), R)
  BY <1>4, <1>7, <1>9
<1>11. LastOnly(Tail(w), R, L) /\ (~Spoken(c) => Free(Tail(w), L)) /\ Spoken(c)' = Spoken(c)
  BY <1>4, <1>7 DEF Calmer, Spoken
<1>12. wire'[Caller(c)] = Tail(w) /\ call'[c].queue = q \o Fed(m)
  BY DEF w
<1> HIDE DEF q, m
<1>13. Whole(c)'
  BY <1>2, <1>5, <1>6, <1>8, <1>10, <1>11, <1>12 DEF Whole, R, L
<1>14. QED
  BY <1>2, <1>3, <1>4, <1>13 DEF AnswerAt

LEMMA FeedAnswer ==
  ASSUME OrderInv, NEW e \in Ends, wire[e] # <<>>, feed(e, Head(wire[e])), NEW d \in Calls
  PROVE  AnswerAt(d)'
<1> DEFINE m == Head(wire[e])
           c == m.call
<1>1. /\ wire \in [Ends -> Seq(Messages)] /\ jobs \in [Ends -> Seq(Messages)]
      /\ call \in [Calls -> CallRecords] /\ method \in [Calls -> MethodRecords]
      /\ AnswerAt(d) /\ m \in Messages /\ c \in Calls
      /\ open' = open /\ wire' = [wire EXCEPT ![e] = Tail(@)]
  BY OrderShapes, FeedCases
<1>2. jobs' = jobs => CalmAt(d)
  <2>1. jobs' = jobs => jobs' # [jobs EXCEPT ![e] = Append(@, m)]
    <3>1. jobs[e] \in Seq(Messages)
      BY <1>1
    <3>2. Len(Append(jobs[e], m)) = Len(jobs[e]) + 1 /\ Len(jobs[e]) \in Nat
      BY <1>1, <3>1, AppendProperties, LenProperties
    <3>3. QED
      BY <1>1, <3>2
  <2>2. QED
    BY <2>1, FeedCalm
<1>3. jobs' = [jobs EXCEPT ![e] = Append(@, m)] /\ m \notin Responses(d) => CalmAt(d)
  BY FeedCalm
<1>4. \A f \in Calls : Requests(f) \cap Responses(d) = {}
  BY DEF Requests, Responses
<1>5. \A f \in Calls \ {d} : Responses(f) \cap Responses(d) = {}
  BY DEF Responses
<1>6. Head(wire[e]) = m
  OBVIOUS
<1>7. \/ /\ m \in Responses(c) /\ Caller(c) = e /\ ~m.failed /\ call[c].pc \in Waiting
         /\ call' = [call EXCEPT ![c].queue = @ \o Fed(m)]
         /\ UNCHANGED <<jobs, method>>
      \/ /\ method[c].pc \in Serving
         /\ method' = [method EXCEPT ![c].queue = @ \o Fed(m), ![c].fed = TRUE]
         /\ UNCHANGED <<jobs, call>>
      \/ /\ m \in Requests(c) /\ method[c].pc = "none"
         /\ method' = [method EXCEPT ![c] =
               [NoMethod EXCEPT !.pc = "queued", !.queue = Fed(m), !.fed = TRUE,
                                !.runs = method[c].runs + 1]]
         /\ jobs' = [jobs EXCEPT ![e] = Append(@, m)]
         /\ UNCHANGED call
      \/ /\ m \in Responses(c) /\ call[c].pc = "cancelled"
         /\ jobs' = [jobs EXCEPT ![e] = Append(@, m)]
         /\ UNCHANGED <<call, method>>
  BY FeedCases
<1> HIDE DEF m, c
<1>8. CASE /\ m \in Responses(c) /\ Caller(c) = e /\ ~m.failed /\ call[c].pc \in Waiting
           /\ call' = [call EXCEPT ![c].queue = @ \o Fed(m)]
           /\ UNCHANGED <<jobs, method>>
  <2>1. CASE d # c
    <3>1. call'[d] = call[d]
      BY <1>1, <1>8, <2>1
    <3>2. QED
      BY <1>1, <1>2, <1>8, <3>1, AnswerSame
  <2>2. CASE d = c
    <3>1. /\ call'[d].kind = call[d].kind /\ call'[d].pc = call[d].pc
          /\ call'[d].id = call[d].id /\ call'[d].queue = call[d].queue \o Fed(m)
      BY <1>1, <1>8, <2>2 DEF CallRecords
    <3>2. wire'[e] = Tail(wire[e])
      BY <1>1
    <3>3. QED
      BY <1>1, <1>2, <1>6, <1>8, <2>2, <3>1, <3>2, AnswerFed
  <2>3. QED
    BY <2>1, <2>2
<1>9. CASE /\ method[c].pc \in Serving
           /\ method' = [method EXCEPT ![c].queue = @ \o Fed(m), ![c].fed = TRUE]
           /\ UNCHANGED <<jobs, call>>
  <2>1. /\ call'[d] = call[d] /\ method'[d].pc = method[d].pc
        /\ method'[d].ended = method[d].ended
        /\ method'[d].responded = method[d].responded
    BY <1>1, <1>9 DEF MethodRecords
  <2>2. QED
    BY <1>1, <1>2, <1>9, <2>1, AnswerSame
<1>10. CASE /\ m \in Requests(c) /\ method[c].pc = "none"
            /\ method' = [method EXCEPT ![c] =
                  [NoMethod EXCEPT !.pc = "queued", !.queue = Fed(m), !.fed = TRUE,
                                   !.runs = method[c].runs + 1]]
            /\ jobs' = [jobs EXCEPT ![e] = Append(@, m)]
            /\ UNCHANGED call
  <2>1. CalmAt(d)
    BY <1>1, <1>3, <1>4, <1>10
  <2>2. CASE d # c
    <3>1. method'[d] = method[d]
      BY <1>1, <1>10, <2>2
    <3>2. QED
      BY <1>1, <1>10, <2>1, <3>1, AnswerSame
  <2>3. CASE d = c
    <3>1. method'[d].ended = FALSE /\ OneAnswer(d)'
      BY <1>1, <1>10, <2>3 DEF NoMethod, OneAnswer
    <3>2. ~Spoken(d) /\ call'[d] = call[d] /\ call[d].pc # "error"
      BY <1>1, <1>10, <2>3 DEF AnswerAt, Spoken
    <3>3. AnswerRead(d)' = AnswerRead(d)
      BY <1>10 DEF AnswerRead, server_streaming
    <3>4. /\ call[d].pc = "failed" => call[d].id = 0 \/ ~open[Caller(d)]
          /\ call[d].pc # "cancelled" => /\ NoError(call[d].queue)
                                         /\ call[d].kind = "void" => call[d].queue = <<>>
      BY <1>1 DEF AnswerAt, Whole
    <3>5. QED
      BY <1>1, <2>1, <3>1, <3>2, <3>3, <3>4, AnswerKept
  <2>4. QED
    BY <2>2, <2>3
<1>11. CASE /\ m \in Responses(c) /\ call[c].pc = "cancelled"
            /\ jobs' = [jobs EXCEPT ![e] = Append(@, m)]
            /\ UNCHANGED <<call, method>>
  <2>1. CASE d = c
    BY <1>1, <1>11, <2>1 DEF AnswerAt, OneAnswer, server_streaming
  <2>2. CASE d # c
    <3>1. m \notin Responses(d)
      BY <1>1, <1>5, <1>11, <2>2
    <3>2. QED
      BY <1>1, <1>3, <1>11, <3>1, AnswerSame
  <2>3. QED
    BY <2>1, <2>2
<1>12. QED
  BY <1>7, <1>8, <1>9, <1>10, <1>11

\* The handler takes a method's job, or answers what a caller that has left sent.
LEMMA StartJobCases ==
  ASSUME OrderInv, NEW e \in Ends, StartJob(e)
  PROVE  LET m == Head(jobs[e])
             c == m.call
         IN  /\ open[e] /\ jobs[e] # <<>> /\ m \in Messages /\ c \in Calls
             /\ UNCHANGED <<open, call>> /\ jobs' = [jobs EXCEPT ![e] = Tail(@)]
             /\ \/ /\ Callee(c) = e /\ method[c].pc = "queued" /\ call[c].pc # "new"
                   /\ method' = [method EXCEPT ![c].pc = "running"] /\ wire' = wire
                \/ /\ call[c].pc = "cancelled" /\ method' = method
                   /\ \E n \in Responses(c) : Deliver(e, <<n>>)
<1> DEFINE m == Head(jobs[e])
           c == m.call
<1>1. /\ MatchInv /\ OwnInv /\ open[e] /\ jobs[e] # <<>>
      /\ UNCHANGED <<open, call>> /\ jobs' = [jobs EXCEPT ![e] = Tail(@)]
  BY OrderShapes DEF StartJob
<1>2. /\ m = jobs[e][1] /\ 1 \in 1 .. Len(jobs[e]) /\ m \in OwnMessages
  <2>1. jobs[e] \in Seq(OwnMessages)
    BY <1>1, OwnFacts
  <2>2. m = jobs[e][1] /\ Len(jobs[e]) \in Nat /\ Len(jobs[e]) # 0 /\ m \in OwnMessages
    BY <1>1, <2>1, HeadTailProperties, EmptySeq, LenProperties
  <2>3. QED
    BY <2>2
<1>3. m \in Messages /\ c \in Calls /\ m.id = call[c].id /\ m.id > 0
  BY <1>2 DEF OwnMessages, Messages
<1>4. call[c].pc # "new"
  BY <1>1, <1>3 DEF OwnInv, Ids
<1>5. m.type = "REQUEST" => Callee(c) = e /\ method[c].pc = "queued"
  BY <1>1, <1>2, JobFacts DEF Request
<1> DEFINE n == [m EXCEPT !.type = "RESPONSE", !.failed = TRUE, !.payload = TRUE]
<1>6. n \in Responses(c)
  BY <1>3 DEF Responses, Messages
<1>7. m.type # "REQUEST" => call[c].pc = "cancelled"
  <2>1. m.type # "REQUEST" => m \in Responses(c)
    BY <1>3 DEF Responses
  <2>2. m.type # "REQUEST" => ~Free(jobs[e], Responses(c))
    BY <1>2, <2>1 DEF Free
  <2>3. AnswerAt(c)
    BY <1>3, OrderShapes
  <2> HIDE DEF m, c
  <2>4. QED
    BY <2>2, <2>3 DEF AnswerAt, Whole
<1>8. \/ m.type = "REQUEST" /\ method' = [method EXCEPT ![c].pc = "running"] /\ wire' = wire
      \/ m.type # "REQUEST" /\ method' = method /\ Deliver(e, <<n>>)
  BY DEF StartJob
<1> HIDE DEF n
<1>9. QED
  BY <1>1, <1>3, <1>4, <1>5, <1>6, <1>7, <1>8

LEMMA StartJobAnswer ==
  ASSUME OrderInv, NEW e \in Ends, StartJob(e), NEW d \in Calls
  PROVE  AnswerAt(d)'
<1> DEFINE c == Head(jobs[e]).call
<1>1. /\ wire \in [Ends -> Seq(Messages)] /\ jobs \in [Ends -> Seq(Messages)]
      /\ method \in [Calls -> MethodRecords] /\ AnswerAt(d)
      /\ jobs[e] # <<>> /\ UNCHANGED <<open, call>> /\ jobs' = [jobs EXCEPT ![e] = Tail(@)]
      /\ c \in Calls
  BY OrderShapes, StartJobCases
<1>2. \/ /\ method[c].pc = "queued" /\ wire' = wire
         /\ method' = [method EXCEPT ![c].pc = "running"]
      \/ /\ call[c].pc = "cancelled" /\ method' = method
         /\ \E n \in Responses(c) : Deliver(e, <<n>>)
  BY StartJobCases
<1> HIDE DEF c
<1>3. \A f \in Ends : Free(jobs[f], Responses(d)) => Free(jobs'[f], Responses(d))
  <2>1. Free(jobs[e], Responses(d)) => Free(Tail(jobs[e]), Responses(d))
    <3>1. jobs[e] \in Seq(Messages)
      BY <1>1
    <3>2. QED
      BY <1>1, <3>1, TailOrder DEF Calmer
  <2>2. QED
    BY <1>1, <2>1
<1>4. CASE /\ method[c].pc = "queued" /\ wire' = wire
           /\ method' = [method EXCEPT ![c].pc = "running"]
  <2>1. CalmAt(d)
    BY <1>3, <1>4, ShorterCalm
  <2>2. CASE d # c
    <3>1. method'[d] = method[d]
      BY <1>1, <1>4, <2>2
    <3>2. QED
      BY <1>1, <2>1, <3>1, AnswerSame
  <2>3. CASE d = c
    <3>1. /\ method'[d].ended = method[d].ended /\ method'[d].responded = method[d].responded
          /\ method'[d].pc = "running"
      BY <1>1, <1>4, <2>3 DEF MethodRecords
    <3>2. ~Spoken(d) /\ ~method[d].ended /\ call[d].pc # "error"
      BY <1>1, <1>4, <2>3 DEF AnswerAt, Spoken
    <3>3. AnswerRead(d)' = AnswerRead(d) /\ call'[d] = call[d] /\ OneAnswer(d)'
      BY <1>1, <1>4, <2>3, <3>1 DEF AnswerRead, server_streaming, AnswerAt, OneAnswer
    <3>4. /\ call[d].pc = "failed" => call[d].id = 0 \/ ~open[Caller(d)]
          /\ call[d].pc # "cancelled" => /\ NoError(call[d].queue)
                                         /\ call[d].kind = "void" => call[d].queue = <<>>
      BY <1>1 DEF AnswerAt, Whole
    <3>5. QED
      BY <1>1, <2>1, <3>1, <3>2, <3>3, <3>4, AnswerKept
  <2>4. QED
    BY <2>2, <2>3
<1>5. CASE /\ call[c].pc = "cancelled" /\ method' = method
           /\ \E n \in Responses(c) : Deliver(e, <<n>>)
  <2>1. CASE d = c
    BY <1>1, <1>5, <2>1 DEF AnswerAt, OneAnswer, server_streaming
  <2>2. CASE d # c
    <3>1. PICK n \in Responses(c) : Deliver(e, <<n>>)
      BY <1>5
    <3>2. n \in Messages /\ n \notin Responses(d)
      BY <2>2, <3>1 DEF Responses
    <3>3. CalmAt(d)
      BY <1>3, <3>1, <3>2, AnswerCalm
    <3>4. QED
      BY <1>1, <1>5, <3>3, AnswerSame
  <2>3. QED
    BY <2>1, <2>2
<1>6. QED
  BY <1>2, <1>4, <1>5

\* What a running method does: it reads, answers, or returns.
LEMMA MethodCases ==
  ASSUME OrderInv, MethodsReturn, NEW c \in Calls,
         \/ ReadRequest(c) \/ SendResponse(c) \/ Return(c)
         \/ RaiseException(c) \/ ReadFails(c) \/ RaiseBaseEx(c)
  PROVE  LET item == Head(method[c].queue) IN
         /\ method[c].pc = "running" /\ UNCHANGED <<open, call>>
         /\ \A d \in Calls \ {c} : method'[d] = method[d]
         /\ \/ /\ ~method[c].read /\ method[c].queue # <<>>
               /\ method'[c].queue = Tail(method[c].queue)
               /\ method'[c].read = (~client_streaming(c) \/ item.what = "end")
               /\ method'[c].got = IF item.what = "message" \/ ~client_streaming(c)
                                   THEN method[c].got + 1 ELSE method[c].got
               /\ method'[c].pc = method[c].pc /\ method'[c].ended = method[c].ended
               /\ method'[c].responded = method[c].responded
               /\ UNCHANGED <<wire, jobs>>
            \/ /\ call[c].kind # "void" /\ ~method[c].ended
               /\ method'[c].pc = method[c].pc /\ method'[c].queue = method[c].queue
               /\ method'[c].read = method[c].read /\ method'[c].got = method[c].got
               /\ \E end, payload \in BOOLEAN, n \in {0, 1} :
                    /\ ~server_streaming(c) => end /\ n = 1 /\ method[c].responded = 0
                    /\ n = 0 => end /\ ~payload
                    /\ server_streaming(c) /\ n = 1 /\ ~payload => "empty_response" \in Env
                    /\ method'[c].responded = method[c].responded + n
                    /\ method'[c].ended = end
                    /\ Deliver(Callee(c),
                               <<Message(call[c].id, c, "RESPONSE", end, FALSE, payload)>>)
               /\ UNCHANGED jobs
            \/ /\ method[c].read /\ method'[c] = Ended(method[c])
               /\ call[c].kind \in {"unary", "client_stream"} => method[c].responded = 1
               /\ Deliver(Callee(c), EndOfStream(c))
               /\ UNCHANGED jobs
<1>1. /\ MatchInv /\ method \in [Calls -> MethodRecords] /\ c # None /\ Callee(c) \in Ends
      /\ AnswerAt(c) /\ TypeOK
      /\ ReadRequest(c) \/ SendResponse(c) \/ Return(c)
  BY OrderShapes, ReadsInTurn, RpcAssumption DEF Calls, OnceInv
<1>2. UNCHANGED <<open, call>>
  BY <1>1 DEF ReadRequest, SendResponse, Return, ends
<1>3. method[c].pc = "running"
  <2>1. running[Callee(c)] = c
    BY <1>1 DEF ReadRequest, SendResponse, Return, Speaking, Running
  <2>2. QED
    BY <1>1, <2>1 DEF MatchInv, RunningHere
<1>4. CASE ReadRequest(c)
  BY <1>1, <1>2, <1>3, <1>4 DEF ReadRequest, MethodRecords, ends
<1>5. CASE SendResponse(c)
  <2>1. /\ ~method[c].ended /\ call[c].kind # "void" /\ UNCHANGED jobs
        /\ method[c].responded \in Nat
    BY <1>1, <1>5 DEF SendResponse, MethodsReturn, server_streaming, ends, MethodRecords
  <2>2. PICK end \in BOOLEAN, payload \in BOOLEAN, n \in {0, 1} :
          /\ ~server_streaming(c) => end /\ n = 1
          /\ n = 0 => end /\ ~payload
          /\ server_streaming(c) /\ n = 1 /\ ~payload => "empty_response" \in Env
          /\ method' = [method EXCEPT ![c].responded = @ + n, ![c].ended = @ \/ end]
          /\ Deliver(Callee(c), <<Message(call[c].id, c, "RESPONSE", end, FALSE, payload)>>)
    BY <1>1, <1>5, ResponseGiven
  <2>3. /\ method'[c].responded = method[c].responded + n /\ method'[c].ended = end
        /\ method'[c].pc = method[c].pc /\ method'[c].queue = method[c].queue
        /\ method'[c].read = method[c].read /\ method'[c].got = method[c].got
        /\ \A d \in Calls \ {c} : method'[d] = method[d]
    BY <1>1, <2>1, <2>2 DEF MethodRecords
  <2>4. ~server_streaming(c) => method[c].responded = 0
    BY <1>1, <1>3, <2>1 DEF AnswerAt, OneAnswer
  <2>5. QED
    BY <1>2, <1>3, <2>1, <2>2, <2>3, <2>4
<1>6. CASE Return(c)
  <2>1. Return(c) /\ method[c].read
    BY <1>6 DEF Return, MayAnswer, MethodsReturn
  <2>2. /\ method' = [method EXCEPT ![c] = Ended(@)] /\ Deliver(Callee(c), EndOfStream(c))
        /\ call[c].kind \in {"unary", "client_stream"} => method[c].responded = 1
        /\ UNCHANGED jobs
    <3>1. call[c].kind \in {"unary", "client_stream"} => method[c].ended /\ ~server_streaming(c)
      BY <2>1 DEF Return, server_streaming
    <3>2. QED
      BY <1>1, <1>3, <2>1, <3>1 DEF Return, close_in, AnswerAt, OneAnswer
  <2>3. method'[c] = Ended(method[c]) /\ \A d \in Calls \ {c} : method'[d] = method[d]
    BY <1>1, <2>2
  <2>4. QED
    BY <1>2, <1>3, <2>1, <2>2, <2>3
<1>7. QED
  BY <1>1, <1>4, <1>5, <1>6

\* The method sends a response; only the last one says that it has spoken.
LEMMA AnswerSpoken ==
  ASSUME OrderInv, NEW c \in Calls, NEW m \in Responses(c), ~m.failed, ~Spoken(c),
         call[c].kind # "void", m \in LastResponses(c) => Spoken(c)',
         UNCHANGED <<open, call, jobs>>,
         OneAnswer(c)',
         method'[c].ended => method'[c].pc = "running",
         Deliver(Callee(c), <<m>>)
  PROVE  AnswerAt(c)'
<1> DEFINE w == wire[Caller(c)]
           R == Responses(c)
           L == LastResponses(c)
<1>1. /\ server_streaming(c)' = server_streaming(c)
      /\ LastResponses(c)' = L /\ AnswerRead(c)' = AnswerRead(c)
  BY DEF server_streaming, LastResponses, AnswerRead
<1>2. /\ w \in Seq(Messages) /\ m \in Messages /\ m \in R /\ AnswerAt(c)
      /\ m \notin Failed(R)
  BY OrderShapes DEF Responses, Failed
<1>3. /\ wire'[Callee(c)] = wire[Callee(c)]
      /\ \/ wire'[Caller(c)] = w
         \/ wire'[Caller(c)] = w \o <<m>>
  BY OrderShapes DEF Deliver
<1>4. /\ call[c].pc # "error" /\ (call[c].pc = "failed" => call[c].id = 0 \/ ~open[Caller(c)])
  BY <1>2 DEF AnswerAt
<1>5. ASSUME call[c].pc # "cancelled" PROVE Whole(c)'
  <2>1. /\ LastOnly(w, R, L) /\ Free(w, L) /\ ~AnswerRead(c)
        /\ Free(w, Failed(R)) /\ Free(wire[Callee(c)], R) /\ NoError(call[c].queue)
        /\ \A e \in Ends : Free(jobs[e], R)
    BY <1>2, <1>5 DEF AnswerAt, Whole
  <2> HIDE DEF w, R, L
  <2>2. /\ LastOnly(w \o <<m>>, R, L) /\ (m \notin L => Free(w \o <<m>>, L))
        /\ Free(w \o <<m>>, Failed(R))
    BY <1>2, <2>1, AppendOrder
  <2>3. /\ LastOnly(wire'[Caller(c)], R, L) /\ (~Spoken(c)' => Free(wire'[Caller(c)], L))
        /\ Free(wire'[Caller(c)], Failed(R))
    BY <1>3, <2>1, <2>2 DEF L
  <2>4. QED
    BY <1>1, <1>3, <2>1, <2>3 DEF Whole, R, L
<1>6. QED
  BY <1>1, <1>4, <1>5 DEF AnswerAt

\* A method reads, answers and returns.
LEMMA MethodAnswer ==
  ASSUME OrderInv, MethodsReturn, NEW c \in Calls,
         \/ ReadRequest(c) \/ SendResponse(c) \/ Return(c)
         \/ RaiseException(c) \/ ReadFails(c) \/ RaiseBaseEx(c),
         NEW d \in Calls
  PROVE  AnswerAt(d)'
<1> DEFINE e == Callee(c)
           read == /\ method'[c].ended = method[c].ended
                   /\ method'[c].responded = method[c].responded
                   /\ method'[c].pc = method[c].pc
                   /\ UNCHANGED <<wire, jobs>>
           answer(end, payload) == Message(call[c].id, c, "RESPONSE", end, FALSE, payload)
           respond == /\ call[c].kind # "void" /\ ~method[c].ended
                      /\ ~server_streaming(c) =>
                            /\ method[c].responded = 0 /\ method'[c].ended
                            /\ method'[c].responded = method[c].responded + 1
                      /\ method'[c].pc = method[c].pc
                      /\ \E end, payload \in BOOLEAN :
                            /\ method'[c].ended = end
                            /\ Deliver(e, <<answer(end, payload)>>)
                      /\ UNCHANGED jobs
           return == /\ method'[c] = Ended(method[c])
                     /\ Deliver(e, EndOfStream(c)) /\ UNCHANGED jobs
<1>1. /\ TypeOK /\ wire \in [Ends -> Seq(Messages)] /\ method \in [Calls -> MethodRecords]
      /\ AnswerAt(d) /\ AnswerAt(c) /\ e \in Ends
  BY OrderShapes
<1>2. /\ method[c].pc = "running" /\ UNCHANGED <<open, call>>
      /\ \A f \in Calls \ {c} : method'[f] = method[f]
  BY MethodCases
<1>3. read \/ respond \/ return
  BY MethodCases
<1> HIDE DEF answer
<1>4. CASE read
  <2>1. CalmAt(d)
    BY <1>4, ShorterCalm
  <2>2. /\ method'[d].ended = method[d].ended /\ method'[d].responded = method[d].responded
        /\ method'[d].pc = method[d].pc
    BY <1>2, <1>4
  <2>3. QED
    BY <1>1, <1>2, <2>1, <2>2, AnswerSame
<1>5. CASE respond
  <2> PICK end \in BOOLEAN, payload \in BOOLEAN :
        /\ method'[c].ended = end
        /\ Deliver(e, <<answer(end, payload)>>)
    BY <1>5
  <2> DEFINE m == answer(end, payload)
  <2>1. /\ m \in Messages /\ m \in Responses(c) /\ m.end = method'[c].ended /\ ~m.failed
        /\ d # c => m \notin Responses(d)
        /\ Deliver(e, <<m>>)
    <3>1. m \in Messages
      BY <1>1, MessageTypes DEF answer
    <3>2. QED
      BY <3>1 DEF answer, Message, Responses
  <2>2. method[c].responded \in Nat
    BY <1>1 DEF MethodRecords
  <2> HIDE DEF m
  <2>3. CASE d # c
    <3>1. CalmAt(d)
      BY <1>1, <1>5, <2>1, <2>3, AnswerCalm
    <3>2. QED
      BY <1>1, <1>2, <2>3, <3>1, AnswerSame
  <2>4. CASE d = c
    <3>1. m \in LastResponses(c) => Spoken(c)'
      BY <1>5, <2>1 DEF LastResponses, LastOf, Spoken
    <3>2. ~Spoken(c)
      BY <1>2, <1>5 DEF Spoken
    <3>3. OneAnswer(c)' /\ (method'[c].ended => method'[c].pc = "running")
      BY <1>2, <1>5, <2>2 DEF OneAnswer, server_streaming
    <3>4. QED
      BY <1>2, <1>5, <2>1, <2>4, <3>1, <3>2, <3>3, AnswerSpoken
  <2>5. QED
    BY <2>3, <2>4
<1>6. CASE return
  <2>1. method'[c].pc = "ended" /\ ~method'[c].ended /\ OneAnswer(c)'
    BY <1>6 DEF Ended, NoMethod, OneAnswer
  <2> DEFINE n == shutdown(c)
  <2>2. n \in Messages /\ n \in Responses(c) /\ ~n.failed /\ (d # c => n \notin Responses(d))
    <3>1. n \in Messages
      BY <1>1, MessageTypes
    <3>2. QED
      BY <3>1 DEF shutdown, Message, Responses
  <2>3. /\ EndOfStream(c) \in {<<>>, <<n>>}
        /\ EndOfStream(c) # <<>> => server_streaming(c) /\ ~method[c].ended
    BY DEF EndOfStream
  <2> HIDE DEF n
  <2>4. CASE d # c
    <3>1. CalmAt(d)
      BY <1>1, <1>6, <2>2, <2>3, <2>4, AnswerCalm
    <3>2. QED
      BY <1>1, <1>2, <2>4, <3>1, AnswerSame
  <2>5. CASE d = c /\ EndOfStream(c) = <<n>>
    <3>1. ~Spoken(c) /\ call[c].kind # "void"
      BY <1>2, <2>3, <2>5 DEF Spoken, server_streaming
    <3>2. Spoken(c)'
      BY <2>1 DEF Spoken
    <3>3. QED
      BY <1>2, <1>6, <2>1, <2>2, <2>5, <3>1, <3>2, AnswerSpoken
  <2>6. CASE d = c /\ EndOfStream(c) = <<>>
    <3>1. wire' = wire
      BY <1>1, <1>6, <2>6, NothingSent
    <3>2. CalmAt(d)
      BY <1>6, <3>1, ShorterCalm
    <3>3. Spoken(d)' /\ AnswerRead(d)' = AnswerRead(d)
      BY <1>2, <2>1, <2>6 DEF Spoken, AnswerRead, server_streaming
    <3>4. /\ call[d].pc # "error"
          /\ call[d].pc = "failed" => call[d].id = 0 \/ ~open'[Caller(d)]
          /\ call[d].pc # "cancelled" => /\ NoError(call[d].queue)
                                         /\ call[d].kind = "void" => call[d].queue = <<>>
      BY <1>1, <1>2 DEF AnswerAt, Whole
    <3>5. QED
      BY <1>1, <1>2, <2>1, <2>6, <3>2, <3>3, <3>4, AnswerKept
  <2>7. QED
    BY <2>3, <2>4, <2>5, <2>6
<1>7. QED
  BY <1>3, <1>4, <1>5, <1>6

LEMMA OrderInit == Init => OrderInv
<1> SUFFICES ASSUME Init, NEW c \in Calls PROVE AnswerAt(c)
  BY OnceInit DEF OrderInv
<1>1. /\ \A e \in Ends : wire[e] = <<>> /\ jobs[e] = <<>>
      /\ call[c].pc = "new" /\ call[c].queue = <<>>
      /\ ~method[c].ended /\ method[c].responded = 0
      /\ Caller(c) \in Ends /\ Callee(c) \in Ends
  BY EndFacts DEF Init, NoMethod
<1>2. /\ LastOnly(<<>>, Responses(c), LastResponses(c))
      /\ \A R : Free(<<>>, R)
  BY EmptyOrder
<1>3. ~AnswerRead(c) /\ NoError(call[c].queue)
  BY <1>1 DEF AnswerRead, HasEnd, NoError
<1>4. QED
  BY <1>1, <1>2, <1>3 DEF AnswerAt, Whole, OneAnswer

LEMMA OrderStep == MethodsReturn /\ OrderInv /\ [Next]_vars => OrderInv'
<1> SUFFICES ASSUME MethodsReturn, OrderInv, [Next]_vars, NEW d \in Calls
             PROVE  AnswerAt(d)'
  BY OnceStep DEF OrderInv
<1>1. ASSUME NEW c \in Calls, Open(c) PROVE AnswerAt(d)'
  BY <1>1, OpenAnswer
<1>2. ASSUME NEW c \in Calls, OpenFails(c) \/ SendRequest(c) \/ SendFails(c)
      PROVE  AnswerAt(d)'
  BY <1>2, SendAnswer
<1>3. ASSUME NEW c \in Calls, Receive(c) PROVE AnswerAt(d)'
  BY <1>3, ReceiveAnswer
<1>4. ASSUME NEW c \in Calls, Cancel(c) \/ ReceiveFails(c) PROVE AnswerAt(d)'
  BY <1>4, CancelAnswer
<1>5. ASSUME NEW e \in Ends, Cut(e) \/ PeerGone(e) \/ feed_raises(e) PROVE AnswerAt(d)'
  BY <1>5, CloseAnswer DEF Cut, PeerGone, feed_raises
<1>6. ASSUME NEW e \in Ends, wire[e] # <<>>, feed(e, Head(wire[e])) PROVE AnswerAt(d)'
  BY <1>6, FeedAnswer
<1>7. ASSUME NEW e \in Ends, StartJob(e) PROVE AnswerAt(d)'
  BY <1>7, StartJobAnswer
<1>8. ASSUME NEW c \in Calls, Method(c) \/ RaiseException(c) \/ ReadFails(c) \/ RaiseBaseEx(c)
      PROVE  AnswerAt(d)'
  BY <1>8, MethodAnswer DEF Method
<1>9. CASE UNCHANGED vars
  <2>1. UNCHANGED <<open, wire, jobs, call, method>>
    BY <1>9 DEF vars
  <2>2. CalmAt(d)
    BY <2>1, ShorterCalm
  <2>3. QED
    BY <2>1, <2>2, AnswerSame DEF OrderInv
<1>10. QED
  BY <1>1, <1>2, <1>3, <1>4, <1>5, <1>6, <1>7, <1>8, <1>9 DEF Next, feed_messages
-------------------------------------------------------------------------------
(* Two ends that keep to the protocol stay open *)

\* Nobody cancels or cuts, no message of a stream is empty, every method has a
\* route and returns.
Orderly == Env = {} /\ Outcomes \subseteq {"ok"}

OpenInv == (\A e \in Ends : open[e]) /\ (\A c \in Calls : call[c].pc # "cancelled")

\* No message on its way finds the call it answers gone, a method whose one
\* request has come, or an end for which it is not meant.
LEMMA NothingRaises ==
  ASSUME Orderly, OrderInv, OpenInv, NEW e \in Ends PROVE ~feed_raises(e)
<1> DEFINE m == Head(wire[e])
           c == m.call
<1>1. SUFFICES ASSUME wire[e] # <<>>, feed_raises(e) PROVE FALSE
  BY DEF feed_raises
<1>2. /\ MatchInv /\ OwnInv /\ wire[e] \in Seq(Messages) /\ open[e] /\ MatchedAt(e)
      /\ m \in OwnMessages /\ m \in Routed(e)
  BY <1>1, OrderShapes, HeadFacts DEF OpenInv, MatchInv, Matched
<1>3. /\ m \in Messages /\ c \in Calls /\ m.id = call[c].id /\ m.id > 0
      /\ m.type = "REQUEST" => Callee(c) = e
  BY <1>2 DEF OwnMessages, Routed, Messages
<1>4. m.type # "REQUEST" => /\ Caller(c) = e /\ \E x \in contexts[e] : x.id = m.id
  BY <1>1, <1>2, <1>3, AnswerAwaited DEF OpenInv
<1>5. OnceAt(c) /\ Callee(c) # Caller(c)
  BY <1>3, OrderShapes
<1>6. ASSUME NEW x \in contexts[e], x.id = m.id
      PROVE  x.call = c /\ Holds(e, x)
  <2>1. x.call \in Calls /\ x.id = call[x.call].id
    BY <1>2, OwnFacts
  <2>2. x.call = c
    BY <1>2, <1>3, <1>6, <2>1, SameId DEF OwnInv
  <2>3. QED
    BY <1>2, <2>2 DEF MatchedAt
<1>7. ASSUME m.type = "REQUEST" PROVE ~Free(wire[e], Requests(c))
  <2>1. m \in Requests(c)
    BY <1>3, <1>7 DEF Requests
  <2>2. QED
    BY <1>1, <1>2, <2>1, TailOrder
<1> HIDE DEF m, c
\* A request finds no context of its end's own call, and only streams go on.
<1>8. ASSUME NEW x \in contexts[e], x.id = m.id, x.dir = "out", m.type = "REQUEST" PROVE FALSE
  BY <1>3, <1>5, <1>6, <1>8 DEF Holds
<1>9. ASSUME NEW x \in contexts[e], x.id = m.id, x.dir = "in", m.type # "REQUEST" PROVE FALSE
  BY <1>4, <1>5, <1>6, <1>9 DEF Holds
<1>10. ASSUME NEW x \in contexts[e], x.id = m.id, x.dir = "in", method[x.call].fed,
              ~client_streaming(x.call)
       PROVE  FALSE
  <2>1. m.type = "REQUEST" /\ x.call = c
    BY <1>6, <1>9, <1>10
  <2>2. EndRead(c) /\ Callee(c) = e
    BY <1>3, <1>10, <2>1 DEF EndRead
  <2>3. QED
    BY <1>2, <1>5, <1>7, <2>1, <2>2 DEF OnceAt
\* The dialer's requests have odd ids.
<1>11. ASSUME m.type = "REQUEST", e = "listener" PROVE m.id % 2 = 1
  <2>1. Caller(c) = "dialer"
    BY <1>3, <1>11 DEF Callee, Caller, Peer
  <2>2. call[c].id % 2 = outbound_transmission_id[Caller(c)] % 2
    BY <1>2, <1>3 DEF OwnInv, Ids
  <2>3. outbound_transmission_id["dialer"] % 2 = 1
    BY <1>2, TypeFacts DEF OwnInv
  <2>4. QED
    BY <1>3, <2>1, <2>2, <2>3
<1>12. /\ "unknown" \notin Env
       /\ \/ \E x \in contexts[e] :
               /\ x.id = m.id
               /\ \/ x.dir = "out" /\ m.type = "REQUEST"
                  \/ x.dir = "in" /\ m.type # "REQUEST"
                  \/ x.dir = "in" /\ method[x.call].fed /\ ~client_streaming(x.call)
          \/ /\ \A x \in contexts[e] : x.id # m.id
             /\ \/ m.type = "RESPONSE"
                \/ m.type = "REQUEST" /\ e = "listener" /\ m.id % 2 = 0
                \/ m.type = "REQUEST" /\ "unknown" \in Env
  BY <1>1 DEF feed_raises, Orderly, m
<1>13. ~(m.type = "REQUEST" /\ e = "listener" /\ m.id % 2 = 0)
  BY <1>11
<1>14. QED
  BY <1>4, <1>8, <1>9, <1>10, <1>12, <1>13

LEMMA OpenStep == Orderly /\ OrderInv /\ OpenInv /\ [Next]_vars => OpenInv'
<1> SUFFICES ASSUME Orderly, OrderInv, OpenInv, [Next]_vars PROVE OpenInv'
  OBVIOUS
<1>1. call \in [Calls -> CallRecords] /\ \A e \in Ends : Peer(e) \in Ends
  BY OrderShapes
<1>2. \A e \in Ends : ~Cut(e) /\ ~PeerGone(e) /\ ~feed_raises(e)
  BY <1>1, NothingRaises DEF Cut, PeerGone, Orderly, OpenInv
<1>3. \A c \in Calls : ~Cancel(c) /\ ~ReceiveFails(c)
  BY OrderShapes DEF Cancel, ReceiveFails, Orderly, OnceInv, WakeInv
<1>4. ASSUME NEW c \in Calls, Open(c) PROVE OpenInv'
  <2>1. \E pc \in {"sending", "receiving", "done", "failed"} :
          call' = [call EXCEPT ![c].id = outbound_transmission_id[Caller(c)], ![c].pc = pc]
    BY <1>4 DEF Open
  <2>2. \A d \in Calls : call'[d].pc # "cancelled"
    BY <1>1, <2>1 DEF OpenInv, CallRecords
  <2>3. open' = open
    BY <1>4 DEF Open, ends
  <2>4. QED
    BY <2>2, <2>3 DEF OpenInv
<1>5. ASSUME NEW c \in Calls, OpenFails(c) \/ SendRequest(c) \/ SendFails(c) PROVE OpenInv'
  <2>1. CASE SendRequest(c)
    <3>1. PICK end \in BOOLEAN, n \in {0, 1} :
            call' = [call EXCEPT ![c].sent = @ + n,
                                 ![c].pc = IF end THEN "receiving" ELSE "sending"]
      BY <2>1, OrderShapes, RequestGiven
    <3>2. open' = open
      BY <2>1 DEF SendRequest, ends
    <3>3. QED
      BY <1>1, <3>1, <3>2 DEF OpenInv, CallRecords
  <2>2. CASE OpenFails(c) \/ SendFails(c)
    BY <1>1, <2>2 DEF OpenFails, SendFails, OpenInv, ends, CallRecords
  <2>3. QED
    BY <1>5, <2>1, <2>2
<1>6. ASSUME NEW c \in Calls, Receive(c) PROVE OpenInv'
  <2>1. /\ open' = open /\ call'[c].pc \in {"receiving", "done"}
        /\ \A d \in Calls \ {c} : call'[d] = call[d]
    BY <1>6, Received_ok
  <2>2. QED
    BY <2>1 DEF OpenInv
<1>7. ASSUME NEW e \in Ends, wire[e] # <<>>, feed(e, Head(wire[e])) PROVE OpenInv'
  <2>1. open' = open
    BY <1>7, FeedCases
  <2>2. LET m == Head(wire[e]) IN
        call' = call \/ call' = [call EXCEPT ![m.call].queue = @ \o Fed(m)]
    BY <1>7, FeedCases
  <2>3. \A c \in Calls : call'[c].pc = call[c].pc
    <3> DEFINE m == Head(wire[e])
    <3>1. call' = call \/ call' = [call EXCEPT ![m.call].queue = @ \o Fed(m)]
      BY <2>2
    <3> HIDE DEF m
    <3>2. QED
      BY <1>1, <3>1, SMTT(30) DEF CallRecords
  <2>4. QED
    BY <2>1, <2>3 DEF OpenInv
<1>8. ASSUME NEW e \in Ends, StartJob(e) PROVE OpenInv'
  BY <1>8 DEF StartJob, OpenInv
<1>9. ASSUME NEW c \in Calls, Method(c) \/ RaiseException(c) \/ ReadFails(c) \/ RaiseBaseEx(c) PROVE OpenInv'
  <2>1. UNCHANGED <<open, call>>
    BY <1>9 DEF Method, ReadRequest, SendResponse, Return, RaiseException, ReadFails, RaiseBaseEx,
                 ends
  <2>2. QED
    BY <2>1 DEF OpenInv
<1>10. CASE UNCHANGED vars
  BY <1>10 DEF vars, OpenInv
<1>11. QED
  BY <1>2, <1>3, <1>4, <1>5, <1>6, <1>7, <1>8, <1>9, <1>10 DEF Next, feed_messages

\* Two ends that only make calls to routed methods, neither cancel nor cut, put
\* no empty message into a stream, and whose methods return, never make each
\* other close: no message trips an assertion of feed_message() or
\* feed_messages(), for any calls of any kinds.
THEOREM ProtocolKeepsOpen == Orderly => (Spec => []StaysOpen)
<1> SUFFICES ASSUME Orderly PROVE Spec => []StaysOpen
  OBVIOUS
<1>1. Init => OrderInv /\ OpenInv
  BY OrderInit DEF Init, OpenInv
<1>2. OrderInv /\ OpenInv /\ [Next]_vars => (OrderInv /\ OpenInv)'
  BY OrderStep, OpenStep DEF Orderly, MethodsReturn
<1>3. OrderInv /\ OpenInv => StaysOpen
  BY DEF OpenInv, StaysOpen
<1>4. QED
  BY <1>1, <1>2, <1>3, PTL DEF Spec
-------------------------------------------------------------------------------
(* Whole streams arrive *)

\* No message of a stream is empty, in either direction.
NoneEmpty == "empty_request" \notin Env /\ "empty_response" \notin Env

\* How many elements of q are in S.
Places(q, S) == {i \in 1 .. Len(q) : q[i] \in S}
Count(q, S) == Cardinality(Places(q, S))

\* A count is a number, and none of what is not there.
LEMMA CountFacts ==
  ASSUME NEW T, NEW q \in Seq(T), NEW S
  PROVE  /\ IsFiniteSet(Places(q, S)) /\ Count(q, S) \in Nat
         /\ Free(q, S) => Count(q, S) = 0
         /\ q = <<>> => Count(q, S) = 0
<1>1. Len(q) \in Nat
  BY LenProperties
<1>2. IsFiniteSet(1 .. Len(q))
  BY <1>1, FS_Interval
<1>3. IsFiniteSet(Places(q, S))
  BY <1>2, FS_Subset DEF Places
<1>4. Count(q, S) \in Nat
  BY <1>3, FS_CardinalityType DEF Count
<1>5. Free(q, S) => Places(q, S) = {}
  BY DEF Free, Places
<1>6. q = <<>> => Places(q, S) = {}
  BY DEF Places
<1>7. QED
  BY <1>3, <1>4, <1>5, <1>6, FS_EmptySet DEF Count

\* Appending an element adds one to the counts it is in.
LEMMA CountAppend ==
  ASSUME NEW T, NEW q \in Seq(T), NEW m \in T, NEW S
  PROVE  Count(q \o <<m>>, S) = Count(q, S) + (IF m \in S THEN 1 ELSE 0)
<1> DEFINE v == q \o <<m>>
           n == Len(q) + 1
<1>1. /\ Len(q) \in Nat /\ Len(v) = n /\ v[n] = m
      /\ \A i \in 1 .. Len(q) : v[i] = q[i]
  BY ConcatProperties, LenProperties
<1>2. n \notin 1 .. Len(q) /\ 1 .. n = (1 .. Len(q)) \cup {n}
  BY <1>1
<1> HIDE DEF v, n
<1>3. Places(v, S) = IF m \in S THEN Places(q, S) \cup {n} ELSE Places(q, S)
  BY <1>1, <1>2 DEF Places
<1>4. n \notin Places(q, S)
  BY <1>2 DEF Places
<1>5. IsFiniteSet(Places(q, S)) /\ Count(q, S) \in Nat
  BY CountFacts
<1>6. Cardinality(Places(q, S) \cup {n}) = Cardinality(Places(q, S)) + 1
  BY <1>4, <1>5, FS_AddElement
<1>7. QED
  BY <1>3, <1>5, <1>6 DEF Count, v

\* Taking the first element takes one from the counts it is in.
LEMMA CountTail ==
  ASSUME NEW T, NEW q \in Seq(T), q # <<>>, NEW S
  PROVE  Count(q, S) = Count(Tail(q), S) + (IF Head(q) \in S THEN 1 ELSE 0)
<1> DEFINE v == Tail(q)
           A == Places(q, S) \ {1}
           B == Places(v, S)
<1>1. /\ Len(q) \in Nat /\ Len(q) >= 1 /\ Head(q) = q[1] /\ Len(v) = Len(q) - 1
      /\ \A i \in 1 .. Len(v) : v[i] = q[i + 1]
      /\ v \in Seq(T)
  BY HeadTailProperties, LenProperties, EmptySeq
<1>2. IsFiniteSet(Places(q, S)) /\ Count(q, S) \in Nat /\ IsFiniteSet(B) /\ Count(v, S) \in Nat
  BY <1>1, CountFacts
<1>3. 1 \in Places(q, S) <=> Head(q) \in S
  BY <1>1 DEF Places
<1>4. IsFiniteSet(A)
      /\ Cardinality(A) = IF Head(q) \in S THEN Cardinality(Places(q, S)) - 1
                          ELSE Cardinality(Places(q, S))
  BY <1>2, <1>3, FS_RemoveElement
<1> DEFINE f == [i \in B |-> i + 1]
<1> HIDE DEF v
<1>5. \A i \in B : i + 1 \in A /\ i \in Int
  <2>1. SUFFICES ASSUME NEW i \in B PROVE i + 1 \in A /\ i \in Int
    OBVIOUS
  <2>2. i \in 1 .. Len(v) /\ v[i] \in S
    BY DEF Places
  <2>3. i + 1 \in 1 .. Len(q) /\ i + 1 # 1 /\ i \in Int
    BY <1>1, <2>2
  <2>4. q[i + 1] \in S
    BY <1>1, <2>2
  <2>5. QED
    BY <2>3, <2>4 DEF Places
<1>6. \A j \in A : j - 1 \in B /\ (j - 1) + 1 = j
  <2>1. SUFFICES ASSUME NEW j \in A PROVE j - 1 \in B /\ (j - 1) + 1 = j
    OBVIOUS
  <2>2. j \in 1 .. Len(q) /\ q[j] \in S /\ j # 1
    BY DEF Places
  <2>3. j - 1 \in 1 .. Len(v) /\ (j - 1) + 1 = j
    BY <1>1, <2>2
  <2>4. v[j - 1] \in S
    BY <1>1, <2>2, <2>3
  <2>5. QED
    BY <2>3, <2>4 DEF Places
<1> HIDE DEF A, B
<1>7. f \in [B -> A]
  BY <1>5
<1>8. \A a, b \in B : f[a] = f[b] => a = b
  BY <1>5
<1>9. \A t \in A : \E s \in B : f[s] = t
  BY <1>6
<1> HIDE DEF f
<1>10. ExistsBijection(B, A)
  BY <1>7, <1>8, <1>9 DEF ExistsBijection, Bijection, Injection, Surjection, IsInjective
<1>11. Cardinality(A) = Cardinality(B)
  BY <1>2, <1>10, FS_Bijection DEF B
<1>12. QED
  BY <1>2, <1>4, <1>11 DEF Count, B, v

\* The items that carry a message.
Data == {x \in Items : x.what = "message"}

\* A message is fed as one item if it carries a payload.
LEMMA CountFed ==
  ASSUME NEW m \in Messages, ~m.failed, NEW q \in Seq(Items)
  PROVE  Count(q \o Fed(m), Data) = Count(q, Data) + (IF m.payload THEN 1 ELSE 0)
<1> DEFINE a == [what |-> "message", call |-> m.call]
           z == [what |-> "end", call |-> m.call]
           f == IF m.payload THEN <<a>> ELSE <<>>
           g == IF m.end THEN <<z>> ELSE <<>>
<1>1. Fed(m) = f \o g
  BY DEF Fed
<1>2. a \in Items /\ z \in Items /\ a \in Data /\ z \notin Data
  BY DEF Items, Messages, Data
<1> HIDE DEF a, z
<1>3. \A p \in Seq(Items) : p \o <<>> = p /\ Count(p, Data) \in Nat
  BY EmptySeq, ConcatProperties, CountFacts
<1>4. \A p \in Seq(Items) : /\ p \o f \in Seq(Items)
                            /\ Count(p \o f, Data) = Count(p, Data) + (IF m.payload THEN 1 ELSE 0)
  <2>1. TAKE p \in Seq(Items)
  <2>2. CASE m.payload
    <3>1. f = <<a>> /\ <<a>> \in Seq(Items)
      BY <1>2, <2>2, OneElement
    <3>2. QED
      BY <1>2, <2>2, <3>1, CountAppend, ConcatProperties
  <2>3. CASE ~m.payload
    BY <1>3, <2>3
  <2>4. QED
    BY <2>2, <2>3
<1>5. \A p \in Seq(Items) : Count(p \o g, Data) = Count(p, Data)
  <2>1. TAKE p \in Seq(Items)
  <2>2. CASE m.end
    <3>1. Count(p \o <<z>>, Data) = Count(p, Data) + 0
      BY <1>2, CountAppend
    <3>2. QED
      BY <1>3, <2>2, <3>1
  <2>3. CASE ~m.end
    BY <1>3, <2>3
  <2>4. QED
    BY <2>2, <2>3
<1>6. f \in Seq(Items) /\ g \in Seq(Items)
  BY <1>2, OneElement, EmptySeq
<1> HIDE DEF f, g
<1>7. q \o (f \o g) = (q \o f) \o g
  BY <1>6, ConcatAssociative
<1>8. QED
  <2>1. q \o f \in Seq(Items) /\ Count((q \o f) \o g, Data) = Count(q \o f, Data)
    BY <1>4, <1>5
  <2>2. QED
    BY <1>1, <1>4, <1>7, <2>1

\* Of the messages R of one direction, those that are a request or a response:
\* of a stream the ones with a payload, else each of them.
Full(R) == {m \in R : m.payload}
Due(R, streaming) == IF streaming THEN Full(R) ELSE R

\* How many of them a queue holds: where one message is due, its first item
\* stands for it, with or without content.
Held(q, streaming) == IF streaming THEN Count(q, Data) ELSE IF q = <<>> THEN 0 ELSE 1

\* Feeding a message adds one if it is due.
LEMMA HeldFed ==
  ASSUME NEW m \in Messages, ~m.failed, NEW q \in Seq(Items), NEW streaming \in BOOLEAN,
         ~streaming => q = <<>> /\ (m.payload \/ m.end)
  PROVE  Held(q \o Fed(m), streaming)
             = Held(q, streaming) + (IF m.payload \/ ~streaming THEN 1 ELSE 0)
<1>1. CASE streaming
  BY <1>1, CountFed DEF Held
<1>2. CASE ~streaming
  <2>1. Fed(m) # <<>> /\ Fed(m) \in Seq(Items)
    BY <1>2, FedNothing, FedItems
  <2>2. q = <<>> /\ q \o Fed(m) = Fed(m)
    BY <1>2, <2>1, ConcatEmptySeq
  <2>3. Held(q \o Fed(m), streaming) = 1 /\ Held(q, streaming) = 0
    BY <1>2, <2>1, <2>2 DEF Held
  <2>4. QED
    BY <1>2, <2>3
<1>3. QED
  BY <1>1, <1>2

\* A message that is due, and what a queue holds, in numbers.
LEMMA HeldFacts ==
  ASSUME NEW q \in Seq(Items), NEW streaming \in BOOLEAN
  PROVE  Held(q, streaming) \in Nat /\ Held(<<>>, streaming) = 0
<1>1. Count(q, Data) \in Nat /\ Count(<<>>, Data) = 0
  BY EmptySeq, CountFacts
<1>2. QED
  BY <1>1 DEF Held

\* The items that end a queue.
Stop == {x \in Items : x.what = "end"}

\* Taking the first item of a queue whose end is last.
LEMMA TailCounts ==
  ASSUME NEW q \in Seq(Items), q # <<>>, LastOnly(q, Data, Stop)
  PROVE  /\ Head(q) \in Items /\ Tail(q) \in Seq(Items)
         /\ Count(q, Data) \in Nat /\ Count(Tail(q), Data) \in Nat
         /\ Count(q, Data) = Count(Tail(q), Data) + (IF Head(q).what = "message" THEN 1 ELSE 0)
         /\ LastOnly(Tail(q), Data, Stop)
         /\ Head(q).what = "end" => Count(Tail(q), Data) = 0
<1>1. Head(q) \in Items /\ Tail(q) \in Seq(Items)
  BY HeadTailProperties
<1>2. /\ Head(q) \in Data <=> Head(q).what = "message"
      /\ Head(q) \in Stop <=> Head(q).what = "end"
  BY <1>1 DEF Data, Stop
<1>3. Count(q, Data) = Count(Tail(q), Data) + (IF Head(q) \in Data THEN 1 ELSE 0)
  BY CountTail
<1>4. /\ LastOnly(Tail(q), Data, Stop)
      /\ Head(q) \in Stop => Free(Tail(q), Data)
  BY TailOrder DEF Calmer
<1>5. Count(q, Data) \in Nat /\ Count(Tail(q), Data) \in Nat
      /\ (Free(Tail(q), Data) => Count(Tail(q), Data) = 0)
  BY <1>1, CountFacts
<1>6. QED
  BY <1>1, <1>2, <1>3, <1>4, <1>5

\* A queue without end stays in order when it is fed.
LEMMA FedStops ==
  ASSUME NEW m \in Messages, ~m.failed, NEW q \in Seq(Items), LastOnly(q, Data, Stop), ~HasEnd(q)
  PROVE  LastOnly(q \o Fed(m), Data, Stop)
<1> DEFINE a == [what |-> "message", call |-> m.call]
           z == [what |-> "end", call |-> m.call]
           f == IF m.payload THEN <<a>> ELSE <<>>
           g == IF m.end THEN <<z>> ELSE <<>>
<1>1. Fed(m) = f \o g
  BY DEF Fed
<1>2. a \in Items /\ z \in Items /\ z \notin Data
  BY DEF Items, Messages, Data
<1>3. Free(q, Stop)
  BY DEF Free, Stop, HasEnd
<1> HIDE DEF a, z
<1>4. \A p \in Seq(Items) : p \o <<>> = p
  BY EmptySeq, ConcatProperties
<1>5. q \o f \in Seq(Items) /\ LastOnly(q \o f, Data, Stop)
  <2>1. CASE m.payload
    <3>1. f = <<a>> /\ <<a>> \in Seq(Items)
      BY <1>2, <2>1, OneElement
    <3>2. QED
      BY <1>2, <1>3, <3>1, AppendOrder, ConcatProperties
  <2>2. CASE ~m.payload
    BY <1>4, <2>2
  <2>3. QED
    BY <2>1, <2>2
<1>6. f \in Seq(Items) /\ g \in Seq(Items)
  BY <1>2, OneElement, EmptySeq
<1> HIDE DEF f
<1>7. LastOnly((q \o f) \o g, Data, Stop)
  <2>1. CASE m.end
    <3>1. LastOnly((q \o f) \o <<z>>, Data, Stop)
      BY <1>2, <1>5, AppendOrder
    <3>2. QED
      BY <2>1, <3>1
  <2>2. CASE ~m.end
    BY <1>4, <1>5, <2>2
  <2>3. QED
    BY <2>1, <2>2
<1> HIDE DEF g
<1>8. q \o (f \o g) = (q \o f) \o g
  BY <1>6, ConcatAssociative
<1>9. QED
  BY <1>1, <1>7, <1>8

\* To a call whose messages are R, the wire v carries what w carries.
Quiet(w, v, R) ==
    /\ \A streaming \in BOOLEAN : Count(v, Due(R, streaming)) = Count(w, Due(R, streaming))
    /\ Free(w, Failed(R)) => Free(v, Failed(R))

LEMMA QuietSame == ASSUME NEW w, NEW R PROVE Quiet(w, w, R)
  BY DEF Quiet

\* Appending, or taking, what is none of them.
LEMMA QuietAppend ==
  ASSUME NEW w \in Seq(Messages), NEW m \in Messages, NEW R, m \notin R
  PROVE  Quiet(w, w \o <<m>>, R)
<1>1. m \notin Failed(R) /\ \A s \in BOOLEAN : m \notin Due(R, s)
  BY DEF Due, Full, Failed
<1>2. \A S : m \notin S => Count(w \o <<m>>, S) = Count(w, S) + 0 /\ Count(w, S) \in Nat
  BY CountAppend, CountFacts
<1>3. \A S : m \notin S => Count(w \o <<m>>, S) = Count(w, S)
  BY <1>2
<1>4. Free(w, Failed(R)) => Free(w \o <<m>>, Failed(R))
  BY <1>1, AppendOrder
<1>5. QED
  BY <1>1, <1>3, <1>4 DEF Quiet

LEMMA QuietTail ==
  ASSUME NEW w \in Seq(Messages), w # <<>>, NEW R, Head(w) \notin R
  PROVE  Quiet(w, Tail(w), R)
<1>1. Tail(w) \in Seq(Messages) /\ \A s \in BOOLEAN : Head(w) \notin Due(R, s)
  BY HeadTailProperties DEF Due, Full
<1>2. \A S : Head(w) \notin S => Count(w, S) = Count(Tail(w), S) + 0 /\ Count(Tail(w), S) \in Nat
  BY <1>1, CountTail, CountFacts
<1>3. \A S : Head(w) \notin S => Count(w, S) = Count(Tail(w), S)
  BY <1>2
<1>4. Free(w, Failed(R)) => Free(Tail(w), Failed(R))
  BY TailOrder DEF Calmer
<1>5. QED
  BY <1>1, <1>3, <1>4 DEF Quiet

\* The requests on their way to the method and the responses on theirs to the
\* caller; what of either has come, or is on its way.
Asked(c) == Count(wire[Callee(c)], Due(Requests(c), client_streaming(c)))
Given(c) == Count(wire[Caller(c)], Due(Responses(c), server_streaming(c)))
Unread(c) == IF method[c].read THEN 0 ELSE Held(method[c].queue, client_streaming(c))
Arrived(c) == Asked(c) + Unread(c) + method[c].got
Answered(c) == Given(c) + Held(call[c].queue, server_streaming(c)) + call[c].received

\* No more requests arrive than were sent, and while the called end is open, no
\* less; the method stops reading when it has read the last.
RequestsAt(c) ==
    LET q == method[c].queue IN
    /\ Arrived(c) <= SentCount(c)
    /\ open[Callee(c)] => Arrived(c) = SentCount(c)
    /\ Free(wire[Callee(c)], Failed(Requests(c)))
    /\ LastOnly(q, Data, Stop)
    /\ method[c].pc = "none" => method[c].got = 0
    /\ method[c].pc \in {"none", "ended"} => q = <<>>

\* Nor more responses than were sent, and no less while the calling end is open
\* or once the last has come.
Told(c) ==
    LET q == call[c].queue IN
    /\ Answered(c) <= method[c].responded
    /\ open[Caller(c)] \/ AnswerRead(c) => Answered(c) = method[c].responded
    /\ LastOnly(q, Data, Stop)
    /\ call[c].pc = "done" => q = <<>>

ResponsesAt(c) ==
    /\ call[c].pc # "cancelled" => Told(c)
    /\ method[c].pc = "none" => method[c].responded = 0
    /\ ~server_streaming(c) => method[c].responded <= 1

StreamInv == OrderInv /\ \A c \in Calls : RequestsAt(c) /\ ResponsesAt(c)

\* What a step may use of the state.
LEMMA StreamShapes ==
  ASSUME StreamInv
  PROVE  /\ OrderInv
         /\ open \in [Ends -> BOOLEAN] /\ wire \in [Ends -> Seq(Messages)]
         /\ call \in [Calls -> CallRecords] /\ method \in [Calls -> MethodRecords]
         /\ \A e \in Ends : Peer(e) \in Ends /\ Peer(e) # e
         /\ \A c \in Calls : /\ RequestsAt(c) /\ ResponsesAt(c) /\ AnswerAt(c) /\ OnceAt(c)
                             /\ Caller(c) \in Ends /\ Callee(c) \in Ends /\ Callee(c) # Caller(c)
                             /\ Peer(Caller(c)) = Callee(c) /\ Peer(Callee(c)) = Caller(c)
  BY OrderShapes DEF StreamInv

\* The numbers in a call's counts.
LEMMA Numbers ==
  ASSUME StreamInv, NEW c \in Calls
  PROVE  /\ call[c].queue \in Seq(Items) /\ method[c].queue \in Seq(Items)
         /\ client_streaming(c) \in BOOLEAN /\ server_streaming(c) \in BOOLEAN
         /\ Held(call[c].queue, server_streaming(c)) \in Nat /\ Unread(c) \in Nat
         /\ Asked(c) \in Nat /\ Given(c) \in Nat
         /\ method[c].got \in Nat /\ method[c].responded \in Nat /\ call[c].received \in Nat
         /\ call[c].sent \in Nat /\ SentCount(c) \in Nat
         /\ Arrived(c) \in Nat /\ Answered(c) \in Nat
         /\ \A e \in Ends : \A S : Count(wire[e], S) \in Nat
<1>1. /\ call[c] \in CallRecords /\ method[c] \in MethodRecords
      /\ Caller(c) \in Ends /\ Callee(c) \in Ends
      /\ \A e \in Ends : wire[e] \in Seq(Messages)
  BY StreamShapes
<1>2. /\ call[c].queue \in Seq(Items) /\ method[c].queue \in Seq(Items)
      /\ method[c].got \in Nat /\ method[c].responded \in Nat /\ call[c].received \in Nat
      /\ call[c].sent \in Nat
  BY <1>1, RpcAssumption DEF CallRecords, MethodRecords
<1>3. client_streaming(c) \in BOOLEAN /\ server_streaming(c) \in BOOLEAN
  BY DEF client_streaming, server_streaming
<1>4. \A e \in Ends : \A S : Count(wire[e], S) \in Nat
  BY <1>1, CountFacts
<1>5. /\ Held(call[c].queue, server_streaming(c)) \in Nat
      /\ Held(method[c].queue, client_streaming(c)) \in Nat
  BY <1>2, <1>3, HeldFacts
<1>6. Asked(c) \in Nat /\ Given(c) \in Nat /\ Unread(c) \in Nat
  BY <1>1, <1>4, <1>5 DEF Asked, Given, Unread
<1>7. Arrived(c) \in Nat /\ Answered(c) \in Nat
  <2>1. \A i, j, k \in Nat : i + j + k \in Nat
    OBVIOUS
  <2>2. Arrived(c) \in Nat
    BY <1>2, <1>6, <2>1, Zenon DEF Arrived
  <2>3. Answered(c) \in Nat
    BY <1>2, <1>5, <1>6, <2>1, Zenon DEF Answered
  <2>4. QED
    BY <2>2, <2>3
<1>8. QED
  BY <1>2, <1>3, <1>4, <1>5, <1>6, <1>7 DEF SentCount

\* A step that neither sends, takes nor reads a request of the call.
LEMMA RequestsSame ==
  ASSUME NEW c \in Calls, RequestsAt(c), call'[c].kind = call[c].kind,
         SentCount(c)' = SentCount(c), open'[Callee(c)] => open[Callee(c)],
         method'[c].queue = method[c].queue, method'[c].read = method[c].read,
         method'[c].got = method[c].got,
         method'[c].pc = "none" => method[c].pc = "none",
         method'[c].pc = "ended" => method[c].pc = "ended",
         Quiet(wire[Callee(c)], wire'[Callee(c)], Requests(c))
  PROVE  RequestsAt(c)'
<1>1. client_streaming(c)' = client_streaming(c)
  BY DEF client_streaming
<1>2. Arrived(c)' = Arrived(c)
  <2>1. client_streaming(c) \in BOOLEAN
    BY DEF client_streaming
  <2>2. Asked(c)' = Asked(c)
    BY <1>1, <2>1 DEF Asked, Quiet
  <2>3. Unread(c)' = Unread(c)
    BY <1>1 DEF Unread
  <2>4. QED
    BY <2>2, <2>3 DEF Arrived
<1> HIDE DEF client_streaming
<1>3. QED
  BY <1>1, <1>2 DEF RequestsAt, Quiet

\* A step that neither sends, takes nor receives a response of the call.
LEMMA ResponsesSame ==
  ASSUME NEW c \in Calls, ResponsesAt(c), call'[c].kind = call[c].kind,
         method'[c].responded = method[c].responded,
         method'[c].pc = "none" => method[c].pc = "none",
         call'[c].pc # "cancelled" =>
            /\ call[c].pc # "cancelled"
            /\ call'[c].queue = call[c].queue /\ call'[c].received = call[c].received
            /\ open'[Caller(c)] => open[Caller(c)]
            /\ AnswerRead(c)' => AnswerRead(c)
            /\ call'[c].pc = "done" => call[c].queue = <<>>,
         Quiet(wire[Caller(c)], wire'[Caller(c)], Responses(c))
  PROVE  ResponsesAt(c)'
<1>1. server_streaming(c)' = server_streaming(c)
  BY DEF server_streaming
<1> HIDE DEF server_streaming
<1>2. CASE call'[c].pc = "cancelled"
  BY <1>1, <1>2 DEF ResponsesAt
<1>3. CASE call'[c].pc # "cancelled"
  <2>1. Answered(c)' = Answered(c)
    <3>1. server_streaming(c) \in BOOLEAN
      BY DEF server_streaming
    <3>2. Given(c)' = Given(c)
      BY <1>1, <3>1 DEF Given, Quiet
    <3>3. QED
      BY <1>1, <1>3, <3>2 DEF Answered
  <2>2. Told(c)
    BY <1>3 DEF ResponsesAt
  <2>3. Told(c)'
    BY <1>1, <1>3, <2>1, <2>2 DEF Told, Quiet
  <2>4. QED
    BY <1>1, <1>3, <2>3 DEF ResponsesAt
<1>4. QED
  BY <1>2, <1>3

\* A step that leaves both sides of the call alone.
LEMMA StreamSame ==
  ASSUME StreamInv, NEW c \in Calls, open' = open, call'[c] = call[c], method'[c] = method[c],
         Quiet(wire[Callee(c)], wire'[Callee(c)], Requests(c)),
         Quiet(wire[Caller(c)], wire'[Caller(c)], Responses(c))
  PROVE  RequestsAt(c)' /\ ResponsesAt(c)'
<1>1. RequestsAt(c) /\ ResponsesAt(c)
  BY StreamShapes
<1>2. SentCount(c)' = SentCount(c) /\ AnswerRead(c)' = AnswerRead(c)
  BY DEF SentCount, client_streaming, AnswerRead, server_streaming
<1>3. call[c].pc # "cancelled" /\ call[c].pc = "done" => call[c].queue = <<>>
  BY <1>1 DEF ResponsesAt, Told
<1>4. QED
  BY <1>1, <1>2, <1>3, RequestsSame, ResponsesSame

\* Sending what is none of a call's messages.
LEMMA QuietSent ==
  ASSUME StreamInv, NEW e \in Ends, NEW m \in Messages, NEW messages \in {<<>>, <<m>>},
         wire' = wire \/ Deliver(e, messages), NEW R, m \notin R, NEW f \in Ends
  PROVE  Quiet(wire[f], wire'[f], R)
<1>1. wire[f] \in Seq(Messages) /\ wire \in [Ends -> Seq(Messages)]
  BY StreamShapes
<1>2. wire'[f] = wire[f] \/ wire'[f] = wire[f] \o messages
  BY <1>1 DEF Deliver
<1>3. wire[f] \o <<>> = wire[f]
  BY <1>1, EmptySeq, ConcatProperties
<1>4. wire'[f] = wire[f] \/ wire'[f] = wire[f] \o <<m>>
  BY <1>2, <1>3
<1>5. QED
  BY <1>1, <1>4, QuietSame, QuietAppend

\* The caller sends a request, which is lost if the other end is closed.
LEMMA RequestSent ==
  ASSUME StreamInv, NEW c \in Calls, NEW m \in Requests(c), ~m.failed,
         Deliver(Caller(c), <<m>>), open' = open,
         call'[c].kind = call[c].kind, method'[c] = method[c],
         SentCount(c)' = SentCount(c) + (IF m.payload \/ ~client_streaming(c) THEN 1 ELSE 0)
  PROVE  RequestsAt(c)'
<1> DEFINE w == wire[Callee(c)]
           v == wire'[Callee(c)]
           R == Requests(c)
           D == Due(R, client_streaming(c))
           one == IF m.payload \/ ~client_streaming(c) THEN 1 ELSE 0
           k == Unread(c) + method[c].got
<1>1. /\ RequestsAt(c) /\ Callee(c) \in Ends /\ Peer(Caller(c)) = Callee(c)
      /\ wire \in [Ends -> Seq(Messages)] /\ w \in Seq(Messages) /\ m \in Messages
  BY StreamShapes DEF Requests
<1>2. Asked(c) \in Nat /\ k \in Nat /\ SentCount(c) \in Nat
  <2>1. /\ Asked(c) \in Nat /\ SentCount(c) \in Nat
        /\ Unread(c) \in Nat /\ method[c].got \in Nat
    BY Numbers
  <2>2. QED
    BY <2>1
<1>3. client_streaming(c)' = client_streaming(c)
  BY DEF client_streaming
<1>4. v = IF open[Callee(c)] THEN w \o <<m>> ELSE w
  BY <1>1 DEF Deliver
<1>5. m \notin Failed(R) /\ (m \in D <=> m.payload \/ ~client_streaming(c))
  BY DEF Full, Due, Failed
<1>6. /\ Count(w \o <<m>>, D) = Count(w, D) + one
      /\ Free(w, Failed(R)) => Free(w \o <<m>>, Failed(R))
  <2> HIDE DEF w, R, D
  <2>1. \A S : Count(w \o <<m>>, S) = Count(w, S) + (IF m \in S THEN 1 ELSE 0)
    BY <1>1, CountAppend
  <2>2. \A S : Free(w, S) /\ m \notin S => Free(w \o <<m>>, S)
    BY <1>1, AppendOrder
  <2>3. QED
    BY <1>5, <2>1, <2>2
<1>7. /\ Asked(c) = Count(w, D) /\ Asked(c)' = Count(v, D) /\ Unread(c)' = Unread(c)
  BY <1>3 DEF Asked, Unread
<1>8. /\ Arrived(c) <= SentCount(c)
      /\ open[Callee(c)] => Arrived(c) = SentCount(c)
      /\ Free(w, Failed(R))
  BY <1>1 DEF RequestsAt
<1>9. /\ Arrived(c) = Asked(c) + k
      /\ Arrived(c)' = Asked(c)' + k
  <2>1. Unread(c) \in Nat /\ method[c].got \in Nat /\ Asked(c) \in Nat
    BY Numbers
  <2>2. Asked(c)' \in Nat
    <3> HIDE DEF w, D
    <3>1. QED
      BY <1>2, <1>4, <1>6, <1>7
  <2>3. QED
    BY <1>7, <2>1, <2>2 DEF Arrived
<1> HIDE DEF k, w, R, v, D
<1>10. /\ Arrived(c)' <= SentCount(c)'
       /\ open'[Callee(c)] => Arrived(c)' = SentCount(c)'
  <2>1. one \in {0, 1} /\ SentCount(c)' = SentCount(c) + one
    OBVIOUS
  <2> HIDE DEF one
  <2>2. CASE open[Callee(c)]
    <3>1. Arrived(c)' = (Asked(c) + one) + k
      BY <1>4, <1>6, <1>7, <1>9, <2>2
    <3>2. Arrived(c)' = SentCount(c)'
      BY <1>2, <1>8, <1>9, <2>1, <2>2, <3>1
    <3>3. QED
      BY <1>2, <2>1, <3>2
  <2>3. CASE ~open[Callee(c)]
    <3>1. Arrived(c)' = Arrived(c)
      BY <1>4, <1>7, <1>9, <2>3
    <3>2. Arrived(c) \in Nat
      BY Numbers
    <3>3. QED
      BY <1>2, <1>8, <2>1, <2>3, <3>1, <3>2
  <2>4. QED
    BY <2>2, <2>3
<1>11. Free(v, Failed(R))
  BY <1>4, <1>6, <1>8
<1>12. QED
  BY <1>1, <1>3, <1>10, <1>11 DEF RequestsAt, R, v

LEMMA OpenStream ==
  ASSUME StreamInv, NEW c \in Calls, Open(c), NEW d \in Calls
  PROVE  RequestsAt(d)' /\ ResponsesAt(d)'
<1> DEFINE e == Caller(c)
           id == outbound_transmission_id[e]
<1>1. /\ e \in Ends /\ id \in Nat /\ call \in [Calls -> CallRecords]
      /\ UNCHANGED <<open, method>> /\ call[c].pc = "new"
      /\ AnswerAt(c) /\ RequestsAt(c) /\ ResponsesAt(c)
      /\ Callee(d) \in Ends /\ Caller(d) \in Ends
  BY StreamShapes, OrderShapes, TypeFacts DEF Open, ends
<1>2. PICK pc \in {"sending", "receiving", "done", "failed"}, payload \in BOOLEAN :
        /\ call' = [call EXCEPT ![c].id = id, ![c].pc = pc]
        /\ pc = "done" => call[c].kind = "void"
        /\ \/ client_streaming(c) /\ wire' = wire
           \/ ~client_streaming(c) /\ pc # "failed"
              /\ Deliver(e, <<Message(id, c, "REQUEST", TRUE, FALSE, payload)>>)
           \/ ~client_streaming(c) /\ pc = "failed" /\ wire' = wire
  BY DEF Open
<1> DEFINE m == Message(id, c, "REQUEST", TRUE, FALSE, payload)
<1>3. /\ m \in Messages /\ m \in Requests(c) /\ ~m.failed
      /\ \A f \in Calls : m \notin Responses(f)
      /\ \A f \in Calls \ {c} : m \notin Requests(f)
  BY <1>1 DEF Message, Messages, Requests, Responses
<1>4. /\ call'[c].kind = call[c].kind /\ call'[c].queue = call[c].queue
      /\ call'[c].sent = call[c].sent /\ call'[c].received = call[c].received
      /\ call'[c].pc = pc
      /\ \A f \in Calls \ {c} : call'[f] = call[f]
  BY <1>1, <1>2 DEF CallRecords
<1> HIDE DEF m, id
<1>5. wire' = wire \/ Deliver(e, <<m>>)
  BY <1>2 DEF m
<1>6. /\ Quiet(wire[Caller(d)], wire'[Caller(d)], Responses(d))
      /\ d # c => Quiet(wire[Callee(d)], wire'[Callee(d)], Requests(d))
  BY <1>1, <1>3, <1>5, QuietSent
<1>7. CASE d # c
  BY <1>1, <1>4, <1>6, <1>7, StreamSame
<1>8. CASE d = c
  <2>1. ResponsesAt(c)'
    <3>1. call[c].kind = "void" => call[c].queue = <<>>
      BY <1>1 DEF AnswerAt, Whole
    <3>2. AnswerRead(c)' => AnswerRead(c)
      BY <1>2, <1>4 DEF AnswerRead, server_streaming
    <3>3. QED
      BY <1>1, <1>2, <1>4, <1>6, <1>8, <3>1, <3>2, ResponsesSame
  <2>2. client_streaming(c)' = client_streaming(c)
    BY <1>4 DEF client_streaming
  <2>3. CASE wire' = wire /\ (client_streaming(c) \/ pc = "failed")
    <3>1. SentCount(c)' = SentCount(c)
      BY <1>1, <1>4, <2>2, <2>3 DEF SentCount
    <3>2. QED
      BY <1>1, <1>4, <1>8, <2>1, <2>3, <3>1, QuietSame, RequestsSame
  <2>4. CASE ~client_streaming(c) /\ pc # "failed" /\ Deliver(e, <<m>>)
    <3>1. SentCount(c)' = SentCount(c) + 1
      BY <1>1, <1>4, <2>2, <2>4 DEF SentCount
    <3>2. QED
      BY <1>1, <1>3, <1>4, <1>8, <2>1, <2>4, <3>1, RequestSent
  <2>5. QED
    BY <1>2, <2>3, <2>4 DEF m
<1>9. QED
  BY <1>7, <1>8

\* The requests of a stream, and the message that ends it.
LEMMA SendStream ==
  ASSUME StreamInv, NoneEmpty, NEW c \in Calls, OpenFails(c) \/ SendRequest(c) \/ SendFails(c),
         NEW d \in Calls
  PROVE  RequestsAt(d)' /\ ResponsesAt(d)'
<1> DEFINE e == Caller(c)
<1>1. /\ TypeOK /\ e \in Ends /\ call \in [Calls -> CallRecords] /\ call[c] \in CallRecords
      /\ UNCHANGED <<open, method>> /\ RequestsAt(c) /\ ResponsesAt(c) /\ OnceAt(c)
      /\ Callee(d) \in Ends /\ Caller(d) \in Ends
  BY StreamShapes, OrderShapes DEF OpenFails, SendRequest, SendFails, ends
<1>2. PICK end, payload \in BOOLEAN :
        \/ /\ wire' = wire /\ call[c].pc \in {"new", "sending"}
           /\ call' = [call EXCEPT ![c].pc = "failed"]
        \/ /\ Deliver(e, <<Message(call[c].id, c, "REQUEST", end, FALSE, payload)>>)
           /\ call[c].pc = "sending"
           /\ call' = [call EXCEPT ![c].sent = @ + (IF payload THEN 1 ELSE 0),
                                   ![c].pc = IF end THEN "receiving" ELSE "sending"]
  <2>1. CASE OpenFails(c) \/ SendFails(c)
    BY <2>1 DEF OpenFails, SendFails
  <2>2. CASE SendRequest(c)
    <3>1. PICK end \in BOOLEAN, payload \in BOOLEAN, n \in {0, 1} :
            /\ n = 0 => end /\ ~payload
            /\ n = 1 /\ ~payload => "empty_request" \in Env
            /\ call' = [call EXCEPT ![c].sent = @ + n,
                                    ![c].pc = IF end THEN "receiving" ELSE "sending"]
            /\ Deliver(e, <<Message(call[c].id, c, "REQUEST", end, FALSE, payload)>>)
      BY <1>1, <2>2, RequestGiven
    <3>2. n = IF payload THEN 1 ELSE 0
      BY <3>1 DEF NoneEmpty
    <3>3. call[c].pc = "sending"
      BY <2>2 DEF SendRequest
    <3>4. QED
      BY <3>1, <3>2, <3>3
  <2>3. QED
    BY <2>1, <2>2
<1> DEFINE m == Message(call[c].id, c, "REQUEST", end, FALSE, payload)
<1>3. m \in Messages
  BY <1>1, MessageTypes
<1>4. /\ m \in Requests(c) /\ ~m.failed /\ m.payload = payload
      /\ \A f \in Calls : m \notin Responses(f)
      /\ \A f \in Calls \ {c} : m \notin Requests(f)
  BY <1>3 DEF Message, Requests, Responses
<1>5. /\ call'[c].kind = call[c].kind /\ call'[c].queue = call[c].queue
      /\ call'[c].received = call[c].received
      /\ call'[c].pc \in {"failed", "sending", "receiving"}
      /\ \A f \in Calls \ {c} : call'[f] = call[f]
  BY <1>1, <1>2 DEF CallRecords
<1>6. wire' = wire \/ Deliver(e, <<m>>)
  BY <1>2
<1>7. \/ wire' = wire /\ call'[c].sent = call[c].sent /\ call'[c].pc = "failed"
      \/ /\ Deliver(e, <<m>>) /\ call[c].pc = "sending"
         /\ call'[c].sent = call[c].sent + (IF payload THEN 1 ELSE 0)
  <2>1. call[c].sent \in Nat
    BY Numbers
  <2>2. QED
    BY <1>1, <1>2, <2>1 DEF CallRecords
<1> HIDE DEF m
<1>8. /\ Quiet(wire[Caller(d)], wire'[Caller(d)], Responses(d))
      /\ d # c => Quiet(wire[Callee(d)], wire'[Callee(d)], Requests(d))
  BY <1>1, <1>3, <1>4, <1>6, QuietSent
<1>9. CASE d # c
  BY <1>1, <1>5, <1>8, <1>9, StreamSame
<1>10. CASE d = c
  <2>1. call[c].pc \in {"new", "sending"}
    BY <1>2
  <2>2. ResponsesAt(c)'
    <3>1. AnswerRead(c)' => AnswerRead(c)
      BY <1>5 DEF AnswerRead, server_streaming
    <3>2. QED
      BY <1>1, <1>5, <1>8, <1>10, <2>1, <3>1, ResponsesSame
  <2>3. /\ client_streaming(c)' = client_streaming(c)
        /\ call[c].pc = "sending" => client_streaming(c)
    BY <1>1, <1>5 DEF client_streaming, OnceAt
  <2>4. CASE wire' = wire /\ call'[c].sent = call[c].sent /\ call'[c].pc = "failed"
    <3>1. SentCount(c)' = SentCount(c)
      BY <2>1, <2>3, <2>4 DEF SentCount
    <3>2. QED
      BY <1>1, <1>5, <1>10, <2>2, <2>4, <3>1, QuietSame, RequestsSame
  <2>5. CASE /\ Deliver(e, <<m>>) /\ call[c].pc = "sending"
             /\ call'[c].sent = call[c].sent + (IF payload THEN 1 ELSE 0)
    <3>1. SentCount(c)' = SentCount(c) + (IF m.payload \/ ~client_streaming(c) THEN 1 ELSE 0)
      BY <1>4, <2>3, <2>5 DEF SentCount
    <3>2. QED
      BY <1>1, <1>4, <1>5, <1>10, <2>2, <2>5, <3>1, RequestSent
  <2>6. QED
    BY <1>7, <2>4, <2>5
<1>11. QED
  BY <1>9, <1>10

LEMMA ReceiveStream ==
  ASSUME StreamInv, NEW c \in Calls, Receive(c), NEW d \in Calls
  PROVE  RequestsAt(d)' /\ ResponsesAt(d)'
<1> DEFINE q == call[c].queue
           more == Head(q).what = "message" /\ server_streaming(c)
           one == IF Head(q).what = "message" \/ ~server_streaming(c) THEN 1 ELSE 0
<1>1. /\ OrderInv /\ AnswerAt(c) /\ RequestsAt(c) /\ ResponsesAt(c)
      /\ Callee(c) \in Ends /\ Caller(c) \in Ends
  BY StreamShapes
<1>2. /\ q \in Seq(Items) /\ q # <<>>
      /\ call[c].pc = "receiving" /\ call[c].kind # "void"
      /\ Head(q).what \in {"message", "end"}
      /\ call'[c].kind = call[c].kind /\ call'[c].sent = call[c].sent
      /\ call'[c].received = IF Head(q).what = "message" \/ ~server_streaming(c)
                             THEN call[c].received + 1 ELSE call[c].received
      /\ call'[c].queue = (IF more THEN Tail(q) ELSE <<>>)
      /\ call'[c].pc = (IF more THEN "receiving" ELSE "done")
      /\ \A f \in Calls \ {c} : call'[f] = call[f]
      /\ UNCHANGED <<open, wire, jobs, method>>
  BY <1>1, Received_ok
<1>3. CASE d # c
  BY <1>2, <1>3, QuietSame, StreamSame
<1>4. CASE d = c
  <2> DEFINE k == Given(c)
             s == server_streaming(c)
  <2>1. RequestsAt(c)'
    <3>1. SentCount(c)' = SentCount(c)
      BY <1>2 DEF SentCount, client_streaming
    <3>2. QED
      BY <1>1, <1>2, <3>1, QuietSame, RequestsSame
  <2>2. /\ Answered(c) <= method[c].responded
        /\ open[Caller(c)] \/ AnswerRead(c) => Answered(c) = method[c].responded
        /\ LastOnly(q, Data, Stop)
        /\ ~server_streaming(c) => method[c].responded <= 1
        /\ method[c].pc = "none" => method[c].responded = 0
    BY <1>1, <1>2 DEF ResponsesAt, Told
  <2>3. /\ LastOnly(Tail(q), Data, Stop)
        /\ Held(q, s) = Held(call'[c].queue, s) + one
        /\ Held(call'[c].queue, s) \in Nat
    <3>1. /\ Count(q, Data) = Count(Tail(q), Data) + (IF Head(q).what = "message" THEN 1 ELSE 0)
          /\ LastOnly(Tail(q), Data, Stop) /\ Tail(q) \in Seq(Items)
          /\ Count(q, Data) \in Nat /\ Count(Tail(q), Data) \in Nat
          /\ (Head(q).what = "end" => Count(Tail(q), Data) = 0)
      BY <1>2, <2>2, TailCounts
    <3>2. Count(<<>>, Data) = 0
      BY EmptySeq, CountFacts
    <3> HIDE DEF q
    <3>3. CASE s
      BY <1>2, <3>1, <3>2, <3>3 DEF Held
    <3>4. CASE ~s
      BY <1>2, <3>1, <3>4 DEF Held
    <3>5. QED
      BY <3>1, <3>3, <3>4
  <2>4. k \in Nat /\ method[c].responded \in Nat /\ call[c].received \in Nat
    BY <1>1, Numbers
  <2>5. HasEnd(q) <=> Head(q).what = "end" \/ HasEnd(Tail(q))
    BY <1>2, TailItems
  <2>6. server_streaming(c)' = server_streaming(c)
    BY <1>2 DEF server_streaming
  <2>7. LastOnly(<<>>, Data, Stop)
    BY EmptyOrder
  <2>8. /\ Answered(c) = k + Held(q, s) + call[c].received
        /\ Answered(c)' = k + Held(call'[c].queue, s) + call'[c].received
    BY <1>2, <2>6 DEF Answered, Given
  <2>9. ~more => AnswerRead(c)
    BY <1>2, <2>5 DEF AnswerRead
  <2>10. more /\ AnswerRead(c)' => AnswerRead(c)
    BY <1>2, <2>5 DEF AnswerRead, server_streaming
  <2> HIDE DEF k, q, s
  <2>11. one \in {0, 1} /\ call'[c].received = call[c].received + one
    BY <1>2, <2>4
  <2>12. Answered(c)' = Answered(c)
    <3> HIDE DEF one
    <3>1. QED
      BY <2>3, <2>4, <2>8, <2>11
  <2>13. Told(c)'
    <3>1. /\ Answered(c)' <= method'[c].responded
          /\ open'[Caller(c)] \/ AnswerRead(c)' => Answered(c)' = method'[c].responded
      BY <1>2, <2>2, <2>9, <2>10, <2>12
    <3>2. /\ LastOnly(call'[c].queue, Data, Stop)
          /\ call'[c].pc = "done" => call'[c].queue = <<>>
      BY <1>2, <2>3, <2>7
    <3>3. QED
      BY <1>2, <2>2, <2>6, <3>1, <3>2 DEF Told
  <2>14. ResponsesAt(c)'
    BY <1>2, <2>2, <2>6, <2>13 DEF ResponsesAt
  <2>15. QED
    BY <1>4, <2>1, <2>14
<1>5. QED
  BY <1>3, <1>4

\* A caller that leaves has sent what it has sent.
LEMMA CancelStream ==
  ASSUME StreamInv, NEW c \in Calls, Cancel(c) \/ ReceiveFails(c), NEW d \in Calls
  PROVE  RequestsAt(d)' /\ ResponsesAt(d)'
<1>1. /\ TypeOK /\ Caller(c) \in Ends /\ call \in [Calls -> CallRecords]
      /\ UNCHANGED <<open, method>> /\ RequestsAt(c) /\ ResponsesAt(c)
      /\ Callee(d) \in Ends /\ Caller(d) \in Ends
  BY StreamShapes, OrderShapes DEF Cancel, ReceiveFails, leave, ends
<1>2. /\ call'[c].kind = call[c].kind /\ call'[c].pc = "cancelled"
      /\ call'[c].sent = call[c].sent /\ call[c].pc \in {"sending", "receiving"}
      /\ \A f \in Calls \ {c} : call'[f] = call[f]
  BY <1>1 DEF Cancel, ReceiveFails, leave, CallRecords
<1>3. PICK messages \in {<<>>, <<shutdown(c)>>} :
        wire' = wire \/ Deliver(Caller(c), messages)
  BY DEF Cancel, ReceiveFails, leave, close_out
<1>4. /\ shutdown(c) \in Messages /\ \A f \in Calls : shutdown(c) \notin Requests(f)
      /\ d # c => shutdown(c) \notin Responses(d)
  BY <1>1, MessageTypes DEF shutdown, Message, Requests, Responses
<1>5. /\ Quiet(wire[Callee(d)], wire'[Callee(d)], Requests(d))
      /\ d # c => Quiet(wire[Caller(d)], wire'[Caller(d)], Responses(d))
  <2> DEFINE m == shutdown(c)
  <2>1. m \in Messages /\ m \notin Requests(d) /\ (d # c => m \notin Responses(d))
    BY <1>4
  <2>2. messages \in {<<>>, <<m>>}
    OBVIOUS
  <2> HIDE DEF m
  <2>3. QED
    BY <1>1, <1>3, <2>1, <2>2, QuietSent
<1>6. CASE d # c
  BY <1>1, <1>2, <1>5, <1>6, StreamSame
<1>7. CASE d = c
  <2>1. SentCount(c)' = SentCount(c) /\ server_streaming(c)' = server_streaming(c)
    BY <1>2 DEF SentCount, client_streaming, server_streaming
  <2>2. RequestsAt(c)'
    BY <1>1, <1>2, <1>5, <1>7, <2>1, RequestsSame
  <2>3. ResponsesAt(c)'
    BY <1>1, <1>2, <2>1 DEF ResponsesAt
  <2>4. QED
    BY <1>7, <2>2, <2>3
<1>8. QED
  BY <1>6, <1>7

\* What was on its way to an end that is finalised is lost.
LEMMA CloseStream ==
  ASSUME StreamInv, NEW e \in Ends, finnal_close(e), NEW d \in Calls
  PROVE  RequestsAt(d)' /\ ResponsesAt(d)'
<1>1. /\ RequestsAt(d) /\ ResponsesAt(d) /\ AnswerAt(d) /\ OrderInv
      /\ Callee(d) \in Ends /\ Caller(d) \in Ends
      /\ open \in [Ends -> BOOLEAN] /\ wire \in [Ends -> Seq(Messages)]
  BY StreamShapes
<1>2. /\ open' = [open EXCEPT ![e] = FALSE] /\ wire' = [wire EXCEPT ![e] = <<>>]
      /\ call' = call
      /\ \/ method'[d] = method[d]
         \/ Callee(d) = e /\ method[d].pc = "running" /\ method'[d] = Ended(method[d])
  BY <1>1, Finalised
<1>3. /\ SentCount(d)' = SentCount(d) /\ client_streaming(d)' = client_streaming(d)
      /\ AnswerRead(d)' = AnswerRead(d) /\ server_streaming(d)' = server_streaming(d)
  BY <1>2 DEF SentCount, client_streaming, AnswerRead, server_streaming
<1>4. /\ \A R : Count(<<>>, R) = 0
      /\ \A R : Free(<<>>, R)
      /\ LastOnly(<<>>, Data, Stop)
  BY EmptySeq, CountFacts, EmptyOrder
<1>5. /\ method'[d].got = method[d].got /\ method'[d].responded = method[d].responded
      /\ method'[d].pc = "none" => method[d].pc = "none"
      /\ \/ method'[d] = method[d]
         \/ method'[d].pc = "ended" /\ method'[d].queue = <<>> /\ ~method'[d].read
  BY <1>2 DEF Ended, NoMethod
<1>6. RequestsAt(d)'
  <2>1. CASE Callee(d) # e
    <3>1. /\ open'[Callee(d)] = open[Callee(d)] /\ wire'[Callee(d)] = wire[Callee(d)]
          /\ method'[d] = method[d]
      BY <1>1, <1>2, <2>1
    <3>2. QED
      BY <1>1, <1>2, <1>3, <3>1, QuietSame, RequestsSame
  <2>2. CASE Callee(d) = e
    <3>1. ~open'[Callee(d)] /\ wire'[Callee(d)] = <<>>
      BY <1>1, <1>2, <2>2
    <3>2. Unread(d)' <= Unread(d) /\ Unread(d)' \in Nat /\ Asked(d)' = 0
      <4>1. Unread(d) \in Nat /\ client_streaming(d) \in BOOLEAN
        BY Numbers
      <4>2. Held(<<>>, client_streaming(d)) = 0
        BY <4>1, EmptySeq, HeldFacts
      <4>3. Unread(d)' = Unread(d) \/ Unread(d)' = 0
        BY <1>3, <1>5, <4>2 DEF Unread
      <4>4. QED
        BY <1>4, <3>1, <4>1, <4>3 DEF Asked
    <3>3. Arrived(d)' <= SentCount(d)'
      <4>1. /\ Arrived(d)' = 0 + Unread(d)' + method[d].got
            /\ Asked(d) \in Nat /\ Unread(d) \in Nat
            /\ method[d].got \in Nat /\ SentCount(d) \in Nat
        BY <1>5, <3>2, Numbers DEF Arrived
      <4>2. Asked(d) + Unread(d) + method[d].got <= SentCount(d)
        BY <1>1 DEF RequestsAt, Arrived
      <4>3. QED
        BY <1>3, <3>2, <4>1, <4>2
    <3>4. QED
      BY <1>1, <1>3, <1>4, <1>5, <3>1, <3>3 DEF RequestsAt
  <2>3. QED
    BY <2>1, <2>2
<1>7. ResponsesAt(d)'
  <2>1. CASE Caller(d) # e
    <3>1. open'[Caller(d)] = open[Caller(d)] /\ wire'[Caller(d)] = wire[Caller(d)]
      BY <1>1, <1>2, <2>1
    <3>2. call[d].pc # "cancelled" /\ call[d].pc = "done" => call[d].queue = <<>>
      BY <1>1 DEF ResponsesAt, Told
    <3>3. QED
      BY <1>1, <1>2, <1>3, <1>5, <3>1, <3>2, QuietSame, ResponsesSame
  <2>2. CASE Caller(d) = e /\ call[d].pc # "cancelled"
    <3> DEFINE k == Given(d)
               p == Held(call[d].queue, server_streaming(d)) + call[d].received
    <3>1. ~open'[Caller(d)] /\ wire'[Caller(d)] = <<>>
      BY <1>1, <1>2, <2>2
    <3>2. AnswerRead(d) => k = 0
      <4>1. wire[Caller(d)] \in Seq(Messages)
        BY <1>1
      <4>2. AnswerRead(d) => Free(wire[Caller(d)], Responses(d))
        BY <1>1, <2>2 DEF AnswerAt, Whole
      <4>3. AnswerRead(d) => Free(wire[Caller(d)], Due(Responses(d), server_streaming(d)))
        BY <4>2 DEF Free, Due, Full
      <4>4. QED
        BY <4>1, <4>3, CountFacts DEF Given
    <3>3. k \in Nat /\ p \in Nat /\ method[d].responded \in Nat
      BY <1>1, Numbers
    <3>4. Answered(d) = k + p /\ Answered(d)' = p
      <4>1. /\ k \in Nat /\ call[d].received \in Nat
            /\ Held(call[d].queue, server_streaming(d)) \in Nat
        BY <1>1, Numbers
      <4>2. Answered(d)' = 0 + Held(call[d].queue, server_streaming(d)) + call[d].received
        BY <1>2, <1>3, <1>4, <3>1 DEF Answered, Given
      <4>3. QED
        BY <4>1, <4>2 DEF Answered
    <3>5. Told(d)
      BY <1>1, <2>2 DEF ResponsesAt
    <3>6. /\ Answered(d)' <= method'[d].responded
          /\ AnswerRead(d)' => Answered(d)' = method'[d].responded
      <4>1. /\ k + p <= method[d].responded
            /\ AnswerRead(d) => k + p = method[d].responded
        BY <3>4, <3>5 DEF Told
      <4> HIDE DEF k, p
      <4>2. QED
        BY <1>3, <1>5, <3>2, <3>3, <3>4, <4>1
    <3>7. Told(d)'
      BY <1>2, <1>3, <1>4, <3>1, <3>5, <3>6 DEF Told
    <3>8. QED
      BY <1>1, <1>2, <1>3, <1>5, <3>7 DEF ResponsesAt
  <2>3. CASE call[d].pc = "cancelled"
    BY <1>1, <1>2, <1>3, <1>5, <2>3 DEF ResponsesAt
  <2>4. QED
    BY <2>1, <2>2, <2>3
<1>8. QED
  BY <1>6, <1>7

\* What a message adds to the queue it is fed to, it takes from the wire.
LEMMA CountMoved ==
  ASSUME NEW w \in Seq(Messages), w # <<>>, NEW R, Head(w) \in R, ~Head(w).failed,
         NEW q \in Seq(Items), NEW s \in BOOLEAN,
         ~s => q = <<>> /\ (Head(w).payload \/ Head(w).end)
  PROVE  /\ Count(w, Due(R, s)) + Held(q, s)
               = Count(Tail(w), Due(R, s)) + Held(q \o Fed(Head(w)), s)
         /\ Count(w, Due(R, s)) \in Nat /\ Count(Tail(w), Due(R, s)) \in Nat
         /\ Held(q, s) \in Nat /\ Held(q \o Fed(Head(w)), s) \in Nat
<1> DEFINE m == Head(w)
           D == Due(R, s)
           one == IF m.payload \/ ~s THEN 1 ELSE 0
<1>1. m \in Messages /\ Tail(w) \in Seq(Messages)
  BY HeadTailProperties
<1>2. Count(w, D) = Count(Tail(w), D) + one
  <2>1. m \in D <=> m.payload \/ ~s
    BY DEF Due, Full
  <2>2. Count(w, D) = Count(Tail(w), D) + (IF m \in D THEN 1 ELSE 0)
    BY CountTail
  <2> HIDE DEF D
  <2>3. QED
    BY <2>1, <2>2
<1>3. Held(q \o Fed(m), s) = Held(q, s) + one
  BY <1>1, HeldFed
<1>4. Count(Tail(w), D) \in Nat /\ Count(w, D) \in Nat /\ Held(q, s) \in Nat
  BY <1>1, CountFacts, HeldFacts
<1> HIDE DEF m, D
<1>5. one \in {0, 1}
  OBVIOUS
<1> HIDE DEF one
<1>6. /\ Count(w, D) + Held(q, s) = Count(Tail(w), D) + Held(q \o Fed(m), s)
      /\ Held(q \o Fed(m), s) \in Nat
  BY <1>2, <1>3, <1>4, <1>5
<1>7. QED
  BY <1>4, <1>6, Zenon DEF m, D

\* What arrives is no message that adds nothing.
LEMMA ArrivesFilled ==
  ASSUME StreamInv, NoneEmpty, NEW e \in Ends, wire[e] # <<>>
  PROVE  Head(wire[e]).payload \/ Head(wire[e]).end
<1>1. wire \in [Ends -> Seq(Filling)]
  BY StreamShapes DEF OrderInv, OnceInv, WakeInv
<1>2. wire[e] \in Seq(Filling)
  BY <1>1
<1>3. Head(wire[e]) \in Filling
  BY <1>2, HeadTailProperties
<1>4. QED
  BY <1>3 DEF Filling, Filled, NoneEmpty

\* A request is taken from the wire, and its method's context fed with it.
LEMMA RequestFed ==
  ASSUME StreamInv, NoneEmpty, NEW c \in Calls, wire[Callee(c)] # <<>>, Head(wire[Callee(c)]) \in Requests(c),
         open[Callee(c)], open' = open, wire'[Callee(c)] = Tail(wire[Callee(c)]), call' = call,
         method'[c].queue = method[c].queue \o Fed(Head(wire[Callee(c)])),
         ~method'[c].read, method'[c].got = method[c].got, method'[c].pc \in Serving,
         client_streaming(c) \/ method[c].queue = <<>>
  PROVE  RequestsAt(c)'
<1> DEFINE w == wire[Callee(c)]
           m == Head(w)
           R == Requests(c)
           q == method[c].queue
<1>1. /\ RequestsAt(c) /\ OnceAt(c) /\ w \in Seq(Messages) /\ m \in Messages /\ q \in Seq(Items)
      /\ method[c].got \in Nat
  BY StreamShapes, Numbers DEF Requests
<1>2. Arrived(c) = SentCount(c) /\ LastOnly(q, Data, Stop) /\ Free(w, Failed(R))
  BY <1>1 DEF RequestsAt
<1>3. ~m.failed
  <2>1. m \notin Failed(R)
    BY <1>1, <1>2, TailOrder
  <2>2. QED
    BY <2>1 DEF Failed
<1>4. Free(Tail(w), Failed(R)) /\ ~Free(w, R)
  BY <1>1, <1>2, TailOrder DEF Calmer
<1>5. ~HasEnd(q) /\ ~method[c].read
  BY <1>1, <1>4 DEF OnceAt, EndRead
<1>6. LastOnly(q \o Fed(m), Data, Stop)
  BY <1>1, <1>2, <1>3, <1>5, FedStops
<1>7. client_streaming(c)' = client_streaming(c) /\ SentCount(c)' = SentCount(c)
  BY DEF client_streaming, SentCount
<1>8. /\ wire'[Callee(c)] = Tail(w) /\ method'[c].queue = q \o Fed(m)
      /\ method'[c].pc \notin {"none", "ended"}
  BY DEF Serving
<1>9. /\ Asked(c) + Unread(c) = Asked(c)' + Unread(c)'
      /\ Asked(c)' \in Nat /\ Unread(c)' \in Nat
  <2> DEFINE s == client_streaming(c)
             D == Due(R, s)
  <2>1. s \in BOOLEAN /\ (m.payload \/ m.end)
    BY <1>1, Numbers, ArrivesFilled, StreamShapes
  <2>2. /\ Count(w, D) + Held(q, s) = Count(Tail(w), D) + Held(q \o Fed(m), s)
        /\ Count(Tail(w), D) \in Nat /\ Held(q \o Fed(m), s) \in Nat
    BY <1>1, <1>3, <2>1, CountMoved
  <2>3. Asked(c) = Count(w, D) /\ Unread(c) = Held(q, s)
    BY <1>5 DEF Asked, Unread
  <2>4. Asked(c)' = Count(Tail(w), D) /\ Unread(c)' = Held(q \o Fed(m), s)
    BY <1>7, <1>8 DEF Asked, Unread
  <2> HIDE DEF D, s
  <2>5. QED
    BY <2>2, <2>3, <2>4
<1>10. Arrived(c)' = SentCount(c)
  <2>1. /\ Arrived(c) = Asked(c) + Unread(c) + method[c].got
        /\ Arrived(c)' = Asked(c)' + Unread(c)' + method[c].got
    BY DEF Arrived
  <2> HIDE DEF w, m, R, q
  <2>2. Asked(c) \in Nat /\ Unread(c) \in Nat
    BY Numbers
  <2>3. QED
    BY <1>1, <1>2, <1>9, <2>1, <2>2
<1>11. SentCount(c) \in Nat
  BY Numbers
<1>12. /\ LastOnly(method'[c].queue, Data, Stop)
       /\ Free(wire'[Callee(c)], Failed(R))
       /\ Arrived(c)' = SentCount(c)' /\ Arrived(c)' <= SentCount(c)'
  BY <1>4, <1>6, <1>7, <1>8, <1>10, <1>11
<1>13. method'[c].pc # "none" /\ method'[c].pc # "ended"
  BY <1>8
<1> HIDE DEF m, q, w
<1>14. QED
  BY <1>12, <1>13 DEF RequestsAt, R

\* A response is taken from the wire, and the context of its call fed with it.
LEMMA ResponseFed ==
  ASSUME StreamInv, NoneEmpty, NEW c \in Calls, wire[Caller(c)] # <<>>, Head(wire[Caller(c)]) \in Responses(c),
         ~Head(wire[Caller(c)]).failed, wire'[Caller(c)] = Tail(wire[Caller(c)]),
         open[Caller(c)], open' = open, method' = method, call[c].pc \in Waiting,
         call'[c].kind = call[c].kind, call'[c].pc = call[c].pc, call'[c].received = call[c].received,
         call'[c].queue = call[c].queue \o Fed(Head(wire[Caller(c)]))
  PROVE  ResponsesAt(c)'
<1> DEFINE w == wire[Caller(c)]
           m == Head(w)
           R == Responses(c)
           q == call[c].queue
<1>1. /\ ResponsesAt(c) /\ AnswerAt(c) /\ w \in Seq(Messages) /\ m \in Messages /\ q \in Seq(Items)
      /\ call[c].received \in Nat /\ call[c].pc \notin {"cancelled", "done"}
  BY StreamShapes, Numbers DEF Responses, Waiting
<1>2. /\ Answered(c) = method[c].responded /\ LastOnly(q, Data, Stop)
      /\ AnswerRead(c) => Free(w, R)
      /\ call[c].kind = "void" => Free(w, R)
  BY <1>1 DEF ResponsesAt, Told, AnswerAt, Whole
<1>3. ~Free(w, R)
  BY <1>1, TailOrder
<1>4. ~HasEnd(q) /\ (~server_streaming(c) => q = <<>>)
  BY <1>2, <1>3 DEF AnswerRead
<1>5. LastOnly(q \o Fed(m), Data, Stop)
  BY <1>1, <1>2, <1>4, FedStops
<1>6. server_streaming(c)' = server_streaming(c)
  BY DEF server_streaming
<1>7. wire'[Caller(c)] = Tail(w) /\ call'[c].queue = q \o Fed(m)
  OBVIOUS
<1>8. /\ Given(c) + Held(q, server_streaming(c)) = Given(c)' + Held(q \o Fed(m), server_streaming(c))
      /\ Given(c)' \in Nat /\ Held(q \o Fed(m), server_streaming(c)) \in Nat
  <2> DEFINE s == server_streaming(c)
             D == Due(R, s)
  <2>1. s \in BOOLEAN /\ (m.payload \/ m.end)
    BY <1>1, Numbers, ArrivesFilled, StreamShapes
  <2>2. /\ Count(w, D) + Held(q, s) = Count(Tail(w), D) + Held(q \o Fed(m), s)
        /\ Count(Tail(w), D) \in Nat /\ Held(q \o Fed(m), s) \in Nat
    BY <1>1, <1>4, <2>1, CountMoved
  <2>3. Given(c) = Count(w, D) /\ Given(c)' = Count(Tail(w), D)
    BY <1>6, <1>7 DEF Given
  <2> HIDE DEF D, s
  <2>4. QED
    BY <2>2, <2>3 DEF s
<1>9. Answered(c)' = method[c].responded
  <2>1. Answered(c) = Given(c) + Held(q, server_streaming(c)) + call[c].received
    BY DEF Answered
  <2>2. Answered(c)' = Given(c)' + Held(q \o Fed(m), server_streaming(c)) + call[c].received
    BY <1>6, <1>7 DEF Answered
  <2>3. Given(c) \in Nat /\ Held(q, server_streaming(c)) \in Nat
    BY Numbers
  <2> HIDE DEF w, m, R, q
  <2>4. QED
    BY <1>1, <1>2, <1>8, <2>1, <2>2, <2>3
<1>10. method[c].responded \in Nat
  BY Numbers
<1>11. /\ LastOnly(call'[c].queue, Data, Stop)
       /\ Answered(c)' = method'[c].responded /\ Answered(c)' <= method'[c].responded
       /\ call'[c].pc # "done"
  BY <1>1, <1>5, <1>7, <1>9, <1>10
<1> HIDE DEF m, q, w
<1>12. Told(c)'
  BY <1>11 DEF Told
<1>13. QED
  BY <1>1, <1>6, <1>12 DEF ResponsesAt

LEMMA FeedStream ==
  ASSUME StreamInv, NoneEmpty, NEW e \in Ends, wire[e] # <<>>, feed(e, Head(wire[e])), NEW d \in Calls
  PROVE  RequestsAt(d)' /\ ResponsesAt(d)'
<1> DEFINE m == Head(wire[e])
           c == m.call
<1>1. /\ OrderInv /\ wire \in [Ends -> Seq(Messages)]
      /\ method \in [Calls -> MethodRecords] /\ call \in [Calls -> CallRecords]
      /\ RequestsAt(d) /\ ResponsesAt(d) /\ OnceAt(d)
      /\ Caller(d) \in Ends /\ Callee(d) \in Ends
  BY StreamShapes
<1>2. /\ open[e] /\ m \in Messages /\ c \in Calls
      /\ UNCHANGED open /\ wire' = [wire EXCEPT ![e] = Tail(@)]
      /\ \/ /\ m \in Responses(c) /\ Caller(c) = e /\ ~m.failed
            /\ call[c].pc \in Waiting
            /\ call' = [call EXCEPT ![c].queue = @ \o Fed(m)]
            /\ UNCHANGED <<jobs, method>>
         \/ /\ m \in Requests(c) /\ Callee(c) = e /\ method[c].pc \in Serving
            /\ method[c].fed => client_streaming(c)
            /\ method' = [method EXCEPT ![c].queue = @ \o Fed(m), ![c].fed = TRUE]
            /\ UNCHANGED <<jobs, call>>
         \/ /\ m \in Requests(c) /\ Callee(c) = e /\ method[c].pc = "none"
            /\ method' = [method EXCEPT ![c] =
                  [NoMethod EXCEPT !.pc = "queued", !.queue = Fed(m), !.fed = TRUE,
                                   !.runs = method[c].runs + 1]]
            /\ jobs' = [jobs EXCEPT ![e] = Append(@, m)]
            /\ UNCHANGED call
         \/ /\ m \in Responses(c) /\ call[c].pc = "cancelled"
            /\ jobs' = [jobs EXCEPT ![e] = Append(@, m)]
            /\ UNCHANGED <<call, method>>
  BY <1>1, FeedCases
<1>3. wire'[e] = Tail(wire[e]) /\ wire[e] \in Seq(Messages)
  BY <1>1, <1>2
<1>4. ASSUME NEW f \in Ends, NEW R, m \notin R PROVE Quiet(wire[f], wire'[f], R)
  <2>1. CASE f = e
    BY <1>3, <1>4, <2>1, QuietTail
  <2>2. CASE f # e
    <3>1. wire'[f] = wire[f]
      BY <1>1, <1>2, <2>2
    <3>2. QED
      BY <3>1, QuietSame
  <2>3. QED
    BY <2>1, <2>2
<1>5. (m \in Responses(d) => m.type # "REQUEST") /\ (m \in Requests(d) => m.type = "REQUEST")
      /\ (m \in Responses(d) \/ m \in Requests(d) => d = c)
  BY DEF Requests, Responses
<1>6. m = Head(wire[e])
  OBVIOUS
<1> HIDE DEF m, c
<1>7. CASE d # c
  <2>1. call'[d] = call[d] /\ method'[d] = method[d]
    BY <1>1, <1>2, <1>7
  <2>2. m \notin Requests(d) /\ m \notin Responses(d)
    BY <1>5, <1>7
  <2>3. QED
    BY <1>1, <1>2, <1>4, <2>1, <2>2, StreamSame
<1>8. CASE /\ d = c /\ m \in Responses(c) /\ Caller(c) = e /\ ~m.failed
           /\ call[c].pc \in Waiting
           /\ call' = [call EXCEPT ![c].queue = @ \o Fed(m)]
           /\ method' = method
  <2>1. /\ call'[d].kind = call[d].kind /\ call'[d].sent = call[d].sent
        /\ call'[d].pc = call[d].pc
        /\ call'[d].received = call[d].received
        /\ call'[d].queue = call[d].queue \o Fed(m)
    BY <1>1, <1>8 DEF CallRecords
  <2>2. RequestsAt(d)'
    <3>1. SentCount(d)' = SentCount(d) /\ m \notin Requests(d)
      BY <1>5, <1>8, <2>1 DEF SentCount, client_streaming
    <3>2. QED
      BY <1>1, <1>2, <1>4, <1>8, <2>1, <3>1, RequestsSame
  <2>3. ResponsesAt(d)'
    BY <1>2, <1>3, <1>6, <1>8, <2>1, ResponseFed
  <2>4. QED
    BY <2>2, <2>3
<1>9. CASE /\ d = c /\ m \in Requests(c) /\ Callee(c) = e /\ call' = call
           /\ \/ /\ method[c].pc \in Serving /\ (method[c].fed => client_streaming(c))
                 /\ method' = [method EXCEPT ![c].queue = @ \o Fed(m), ![c].fed = TRUE]
              \/ /\ method[c].pc = "none"
                 /\ method' = [method EXCEPT ![c] =
                       [NoMethod EXCEPT !.pc = "queued", !.queue = Fed(m), !.fed = TRUE,
                                        !.runs = method[c].runs + 1]]
  <2>1. ~method[d].read
    <3>1. ~Free(wire[e], Requests(d))
      BY <1>2, <1>3, <1>6, <1>9, TailOrder
    <3>2. QED
      BY <1>1, <1>2, <1>9, <3>1 DEF OnceAt, EndRead
  <2>2. /\ method'[d].queue = method[d].queue \o Fed(m) /\ ~method'[d].read
        /\ method'[d].got = method[d].got /\ method'[d].responded = method[d].responded
        /\ method'[d].pc \in Serving
        /\ client_streaming(d) \/ method[d].queue = <<>>
    <3>1. CASE /\ method[c].pc \in Serving /\ (method[c].fed => client_streaming(c))
               /\ method' = [method EXCEPT ![c].queue = @ \o Fed(m), ![c].fed = TRUE]
      <4>1. client_streaming(d)
        BY <1>1, <1>9, <3>1 DEF OnceAt
      <4>2. QED
        BY <1>1, <1>9, <2>1, <3>1, <4>1 DEF MethodRecords
    <3>2. CASE /\ method[c].pc = "none"
               /\ method' = [method EXCEPT ![c] =
                     [NoMethod EXCEPT !.pc = "queued", !.queue = Fed(m), !.fed = TRUE,
                                      !.runs = method[c].runs + 1]]
      <4>1. method[d].got = 0 /\ method[d].queue = <<>> /\ method[d].responded = 0
        BY <1>1, <1>9, <3>2 DEF RequestsAt, ResponsesAt
      <4>2. /\ method'[d].pc = "queued" /\ method'[d].queue = Fed(m) /\ ~method'[d].read
            /\ method'[d].got = 0 /\ method'[d].responded = 0
        BY <1>1, <1>9, <3>2 DEF NoMethod
      <4>3. method'[d].queue = method[d].queue \o Fed(m)
        BY <1>2, <4>1, <4>2, FedItems, ConcatEmptySeq
      <4>4. QED
        BY <4>1, <4>2, <4>3 DEF Serving
    <3>3. QED
      BY <1>9, <3>1, <3>2
  <2>3. RequestsAt(d)'
    BY <1>2, <1>3, <1>6, <1>9, <2>2, RequestFed
  <2>4. ResponsesAt(d)'
    <3>1. m \notin Responses(d)
      BY <1>5, <1>9
    <3>2. AnswerRead(d)' = AnswerRead(d)
      BY <1>9 DEF AnswerRead, server_streaming
    <3>3. method'[d].pc # "none"
      BY <2>2 DEF Serving
    <3>4. call[d].pc # "cancelled" /\ call[d].pc = "done" => call[d].queue = <<>>
      BY <1>1 DEF ResponsesAt, Told
    <3>5. QED
      BY <1>1, <1>2, <1>4, <1>9, <2>2, <3>1, <3>2, <3>3, <3>4, ResponsesSame
  <2>5. QED
    BY <2>3, <2>4
<1>10. CASE d = c /\ m \in Responses(c) /\ call[c].pc = "cancelled" /\ UNCHANGED <<call, method>>
  <2>1. m \notin Requests(d) /\ SentCount(d)' = SentCount(d)
    BY <1>5, <1>10 DEF SentCount, client_streaming
  <2>2. RequestsAt(d)'
    BY <1>1, <1>2, <1>4, <1>10, <2>1, RequestsSame
  <2>3. ResponsesAt(d)'
    BY <1>1, <1>10 DEF ResponsesAt, server_streaming
  <2>4. QED
    BY <2>2, <2>3
<1>11. QED
  BY <1>2, <1>7, <1>8, <1>9, <1>10

\* The handler starts a method, or answers a caller that has left.
LEMMA StartJobStream ==
  ASSUME StreamInv, NEW e \in Ends, StartJob(e), NEW d \in Calls
  PROVE  RequestsAt(d)' /\ ResponsesAt(d)'
<1> DEFINE c == Head(jobs[e]).call
<1>1. /\ OrderInv /\ method \in [Calls -> MethodRecords] /\ RequestsAt(d) /\ ResponsesAt(d)
      /\ Caller(d) \in Ends /\ Callee(d) \in Ends
  BY StreamShapes
<1>2. /\ c \in Calls /\ UNCHANGED <<open, call>>
      /\ \/ method[c].pc = "queued" /\ method' = [method EXCEPT ![c].pc = "running"] /\ wire' = wire
         \/ /\ call[c].pc = "cancelled" /\ method' = method
            /\ \E n \in Responses(c) : Deliver(e, <<n>>)
  BY <1>1, StartJobCases
<1> HIDE DEF c
<1>3. /\ SentCount(d)' = SentCount(d) /\ AnswerRead(d)' = AnswerRead(d)
      /\ server_streaming(d)' = server_streaming(d)
  BY <1>2 DEF SentCount, client_streaming, AnswerRead, server_streaming
<1>4. call[d].pc # "cancelled" /\ call[d].pc = "done" => call[d].queue = <<>>
  BY <1>1 DEF ResponsesAt, Told
<1>5. CASE method' = [method EXCEPT ![c].pc = "running"] /\ wire' = wire
  <2>1. /\ method'[d].queue = method[d].queue /\ method'[d].read = method[d].read
        /\ method'[d].got = method[d].got /\ method'[d].responded = method[d].responded
        /\ method'[d].pc \in {method[d].pc, "running"}
    BY <1>1, <1>2, <1>5 DEF MethodRecords
  <2>2. RequestsAt(d)'
    BY <1>1, <1>2, <1>3, <1>5, <2>1, QuietSame, RequestsSame
  <2>3. ResponsesAt(d)'
    BY <1>1, <1>2, <1>3, <1>4, <1>5, <2>1, QuietSame, ResponsesSame
  <2>4. QED
    BY <2>2, <2>3
<1>6. ASSUME call[c].pc = "cancelled", method' = method, NEW n \in Responses(c), Deliver(e, <<n>>)
      PROVE  RequestsAt(d)' /\ ResponsesAt(d)'
  <2>1. n \in Messages /\ n \notin Requests(d) /\ (d # c => n \notin Responses(d))
    BY DEF Responses, Requests
  <2>2. Quiet(wire[Callee(d)], wire'[Callee(d)], Requests(d))
    BY <1>1, <1>6, <2>1, QuietSent
  <2>3. CASE d # c
    <3>1. Quiet(wire[Caller(d)], wire'[Caller(d)], Responses(d))
      BY <1>1, <1>6, <2>1, <2>3, QuietSent
    <3>2. QED
      BY <1>2, <1>6, <2>2, <3>1, StreamSame
  <2>4. CASE d = c
    <3>1. RequestsAt(d)'
      BY <1>1, <1>2, <1>3, <1>6, <2>2, RequestsSame
    <3>2. ResponsesAt(d)'
      BY <1>1, <1>2, <1>3, <1>6, <2>4 DEF ResponsesAt
    <3>3. QED
      BY <3>1, <3>2
  <2>5. QED
    BY <2>3, <2>4
<1>7. QED
  BY <1>2, <1>5, <1>6

\* The method reads a request, or the end of them.
LEMMA ReadStream ==
  ASSUME StreamInv, NEW c \in Calls, open' = open, call' = call, wire' = wire,
         ~method[c].read, method[c].queue # <<>>, method[c].pc = "running",
         method'[c].queue = Tail(method[c].queue),
         method'[c].read = (~client_streaming(c) \/ Head(method[c].queue).what = "end"),
         method'[c].got = IF Head(method[c].queue).what = "message" \/ ~client_streaming(c)
                          THEN method[c].got + 1 ELSE method[c].got,
         method'[c].pc = method[c].pc, method'[c].responded = method[c].responded
  PROVE  RequestsAt(c)' /\ ResponsesAt(c)'
<1> DEFINE q == method[c].queue
           one == IF Head(q).what = "message" \/ ~client_streaming(c) THEN 1 ELSE 0
<1>1. /\ RequestsAt(c) /\ ResponsesAt(c) /\ q \in Seq(Items) /\ Callee(c) \in Ends
      /\ method[c].got \in Nat
  BY StreamShapes, Numbers
<1>2. /\ Arrived(c) <= SentCount(c)
      /\ open[Callee(c)] => Arrived(c) = SentCount(c)
      /\ LastOnly(q, Data, Stop)
  BY <1>1 DEF RequestsAt
<1>3. /\ Count(q, Data) = Count(Tail(q), Data) + (IF Head(q).what = "message" THEN 1 ELSE 0)
      /\ LastOnly(Tail(q), Data, Stop)
      /\ Count(q, Data) \in Nat /\ Count(Tail(q), Data) \in Nat
      /\ (Head(q).what = "end" => Count(Tail(q), Data) = 0)
  BY <1>1, <1>2, TailCounts
<1>4. /\ SentCount(c) \in Nat /\ Asked(c) \in Nat /\ Unread(c) \in Nat
      /\ Count(<<>>, Data) = 0 /\ client_streaming(c) \in BOOLEAN
  BY <1>1, Numbers, EmptySeq, CountFacts
<1>5. SentCount(c)' = SentCount(c) /\ client_streaming(c)' = client_streaming(c)
  BY DEF SentCount, client_streaming
<1>6. Asked(c)' = Asked(c) /\ method'[c].queue = Tail(q)
  BY <1>5 DEF Asked
<1>7. ResponsesAt(c)'
  <2>1. AnswerRead(c)' = AnswerRead(c)
    BY DEF AnswerRead, server_streaming
  <2>2. call[c].pc # "cancelled" /\ call[c].pc = "done" => call[c].queue = <<>>
    BY <1>1 DEF ResponsesAt, Told
  <2>3. QED
    BY <1>1, <2>1, <2>2, QuietSame, ResponsesSame
<1> HIDE DEF q
<1>8. Unread(c) = Unread(c)' + one /\ Unread(c)' \in Nat
  <2>1. Unread(c) = Held(q, client_streaming(c))
    BY DEF Unread, q
  <2>2. CASE ~client_streaming(c)
    <3>1. Unread(c)' = 0 /\ Unread(c) = 1
      BY <1>1, <2>1, <2>2 DEF Unread, Held, q
    <3>2. QED
      BY <2>2, <3>1
  <2>3. CASE client_streaming(c) /\ Head(q).what = "end"
    <3>1. Unread(c)' = 0 /\ Unread(c) = Count(q, Data)
      BY <2>1, <2>3 DEF Unread, Held, q
    <3>2. QED
      BY <1>3, <2>3, <3>1
  <2>4. CASE client_streaming(c) /\ Head(q).what # "end"
    <3>1. Unread(c)' = Held(Tail(q), client_streaming(c)')
      BY <1>6, <2>4 DEF Unread, q
    <3>2. Unread(c)' = Count(Tail(q), Data) /\ Unread(c) = Count(q, Data)
      BY <1>5, <2>1, <2>4, <3>1 DEF Held
    <3>3. QED
      BY <1>3, <2>4, <3>2
  <2>5. QED
    BY <2>2, <2>3, <2>4
<1>9. Arrived(c)' = Arrived(c)
  <2>1. one \in {0, 1} /\ method'[c].got = method[c].got + one
    BY <1>1 DEF q
  <2>2. /\ Arrived(c) = Asked(c) + Unread(c) + method[c].got
        /\ Arrived(c)' = Asked(c) + Unread(c)' + (method[c].got + one)
    BY <1>6, <2>1 DEF Arrived
  <2> HIDE DEF one
  <2>3. QED
    BY <1>1, <1>4, <1>8, <2>1, <2>2
<1>10. QED
  BY <1>1, <1>2, <1>3, <1>5, <1>6, <1>7, <1>9 DEF RequestsAt

\* The method sends a response, which is lost if the other end is closed.
LEMMA ResponseSent ==
  ASSUME StreamInv, NEW c \in Calls, NEW m \in Responses(c), NEW n \in {0, 1},
         Deliver(Callee(c), <<m>>), open' = open, call' = call,
         method[c].pc = "running", method'[c].pc = "running",
         ~method[c].ended, call[c].kind # "void",
         method'[c].responded = method[c].responded + n,
         ~server_streaming(c) => method'[c].responded <= 1,
         n = IF m.payload \/ ~server_streaming(c) THEN 1 ELSE 0
  PROVE  ResponsesAt(c)'
<1> DEFINE w == wire[Caller(c)]
           v == wire'[Caller(c)]
           R == Responses(c)
           D == Due(R, server_streaming(c))
           k == Held(call[c].queue, server_streaming(c)) + call[c].received
<1>1. /\ ResponsesAt(c) /\ AnswerAt(c) /\ Caller(c) \in Ends /\ Peer(Callee(c)) = Caller(c)
      /\ wire \in [Ends -> Seq(Messages)] /\ w \in Seq(Messages) /\ m \in Messages
  BY StreamShapes DEF Responses
<1>2. server_streaming(c)' = server_streaming(c) /\ AnswerRead(c)' = AnswerRead(c)
  BY DEF server_streaming, AnswerRead
<1>3. CASE call[c].pc = "cancelled"
  BY <1>1, <1>2, <1>3 DEF ResponsesAt
<1>4. CASE call[c].pc # "cancelled"
  <2>1. ~AnswerRead(c)
    BY <1>1, <1>4 DEF AnswerAt, Whole, Spoken
  <2>2. v = IF open[Caller(c)] THEN w \o <<m>> ELSE w
    BY <1>1 DEF Deliver
  <2>3. m \in D <=> m.payload \/ ~server_streaming(c)
    BY DEF Full, Due
  <2>4. Told(c)
    BY <1>1, <1>4 DEF ResponsesAt
  <2>5. /\ Count(w, D) \in Nat /\ Count(v, D) \in Nat
        /\ Count(v, D) = IF open[Caller(c)] THEN Count(w, D) + n ELSE Count(w, D)
    <3>1. \A S : Count(w \o <<m>>, S) = Count(w, S) + (IF m \in S THEN 1 ELSE 0)
      BY <1>1, CountAppend
    <3>2. Count(w, D) \in Nat
      BY <1>1, CountFacts
    <3> HIDE DEF w, D, v
    <3>3. QED
      BY <2>2, <2>3, <3>1, <3>2
  <2>6. k \in Nat /\ method[c].responded \in Nat
    <3>1. /\ Held(call[c].queue, server_streaming(c)) \in Nat
          /\ call[c].received \in Nat /\ method[c].responded \in Nat
      BY Numbers
    <3>2. QED
      BY <3>1
  <2>7. Answered(c) = Count(w, D) + k /\ Answered(c)' = Count(v, D) + k
    <3>1. Held(call[c].queue, server_streaming(c)) \in Nat /\ call[c].received \in Nat
      BY Numbers
    <3>2. Given(c) = Count(w, D) /\ Given(c)' = Count(v, D)
      BY <1>2 DEF Given
    <3>3. QED
      BY <1>2, <2>5, <3>1, <3>2 DEF Answered
  <2>8. /\ Answered(c)' <= method'[c].responded
        /\ open'[Caller(c)] => Answered(c)' = method'[c].responded
    <3>1. /\ Answered(c) <= method[c].responded
          /\ open[Caller(c)] => Answered(c) = method[c].responded
      BY <2>4 DEF Told
    <3> HIDE DEF k, w, v, R, D
    <3>2. CASE open[Caller(c)]
      BY <2>5, <2>6, <2>7, <3>1, <3>2
    <3>3. CASE ~open[Caller(c)]
      BY <2>5, <2>6, <2>7, <3>1, <3>3
    <3>4. QED
      BY <3>2, <3>3
  <2> HIDE DEF k, w, D
  <2>9. Told(c)'
    BY <1>2, <2>1, <2>4, <2>8 DEF Told
  <2>10. QED
    BY <1>1, <1>2, <2>9 DEF ResponsesAt
<1>5. QED
  BY <1>3, <1>4

\* The end that a method sends on returning carries no payload.
LEMMA EndSent ==
  ASSUME StreamInv, NEW c \in Calls, Deliver(Callee(c), EndOfStream(c))
  PROVE  /\ \A d \in Calls : Quiet(wire[Callee(d)], wire'[Callee(d)], Requests(d))
         /\ \A d \in Calls \ {c} : Quiet(wire[Caller(d)], wire'[Caller(d)], Responses(d))
         /\ server_streaming(c) =>
               Count(wire'[Caller(c)], Full(Responses(c))) = Count(wire[Caller(c)], Full(Responses(c)))
         /\ ~server_streaming(c) => wire' = wire
<1> DEFINE n == shutdown(c)
           R == Full(Responses(c))
<1>1. /\ TypeOK /\ Callee(c) \in Ends /\ Caller(c) \in Ends
      /\ \A d \in Calls : Callee(d) \in Ends /\ Caller(d) \in Ends
      /\ wire \in [Ends -> Seq(Messages)]
  BY StreamShapes, OrderShapes
<1>2. /\ EndOfStream(c) \in {<<>>, <<n>>}
      /\ ~server_streaming(c) => EndOfStream(c) = <<>>
  BY DEF EndOfStream
<1>3. n \in Messages
  BY <1>1, MessageTypes
<1>4. /\ \A d \in Calls : n \notin Requests(d)
      /\ \A d \in Calls \ {c} : n \notin Responses(d)
      /\ n \notin R
  BY DEF shutdown, Message, Requests, Responses, Full
<1>5. Due(R, FALSE) = R
  BY DEF Due
<1> HIDE DEF n, R
<1>6. ASSUME NEW S, n \notin S, NEW f \in Ends PROVE Quiet(wire[f], wire'[f], S)
  BY <1>1, <1>2, <1>3, <1>6, QuietSent
<1>7. Quiet(wire[Caller(c)], wire'[Caller(c)], R)
  BY <1>1, <1>4, <1>6
<1>8. ~server_streaming(c) => wire' = wire
  BY <1>1, <1>2, NothingSent
<1>9. QED
  BY <1>1, <1>4, <1>5, <1>6, <1>7, <1>8 DEF Quiet, R

\* A method that returns has read its requests.
LEMMA ReturnStream ==
  ASSUME StreamInv, NEW c \in Calls, open' = open, call' = call,
         method[c].pc = "running", method[c].read, method'[c] = Ended(method[c]),
         Deliver(Callee(c), EndOfStream(c))
  PROVE  RequestsAt(c)' /\ ResponsesAt(c)'
<1>1. /\ RequestsAt(c) /\ ResponsesAt(c) /\ AnswerAt(c)
      /\ Quiet(wire[Callee(c)], wire'[Callee(c)], Requests(c))
      /\ server_streaming(c) =>
            Count(wire'[Caller(c)], Full(Responses(c))) = Count(wire[Caller(c)], Full(Responses(c)))
      /\ ~server_streaming(c) => wire' = wire
  BY StreamShapes, EndSent
<1>2. /\ method'[c].pc = "ended" /\ method'[c].queue = <<>> /\ ~method'[c].read
      /\ method'[c].got = method[c].got /\ method'[c].responded = method[c].responded
  BY DEF Ended, NoMethod
<1>3. /\ SentCount(c)' = SentCount(c) /\ client_streaming(c)' = client_streaming(c)
      /\ AnswerRead(c)' = AnswerRead(c) /\ server_streaming(c)' = server_streaming(c)
  BY DEF SentCount, client_streaming, AnswerRead, server_streaming
<1>4. /\ client_streaming(c) \in BOOLEAN /\ Held(<<>>, client_streaming(c)) = 0
      /\ LastOnly(<<>>, Data, Stop)
  BY Numbers, EmptySeq, HeldFacts, EmptyOrder
<1>5. Arrived(c)' = Arrived(c)
  <2>1. Asked(c)' = Asked(c)
    BY <1>1, <1>3, <1>4 DEF Asked, Quiet
  <2>2. Unread(c)' = Unread(c)
    BY <1>2, <1>3, <1>4 DEF Unread
  <2>3. QED
    BY <1>2, <2>1, <2>2 DEF Arrived
<1>6. RequestsAt(c)'
  BY <1>1, <1>2, <1>3, <1>4, <1>5 DEF RequestsAt, Quiet
<1>7. Answered(c)' = Answered(c)
  <2>1. Given(c)' = Given(c)
    BY <1>1, <1>3 DEF Given, Due
  <2>2. QED
    BY <1>3, <2>1 DEF Answered
<1>8. Told(c) => Told(c)'
  BY <1>1, <1>2, <1>3, <1>7 DEF Told
<1>9. ResponsesAt(c)'
  BY <1>1, <1>2, <1>3, <1>8 DEF ResponsesAt
<1>10. QED
  BY <1>6, <1>9

LEMMA MethodStream ==
  ASSUME StreamInv, MethodsReturn, NoneEmpty, NEW c \in Calls,
         \/ ReadRequest(c) \/ SendResponse(c) \/ Return(c)
         \/ RaiseException(c) \/ ReadFails(c) \/ RaiseBaseEx(c),
         NEW d \in Calls
  PROVE  RequestsAt(d)' /\ ResponsesAt(d)'
<1> DEFINE item == Head(method[c].queue)
<1>1. /\ OrderInv /\ TypeOK /\ RequestsAt(d) /\ ResponsesAt(d) /\ AnswerAt(c)
      /\ RequestsAt(c) /\ ResponsesAt(c)
      /\ Caller(d) \in Ends /\ Callee(d) \in Ends /\ Callee(c) \in Ends
  BY StreamShapes, OrderShapes
<1> DEFINE read ==
             /\ ~method[c].read /\ method[c].queue # <<>>
             /\ method'[c].queue = Tail(method[c].queue)
             /\ method'[c].read = (~client_streaming(c) \/ item.what = "end")
             /\ method'[c].got = IF item.what = "message" \/ ~client_streaming(c)
                                 THEN method[c].got + 1 ELSE method[c].got
             /\ method'[c].pc = method[c].pc /\ method'[c].ended = method[c].ended
             /\ method'[c].responded = method[c].responded
             /\ UNCHANGED <<wire, jobs>>
           respond ==
             /\ call[c].kind # "void" /\ ~method[c].ended
             /\ method'[c].pc = method[c].pc /\ method'[c].queue = method[c].queue
             /\ method'[c].read = method[c].read /\ method'[c].got = method[c].got
             /\ \E end, payload \in BOOLEAN, n \in {0, 1} :
                  /\ ~server_streaming(c) => end /\ n = 1 /\ method[c].responded = 0
                  /\ n = 0 => end /\ ~payload
                  /\ server_streaming(c) /\ n = 1 /\ ~payload => "empty_response" \in Env
                  /\ method'[c].responded = method[c].responded + n
                  /\ method'[c].ended = end
                  /\ Deliver(Callee(c),
                             <<Message(call[c].id, c, "RESPONSE", end, FALSE, payload)>>)
             /\ UNCHANGED jobs
           return ==
             /\ method[c].read /\ method'[c] = Ended(method[c])
             /\ Deliver(Callee(c), EndOfStream(c))
<1>2. /\ method[c].pc = "running" /\ UNCHANGED <<open, call>>
      /\ \A f \in Calls \ {c} : method'[f] = method[f]
      /\ read \/ respond \/ return
  BY <1>1, MethodCases
<1>3. CASE read
  <2>1. CASE d # c
    BY <1>2, <1>3, <2>1, QuietSame, StreamSame
  <2>2. CASE d = c
    BY <1>2, <1>3, <2>2, ReadStream
  <2>3. QED
    BY <2>1, <2>2
<1>4. CASE respond
  <2>1. PICK end \in BOOLEAN, payload \in BOOLEAN, n \in {0, 1} :
          /\ ~server_streaming(c) => end /\ n = 1 /\ method[c].responded = 0
          /\ n = 0 => end /\ ~payload
          /\ server_streaming(c) /\ n = 1 /\ ~payload => "empty_response" \in Env
          /\ method'[c].responded = method[c].responded + n
          /\ Deliver(Callee(c), <<Message(call[c].id, c, "RESPONSE", end, FALSE, payload)>>)
    BY <1>4
  <2> DEFINE m == Message(call[c].id, c, "RESPONSE", end, FALSE, payload)
  <2>2. m \in Messages
    BY <1>1, MessageTypes
  <2>3. /\ m \in Responses(c) /\ m.payload = payload /\ \A f \in Calls : m \notin Requests(f)
        /\ \A f \in Calls \ {c} : m \notin Responses(f)
    BY <2>2 DEF Message, Requests, Responses
  <2>4. n = IF m.payload \/ ~server_streaming(c) THEN 1 ELSE 0
    BY <2>1, <2>3 DEF NoneEmpty
  <2> HIDE DEF m
  <2>5. /\ Quiet(wire[Callee(d)], wire'[Callee(d)], Requests(d))
        /\ d # c => Quiet(wire[Caller(d)], wire'[Caller(d)], Responses(d))
    BY <1>1, <2>1, <2>2, <2>3, QuietSent DEF m
  <2>6. CASE d # c
    BY <1>2, <2>5, <2>6, StreamSame
  <2>7. CASE d = c
    <3>1. SentCount(c)' = SentCount(c)
      BY <1>2 DEF SentCount, client_streaming
    <3>2. RequestsAt(c)'
      BY <1>1, <1>2, <1>4, <2>5, <2>7, <3>1, RequestsSame
    <3>3. ~server_streaming(c) => method'[c].responded <= 1
      BY <2>1
    <3>4. Deliver(Callee(c), <<m>>)
      BY <2>1 DEF m
    <3>5. ResponsesAt(c)'
      BY <1>2, <1>4, <2>1, <2>3, <2>4, <3>3, <3>4, ResponseSent
    <3>6. QED
      BY <2>7, <3>2, <3>5
  <2>8. QED
    BY <2>6, <2>7
<1>5. CASE return
  <2>1. CASE d # c
    BY <1>2, <1>5, <2>1, EndSent, StreamSame
  <2>2. CASE d = c
    BY <1>2, <1>5, <2>2, ReturnStream
  <2>3. QED
    BY <2>1, <2>2
<1>6. QED
  BY <1>2, <1>3, <1>4, <1>5

LEMMA StreamInit == Init => StreamInv
<1> SUFFICES ASSUME Init, NEW c \in Calls PROVE RequestsAt(c) /\ ResponsesAt(c)
  BY OrderInit DEF StreamInv
<1>1. /\ wire[Caller(c)] = <<>> /\ wire[Callee(c)] = <<>>
      /\ call[c].pc = "new" /\ call[c].queue = <<>>
      /\ call[c].sent = 0 /\ call[c].received = 0 /\ method[c] = NoMethod
  BY EndFacts DEF Init
<1>2. /\ method[c].pc = "none" /\ method[c].queue = <<>> /\ ~method[c].read
      /\ method[c].got = 0 /\ method[c].responded = 0
  BY <1>1 DEF NoMethod
<1>3. /\ \A S : Count(<<>>, S) = 0
      /\ \A S : Free(<<>>, S)
      /\ LastOnly(<<>>, Data, Stop)
  BY EmptySeq, CountFacts, EmptyOrder
<1>4. SentCount(c) = 0 /\ Arrived(c) = 0 /\ Answered(c) = 0
  <2>1. Asked(c) = 0 /\ Unread(c) = 0 /\ Given(c) = 0 /\ Held(<<>>, server_streaming(c)) = 0
    BY <1>1, <1>2, <1>3 DEF Asked, Unread, Given, Held
  <2>2. QED
    BY <1>1, <1>2, <2>1 DEF SentCount, Arrived, Answered
<1>5. QED
  BY <1>1, <1>2, <1>3, <1>4 DEF RequestsAt, ResponsesAt, Told

LEMMA StreamStep == MethodsReturn /\ NoneEmpty /\ StreamInv /\ [Next]_vars => StreamInv'
<1> SUFFICES ASSUME MethodsReturn, NoneEmpty, StreamInv, [Next]_vars, NEW d \in Calls
             PROVE  RequestsAt(d)' /\ ResponsesAt(d)'
  BY OrderStep DEF StreamInv
<1>1. ASSUME NEW c \in Calls, Open(c) PROVE RequestsAt(d)' /\ ResponsesAt(d)'
  BY <1>1, OpenStream
<1>2. ASSUME NEW c \in Calls, OpenFails(c) \/ SendRequest(c) \/ SendFails(c)
      PROVE  RequestsAt(d)' /\ ResponsesAt(d)'
  BY <1>2, SendStream
<1>3. ASSUME NEW c \in Calls, Receive(c) PROVE RequestsAt(d)' /\ ResponsesAt(d)'
  BY <1>3, ReceiveStream
<1>4. ASSUME NEW c \in Calls, Cancel(c) \/ ReceiveFails(c)
      PROVE  RequestsAt(d)' /\ ResponsesAt(d)'
  BY <1>4, CancelStream
<1>5. ASSUME NEW e \in Ends, Cut(e) \/ PeerGone(e) \/ feed_raises(e)
      PROVE  RequestsAt(d)' /\ ResponsesAt(d)'
  BY <1>5, CloseStream DEF Cut, PeerGone, feed_raises
<1>6. ASSUME NEW e \in Ends, wire[e] # <<>>, feed(e, Head(wire[e]))
      PROVE  RequestsAt(d)' /\ ResponsesAt(d)'
  BY <1>6, FeedStream
<1>7. ASSUME NEW e \in Ends, StartJob(e) PROVE RequestsAt(d)' /\ ResponsesAt(d)'
  BY <1>7, StartJobStream
<1>8. ASSUME NEW c \in Calls, Method(c) \/ RaiseException(c) \/ ReadFails(c) \/ RaiseBaseEx(c)
      PROVE  RequestsAt(d)' /\ ResponsesAt(d)'
  BY <1>8, MethodStream DEF Method
<1>9. CASE UNCHANGED vars
  <2>1. UNCHANGED <<open, wire, call, method>>
    BY <1>9 DEF vars
  <2>2. QED
    BY <2>1, QuietSame, StreamSame
<1>10. QED
  BY <1>1, <1>2, <1>3, <1>4, <1>5, <1>6, <1>7, <1>8, <1>9 DEF Next, feed_messages

\* Where nothing has been lost, what was sent has been read.
LEMMA StreamsWhole ==
  ASSUME StreamInv, OpenInv PROVE StreamsComplete
<1> SUFFICES ASSUME NEW c \in Calls, call[c].pc = "done", method[c].pc = "ended"
             PROVE  /\ call[c].received = method[c].responded
                    /\ method[c].got = IF client_streaming(c) THEN call[c].sent ELSE 1
  BY DEF StreamsComplete
<1>1. /\ RequestsAt(c) /\ ResponsesAt(c) /\ OnceAt(c) /\ AnswerAt(c)
      /\ Callee(c) \in Ends /\ Caller(c) \in Ends
      /\ wire[Callee(c)] \in Seq(Messages) /\ wire[Caller(c)] \in Seq(Messages)
  BY StreamShapes
<1>2. open[Callee(c)] /\ open[Caller(c)]
  BY <1>1 DEF OpenInv
<1>3. Free(wire[Callee(c)], Requests(c)) /\ Free(wire[Caller(c)], Responses(c))
  BY <1>1, <1>2 DEF OnceAt, EndRead, AnswerAt, Whole, AnswerRead
<1>4. /\ Free(wire[Callee(c)], Due(Requests(c), client_streaming(c)))
      /\ Free(wire[Caller(c)], Due(Responses(c), server_streaming(c)))
  BY <1>3 DEF Free, Due, Full
<1>5. Asked(c) = 0 /\ Given(c) = 0
  BY <1>1, <1>4, CountFacts DEF Asked, Given
<1>6. /\ call[c].queue = <<>> /\ method[c].queue = <<>>
      /\ Answered(c) = method[c].responded /\ Arrived(c) = SentCount(c)
  BY <1>1, <1>2 DEF RequestsAt, ResponsesAt, Told
<1>7. Unread(c) = 0 /\ Held(call[c].queue, server_streaming(c)) = 0
  BY <1>6, Numbers, EmptySeq, HeldFacts DEF Unread
<1>8. method[c].got \in Nat /\ call[c].received \in Nat
  BY Numbers
<1>9. Answered(c) = call[c].received /\ Arrived(c) = method[c].got
  BY <1>5, <1>6, <1>7, <1>8 DEF Answered, Arrived
<1>10. QED
  BY <1>6, <1>9 DEF SentCount

\* When a call is done and its method has ended, every request has been read
\* and every response received, for streams of any length in both directions, of
\* which no message is empty (an empty one is not queued): END comes last, is not
\* lost, and nothing stands unread when it has come.
THEOREM StreamsArrive == Orderly => (Spec => []StreamsComplete)
<1> SUFFICES ASSUME Orderly PROVE Spec => []StreamsComplete
  OBVIOUS
<1>1. StreamInv /\ OpenInv /\ [Next]_vars => (StreamInv /\ OpenInv)'
  <2>1. MethodsReturn /\ NoneEmpty /\ (StreamInv => OrderInv)
    BY DEF Orderly, MethodsReturn, NoneEmpty, StreamInv
  <2>2. QED
    BY <2>1, StreamStep, OpenStep
<1>2. Init => StreamInv /\ OpenInv
  BY StreamInit DEF OpenInv, Init
<1>3. StreamInv /\ OpenInv => StreamsComplete
  BY StreamsWhole
<1>4. QED
  BY <1>1, <1>2, <1>3, PTL DEF Spec
-------------------------------------------------------------------------------
(* Remote calls *)

\* A call that looks the same to the programs at its ends, from either of them.
CallerStands(c) ==
    /\ CallerState(c)' = CallerState(c)
    /\ SentCount(c)' = SentCount(c)
    /\ call'[c].received = call[c].received
MethodStands(c) ==
    /\ MethodState(c)' = MethodState(c)
    /\ method'[c].got = method[c].got
    /\ method'[c].responded = method[c].responded
Stands(c) == Replies(c)' = Replies(c) /\ CallerStands(c) /\ MethodStands(c)

\* A caller's step and a method's, as the programs at the ends see them.
Opens(c) ==
    /\ CallerState(c) = "new"
    /\ CallerState(c)' = IF Replies(c) = "none" THEN "done" ELSE "open"
    /\ SentCount(c)' - SentCount(c) \in {0, 1}
    /\ call'[c].received = call[c].received
Refuses(c) ==
    /\ CallerState(c) = "new"
    /\ CallerState(c)' = "failed"
    /\ SentCount(c)' = SentCount(c) /\ call'[c].received = call[c].received
Sends(c) ==
    /\ CallerState(c) = "open"
    /\ MethodState(c) = "ended" => Env # {}
    /\ SentCount(c)' = SentCount(c) + 1
    /\ CallerState(c)' = CallerState(c) /\ call'[c].received = call[c].received
Receives(c) ==
    /\ CallerState(c) = "open"
    /\ call[c].received < method[c].responded
    /\ call'[c].received = call[c].received + 1
    /\ CallerState(c)' = CallerState(c) /\ SentCount(c)' = SentCount(c)
Returns(c) ==
    /\ CallerState(c) = "open"
    /\ MethodState(c) # "idle"
    /\ CallerState(c)' = "done"
    /\ call'[c].received = method[c].responded
    /\ method[c].responded - call[c].received \in {0, 1}
    /\ Replies(c) = "one" => method[c].responded = 1
    /\ SentCount(c)' = SentCount(c)
Breaks(c) ==
    /\ Env # {}
    /\ CallerState(c) = "open"
    /\ CallerState(c)' = "failed"
    /\ SentCount(c)' = SentCount(c) /\ call'[c].received = call[c].received
Begins(c) ==
    /\ CallerState(c) # "new"
    /\ MethodState(c) = "idle"
    /\ MethodState(c)' = "running"
    /\ method'[c].got = method[c].got /\ method'[c].responded = method[c].responded
Takes(c) ==
    /\ MethodState(c) = "running"
    /\ method[c].got < SentCount(c)
    /\ method'[c].got = method[c].got + 1
    /\ MethodState(c)' = MethodState(c) /\ method'[c].responded = method[c].responded
Gives(c) ==
    /\ MethodState(c) = "running"
    /\ CallerState(c) # "done"
    /\ Replies(c) = "many" \/ (Replies(c) = "one" /\ method[c].responded = 0)
    /\ method'[c].responded = method[c].responded + 1
    /\ MethodState(c)' = MethodState(c) /\ method'[c].got = method[c].got
Finishes(c) ==
    /\ MethodState(c) = "running"
    /\ method[c].got = SentCount(c) \/ Env # {}
    /\ MethodState(c)' = "ended"
    /\ method'[c].got = method[c].got /\ method'[c].responded = method[c].responded

CallerMoves(c) ==
    Opens(c) \/ Refuses(c) \/ Sends(c) \/ Receives(c) \/ Returns(c) \/ Breaks(c)
MethodMoves(c) == Begins(c) \/ Takes(c) \/ Gives(c) \/ Finishes(c)

LEMMA StandsStill ==
  ASSUME \A d \in Calls : Stands(d) PROVE UNCHANGED Calling!vars
<1>1. /\ \A d \in Calls : Replies(d)' = Replies(d)
      /\ \A d \in Calls : CallerState(d)' = CallerState(d)
      /\ \A d \in Calls : MethodState(d)' = MethodState(d)
      /\ \A d \in Calls : SentCount(d)' = SentCount(d)
      /\ \A d \in Calls : method'[d].got = method[d].got
      /\ \A d \in Calls : method'[d].responded = method[d].responded
      /\ \A d \in Calls : call'[d].received = call[d].received
  BY DEF Stands, CallerStands, MethodStands
<1>2. QED
  BY <1>1 DEF Calling!vars

\* A caller's step is a step of RemoteCalls.
LEMMA CallerMoved ==
  ASSUME NEW c \in Calls, CallerMoves(c), Replies(c)' = Replies(c), MethodStands(c),
         SentCount(c) \in Nat, SentCount(c)' \in Nat,
         method[c].responded \in Nat, call[c].received \in Nat,
         \A d \in Calls \ {c} : Stands(d)
  PROVE  Calling!Next
<1>1. /\ \A d \in Calls : Replies(d)' = Replies(d)
      /\ \A d \in Calls : MethodState(d)' = MethodState(d)
      /\ \A d \in Calls : method'[d].got = method[d].got
      /\ \A d \in Calls : method'[d].responded = method[d].responded
      /\ \A d \in Calls \ {c} : CallerState(d)' = CallerState(d)
      /\ \A d \in Calls \ {c} : SentCount(d)' = SentCount(d)
      /\ \A d \in Calls \ {c} : call'[d].received = call[d].received
  BY DEF Stands, CallerStands, MethodStands
<1>2. CASE Opens(c)
  <2>1. SentCount(c)' = SentCount(c) + 0 \/ SentCount(c)' = SentCount(c) + 1
    BY <1>2 DEF Opens
  <2>2. Calling!Call(c)
    BY <1>1, <1>2, <2>1 DEF Opens, Calling!Call
  <2>3. QED
    BY <2>2 DEF Calling!Next
<1>3. CASE Refuses(c)
  BY <1>1, <1>3 DEF Refuses, Calling!Refuse, Calling!Next
<1>4. CASE Sends(c)
  BY <1>1, <1>4 DEF Sends, Calling!Request, Calling!Next
<1>5. CASE Receives(c)
  BY <1>1, <1>5 DEF Receives, Calling!Receive, Calling!Next
<1>6. CASE Returns(c)
  BY <1>1, <1>6 DEF Returns, Calling!Return, Calling!Next
<1>7. CASE Breaks(c)
  BY <1>1, <1>7 DEF Breaks, Calling!Break, Calling!Next
<1>8. QED
  BY <1>2, <1>3, <1>4, <1>5, <1>6, <1>7 DEF CallerMoves

\* And so is a method's.
LEMMA MethodMoved ==
  ASSUME NEW c \in Calls, MethodMoves(c), Replies(c)' = Replies(c), CallerStands(c),
         \A d \in Calls \ {c} : Stands(d)
  PROVE  Calling!Next
<1>1. /\ \A d \in Calls : Replies(d)' = Replies(d)
      /\ \A d \in Calls : CallerState(d)' = CallerState(d)
      /\ \A d \in Calls : SentCount(d)' = SentCount(d)
      /\ \A d \in Calls : call'[d].received = call[d].received
      /\ \A d \in Calls \ {c} : MethodState(d)' = MethodState(d)
      /\ \A d \in Calls \ {c} : method'[d].got = method[d].got
      /\ \A d \in Calls \ {c} : method'[d].responded = method[d].responded
  BY DEF Stands, CallerStands, MethodStands
<1>2. CASE Begins(c)
  BY <1>1, <1>2 DEF Begins, Calling!Begin, Calling!Next
<1>3. CASE Takes(c)
  BY <1>1, <1>3 DEF Takes, Calling!Take, Calling!Next
<1>4. CASE Gives(c)
  BY <1>1, <1>4 DEF Gives, Calling!Give, Calling!Next
<1>5. CASE Finishes(c)
  BY <1>1, <1>5 DEF Finishes, Calling!End, Calling!Next
<1>6. QED
  BY <1>2, <1>3, <1>4, <1>5 DEF MethodMoves

\* What an idle step leaves as it looked.
LEMMA SameKind ==
  ASSUME NEW c, call'[c].kind = call[c].kind
  PROVE  /\ Replies(c)' = Replies(c)
         /\ call'[c].pc = call[c].pc /\ call'[c].sent = call[c].sent
               => CallerState(c)' = CallerState(c) /\ SentCount(c)' = SentCount(c)
<1>1. client_streaming(c)' = client_streaming(c) /\ server_streaming(c)' = server_streaming(c)
  BY DEF client_streaming, server_streaming
<1>2. QED
  BY <1>1 DEF Replies, CallerState, SentCount

LEMMA LeftAlone ==
  ASSUME NEW c, call'[c] = call[c], method'[c] = method[c] PROVE Stands(c)
  BY SameKind DEF Stands, CallerStands, MethodStands, MethodState

\* Of a caller's step, what its method does not see.
LEMMA CallerOnly ==
  ASSUME StreamInv, NEW c \in Calls, method' = method,
         \A d \in Calls \ {c} : call'[d] = call[d],
         call'[c].kind = call[c].kind, CallerMoves(c), SentCount(c)' \in Nat
  PROVE  Calling!Next
<1>1. /\ SentCount(c) \in Nat /\ method[c].responded \in Nat /\ call[c].received \in Nat
  BY Numbers
<1>2. \A d \in Calls \ {c} : Stands(d)
  BY LeftAlone
<1>3. Replies(c)' = Replies(c) /\ MethodStands(c)
  BY SameKind DEF MethodStands, MethodState
<1>4. QED
  BY <1>1, <1>2, <1>3, CallerMoved

\* And of a method's, its caller.
LEMMA MethodOnly ==
  ASSUME NEW c \in Calls, call' = call, \A d \in Calls \ {c} : method'[d] = method[d],
         MethodMoves(c)
  PROVE  Calling!Next
<1>1. \A d \in Calls \ {c} : Stands(d)
  BY LeftAlone
<1>2. Replies(c)' = Replies(c) /\ CallerStands(c)
  BY SameKind DEF CallerStands
<1>3. QED
  BY <1>1, <1>2, MethodMoved

\* The numbers of a call are its own history; nothing has been lost where
\* nothing can be.
CarryInv == StreamInv /\ (Env = {} => OpenInv)

\* A step carries a call further, or does not show.
Carried == (\A d \in Calls : Stands(d)) \/ Calling!Next

LEMMA OpenCarried ==
  ASSUME StreamInv, NEW c \in Calls, Open(c) \/ OpenFails(c) PROVE Calling!Next
<1>1. call \in [Calls -> CallRecords]
  BY StreamShapes
<1>2. call[c].pc = "new" /\ method' = method
  BY DEF Open, OpenFails, ends
<1>3. PICK pc \in {"sending", "receiving", "done", "failed"} :
        /\ \/ call' = [call EXCEPT ![c].id = outbound_transmission_id[Caller(c)], ![c].pc = pc]
           \/ call' = [call EXCEPT ![c].pc = pc]
        /\ \/ pc = "sending" /\ client_streaming(c)
           \/ pc = "receiving" /\ ~client_streaming(c) /\ call[c].kind # "void"
           \/ pc = "done" /\ ~client_streaming(c) /\ call[c].kind = "void"
           \/ pc = "failed" 
  BY DEF Open, OpenFails
<1>4. /\ call'[c].kind = call[c].kind /\ call'[c].pc = pc /\ call'[c].sent = call[c].sent
      /\ call'[c].received = call[c].received
      /\ \A d \in Calls \ {c} : call'[d] = call[d]
  BY <1>1, <1>3 DEF CallRecords
<1>5. client_streaming(c)' = client_streaming(c) /\ call[c].sent \in Nat
  BY <1>4, Numbers DEF client_streaming
<1>6. CallerState(c) = "new"
  BY <1>2 DEF CallerState
<1>7. CASE pc = "sending"
  <2>1. /\ client_streaming(c)
        /\ SentCount(c)' = call[c].sent /\ SentCount(c) = call[c].sent
    BY <1>3, <1>4, <1>5, <1>7 DEF SentCount
  <2>2. CallerState(c)' = "open" /\ Replies(c) # "none"
    BY <1>4, <1>7, <2>1 DEF CallerState, Replies, client_streaming
  <2>3. SentCount(c)' - SentCount(c) = 0
    BY <1>5, <2>1
  <2>4. CallerMoves(c)
    BY <1>4, <1>6, <2>2, <2>3 DEF CallerMoves, Opens
  <2>5. QED
    BY <1>2, <1>4, <1>5, <2>1, <2>4, CallerOnly
<1>8. CASE pc \in {"receiving", "done"}
  <2>1. SentCount(c)' = 1 /\ SentCount(c) = 0
    BY <1>2, <1>3, <1>4, <1>5, <1>8 DEF SentCount
  <2>2. CallerState(c)' = IF Replies(c) = "none" THEN "done" ELSE "open"
    BY <1>3, <1>4, <1>8 DEF CallerState, Replies
  <2>3. CallerMoves(c)
    BY <1>4, <1>6, <2>1, <2>2 DEF CallerMoves, Opens
  <2>4. QED
    BY <1>2, <1>4, <2>1, <2>3, CallerOnly
<1>9. CASE pc = "failed"
  <2>1. SentCount(c)' = SentCount(c) /\ SentCount(c) \in Nat
    BY <1>2, <1>4, <1>5, <1>9 DEF SentCount
  <2>2. CallerState(c)' = "failed"
    BY <1>4, <1>9 DEF CallerState
  <2>3. CallerMoves(c)
    BY <1>4, <1>6, <2>1, <2>2 DEF CallerMoves, Refuses
  <2>4. QED
    BY <1>2, <1>4, <2>1, <2>3, CallerOnly
<1>10. QED
  BY <1>7, <1>8, <1>9

\* A stream of requests; its method has not ended of its own accord.
LEMMA SendCarried ==
  ASSUME CarryInv, NEW c \in Calls, SendRequest(c) \/ SendFails(c) PROVE Carried
<1>1. /\ StreamInv /\ call \in [Calls -> CallRecords] /\ OnceAt(c)
      /\ Caller(c) \in Ends /\ Callee(c) \in Ends
  BY StreamShapes DEF CarryInv
<1>2. call[c].pc = "sending" /\ method' = method
  BY DEF SendRequest, SendFails, ends
<1>3. client_streaming(c) /\ CallerState(c) = "open" /\ SentCount(c) = call[c].sent
  BY <1>1, <1>2 DEF OnceAt, CallerState, SentCount
<1>4. call[c].sent \in Nat
  BY <1>1, Numbers
<1>5. \/ \E pc \in {"sending", "receiving"} :
            /\ call[c].sent < MaxRequests
            /\ call' = [call EXCEPT ![c].sent = @ + 1, ![c].pc = pc]
      \/ call' = [call EXCEPT ![c].sent = @ + 0, ![c].pc = "receiving"]
      \/ ~open[Caller(c)] /\ call' = [call EXCEPT ![c].pc = "failed"]
  <2>1. CASE SendRequest(c)
    <3>1. TypeOK
      BY <1>1, StreamShapes, OrderShapes
    <3>2. PICK end, payload \in BOOLEAN, n \in {0, 1} :
            /\ n = 0 => end /\ ~payload
            /\ n = 1 => call[c].sent < MaxRequests
            /\ call' = [call EXCEPT ![c].sent = @ + n,
                                    ![c].pc = IF end THEN "receiving" ELSE "sending"]
      BY <2>1, <3>1, RequestGiven
    <3>3. QED
      BY <3>2
  <2>2. CASE SendFails(c)
    BY <2>2 DEF SendFails
  <2>3. QED
    BY <2>1, <2>2
<1>6. ASSUME NEW pc \in {"sending", "receiving"},
             call' = [call EXCEPT ![c].sent = @ + 1, ![c].pc = pc]
      PROVE  Carried
  <2>1. /\ call'[c].kind = call[c].kind /\ call'[c].pc = pc
        /\ call'[c].sent = call[c].sent + 1 /\ call'[c].received = call[c].received
        /\ \A d \in Calls \ {c} : call'[d] = call[d]
    BY <1>1, <1>4, <1>6 DEF CallRecords
  <2>2. SentCount(c)' = call[c].sent + 1 /\ CallerState(c)' = CallerState(c)
    BY <1>3, <2>1 DEF SentCount, client_streaming, CallerState
  <2>3. MethodState(c) = "ended" => Env # {}
    <3>1. SUFFICES ASSUME MethodState(c) = "ended", Env = {} PROVE FALSE
      OBVIOUS
    <3>2. method[c].pc = "ended" /\ open[Callee(c)]
      BY <1>1, <3>1 DEF MethodState, CarryInv, OpenInv
    <3>3. QED
      BY <1>1, <1>2, <3>2 DEF OnceAt, EndRead, Sent
  <2>4. CallerMoves(c)
    BY <1>3, <2>1, <2>2, <2>3 DEF CallerMoves, Sends
  <2>5. QED
    BY <1>1, <1>2, <1>4, <2>1, <2>2, <2>4, CallerOnly DEF Carried
<1>7. CASE call' = [call EXCEPT ![c].sent = @ + 0, ![c].pc = "receiving"]
  <2>1. /\ call'[c].kind = call[c].kind /\ call'[c].pc = "receiving"
        /\ call'[c].sent = call[c].sent /\ call'[c].received = call[c].received
        /\ \A d \in Calls \ {c} : call'[d] = call[d]
    BY <1>1, <1>4, <1>7 DEF CallRecords
  <2>2. SentCount(c)' = SentCount(c) /\ CallerState(c)' = CallerState(c)
    BY <1>3, <2>1 DEF SentCount, client_streaming, CallerState
  <2>3. Stands(c)
    BY <1>2, <2>1, <2>2, SameKind DEF Stands, CallerStands, MethodStands, MethodState
  <2>4. QED
    BY <1>2, <2>1, <2>3, LeftAlone DEF Carried
<1>8. CASE ~open[Caller(c)] /\ call' = [call EXCEPT ![c].pc = "failed"]
  <2>1. /\ call'[c].kind = call[c].kind /\ call'[c].pc = "failed"
        /\ call'[c].sent = call[c].sent /\ call'[c].received = call[c].received
        /\ \A d \in Calls \ {c} : call'[d] = call[d]
    BY <1>1, <1>8 DEF CallRecords
  <2>2. SentCount(c)' = SentCount(c) /\ CallerState(c)' = "failed"
    BY <1>3, <2>1 DEF SentCount, client_streaming, CallerState
  <2>3. Env # {}
    BY <1>1, <1>8 DEF CarryInv, OpenInv
  <2>4. CallerMoves(c)
    BY <1>3, <2>1, <2>2, <2>3 DEF CallerMoves, Breaks
  <2>5. QED
    BY <1>1, <1>2, <1>3, <1>4, <2>1, <2>2, <2>4, CallerOnly DEF Carried
<1>9. QED
  BY <1>5, <1>6, <1>7, <1>8

\* A caller takes a response that was given, or has had them all.
LEMMA ReceiveCarried ==
  ASSUME StreamInv, NEW c \in Calls, Receive(c) PROVE Calling!Next
<1> DEFINE q == call[c].queue
           more == Head(q).what = "message" /\ server_streaming(c)
           s == server_streaming(c)
           n == Held(q, s)
           k == Given(c)
           given == method[c].responded
           received == call[c].received
<1>1. /\ OrderInv /\ AnswerAt(c) /\ ResponsesAt(c) /\ Caller(c) \in Ends
      /\ wire[Caller(c)] \in Seq(Messages)
  BY StreamShapes
<1>2. /\ q \in Seq(Items) /\ q # <<>> /\ call[c].pc = "receiving" /\ call[c].kind # "void"
      /\ Head(q).what \in {"message", "end"}
      /\ call'[c].kind = call[c].kind /\ call'[c].sent = call[c].sent
      /\ call'[c].received = IF Head(q).what = "message" \/ ~s THEN received + 1 ELSE received
      /\ call'[c].pc = IF more THEN "receiving" ELSE "done"
      /\ \A d \in Calls \ {c} : call'[d] = call[d]
      /\ method' = method
  BY <1>1, Received_ok
<1>3. /\ Told(c) /\ LastOnly(q, Data, Stop) /\ Whole(c)
  BY <1>1, <1>2 DEF ResponsesAt, Told, AnswerAt
<1>4. /\ n = IF s THEN Count(q, Data) ELSE 1
      /\ Count(q, Data) = Count(Tail(q), Data) + (IF Head(q).what = "message" THEN 1 ELSE 0)
      /\ Count(q, Data) \in Nat /\ Count(Tail(q), Data) \in Nat /\ n \in Nat
      /\ Head(q).what = "end" => Count(Tail(q), Data) = 0
  <2>1. n = IF s THEN Count(q, Data) ELSE 1
    BY <1>2 DEF Held
  <2>2. n \in Nat
    BY <1>1, Numbers
  <2>3. QED
    BY <1>2, <1>3, <2>1, <2>2, TailCounts
<1>5. k \in Nat /\ given \in Nat /\ received \in Nat /\ SentCount(c) \in Nat
  BY <1>1, Numbers
<1>6. k + n + received <= given
  BY <1>3 DEF Told, Answered
<1>7. SentCount(c)' = SentCount(c)
  BY <1>2 DEF SentCount, client_streaming
<1>8. CallerState(c) = "open"
  BY <1>2 DEF CallerState
<1>9. ASSUME CallerMoves(c) PROVE Calling!Next
  BY <1>2, <1>5, <1>7, <1>9, CallerOnly
<1>10. CASE more
  <2>1. call'[c].received = received + 1 /\ CallerState(c)' = CallerState(c)
    BY <1>2, <1>8, <1>10 DEF CallerState
  <2>2. n >= 1
    BY <1>4, <1>10
  <2> HIDE DEF n, k, given, received
  <2>3. received < given
    BY <1>5, <1>6, <1>4, <2>2
  <2>4. CallerMoves(c)
    BY <1>7, <1>8, <2>1, <2>3 DEF CallerMoves, Receives, given, received
  <2>5. QED
    BY <1>9, <2>4
<1>11. CASE ~more
  <2>1. CallerState(c)' = "done"
    BY <1>2, <1>11 DEF CallerState
  <2>2. AnswerRead(c)
    <3>1. CASE ~server_streaming(c)
      BY <1>2, <3>1 DEF AnswerRead
    <3>2. CASE server_streaming(c)
      <4>1. Head(q).what = "end"
        BY <1>2, <1>11, <3>2
      <4>2. HasEnd(q)
        BY <1>2, <4>1, TailItems
      <4>3. QED
        BY <1>2, <4>2 DEF AnswerRead
    <3>3. QED
      BY <3>1, <3>2
  <2>3. Spoken(c) /\ Free(wire[Caller(c)], Responses(c)) /\ Answered(c) = given
    BY <1>3, <2>2 DEF Whole, Told
  <2>4. MethodState(c) # "idle"
    BY <1>1, <2>3 DEF Spoken, AnswerAt, MethodState
  <2>5. Free(wire[Caller(c)], Due(Responses(c), s))
    BY <2>3 DEF Free, Due, Full
  <2>6. k = 0
    BY <1>1, <2>5, CountFacts DEF Given
  <2>7. k + n + received = given
    BY <2>3 DEF Answered
  <2>8. Replies(c) = "one" => ~server_streaming(c)
    BY DEF Replies
  <2>9. ~server_streaming(c) => given <= 1
    BY <1>1 DEF ResponsesAt
  <2>10. n = (IF s THEN 0 ELSE 1) /\ call'[c].received = received + n
    <3> HIDE DEF n, received, q
    <3>1. CASE s
      <4>1. Head(q).what = "end"
        BY <1>2, <1>11, <3>1
      <4>2. n = 0
        BY <1>4, <3>1, <4>1
      <4>3. QED
        BY <1>2, <1>5, <3>1, <4>1, <4>2
    <3>2. CASE ~s
      BY <1>2, <1>4, <3>2
    <3>3. QED
      BY <3>1, <3>2
  <2> HIDE DEF n, k, given, received, s
  <2>11. /\ call'[c].received = given
         /\ given - received \in {0, 1}
    BY <1>5, <2>6, <2>7, <2>10
  <2>12. Replies(c) = "one" => given = 1
    <3>1. Replies(c) = "one" => ~s /\ given <= 1
      BY <2>8, <2>9 DEF s
    <3>2. QED
      BY <1>5, <2>6, <2>7, <2>10, <3>1
  <2>13. CallerMoves(c)
    BY <1>7, <1>8, <2>1, <2>4, <2>11, <2>12 DEF CallerMoves, Returns, given, received
  <2>14. QED
    BY <1>9, <2>13
<1>12. QED
  BY <1>10, <1>11

LEMMA CancelCarried ==
  ASSUME StreamInv, NEW c \in Calls, Cancel(c) PROVE Calling!Next
<1>1. call \in [Calls -> CallRecords] /\ OnceAt(c)
  BY StreamShapes
<1>2. /\ Env # {} /\ call[c].pc \in {"sending", "receiving"} /\ method' = method
      /\ call' = [call EXCEPT ![c].pc = "cancelled", ![c].queue = <<>>]
  BY DEF Cancel, leave, ends
<1>3. /\ call'[c].kind = call[c].kind /\ call'[c].pc = "cancelled"
      /\ call'[c].sent = call[c].sent /\ call'[c].received = call[c].received
      /\ \A d \in Calls \ {c} : call'[d] = call[d]
  BY <1>1, <1>2 DEF CallRecords
<1>4. SentCount(c)' = SentCount(c) /\ SentCount(c) \in Nat
  BY <1>1, <1>2, <1>3, Numbers DEF SentCount, client_streaming, OnceAt
<1>5. CallerState(c) = "open" /\ CallerState(c)' = "failed"
  BY <1>2, <1>3 DEF CallerState
<1>6. CallerMoves(c)
  BY <1>2, <1>3, <1>4, <1>5 DEF CallerMoves, Breaks
<1>7. QED
  BY <1>2, <1>3, <1>4, <1>6, CallerOnly

\* Only where the connection may fail is a method interrupted.
LEMMA CloseCarried ==
  ASSUME StreamInv, Env # {}, NEW e \in Ends, finnal_close(e) PROVE Carried
<1>1. /\ call' = call
      /\ \A d \in Calls :
           \/ method'[d] = method[d]
           \/ /\ Callee(d) = e /\ method[d].pc = "running" /\ method'[d] = Ended(method[d])
              /\ \A f \in Calls \ {d} : method'[f] = method[f]
  BY StreamShapes, Finalised
<1>2. CASE \A d \in Calls : method'[d] = method[d]
  BY <1>1, <1>2, LeftAlone DEF Carried
<1>3. ASSUME NEW d \in Calls, method[d].pc = "running", method'[d] = Ended(method[d]),
             \A f \in Calls \ {d} : method'[f] = method[f]
      PROVE  Calling!Next
  <2>1. /\ method'[d].pc = "ended" /\ method'[d].got = method[d].got
        /\ method'[d].responded = method[d].responded
    BY <1>3 DEF Ended, NoMethod
  <2>2. MethodMoves(d)
    BY <1>3, <2>1 DEF MethodMoves, Finishes, MethodState
  <2>3. QED
    BY <1>1, <1>3, <2>2, MethodOnly
<1>4. QED
  BY <1>1, <1>2, <1>3 DEF Carried

\* Nobody sees the router feed a context, or a method queued.
LEMMA FeedCarried ==
  ASSUME StreamInv, NEW e \in Ends, wire[e] # <<>>, feed(e, Head(wire[e])) PROVE Carried
<1> DEFINE m == Head(wire[e])
           c == m.call
<1>1. /\ OrderInv /\ call \in [Calls -> CallRecords] /\ method \in [Calls -> MethodRecords]
  BY StreamShapes
<1>2. /\ c \in Calls
      /\ \/ call' = [call EXCEPT ![c].queue = @ \o Fed(m)] /\ method' = method
         \/ method' = [method EXCEPT ![c].queue = @ \o Fed(m), ![c].fed = TRUE] /\ call' = call
         \/ /\ method[c].pc = "none" /\ call' = call
            /\ method' = [method EXCEPT ![c] =
                  [NoMethod EXCEPT !.pc = "queued", !.queue = Fed(m), !.fed = TRUE,
                                   !.runs = method[c].runs + 1]]
         \/ call' = call /\ method' = method
  BY <1>1, FeedCases
<1> HIDE DEF m, c
<1>3. RequestsAt(c) /\ ResponsesAt(c)
  BY <1>2, StreamShapes
<1>4. ASSUME NEW d \in Calls
      PROVE  /\ call'[d].kind = call[d].kind /\ call'[d].pc = call[d].pc
             /\ call'[d].sent = call[d].sent /\ call'[d].received = call[d].received
  <2>1. CASE call' = call
    BY <2>1
  <2>2. CASE call' = [call EXCEPT ![c].queue = @ \o Fed(m)]
    BY <1>1, <1>2, <2>2 DEF CallRecords
  <2>3. QED
    BY <1>2, <2>1, <2>2
<1>5. ASSUME NEW d \in Calls PROVE MethodStands(d)
  <2>1. CASE method'[d] = method[d]
    BY <2>1 DEF MethodStands, MethodState
  <2>2. CASE method' = [method EXCEPT ![c].queue = @ \o Fed(m), ![c].fed = TRUE]
    <3>1. /\ method'[d].pc = method[d].pc /\ method'[d].got = method[d].got
          /\ method'[d].responded = method[d].responded
      BY <1>1, <2>2 DEF MethodRecords
    <3>2. QED
      BY <3>1 DEF MethodStands, MethodState
  <2>3. CASE /\ d = c /\ method[c].pc = "none"
             /\ method' = [method EXCEPT ![c] =
                  [NoMethod EXCEPT !.pc = "queued", !.queue = Fed(m), !.fed = TRUE,
                                   !.runs = method[c].runs + 1]]
    <3>1. method'[c].pc = "queued" /\ method'[c].got = 0 /\ method'[c].responded = 0
      BY <1>1, <1>2, <2>3 DEF NoMethod
    <3>2. method[c].got = 0 /\ method[c].responded = 0
      BY <1>3, <2>3 DEF RequestsAt, ResponsesAt
    <3>3. QED
      BY <2>3, <3>1, <3>2 DEF MethodStands, MethodState
  <2>4. QED
    BY <1>1, <1>2, <2>1, <2>2, <2>3
<1>6. \A d \in Calls : Replies(d)' = Replies(d) /\ CallerStands(d)
  BY <1>4, SameKind DEF CallerStands
<1>7. QED
  BY <1>5, <1>6 DEF Carried, Stands

LEMMA StartJobCarried ==
  ASSUME StreamInv, NEW e \in Ends, StartJob(e) PROVE Carried
<1>1. OrderInv /\ method \in [Calls -> MethodRecords]
  BY StreamShapes
<1>2. PICK c \in Calls :
        /\ call' = call
        /\ \/ /\ method[c].pc = "queued" /\ call[c].pc # "new"
              /\ method' = [method EXCEPT ![c].pc = "running"]
           \/ method' = method
  BY <1>1, StartJobCases
<1>3. CASE /\ method[c].pc = "queued" /\ call[c].pc # "new"
           /\ method' = [method EXCEPT ![c].pc = "running"]
  <2>1. /\ method'[c].pc = "running" /\ method'[c].got = method[c].got
        /\ method'[c].responded = method[c].responded
        /\ \A d \in Calls \ {c} : method'[d] = method[d]
    BY <1>1, <1>2, <1>3 DEF MethodRecords
  <2>2. CallerState(c) # "new"
    BY <1>3 DEF CallerState
  <2>3. MethodState(c) = "idle"
    BY <1>3 DEF MethodState
  <2>4. MethodState(c)' = "running"
    BY <2>1 DEF MethodState
  <2>5. MethodMoves(c)
    BY <2>1, <2>2, <2>3, <2>4 DEF MethodMoves, Begins
  <2>6. QED
    BY <1>2, <2>1, <2>5, MethodOnly DEF Carried
<1>4. CASE method' = method
  BY <1>2, <1>4, LeftAlone DEF Carried
<1>5. QED
  BY <1>2, <1>3, <1>4

\* A method reads what was sent, answers a call that waits, and ends when it has
\* read its requests.
LEMMA MethodCarried ==
  ASSUME CarryInv, MethodsReturn, NEW c \in Calls,
         \/ ReadRequest(c) \/ SendResponse(c) \/ Return(c)
         \/ RaiseException(c) \/ ReadFails(c) \/ RaiseBaseEx(c)
  PROVE  Carried
<1> DEFINE q == method[c].queue
           s == client_streaming(c)
           n == Unread(c)
           k == Asked(c)
           got == method[c].got
           sent == SentCount(c)
<1>1. /\ StreamInv /\ OrderInv /\ RequestsAt(c) /\ AnswerAt(c) /\ OnceAt(c)
      /\ Callee(c) \in Ends /\ wire[Callee(c)] \in Seq(Messages)
  BY StreamShapes DEF CarryInv
<1> DEFINE read ==
             /\ ~method[c].read /\ q # <<>>
             /\ method'[c].got = IF Head(q).what = "message" \/ ~s THEN got + 1 ELSE got
             /\ method'[c].pc = method[c].pc
             /\ method'[c].responded = method[c].responded
           respond ==
             /\ call[c].kind # "void" /\ ~method[c].ended
             /\ method'[c].pc = method[c].pc /\ method'[c].got = got
             /\ \E end, payload \in BOOLEAN, n0 \in {0, 1} :
                  /\ ~server_streaming(c) => end /\ n0 = 1 /\ method[c].responded = 0
                  /\ n0 = 0 => end /\ ~payload
                  /\ server_streaming(c) /\ n0 = 1 /\ ~payload => "empty_response" \in Env
                  /\ method'[c].responded = method[c].responded + n0
                  /\ method'[c].ended = end
                  /\ Deliver(Callee(c),
                             <<Message(call[c].id, c, "RESPONSE", end, FALSE, payload)>>)
           return == method[c].read /\ method'[c] = Ended(method[c])
<1>2. /\ method[c].pc = "running" /\ call' = call
      /\ \A d \in Calls \ {c} : method'[d] = method[d]
      /\ read \/ respond \/ return
  BY <1>1, MethodCases
<1>3. MethodState(c) = "running"
  BY <1>2 DEF MethodState
<1>4. k \in Nat /\ n \in Nat /\ got \in Nat /\ sent \in Nat /\ q \in Seq(Items)
  BY <1>1, Numbers
<1>5. /\ k + n + got <= sent
      /\ open[Callee(c)] => k + n + got = sent
  BY <1>1 DEF RequestsAt, Arrived
<1>6. ASSUME MethodMoves(c) PROVE Carried
  BY <1>2, <1>6, MethodOnly DEF Carried
<1>7. CASE read
  <2>1. MethodState(c)' = MethodState(c)
    BY <1>7 DEF MethodState
  <2>2. CASE Head(q).what = "message" \/ ~s
    <3>1. n = Held(q, s)
      BY <1>7 DEF Unread
    <3>2. n >= 1
      <4>1. CASE ~s
        BY <1>7, <3>1, <4>1 DEF Held
      <4>2. CASE s
        <5>1. Count(q, Data) = Count(Tail(q), Data) + 1 /\ Count(Tail(q), Data) \in Nat
          BY <1>1, <1>4, <1>7, <2>2, <4>2, TailCounts DEF RequestsAt
        <5>2. QED
          BY <3>1, <4>2, <5>1 DEF Held
      <4>3. QED
        BY <4>1, <4>2
    <3> HIDE DEF n, k, got, sent
    <3>3. got < sent
      BY <1>4, <1>5, <3>2
    <3>4. MethodMoves(c)
      BY <1>3, <1>7, <2>1, <2>2, <3>3 DEF MethodMoves, Takes, got, sent
    <3>5. QED
      BY <1>6, <3>4
  <2>3. CASE ~(Head(q).what = "message" \/ ~s)
    <3>1. Stands(c)
      BY <1>2, <1>7, <2>1, <2>3, SameKind DEF Stands, CallerStands, MethodStands
    <3>2. QED
      BY <1>2, <3>1, LeftAlone DEF Carried
  <2>4. QED
    BY <2>2, <2>3
<1>8. CASE respond
  <2>1. MethodState(c)' = MethodState(c)
    BY <1>8 DEF MethodState
  <2>2. call[c].pc # "done"
    BY <1>1, <1>2, <1>8 DEF AnswerAt, Whole, AnswerRead, Spoken
  <2>3. CallerState(c) # "done"
    BY <2>2 DEF CallerState
  <2> DEFINE one == /\ server_streaming(c) \/ method[c].responded = 0
                    /\ method'[c].responded = method[c].responded + 1
  <2>4. method'[c].responded = method[c].responded \/ one
    <3>1. PICK n0 \in {0, 1} :
            /\ ~server_streaming(c) => n0 = 1 /\ method[c].responded = 0
            /\ method'[c].responded = method[c].responded + n0
      BY <1>8
    <3>2. method[c].responded \in Nat
      BY <1>1, Numbers
    <3>3. QED
      BY <3>1, <3>2
  <2>5. CASE method'[c].responded = method[c].responded
    <3>1. Stands(c)
      BY <1>2, <1>8, <2>1, <2>5, SameKind DEF Stands, CallerStands, MethodStands
    <3>2. QED
      BY <1>2, <3>1, LeftAlone DEF Carried
  <2>6. CASE one
    <3>1. Replies(c) = "many" \/ (Replies(c) = "one" /\ method[c].responded = 0)
      BY <1>8, <2>6 DEF Replies
    <3>2. MethodMoves(c)
      BY <1>3, <1>8, <2>1, <2>3, <2>6, <3>1 DEF MethodMoves, Gives
    <3>3. QED
      BY <1>6, <3>2
  <2>7. QED
    BY <2>4, <2>5, <2>6
<1>9. CASE return
  <2>1. /\ method'[c].pc = "ended" /\ method'[c].got = got
        /\ method'[c].responded = method[c].responded
    BY <1>9 DEF Ended, NoMethod
  <2>2. MethodState(c)' = "ended"
    BY <2>1 DEF MethodState
  <2>3. got = sent \/ Env # {}
    <3>1. SUFFICES ASSUME Env = {} PROVE got = sent
      OBVIOUS
    <3>2. open[Callee(c)]
      BY <1>1, <3>1 DEF CarryInv, OpenInv
    <3>3. Free(wire[Callee(c)], Requests(c))
      BY <1>1, <1>9, <3>2 DEF OnceAt, EndRead
    <3>4. Free(wire[Callee(c)], Due(Requests(c), s))
      BY <3>3 DEF Free, Due, Full
    <3>5. k = 0
      BY <1>1, <3>4, CountFacts DEF Asked
    <3>6. n = 0
      BY <1>9 DEF Unread
    <3> HIDE DEF n, k, got, sent
    <3>7. QED
      BY <1>4, <1>5, <3>2, <3>5, <3>6
  <2>4. MethodMoves(c)
    BY <1>3, <2>1, <2>2, <2>3 DEF MethodMoves, Finishes
  <2>5. QED
    BY <1>6, <2>4
<1>10. QED
  BY <1>2, <1>7, <1>8, <1>9

LEMMA CarryStep == MethodsReturn /\ NoneEmpty /\ CarryInv /\ [Next]_vars => CarryInv'
<1> SUFFICES ASSUME MethodsReturn, NoneEmpty, CarryInv, [Next]_vars PROVE CarryInv'
  OBVIOUS
<1>1. StreamInv' /\ OrderInv
  BY StreamStep DEF CarryInv, StreamInv
<1>2. Env = {} => OpenInv'
  BY <1>1, OpenStep DEF CarryInv, Orderly, MethodsReturn
<1>3. QED
  BY <1>1, <1>2 DEF CarryInv

LEMMA StepCarried == MethodsReturn /\ NoneEmpty /\ CarryInv /\ [Next]_vars => Carried
<1> SUFFICES ASSUME MethodsReturn, NoneEmpty, CarryInv, [Next]_vars PROVE Carried
  OBVIOUS
<1>1. StreamInv /\ OrderInv /\ \A e \in Ends : Peer(e) \in Ends
  BY StreamShapes DEF CarryInv
<1>2. ASSUME NEW c \in Calls, Open(c) \/ OpenFails(c) \/ Receive(c) \/ Cancel(c) PROVE Carried
  BY <1>1, <1>2, OpenCarried, ReceiveCarried, CancelCarried DEF Carried
<1>3. ASSUME NEW c \in Calls, SendRequest(c) \/ SendFails(c) PROVE Carried
  BY <1>3, SendCarried
<1>4. ASSUME NEW e \in Ends, Cut(e) \/ PeerGone(e) \/ feed_raises(e) PROVE Carried
  <2>1. finnal_close(e)
    BY <1>4 DEF Cut, PeerGone, feed_raises
  <2>2. Env # {}
    <3>1. SUFFICES ASSUME Env = {} PROVE FALSE
      OBVIOUS
    <3>2. Orderly /\ OpenInv
      BY <3>1 DEF CarryInv, Orderly, MethodsReturn
    <3>3. ~feed_raises(e)
      BY <1>1, <3>2, NothingRaises
    <3>4. QED
      BY <1>1, <1>4, <3>1, <3>2, <3>3 DEF Cut, PeerGone, OpenInv
  <2>3. QED
    BY <1>1, <2>1, <2>2, CloseCarried
<1>5. ASSUME NEW e \in Ends, wire[e] # <<>>, feed(e, Head(wire[e])) PROVE Carried
  BY <1>1, <1>5, FeedCarried
<1>6. ASSUME NEW e \in Ends, StartJob(e) PROVE Carried
  BY <1>1, <1>6, StartJobCarried
<1>7. ASSUME NEW c \in Calls, Method(c) \/ RaiseException(c) \/ ReadFails(c) \/ RaiseBaseEx(c)
      PROVE  Carried
  BY <1>7, MethodCarried DEF Method
<1>8. CASE UNCHANGED vars
  BY <1>8, LeftAlone DEF vars, Carried
<1>9. ASSUME NEW c \in Calls, ReceiveFails(c) PROVE Carried
  <2>1. c \in woken[Caller(c)]
    BY <1>9 DEF ReceiveFails
  <2>2. WakeInv
    BY <1>1 DEF OrderInv, OnceInv
  <2>3. QED
    BY <2>1, <2>2 DEF WakeInv, NoneEmpty
<1>10. QED
  BY <1>2, <1>3, <1>4, <1>5, <1>6, <1>7, <1>8, <1>9 DEF Next, feed_messages

LEMMA CarryInit == Init => CarryInv /\ Calling!Init
<1> SUFFICES ASSUME Init PROVE CarryInv /\ Calling!Init
  OBVIOUS
<1>1. CarryInv
  BY StreamInit DEF CarryInv, OpenInv, Init
<1>2. ASSUME NEW c \in Calls
      PROVE  /\ CallerState(c) = "new" /\ MethodState(c) = "idle" /\ SentCount(c) = 0
             /\ method[c].got = 0 /\ method[c].responded = 0 /\ call[c].received = 0
             /\ Replies(c) \in {"none", "one", "many"}
  <2>1. /\ call[c].pc = "new" /\ call[c].sent = 0 /\ call[c].received = 0
        /\ method[c] = NoMethod
    BY DEF Init
  <2>2. /\ method[c].pc = "none" /\ method[c].got = 0 /\ method[c].responded = 0
    BY <2>1 DEF NoMethod
  <2>3. QED
    BY <2>1, <2>2 DEF CallerState, MethodState, SentCount, Replies
<1>3. Calling!Init
  BY <1>2 DEF Calling!Init
<1>4. QED
  BY <1>1, <1>3

\* Whatever is cancelled, lost or cut short, as long as methods return and no
\* message of a stream is empty, a connection carries RemoteCalls: at most one
\* run of a method for each call, started only once it was made; no request read
\* and no response received that was not sent; and no call done without all of
\* its responses.
THEOREM CallsCarried == MethodsReturn /\ NoneEmpty => (Spec => ImplementsRemoteCalls)
<1> SUFFICES ASSUME MethodsReturn, NoneEmpty PROVE Spec => ImplementsRemoteCalls
  OBVIOUS
<1>1. Init => CarryInv /\ Calling!Init
  BY CarryInit
<1>2. CarryInv /\ [Next]_vars => CarryInv'
  BY CarryStep
<1>3. CarryInv /\ [Next]_vars => [Calling!Next]_Calling!vars
  <2>1. SUFFICES ASSUME CarryInv, [Next]_vars PROVE [Calling!Next]_Calling!vars
    OBVIOUS
  <2>2. Carried
    BY <2>1, StepCarried
  <2>3. QED
    BY <2>2, StandsStill DEF Carried
<1>4. QED
  BY <1>1, <1>2, <1>3, PTL DEF Spec, ImplementsRemoteCalls, Calling!Spec
===============================================================================
