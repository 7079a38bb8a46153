------------------------------ MODULE JsMessages ------------------------------
(***************************************************************************)
(* How a message travels: from the object a page gives to a stub, through  *)
(* pb.instantiate, the generated codecs and PBParser.pack of the           *)
(* JavaScript client (plugin/js), to Connection.data_received and          *)
(* Protocol.feed_data of the server, and back to the page.                 *)
(*                                                                         *)
(* A JavaScript value is <<its type, what it holds>>; an object holds its  *)
(* attributes in the order of Object.keys.  A name is the sequence of its  *)
(* words, "uints_list" <<"uints", "list">> and "uintsList" <<"uints",      *)
(* "List">>.  An instance of a generated class is a function from the      *)
(* numbers of the fields it has.  Bytes are counted in units: a field is   *)
(* one unit, with as many more after it as its value needs.                *)
(*                                                                         *)
(* jspb is external, and so are Google's Python library, which writes the  *)
(* same bytes, and the method that answers.                                *)
(***************************************************************************)
EXTENDS Naturals, Sequences, SequencesExt, TLC

CONSTANTS Objects,              \* the objects a page may send
          Instances,            \* the messages a Python peer may send
          LongStrings, Long,    \* the strings that take Long units
          MaxUint16,            \* what setUint16 counts up to
          MAX_PACKET_LENGTH,
          MaxCalls              \* bound: calls made

ASSUME MessagesAssumption ==
    /\ MAX_PACKET_LENGTH \in Nat /\ MaxUint16 \in Nat
    /\ Long \in Nat \ {0} /\ MaxCalls \in Nat
    /\ MAX_PACKET_LENGTH < MaxUint16

VARIABLES
    peer,           \* "page": a websocket, a packet a message; "python": a stream
    object,         \* the page's object, which instantiate changes
    transmissions,  \* ids of the calls whose callback waits
    sent,           \* history: the calls made, in order; ids count them from 0
    wire,           \* packets on their way to the server
    buffer,         \* the server's __read_buffer
    received,       \* the messages that reached the router
    server,         \* "open", or why the connection is over
    served,         \* per message received: what became of it
    inbox,          \* packets on their way to the page
    results         \* per call: what its callback was given

vars == <<peer, object, transmissions, sent, wire, buffer, received, server,
          served, inbox, results>>
-------------------------------------------------------------------------------
(* Objects and names *)

Num(n) == <<"num", n>>
Str(s) == <<"str", s>>
undefined == <<"undefined">>

Has(o, a) == \E i \in DOMAIN o : o[i][1] = a
Get(o, a) == o[CHOOSE i \in DOMAIN o : o[i][1] = a][2]
Del(o, a) == SelectSeq(o, LAMBDA p : p[1] # a)
Keys(o) == [i \in DOMAIN o |-> o[i][1]]
endsWith(a, word) == Len(a) > 1 /\ Last(a) = word

\* The words that follow another in a name, and their capitalised forms.
Capitals == [list |-> "List", map |-> "Map", id |-> "Id", type |-> "Type",
             flags |-> "Flags", method |-> "Method", failed |-> "Failed",
             cancelled |-> "Cancelled"]
Lowers == [c \in {Capitals[w] : w \in DOMAIN Capitals} |->
              CHOOSE w \in DOMAIN Capitals : Capitals[w] = c]

Respelt(name, words) ==
    [i \in DOMAIN name |-> IF i > 1 /\ name[i] \in DOMAIN words THEN words[name[i]] ELSE name[i]]

\* Renaming goes through arrays and objects, the pairs of a map among them.
RECURSIVE Renamed(_, _)
Renamed(v, words) ==
    CASE v[1] = "array" -> <<"array", [i \in DOMAIN v[2] |-> Renamed(v[2][i], words)]>>
      [] v[1] = "pair" -> <<"pair", v[2], Renamed(v[3], words)>>
      [] v[1] \in {"object", "pbmap"} ->
            <<v[1], [i \in DOMAIN v[2] |->
                <<Respelt(v[2][i][1], words), Renamed(v[2][i][2], words)>>]>>
      [] OTHER -> v

camel(v) == Renamed(v, Capitals)
underscore(v) == Renamed(v, Lowers)

\* jspb_instantiate's transform, which renames the arrays and maps of an object.
\* The loop over the entries of a map uses the index of the loop over the
\* attributes, which goes on after as many attributes as the map has entries.
\* Objects inside objects are left as they are.
RECURSIVE transform(_), visit(_, _, _)
transform(v) ==
    CASE v[1] = "array" -> <<"array", [i \in DOMAIN v[2] |-> transform(v[2][i])]>>
      [] v[1] = "pair" -> <<"pair", v[2], transform(v[3])>>
      [] v[1] \in {"object", "pbmap"} -> <<"object", visit(v[2], Keys(v[2]), 1)>>
      [] OTHER -> v
visit(o, attrs, idx) ==
    IF idx > Len(attrs) THEN o
    ELSE LET attr == attrs[idx]
             value == Get(o, attr)
             rest == Del(o, attr)
         IN  CASE Has(o, attr) /\ value[1] = "array" /\ ~endsWith(attr, "list") ->
                    visit(Append(rest, <<attr \o <<"list">>, transform(value)>>), attrs, idx + 1)
               [] Has(o, attr) /\ value[1] = "pbmap" ->
                    visit(Append(rest, <<attr \o <<"map">>,
                              <<"array", [i \in DOMAIN value[2] |->
                                  <<"pair", value[2][i][1], transform(value[2][i][2])>>]>> >>),
                          attrs, Len(value[2]) + 2)
               [] OTHER -> visit(o, attrs, idx + 1)

\* jspb_deserialize's transform, the way back, with the same index.
RECURSIVE untransform(_), unvisit(_, _, _)
untransform(v) ==
    CASE v[1] = "array" -> <<"array", [i \in DOMAIN v[2] |-> untransform(v[2][i])]>>
      [] v[1] = "pair" -> <<"pair", v[2], untransform(v[3])>>
      [] v[1] = "object" -> <<"object", unvisit(v[2], Keys(v[2]), 1)>>
      [] OTHER -> v
unvisit(o, attrs, idx) ==
    IF idx > Len(attrs) THEN o
    ELSE LET attr == attrs[idx]
             value == Get(o, attr)
             rest == Del(o, attr)
         IN  CASE Has(o, attr) /\ endsWith(attr, "list") ->
                    unvisit(Append(rest, <<Front(attr), untransform(value)>>), attrs, idx + 1)
               [] Has(o, attr) /\ endsWith(attr, "map") /\ value[1] = "array" ->
                    unvisit(Append(rest, <<Front(attr),
                                <<"object", [i \in DOMAIN value[2] |->
                                    <<value[2][i][2], untransform(value[2][i][3])>>]>> >>),
                            attrs, Len(value[2]) + 2)
               [] OTHER -> unvisit(o, attrs, idx + 1)
-------------------------------------------------------------------------------
(* The generated classes: a class without messages inside is the sequence of *)
(* its fields, by number.                                                    *)

REQUEST == Num(1)
RESPONSE == Num(2)
END == Num(4)

Context == << <<<<"transmission", "Id">>, "uint32">>, <<<<"packet", "Type">>, "enum">>,
              <<<<"packet", "Flags">>, "enum">>, <<<<"priority">>, "enum">>,
              <<<<"service", "Method">>, "string">>, <<<<"is", "Cancelled">>, "bool">>,
              <<<<"is", "Failed">>, "bool">> >>
ErrorMessage == << <<<<"code">>, "string">>, <<<<"message">>, "string">>, <<<<"data">>, "string">> >>
Message == << <<<<"message">>, "string">> >>

Default == [uint32 |-> Num(0), enum |-> Num(0), string |-> Str(""), bool |-> <<"bool", FALSE>>]

get(class, m, f) == IF f \in DOMAIN m THEN m[f] ELSE Default[class[f][2]]

\* A field that is set to its default is as good as absent.
set(class, m, f, v) ==
    LET rest == [g \in DOMAIN m \ {f} |-> m[g]]
    IN  IF v = Default[class[f][2]] THEN rest ELSE (f :> v) @@ rest

toObject(class, m) ==
    <<"object", [f \in DOMAIN class |-> <<class[f][1], get(class, m, f)>>]>>

\* fromObject takes what it is given, of whatever type.
fromObject(class, o) ==
    [f \in {g \in DOMAIN class : Has(o[2], class[g][1])} |-> Get(o[2], class[f][1])]

Unit(f, v, size) == <<<<"field", f, v, size>>>> \o [i \in 1 .. size - 1 |-> <<"more">>]
SizeOf(v) == IF v[1] = "str" /\ v[2] \in LongStrings THEN Long ELSE 1

\* Whether serializeBinaryToWriter writes a field: for a string, whether it has
\* a length, which a number does not.
Written(type, v) ==
    CASE type = "string" -> v[1] = "str" /\ v[2] # ""
      [] type = "bool" -> v[2]
      [] OTHER -> v # Num(0)

serializeBinaryToWriter(class, m) ==
    FlattenSeq([f \in DOMAIN class |->
        LET v == get(class, m, f)
        IN  IF Written(class[f][2], v) THEN Unit(f, v, SizeOf(v)) ELSE <<>>])

Fields(bytes) == SelectSeq(bytes, LAMBDA u : u[1] = "field")

\* Fields with unknown numbers are skipped.
deserializeBinaryFromReader(class, bytes) ==
    FoldLeft(LAMBDA m, u : IF u[2] \in DOMAIN class THEN set(class, m, u[2], u[3]) ELSE m,
             <<>>, Fields(bytes))

\* ComplicatedMessage: message 1, uints 2, messages 3 (pairs of key and Message)
\* and count 4.
ComplicatedMessage == << <<<<"message">>, "message">>, <<<<"uints", "List">>, "repeated">>,
                               <<<<"messages", "Map">>, "map">>, <<<<"count">>, "uint32">> >>

ComplicatedMessage_toObject(m) ==
    <<"object", <<
        <<<<"message">>, IF 1 \in DOMAIN m THEN toObject(Message, m[1]) ELSE undefined>>,
        <<<<"uints", "List">>, IF 2 \in DOMAIN m THEN m[2] ELSE <<"array", <<>>>> >>,
        <<<<"messages", "Map">>,
          <<"array", IF 3 \notin DOMAIN m THEN <<>>
                     ELSE [i \in DOMAIN m[3] |->
                              <<"pair", m[3][i][1], toObject(Message, m[3][i][2])>>]>> >>,
        <<<<"count">>, get(ComplicatedMessage, m, 4)>> >> >>

\* The attributes that are there, each in the form its field has.
ComplicatedMessage_fromObject(o) ==
    LET given == fromObject(ComplicatedMessage, o)
    IN  [f \in DOMAIN given |->
            CASE f = 1 -> fromObject(Message, given[f])
              [] f = 3 -> [i \in DOMAIN given[f][2] |->
                              <<given[f][2][i][2], fromObject(Message, given[f][2][i][3])>>]
              [] OTHER -> given[f]]

\* A message inside takes a unit for its length.
Nested(f, key, m) ==
    LET bytes == serializeBinaryToWriter(Message, m)
    IN  Unit(f, <<key, bytes>>, 1 + Len(bytes))

\* An empty Message is written, an empty list, an empty map and 0 are not.
ComplicatedMessage_serialize(m) ==
    (IF 1 \in DOMAIN m THEN Nested(1, "", m[1]) ELSE <<>>)
    \o (IF 2 \in DOMAIN m /\ m[2][2] # <<>> THEN Unit(2, m[2], Len(m[2][2])) ELSE <<>>)
    \o (IF 3 \in DOMAIN m THEN FlattenSeq([i \in DOMAIN m[3] |-> Nested(3, m[3][i][1], m[3][i][2])])
        ELSE <<>>)
    \o (IF get(ComplicatedMessage, m, 4) # Num(0) THEN Unit(4, m[4], 1) ELSE <<>>)

\* Mutant: an entry takes the place of the map.
ComplicatedMessage_add_replacing(m, u) ==
    LET value == deserializeBinaryFromReader(Message, u[3][2])
    IN  CASE u[2] = 1 -> (1 :> value) @@ m
          [] u[2] = 2 -> (2 :> u[3]) @@ m
          [] u[2] = 3 -> (3 :> <<<<u[3][1], value>>>>) @@ m
          [] u[2] = 4 -> set(ComplicatedMessage, m, 4, u[3])
          [] OTHER -> m

ComplicatedMessage_add(m, u) ==
    LET value == deserializeBinaryFromReader(Message, u[3][2])
    IN  CASE u[2] = 1 -> (1 :> value) @@ m
          [] u[2] = 2 -> (2 :> u[3]) @@ m
          [] u[2] = 3 -> (3 :> Append(IF 3 \in DOMAIN m THEN m[3] ELSE <<>>, <<u[3][1], value>>)) @@ m
          [] u[2] = 4 -> set(ComplicatedMessage, m, 4, u[3])
          [] OTHER -> m

ComplicatedMessage_deserialize(bytes) ==
    FoldLeft(ComplicatedMessage_add, <<>>, Fields(bytes))
-------------------------------------------------------------------------------
(* Packets *)

\* jspb_instantiate and jspb_deserialize for the classes without messages
\* inside, and for ComplicatedMessage.
instantiate(class, o) == fromObject(class, camel(transform(o)))
deserialize(class, bytes) ==
    untransform(underscore(toObject(class, deserializeBinaryFromReader(class, bytes))))
request(o) == ComplicatedMessage_serialize(ComplicatedMessage_fromObject(camel(o)))
response(bytes) ==
    untransform(underscore(ComplicatedMessage_toObject(ComplicatedMessage_deserialize(bytes))))

\* The two sizes are taken modulo MaxUint16 + 1.
pack(context, content) ==
    <<<<"size", Len(context) % (MaxUint16 + 1)>>, <<"size", Len(content) % (MaxUint16 + 1)>>>>
    \o context \o content

unpack(ab) ==
    LET ctxLimit == 2 + ab[1][2]
    IN  [context |-> deserialize(Context, SubSeq(ab, 3, ctxLimit)),
         content |-> SubSeq(ab, ctxLimit + 1, ctxLimit + ab[2][2])]

\* Protocol.decode of the server: nothing yet, a message, or an error.  What is
\* read as sizes must be sizes; where packets are cut wrongly it is not.
decode(data) ==
    IF Len(data) < 2 THEN [found |-> "none"]
    ELSE IF data[1][1] # "size" \/ data[2][1] # "size" THEN [found |-> "garbled"]
    ELSE LET meta == data[1][2]
             payload == data[2][2]
         IN  IF 2 + meta + payload > Len(data) THEN [found |-> "none"]
             ELSE IF payload > MAX_PACKET_LENGTH THEN [found |-> "PacketTooLarge"]
             ELSE [found |-> "message", used |-> 2 + meta + payload,
                   context |-> SubSeq(data, 3, 2 + meta),
                   content |-> SubSeq(data, 3 + meta, 2 + meta + payload)]

\* Mutant: one message is taken from what has arrived, and the rest dropped.
feed_data_once(data) ==
    LET d == decode(data)
    IN  IF d.found # "message" THEN [found |-> d.found, used |-> 0, messages |-> <<>>]
        ELSE [found |-> "none", used |-> Len(data),
              messages |-> <<[context |-> d.context, content |-> d.content]>>]

\* All messages at the front of the data; an error loses those before it.
RECURSIVE feed_data(_)
feed_data(data) ==
    LET d == decode(data)
    IN  IF d.found # "message" THEN [found |-> d.found, used |-> 0, messages |-> <<>>]
        ELSE LET more == feed_data(SubSeq(data, d.used + 1, Len(data)))
             IN  [found |-> more.found, used |-> d.used + more.used,
                  messages |-> <<[context |-> d.context, content |-> d.content]>> \o more.messages]

\* A message whose fields are cut off does not parse.
Whole(bytes) ==
    \A i \in DOMAIN bytes : bytes[i][1] = "field" =>
        \A k \in 1 .. bytes[i][4] - 1 : i + k \in DOMAIN bytes /\ bytes[i + k][1] = "more"
-------------------------------------------------------------------------------
(* The page *)

Init ==
    /\ peer \in {"page", "python"}
    /\ object \in Objects
    /\ transmissions = {} /\ sent = <<>>
    /\ wire = <<>> /\ buffer = <<>> /\ received = <<>>
    /\ server = "open" /\ served = <<>>
    /\ inbox = <<>> /\ results = <<>>

Metadata(tid) ==
    serializeBinaryToWriter(Context, instantiate(Context, <<"object", <<
        <<<<"service", "method">>, Str("Test")>>, <<<<"packet", "type">>, REQUEST>>,
        <<<<"transmission", "id">>, Num(tid)>> >> >>))

Sent(o, context, content) ==
    /\ sent' = Append(sent, [object |-> o, context |-> context, content |-> content])
    /\ wire' = Append(wire, pack(context, content))
    /\ UNCHANGED <<peer, buffer, received, server, served, inbox, results>>

\* stub.Test(object): instantiate leaves the object changed, for the next call.
Call ==
    /\ peer = "page" /\ server # "closed" /\ Len(sent) < MaxCalls
    /\ LET tid == Len(sent)
       IN  /\ object' = transform(object)
           /\ Sent(object, Metadata(tid), request(object'))
           /\ transmissions' = transmissions \cup {tid}

\* send_message of a Python peer, on a stream; struct.pack refuses large sizes.
PythonCall(m) ==
    LET context == Metadata(2 * Len(sent) + 1)
        content == ComplicatedMessage_serialize(m)
    IN  /\ peer = "python" /\ server = "open" /\ Len(sent) < MaxCalls
        /\ Len(content) <= MaxUint16
        /\ Sent(undefined, context, content)
        /\ UNCHANGED <<object, transmissions>>

Result(kind, value) == [kind |-> kind, value |-> value]
reason == "conn closed"

\* cleanup(): the callbacks get an ErrorMessage that was packed and unpacked.
\* Its code is a number, in a field for strings.
Closed ==
    /\ peer = "page" /\ server # "closed"
    /\ LET err == <<"object", << <<<<"code">>, Num(400)>>, <<<<"message">>, Str(reason)>> >> >>
           resp == serializeBinaryToWriter(ErrorMessage, instantiate(ErrorMessage, err))
       IN  results' = [tid \in transmissions |->
                          Result("error", deserialize(ErrorMessage, resp))] @@ results
    /\ transmissions' = {} /\ server' = "closed"
    /\ wire' = <<>> /\ inbox' = <<>>
    /\ UNCHANGED <<peer, object, sent, buffer, received, served>>

\* Mutant: no callback for id 0, which is falsy.
waits_truthy(tid) == tid # 0 /\ tid \in transmissions

waits(tid) == tid \in transmissions

\* onmessage: a response is for the callback of its id; the rest is for the
\* listener, which knows no method of that name.
onmessage ==
    /\ inbox # <<>> /\ inbox' = Tail(inbox)
    /\ LET packet == unpack(Head(inbox))
           context == packet.context[2]
           tid == Get(context, <<"transmission", "id">>)[2]
           found == Get(context, <<"packet", "type">>) = RESPONSE /\ waits(tid)
       IN  /\ transmissions' = IF found THEN transmissions \ {tid} ELSE transmissions
           /\ results' = IF found THEN (tid :> Result("content", response(packet.content))) @@ results
                         ELSE results
    /\ UNCHANGED <<peer, object, sent, wire, buffer, received, server, served>>
-------------------------------------------------------------------------------
(* The server *)

\* data_received: a websocket gives it the content of one message at a time, a
\* stream any number of bytes.  If feed_data() raises, no message of the read is
\* fed; if one does not parse, those before it are.
data_received ==
    /\ server = "open" /\ wire # <<>>
    /\ LET bytes == FlattenSeq(wire)
       IN  \E n \in IF peer = "page" THEN {Len(Head(wire))} ELSE 1 .. Len(bytes) :
              LET data == buffer \o SubSeq(bytes, 1, n)
                  feed == feed_data(data)
                  bad == SelectInSeq(feed.messages, LAMBDA m : ~Whole(m.content))
                  raises == feed.found \in {"PacketTooLarge", "garbled"}
              IN  /\ wire' = IF peer = "page" THEN Tail(wire)
                             ELSE IF n = Len(bytes) THEN <<>>
                             ELSE <<SubSeq(bytes, n + 1, Len(bytes))>>
                  /\ server' = IF raises THEN feed.found ELSE IF bad # 0 THEN "garbled" ELSE server
                  /\ received' = IF raises THEN received
                                 ELSE IF bad # 0 THEN received \o SubSeq(feed.messages, 1, bad - 1)
                                 ELSE received \o feed.messages
                  /\ buffer' = IF raises THEN data ELSE SubSeq(data, feed.used + 1, Len(data))
    /\ UNCHANGED <<peer, object, transmissions, sent, served, inbox, results>>

\* What the server says of a call: the library elides defaults as jspb does.
Answer(tid, type, failed) ==
    serializeBinaryToWriter(Context,
        (1 :> Num(tid)) @@ (2 :> type) @@ (3 :> END) @@ (7 :> <<"bool", failed>>))

\* The method sends back what it got, to which a newer version may have added a
\* field, or fails, of which pymaid tells without a packet_type.  A request
\* without content never reaches the method.
Serve(i) ==
    /\ peer = "page" /\ server = "open"
    /\ i \in DOMAIN received /\ i \notin DOMAIN served
    /\ LET m == received[i]
           tid == get(Context, deserializeBinaryFromReader(Context, m.context), 1)[2]
       IN  \/ /\ m.content = <<>>
              /\ served' = (i :> "silent") @@ served
              /\ UNCHANGED inbox
           \/ /\ m.content # <<>>
              /\ served' = (i :> "answered") @@ served
              /\ \E added \in {<<>>, Unit(9, Num(1), 1)} :
                    inbox' = Append(inbox, pack(Answer(tid, RESPONSE, FALSE), m.content \o added))
           \/ /\ m.content # <<>>
              /\ served' = (i :> "failed") @@ served
              /\ inbox' = Append(inbox, pack(Answer(tid, Num(0), TRUE),
                              serializeBinaryToWriter(ErrorMessage, (1 :> Str("Error")))))
    /\ UNCHANGED <<peer, object, transmissions, sent, wire, buffer, received, server, results>>

Next ==
    \/ Call \/ Closed \/ onmessage \/ data_received
    \/ \E m \in Instances : PythonCall(m)
    \/ \E i \in 1 .. MaxCalls : Serve(i)

Spec == Init /\ [][Next]_vars
-------------------------------------------------------------------------------
(* Properties *)

\* An object as pages write them that instantiate carries over completely: it
\* is not one whose map was sent before, and no array or map is among the
\* attributes that are skipped after a map (pymaid.js:71).
Intact(o) ==
    /\ \A i \in DOMAIN o : ~endsWith(o[i][1], "map")
    /\ \A i, j \in DOMAIN o :
          o[i][2][1] = "pbmap" /\ i < j /\ j <= Len(o[i][2][2]) + 1
              => o[j][2][1] \notin {"array", "pbmap"}

\* What a page means by an attribute of an object.
Filled(v) == <<"object", << <<<<"message">>, IF Has(v[2], <<"message">>)
                                             THEN Get(v[2], <<"message">>) ELSE Str("")>> >> >>
Meant(o, a) ==
    LET value == Get(o, a)
    IN  CASE a = <<"message">> -> IF Has(o, a) THEN Filled(value) ELSE undefined
          [] a = <<"count">> -> IF Has(o, a) THEN value ELSE Num(0)
          [] a = <<"uints">> -> IF Has(o, a) THEN value
                                ELSE IF Has(o, a \o <<"list">>) THEN Get(o, a \o <<"list">>)
                                ELSE <<"array", <<>>>>
          [] OTHER -> <<"object", IF ~Has(o, a) THEN <<>>
                                  ELSE [i \in DOMAIN value[2] |->
                                           <<value[2][i][1], Filled(value[2][i][2])>>]>>

\* What the callback is given for a request that was echoed is what the page
\* asked with: each attribute survives instantiate, two codecs, two sets of
\* packets and the way back, whichever call it was and if the server knows more
\* fields (pymaid.js:55-122, the generated code).
RoundTrip ==
    \A tid \in DOMAIN results :
        LET o == sent[tid + 1].object[2]
            r == results[tid].value[2]
        IN  results[tid].kind = "content" /\ Intact(o) =>
                \A a \in {<<"message">>, <<"uints">>, <<"messages">>, <<"count">>} :
                    Has(r, a) /\ Get(r, a) = Meant(o, a)

\* As long as every message is within the limit, what reaches the router is what
\* was sent, in order and unaltered, however the stream is cut; and when nothing
\* is on its way and the connection is up, it is all of it (data_received,
\* feed_data, pack).
Fits == \A i \in DOMAIN sent : Len(sent[i].content) <= MAX_PACKET_LENGTH
Framed(s) == [i \in DOMAIN s |-> [context |-> s[i].context, content |-> s[i].content]]
FramesExact ==
    Fits => /\ server \in {"open", "closed"}
            /\ IsPrefix(received, Framed(sent))
            /\ server = "open" /\ wire = <<>> => received = Framed(sent) /\ buffer = <<>>

\* When everything that fits has been received, served and read, a callback only
\* waits for a call that failed or that had no content; what was answered has
\* found its callback, the first call's id being 0, which no packet carries
\* (onmessage, cleanup).  An error gives the reason.
NothingLost ==
    /\ \A i \in DOMAIN served :
          /\ inbox = <<>> /\ served[i] = "answered" => i - 1 \in DOMAIN results
          /\ served[i] = "silent" => sent[i].content = <<>>
    /\ \A tid \in DOMAIN results :
          results[tid].kind = "error" =>
              Get(results[tid].value[2], <<"message">>) = Str(reason)
===============================================================================
