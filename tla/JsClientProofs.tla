---------------------------- MODULE JsClientProofs ----------------------------
(***************************************************************************)
(* Proofs about JsClient, for any calls, addresses, number of connections  *)
(* and events: a callback is told at most once and only with its own       *)
(* answer, what waits is told when its connection closes, an open channel  *)
(* has usable stubs, and a closed connection takes no call.                *)
(***************************************************************************)
EXTENDS JsClient, TLAPS

Entries == [id : Nat, call : Calls]
Packets == [type : {"RESPONSE", "UNKNOWN", "REQUEST"}, id : Nat, call : Calls \cup {None}]
Sockets == [ws : {"none", "CONNECTING", "OPEN", "CLOSING", "CLOSED"},
            address : Addresses \cup {None},
            is_closed : {"undefined", "no", "yes"},
            transmissionId : Nat,
            transmissions : SUBSET Entries]
CallStates == [pc : PCs, conn : Conns \cup {None}, answers : 0 .. 2, of : Calls \cup {None}]
Heaps == [conn : [Conns -> Sockets], requests : [Conns -> SUBSET Entries],
          replies : [Conns -> Seq(Packets)], call : [Calls -> CallStates]]

Table(h, c) == h.conn[c].transmissions

\* Ids are counted up on each connection, none is given out twice.  A request
\* and a response that have the id of a pending callback are of the same call.
OwnAt(h, c) ==
    /\ \A e \in Table(h, c) :
          /\ e.id < h.conn[c].transmissionId
          /\ \A f \in Table(h, c) : f.id = e.id => f = e
    /\ \A e \in h.requests[c] : e.call \notin Voids =>
          /\ e.id < h.conn[c].transmissionId
          /\ \A f \in Table(h, c) : f.id = e.id => f.call = e.call
    /\ \A i \in 1 .. Len(h.replies[c]) : h.replies[c][i].type = "RESPONSE" =>
          /\ h.replies[c][i].id < h.conn[c].transmissionId
          /\ \A f \in Table(h, c) : f.id = h.replies[c][i].id => f.call = h.replies[c][i].call

\* An entry is there for a call that waits for it, unless its callback is in T,
\* the ones that have thrown.  A call has one entry.
PendingAt(h, T, c) ==
    \A e \in Table(h, c) :
        /\ h.call[e.call].pc # "new"
        /\ e.call \notin T => h.call[e.call].pc = "waiting" /\ h.call[e.call].conn = c
        /\ \A f \in Table(h, c) : f.call = e.call => f = e

\* What a callback was given, and that what waits has its entry.
ToldAt(h, T, x) ==
    /\ h.call[x].of \in {None, x}
    /\ x \notin T => h.call[x].answers <= (IF h.call[x].pc = "returned" THEN 1 ELSE 0)
    /\ h.call[x].pc = "waiting" =>
          /\ h.call[x].conn \in Conns
          /\ \E e \in Table(h, h.call[x].conn) : e.call = x

Own(h) == \A c \in Conns : OwnAt(h, c)
Pending(h, T) == \A c \in Conns : PendingAt(h, T, c)
Told(h, T) == \A x \in Calls : ToldAt(h, T, x)

\* Nothing is there for a connection that was not made.
Unmade(h) ==
    \A c \in Conns : h.conn[c].ws = "none" =>
        Table(h, c) = {} /\ h.requests[c] = {} /\ h.replies[c] = <<>>

HeapInv(h, T) == h \in Heaps /\ Own(h) /\ Pending(h, T) /\ Told(h, T) /\ Unmade(h)

\* What no function of the heap does to a connection: it does not change whether
\* it is closed or whether it was made, and gives a closed one no entries.
Kept(h, g) ==
    \A c \in Conns :
        /\ g.conn[c].is_closed = h.conn[c].is_closed
        /\ (g.conn[c].ws = "none") = (h.conn[c].ws = "none")
        /\ h.conn[c].is_closed = "yes" => Table(g, c) \subseteq Table(h, c)

\* What two functions keep, one after the other.
LEMMA KeptTrans ==
  ASSUME NEW f, NEW g, NEW h, Kept(f, g), Kept(g, h) PROVE Kept(f, h)
  BY DEF Kept

-------------------------------------------------------------------------------
(* Changing one part of a heap *)

WithCall(h, x, k) == [h EXCEPT !.call[x] = k]

\* A call is replaced.
LEMMA SetCall ==
  ASSUME NEW h \in Heaps, NEW x \in Calls, NEW k \in CallStates,
         NEW g, g = WithCall(h, x, k)
  PROVE  /\ g \in Heaps
         /\ g.call[x] = k /\ \A y \in Calls \ {x} : g.call[y] = h.call[y]
         /\ g.conn = h.conn /\ g.requests = h.requests /\ g.replies = h.replies
  BY DEF Heaps, WithCall

WithConn(h, c, k) == [h EXCEPT !.conn[c] = k]

\* A connection is replaced.
LEMMA SetConn ==
  ASSUME NEW h \in Heaps, NEW c \in Conns, NEW k \in Sockets,
         NEW g, g = WithConn(h, c, k)
  PROVE  /\ g \in Heaps
         /\ g.conn[c] = k /\ \A d \in Conns \ {c} : g.conn[d] = h.conn[d]
         /\ g.call = h.call /\ g.requests = h.requests /\ g.replies = h.replies
  BY DEF Heaps, WithConn

WithRequests(h, c, k) == [h EXCEPT !.requests[c] = k]

\* The requests of a connection are replaced.
LEMMA SetRequests ==
  ASSUME NEW h \in Heaps, NEW c \in Conns, NEW k \in SUBSET Entries,
         NEW g, g = WithRequests(h, c, k)
  PROVE  /\ g \in Heaps
         /\ g.requests[c] = k /\ \A d \in Conns \ {c} : g.requests[d] = h.requests[d]
         /\ g.call = h.call /\ g.conn = h.conn /\ g.replies = h.replies
  BY DEF Heaps, WithRequests

WithReplies(h, c, k) == [h EXCEPT !.replies[c] = k]

\* The packets on their way to a connection are replaced.
LEMMA SetReplies ==
  ASSUME NEW h \in Heaps, NEW c \in Conns, NEW k \in Seq(Packets),
         NEW g, g = WithReplies(h, c, k)
  PROVE  /\ g \in Heaps
         /\ g.replies[c] = k /\ \A d \in Conns \ {c} : g.replies[d] = h.replies[d]
         /\ g.call = h.call /\ g.conn = h.conn /\ g.requests = h.requests
  BY DEF Heaps, WithReplies

WithPc(h, x, v) == [h EXCEPT !.call[x].pc = v]

\* A call gets to another place.
LEMMA SetPc ==
  ASSUME NEW h \in Heaps, NEW x \in Calls, NEW v \in PCs,
         NEW g, g = WithPc(h, x, v)
  PROVE  /\ g \in Heaps
         /\ g.call[x].pc = v /\ g.call[x].conn = h.call[x].conn
         /\ g.call[x].answers = h.call[x].answers /\ g.call[x].of = h.call[x].of
         /\ \A y \in Calls \ {x} : g.call[y] = h.call[y]
         /\ g.conn = h.conn /\ g.requests = h.requests /\ g.replies = h.replies
<1> DEFINE k == [h.call[x] EXCEPT !.pc = v]
<1>1. h.call[x] \in CallStates
  BY DEF Heaps
<1>2. /\ k \in CallStates
      /\ k.pc = v /\ k.conn = h.call[x].conn
      /\ k.answers = h.call[x].answers /\ k.of = h.call[x].of
  BY <1>1 DEF CallStates
<1>3. g = WithCall(h, x, k)
  BY DEF WithPc, WithCall
<1> HIDE DEF k
<1>4. /\ g \in Heaps
      /\ g.call[x] = k /\ \A y \in Calls \ {x} : g.call[y] = h.call[y]
      /\ g.conn = h.conn /\ g.requests = h.requests /\ g.replies = h.replies
  BY <1>2, <1>3, SetCall
<1> QED
  BY <1>2, <1>4

WithTable(h, c, k) == [h EXCEPT !.conn[c].transmissions = k]

\* The table of a connection is replaced.
LEMMA SetTable ==
  ASSUME NEW h \in Heaps, NEW c \in Conns, NEW k \in SUBSET Entries,
         NEW g, g = WithTable(h, c, k)
  PROVE  /\ g \in Heaps
         /\ Table(g, c) = k
         /\ g.conn[c].ws = h.conn[c].ws /\ g.conn[c].is_closed = h.conn[c].is_closed
         /\ g.conn[c].transmissionId = h.conn[c].transmissionId
         /\ \A d \in Conns \ {c} : g.conn[d] = h.conn[d]
         /\ g.call = h.call /\ g.requests = h.requests /\ g.replies = h.replies
<1> DEFINE t == [h.conn[c] EXCEPT !.transmissions = k]
<1>1. h.conn[c] \in Sockets
  BY DEF Heaps
<1>2. /\ t \in Sockets /\ t.transmissions = k
      /\ t.ws = h.conn[c].ws /\ t.is_closed = h.conn[c].is_closed
      /\ t.transmissionId = h.conn[c].transmissionId
  BY <1>1 DEF Sockets
<1>3. g = WithConn(h, c, t)
  BY DEF WithTable, WithConn
<1> HIDE DEF t
<1>4. /\ g \in Heaps
      /\ g.conn[c] = t /\ \A d \in Conns \ {c} : g.conn[d] = h.conn[d]
      /\ g.call = h.call /\ g.requests = h.requests /\ g.replies = h.replies
  BY <1>2, <1>3, SetConn
<1> QED
  BY <1>2, <1>4 DEF Table

WithId(h, c, k) == [h EXCEPT !.conn[c].transmissionId = k]

\* The next id of a connection is set.
LEMMA SetId ==
  ASSUME NEW h \in Heaps, NEW c \in Conns, NEW k \in Nat,
         NEW g, g = WithId(h, c, k)
  PROVE  /\ g \in Heaps
         /\ g.conn[c].transmissionId = k
         /\ g.conn[c].ws = h.conn[c].ws /\ g.conn[c].is_closed = h.conn[c].is_closed
         /\ Table(g, c) = Table(h, c)
         /\ \A d \in Conns \ {c} : g.conn[d] = h.conn[d]
         /\ g.call = h.call /\ g.requests = h.requests /\ g.replies = h.replies
<1> DEFINE t == [h.conn[c] EXCEPT !.transmissionId = k]
<1>1. h.conn[c] \in Sockets
  BY DEF Heaps
<1>2. /\ t \in Sockets /\ t.transmissions = Table(h, c)
      /\ t.ws = h.conn[c].ws /\ t.is_closed = h.conn[c].is_closed
      /\ t.transmissionId = k
  BY <1>1 DEF Sockets, Table
<1>3. g = WithConn(h, c, t)
  BY DEF WithId, WithConn
<1> HIDE DEF t
<1>4. /\ g \in Heaps
      /\ g.conn[c] = t /\ \A d \in Conns \ {c} : g.conn[d] = h.conn[d]
      /\ g.call = h.call /\ g.requests = h.requests /\ g.replies = h.replies
  BY <1>2, <1>3, SetConn
<1> QED
  BY <1>2, <1>4 DEF Table

\* The states of a socket that was made, and the flag of one that was open.
SocketStates == {"CONNECTING", "OPEN", "CLOSING", "CLOSED"}
Flags == {"no", "yes"}

WithWs(h, c, k) == [h EXCEPT !.conn[c].ws = k]

\* The state of a socket is set.
LEMMA SetWs ==
  ASSUME NEW h \in Heaps, NEW c \in Conns, NEW k \in SocketStates,
         NEW g, g = WithWs(h, c, k)
  PROVE  /\ g \in Heaps
         /\ g.conn[c].ws = k
         /\ g.conn[c].is_closed = h.conn[c].is_closed
         /\ g.conn[c].transmissionId = h.conn[c].transmissionId
         /\ Table(g, c) = Table(h, c)
         /\ \A d \in Conns \ {c} : g.conn[d] = h.conn[d]
         /\ g.call = h.call /\ g.requests = h.requests /\ g.replies = h.replies
<1> DEFINE t == [h.conn[c] EXCEPT !.ws = k]
<1>1. h.conn[c] \in Sockets
  BY DEF Heaps
<1>2. /\ t \in Sockets /\ t.transmissions = Table(h, c) /\ t.ws = k
      /\ t.is_closed = h.conn[c].is_closed /\ t.transmissionId = h.conn[c].transmissionId
  BY <1>1 DEF Sockets, SocketStates, Table
<1>3. g = WithConn(h, c, t)
  BY DEF WithWs, WithConn
<1> HIDE DEF t
<1>4. /\ g \in Heaps
      /\ g.conn[c] = t /\ \A d \in Conns \ {c} : g.conn[d] = h.conn[d]
      /\ g.call = h.call /\ g.requests = h.requests /\ g.replies = h.replies
  BY <1>2, <1>3, SetConn
<1> QED
  BY <1>2, <1>4 DEF Table

WithClosed(h, c, k) == [h EXCEPT !.conn[c].is_closed = k]

\* The flag of a connection is set.
LEMMA SetClosed ==
  ASSUME NEW h \in Heaps, NEW c \in Conns, NEW k \in Flags,
         NEW g, g = WithClosed(h, c, k)
  PROVE  /\ g \in Heaps
         /\ g.conn[c].is_closed = k
         /\ g.conn[c].ws = h.conn[c].ws /\ g.conn[c].transmissionId = h.conn[c].transmissionId
         /\ Table(g, c) = Table(h, c)
         /\ \A d \in Conns \ {c} : g.conn[d] = h.conn[d]
         /\ g.call = h.call /\ g.requests = h.requests /\ g.replies = h.replies
<1> DEFINE t == [h.conn[c] EXCEPT !.is_closed = k]
<1>1. h.conn[c] \in Sockets
  BY DEF Heaps
<1>2. /\ t \in Sockets /\ t.transmissions = Table(h, c) /\ t.is_closed = k
      /\ t.ws = h.conn[c].ws /\ t.transmissionId = h.conn[c].transmissionId
  BY <1>1 DEF Sockets, Flags, Table
<1>3. g = WithConn(h, c, t)
  BY DEF WithClosed, WithConn
<1> HIDE DEF t
<1>4. /\ g \in Heaps
      /\ g.conn[c] = t /\ \A d \in Conns \ {c} : g.conn[d] = h.conn[d]
      /\ g.call = h.call /\ g.requests = h.requests /\ g.replies = h.replies
  BY <1>2, <1>3, SetConn
<1> QED
  BY <1>2, <1>4 DEF Table
-------------------------------------------------------------------------------
(* stub: three outcomes *)

\* What a call does to its connection, in all its outcomes but the last, which
\* also registers the callback.
LEMMA NumberedOK ==
  ASSUME NEW h \in Heaps, NEW x \in Calls, NEW s \in Conns, NEW n, n = numbered(h, x, s)
  PROVE  /\ n \in Heaps /\ n.call = h.call
         /\ n.requests = h.requests /\ n.replies = h.replies
         /\ \A c \in Conns \ {s} : n.conn[c] = h.conn[c]
         /\ n.conn[s].ws = h.conn[s].ws /\ n.conn[s].is_closed = h.conn[s].is_closed
         /\ n.conn[s].transmissionId = h.conn[s].transmissionId + (IF x \in Voids THEN 0 ELSE 1)
         /\ Table(n, s) = Table(h, s)
<1>0. h.conn[s].transmissionId \in Nat
  BY DEF Heaps, Sockets
<1>1. CASE x \in Voids
  BY <1>0, <1>1 DEF numbered
<1>2. CASE x \notin Voids
  <2> DEFINE k == h.conn[s].transmissionId + 1
  <2>1. n = WithId(h, s, k)
    BY <1>2 DEF numbered, WithId
  <2>2. k \in Nat
    BY <1>0
  <2> HIDE DEF k
  <2>3. /\ n \in Heaps
        /\ n.conn[s].transmissionId = k
        /\ n.conn[s].ws = h.conn[s].ws /\ n.conn[s].is_closed = h.conn[s].is_closed
        /\ Table(n, s) = Table(h, s)
        /\ \A d \in Conns \ {s} : n.conn[d] = h.conn[d]
        /\ n.call = h.call /\ n.requests = h.requests /\ n.replies = h.replies
    BY <2>1, <2>2, SetId
  <2> QED
    BY <1>2, <2>3 DEF k
<1> QED
  BY <1>1, <1>2

\* A packet is added, or the socket ignores it.
LEMMA SentOK ==
  ASSUME NEW h \in Heaps, NEW x \in Calls, NEW s \in Conns, NEW m, m = sent(h, x, s)
  PROVE  /\ m \in Heaps /\ m.call = h.call /\ m.replies = h.replies
         /\ m.conn = numbered(h, x, s).conn
         /\ \A c \in Conns \ {s} : m.requests[c] = h.requests[c]
         /\ m.requests[s] \in {h.requests[s],
                               h.requests[s] \cup {Entry(transmission_id(h, x, s), x)}}
<1> DEFINE n == numbered(h, x, s)
           p == Entry(transmission_id(h, x, s), x)
           k == IF h.conn[s].ws = "OPEN" THEN n.requests[s] \cup {p} ELSE n.requests[s]
<1>1. m = WithRequests(n, s, k)
  BY DEF sent, WithRequests
<1>2. n \in Heaps /\ n.call = h.call /\ n.requests = h.requests /\ n.replies = h.replies
  BY NumberedOK
<1>3. p \in Entries
  BY DEF transmission_id, Entry, Entries, Heaps, Sockets
<1> HIDE DEF n, p
<1>4. k \in SUBSET Entries
  BY <1>2, <1>3 DEF Heaps
<1>5. k \in {h.requests[s], h.requests[s] \cup {p}}
  BY <1>2
<1> HIDE DEF k
<1>6. /\ m \in Heaps
      /\ m.requests[s] = k /\ \A d \in Conns \ {s} : m.requests[d] = n.requests[d]
      /\ m.call = n.call /\ m.conn = n.conn /\ m.replies = n.replies
  BY <1>1, <1>2, <1>4, SetRequests
<1> QED
  BY <1>2, <1>5, <1>6 DEF n, p

\* A call x on a connection s that is not closed, in heap h, gave heap g and left
\* the call at pc.
StubbedCalls(h, g, x, s, pc) ==
    /\ \A y \in Calls \ {x} : g.call[y] = h.call[y]
    /\ g.call[x].of = h.call[x].of /\ g.call[x].answers = h.call[x].answers
    /\ g.call[x].pc = pc
    /\ pc = "waiting" => g.call[x].conn = s

StubbedConns(h, g, x, s, pc) ==
    /\ \A c \in Conns \ {s} : g.conn[c] = h.conn[c]
    /\ g.conn[s].ws = h.conn[s].ws /\ g.conn[s].is_closed = h.conn[s].is_closed
    /\ g.conn[s].transmissionId = h.conn[s].transmissionId + (IF x \in Voids THEN 0 ELSE 1)
    /\ Table(g, s) = IF pc = "waiting" THEN Table(h, s) \cup {Entry(transmission_id(h, x, s), x)}
                     ELSE Table(h, s)

StubbedPackets(h, g, x, s) ==
    /\ g.replies = h.replies
    /\ \A c \in Conns \ {s} : g.requests[c] = h.requests[c]
    /\ g.requests[s] \in {h.requests[s],
                          h.requests[s] \cup {Entry(transmission_id(h, x, s), x)}}

Stubbed(h, g, x, s, pc) ==
    /\ g \in Heaps /\ StubbedCalls(h, g, x, s, pc)
    /\ StubbedConns(h, g, x, s, pc) /\ StubbedPackets(h, g, x, s)

\* The packet is sent and the callback registered.
LEMMA RegisteredOK ==
  ASSUME NEW h \in Heaps, NEW x \in Calls, NEW s \in Conns
  PROVE  Stubbed(h, registered(h, x, s), x, s, "waiting")
<1> DEFINE g == registered(h, x, s)
           m == sent(h, x, s)
           p == Entry(transmission_id(h, x, s), x)
           table == m.conn[s].transmissions \cup {p}
           listed == WithTable(m, s, table)
           k == [listed.call[x] EXCEPT !.pc = "waiting", !.conn = s]
<1>1. /\ m \in Heaps /\ m.call = h.call /\ m.replies = h.replies
      /\ m.conn = numbered(h, x, s).conn
      /\ \A c \in Conns \ {s} : m.requests[c] = h.requests[c]
      /\ m.requests[s] \in {h.requests[s], h.requests[s] \cup {p}}
  BY SentOK
<1>2. /\ \A c \in Conns \ {s} : m.conn[c] = h.conn[c]
      /\ m.conn[s].ws = h.conn[s].ws /\ m.conn[s].is_closed = h.conn[s].is_closed
      /\ m.conn[s].transmissionId = h.conn[s].transmissionId + (IF x \in Voids THEN 0 ELSE 1)
      /\ Table(m, s) = Table(h, s)
  BY <1>1, NumberedOK DEF Table
<1>3. p \in Entries
  BY DEF transmission_id, Entry, Entries, Heaps, Sockets
<1>4. g = WithCall(listed, x, k)
  BY DEF registered, WithTable, WithCall
<1> HIDE DEF m, p, g
<1>5. table \in SUBSET Entries /\ table = Table(h, s) \cup {p}
  BY <1>1, <1>2, <1>3 DEF Table, Heaps, Sockets
<1> HIDE DEF table
<1>6. /\ listed \in Heaps
      /\ Table(listed, s) = table
      /\ listed.conn[s].ws = m.conn[s].ws /\ listed.conn[s].is_closed = m.conn[s].is_closed
      /\ listed.conn[s].transmissionId = m.conn[s].transmissionId
      /\ \A d \in Conns \ {s} : listed.conn[d] = m.conn[d]
      /\ listed.call = m.call /\ listed.requests = m.requests /\ listed.replies = m.replies
  BY <1>1, <1>5, SetTable
<1> HIDE DEF listed
<1>c. listed.call[x] = h.call[x] /\ h.call[x] \in CallStates
  BY <1>1, <1>6 DEF Heaps
<1>7. /\ k \in CallStates /\ k.pc = "waiting" /\ k.conn = s
      /\ k.answers = h.call[x].answers /\ k.of = h.call[x].of
  BY <1>c DEF CallStates, PCs
<1> HIDE DEF k
<1>8. /\ g \in Heaps
      /\ g.call[x] = k /\ \A y \in Calls \ {x} : g.call[y] = listed.call[y]
      /\ g.conn = listed.conn /\ g.requests = listed.requests /\ g.replies = listed.replies
  BY <1>4, <1>6, <1>7, SetCall
<1>9. StubbedCalls(h, g, x, s, "waiting")
  BY <1>1, <1>6, <1>7, <1>8 DEF StubbedCalls
<1>10. StubbedConns(h, g, x, s, "waiting")
  BY <1>2, <1>5, <1>6, <1>8 DEF StubbedConns, Table, p
<1>11. StubbedPackets(h, g, x, s)
  BY <1>1, <1>6, <1>8 DEF StubbedPackets, p
<1> QED
  BY <1>8, <1>9, <1>10, <1>11 DEF Stubbed, g

\* A call on a connection that is not closed has one of three outcomes.
LEMMA StubFacts ==
  ASSUME NEW h \in Heaps, NEW x \in Calls, NEW s \in Conns,
         None \notin Conns, h.conn[s].is_closed # "yes"
  PROVE  \E pc \in {"waiting", "timer", "raised"} :
            /\ pc = "waiting" => x \notin Voids
            /\ Stubbed(h, stub(h, x, s), x, s, pc)
<1> DEFINE g == stub(h, x, s)
           n == numbered(h, x, s)
           m == sent(h, x, s)
<1>0. s # None /\ h.conn[s].transmissionId \in Nat
  BY DEF Heaps, Sockets
<1>r. PICK raised \in PCs : raised = "raised"
  BY DEF PCs
<1>t. PICK timer \in PCs : timer = "timer"
  BY DEF PCs
<1>1. CASE h.conn[s].ws = "CONNECTING"
  <2>1. g = WithPc(n, x, raised)
    BY <1>0, <1>1, <1>r DEF stub, WithPc
  <2>2. /\ n \in Heaps /\ n.call = h.call
        /\ n.requests = h.requests /\ n.replies = h.replies
    BY NumberedOK
  <2>3. /\ \A c \in Conns \ {s} : n.conn[c] = h.conn[c]
        /\ n.conn[s].ws = h.conn[s].ws /\ n.conn[s].is_closed = h.conn[s].is_closed
        /\ n.conn[s].transmissionId = h.conn[s].transmissionId + (IF x \in Voids THEN 0 ELSE 1)
        /\ Table(n, s) = Table(h, s)
    BY NumberedOK
  <2> HIDE DEF n, g
  <2>h. n \in Heaps
    BY <2>2
  <2>k. /\ g \in Heaps
        /\ g.call[x].pc = raised
        /\ g.call[x].answers = n.call[x].answers /\ g.call[x].of = n.call[x].of
    BY <2>1, <2>h, <1>r, SetPc
  <2>l. \A y \in Calls \ {x} : g.call[y] = n.call[y]
    BY <2>1, <2>h, <1>r, SetPc
  <2>4. g.conn = n.conn /\ g.requests = n.requests /\ g.replies = n.replies
    BY <2>1, <2>h, <1>r, SetPc
  <2>5. StubbedCalls(h, g, x, s, "raised")
    BY <2>2, <2>k, <2>l, <1>r DEF StubbedCalls
  <2>t. Table(g, s) = Table(n, s) /\ g.conn = n.conn
    BY <2>4 DEF Table
  <2>6. StubbedConns(h, g, x, s, "raised")
    BY <2>3, <2>t DEF StubbedConns
  <2>7. StubbedPackets(h, g, x, s)
    BY <2>2, <2>4 DEF StubbedPackets
  <2>8. Stubbed(h, g, x, s, "raised")
    BY <2>k, <2>5, <2>6, <2>7 DEF Stubbed
  <2> QED
    BY <2>8 DEF g
<1>2. CASE h.conn[s].ws # "CONNECTING" /\ x \in Voids
  <2>1. g = WithPc(m, x, timer)
    BY <1>0, <1>2, <1>t DEF stub, WithPc
  <2>2. m \in Heaps /\ m.call = h.call /\ m.conn = n.conn
    BY SentOK
  <2>3. StubbedPackets(h, m, x, s)
    BY SentOK DEF StubbedPackets
  <2>n. n = h
    BY <1>2 DEF numbered
  <2> HIDE DEF m, n, g
  <2>h. m \in Heaps
    BY <2>2
  <2>k. /\ g \in Heaps
        /\ g.call[x].pc = timer
        /\ g.call[x].answers = m.call[x].answers /\ g.call[x].of = m.call[x].of
    BY <2>1, <2>h, <1>t, SetPc
  <2>l. \A y \in Calls \ {x} : g.call[y] = m.call[y]
    BY <2>1, <2>h, <1>t, SetPc
  <2>4. g.conn = m.conn /\ g.requests = m.requests /\ g.replies = m.replies
    BY <2>1, <2>h, <1>t, SetPc
  <2>5. StubbedCalls(h, g, x, s, "timer")
    BY <2>2, <2>k, <2>l, <1>t DEF StubbedCalls
  <2>t. Table(g, s) = Table(h, s) /\ g.conn = h.conn
    BY <2>2, <2>n, <2>4 DEF Table
  <2>6. StubbedConns(h, g, x, s, "timer")
    BY <1>0, <1>2, <2>t DEF StubbedConns
  <2>7. StubbedPackets(h, g, x, s)
    BY <2>3, <2>4 DEF StubbedPackets
  <2>8. Stubbed(h, g, x, s, "timer")
    BY <2>k, <2>5, <2>6, <2>7 DEF Stubbed
  <2> QED
    BY <2>8 DEF g
<1>3. CASE h.conn[s].ws # "CONNECTING" /\ x \notin Voids
  <2>1. g = registered(h, x, s)
    BY <1>0, <1>3 DEF stub
  <2>2. Stubbed(h, registered(h, x, s), x, s, "waiting")
    BY RegisteredOK
  <2> QED
    BY <1>3, <2>1, <2>2
<1> QED
  BY <1>1, <1>2, <1>3

\* A call keeps the invariant and adds at most an entry of its own.
LEMMA StubOK ==
  ASSUME NEW h, NEW T, HeapInv(h, T),
         NEW x \in Calls, h.call[x].pc = "new",
         NEW s \in Conns \cup {None}, s # None => h.conn[s].ws # "none"
  PROVE  /\ HeapInv(stub(h, x, s), T)
         /\ Kept(h, stub(h, x, s))
         /\ \A y \in Calls \ {x} : stub(h, x, s).call[y] = h.call[y]
         /\ stub(h, x, s).call[x].pc # "new"
         /\ \A c \in Conns : \A f \in Table(stub(h, x, s), c) :
               \/ f \in Table(h, c)
               \/ /\ f.call = x
                  /\ stub(h, x, s).call[x].pc = "waiting" /\ stub(h, x, s).call[x].conn = c
<1> DEFINE g == stub(h, x, s)
<1>0. /\ h \in Heaps /\ Own(h) /\ Pending(h, T) /\ Told(h, T)
      /\ Unmade(h) /\ None \notin Conns
  BY JsAssumption DEF HeapInv
<1>h. h \in Heaps
  BY <1>0
<1>r. PICK raised \in PCs : raised = "raised"
  BY DEF PCs
<1>t. PICK timer \in PCs : timer = "timer"
  BY DEF PCs
<1>e. \A c \in Conns : \A e \in Table(h, c) : e \in Entries /\ e.call # x
  BY <1>0 DEF Pending, PendingAt, Heaps, Sockets, Table
<1>1. CASE s = None \/ h.conn[s].is_closed = "yes"
  <2>1. g = WithPc(h, x, timer)
    BY <1>1, <1>t DEF stub, WithPc
  <2> HIDE DEF g
  <2>a. g.conn = h.conn /\ g.requests = h.requests /\ g.replies = h.replies
    BY <2>1, <1>h, <1>t, SetPc
  <2>b. \A y \in Calls \ {x} : g.call[y] = h.call[y]
    BY <2>1, <1>h, <1>t, SetPc
  <2>c. /\ g \in Heaps
        /\ g.call[x].of = h.call[x].of /\ g.call[x].answers = h.call[x].answers
        /\ g.call[x].pc = timer
    BY <2>1, <1>h, <1>t, SetPc
  <2>3. /\ g \in Heaps
        /\ g.conn = h.conn /\ g.requests = h.requests /\ g.replies = h.replies
        /\ \A y \in Calls \ {x} : g.call[y] = h.call[y]
        /\ g.call[x].of = h.call[x].of /\ g.call[x].answers = h.call[x].answers
        /\ g.call[x].pc = "timer"
    BY <2>a, <2>b, <2>c, <1>t
  <2>4. Own(g)
    BY <2>3, <1>0 DEF Own, OwnAt, Table
  <2>d. \A c \in Conns : \A e \in Table(h, c) : e.call \in Calls /\ g.call[e.call] = h.call[e.call]
    BY <2>b, <1>e DEF Entries
  <2>e. \A c \in Conns : Table(g, c) = Table(h, c)
    BY <2>a DEF Table
  <2>5. Pending(g, T)
    BY <2>d, <2>e, <1>0 DEF Pending, PendingAt
  <2>6. Told(g, T)
    BY <2>3, <1>0 DEF Told, ToldAt, Table
  <2>7. Kept(h, g)
    BY <2>3 DEF Kept, Table
  <2>8. Unmade(g)
    BY <1>0, <2>3 DEF Unmade, Table
  <2> QED
    BY <2>3, <2>4, <2>5, <2>6, <2>7, <2>8, <2>e DEF HeapInv, g
<1>2. CASE ~(s = None \/ h.conn[s].is_closed = "yes")
  <2>0. /\ s \in Conns /\ h.conn[s].is_closed # "yes"
        /\ h.conn[s] \in Sockets /\ h.call[x] \in CallStates
    BY <1>2, <1>0 DEF Heaps
  <2>1. PICK pc \in {"waiting", "timer", "raised"} :
            /\ pc = "waiting" => x \notin Voids
            /\ Stubbed(h, g, x, s, pc)
    BY <2>0, <1>0, StubFacts
  <2> DEFINE id == transmission_id(h, x, s)
             waits == pc = "waiting"
  <2>2. /\ g \in Heaps /\ StubbedCalls(h, g, x, s, pc)
        /\ StubbedConns(h, g, x, s, pc) /\ StubbedPackets(h, g, x, s)
    BY <2>1 DEF Stubbed
  <2>3. /\ id \in Nat /\ Entry(id, x) \in Entries
        /\ x \notin Voids => id = h.conn[s].transmissionId
    BY <2>0 DEF transmission_id, Entry, Entries, Sockets
  <2> HIDE DEF g
  <2>a. \A c \in Conns : c # s => g.conn[c] = h.conn[c] /\ Table(g, c) = Table(h, c)
    BY <2>2 DEF StubbedConns, Table
  <2>b. \A f \in Table(g, s) : f \in Table(h, s) \/ (waits /\ f = Entry(id, x))
    BY <2>2 DEF StubbedConns
  <2>c. /\ \A c \in Conns : Table(h, c) \subseteq Table(g, c)
        /\ waits => Entry(id, x) \in Table(g, s)
    BY <2>a, <2>2 DEF StubbedConns
  <2>d. /\ \A c \in Conns : c # s => g.requests[c] = h.requests[c]
        /\ \A e \in g.requests[s] : e \in h.requests[s] \/ e = Entry(id, x)
        /\ g.replies = h.replies
    BY <2>2 DEF StubbedPackets
  <2>e. g.conn[s].transmissionId = h.conn[s].transmissionId + (IF x \in Voids THEN 0 ELSE 1)
    BY <2>2 DEF StubbedConns
  <2>f. /\ Entry(id, x).id = id /\ Entry(id, x).call = x
        /\ waits => x \notin Voids
    BY <2>1 DEF Entry
  <2> HIDE DEF id, waits
  <2>5. Own(g)
    <3>1. ASSUME NEW c \in Conns PROVE OwnAt(g, c)
      <4>1. CASE c # s
        <5>1. OwnAt(h, c)
          BY <1>0 DEF Own
        <5>2. /\ g.conn[c] = h.conn[c] /\ Table(g, c) = Table(h, c)
              /\ g.requests[c] = h.requests[c] /\ g.replies = h.replies
          BY <4>1, <2>a, <2>d
        <5> QED
          BY <5>1, <5>2 DEF OwnAt
      <4>2. CASE c = s
        <5> DEFINE t == h.conn[s].transmissionId
                   t1 == g.conn[s].transmissionId
        <5>1. /\ \A e \in h.requests[s] : e.id \in Nat
              /\ \A i \in 1 .. Len(h.replies[s]) : h.replies[s][i].id \in Nat
              /\ \A e \in Table(h, s) : e.id \in Nat
              /\ t \in Nat
          <6>1. h.replies[s] \in Seq(Packets)
            BY <1>0, <2>0 DEF Heaps
          <6>2. \A i \in 1 .. Len(h.replies[s]) : h.replies[s][i] \in Packets
            BY <6>1
          <6> QED
            BY <6>2, <1>0, <2>0 DEF Heaps, Sockets, Entries, Packets, Table
        <5>2. OwnAt(h, s)
          BY <1>0, <2>0 DEF Own
        <5>3. t1 = t + (IF x \in Voids THEN 0 ELSE 1) /\ (x \notin Voids => id = t)
          BY <2>e, <2>3
        <5>a. \A e, f \in Table(h, s) : e.id < t /\ (f.id = e.id => f = e)
          BY <5>2 DEF OwnAt
        <5>4. \A e, f \in Table(g, s) : e.id < t1 /\ (f.id = e.id => f = e)
          BY <5>a, <5>1, <5>3, <2>b, <2>f
        <5>5. ASSUME NEW e \in g.requests[s], e.call \notin Voids
              PROVE  /\ e.id < t1
                     /\ \A f \in Table(g, s) : f.id = e.id => f.call = e.call
          <6>1. CASE e \in h.requests[s]
            <7>1. e.id < t /\ \A f \in Table(h, s) : f.id = e.id => f.call = e.call
              BY <6>1, <5>5, <5>2 DEF OwnAt
            <7> QED
              BY <6>1, <7>1, <5>1, <5>3, <2>b, <2>f
          <6>2. CASE e = Entry(id, x)
            <7>1. x \notin Voids /\ e.id = t /\ e.call = x
              BY <6>2, <5>5, <5>3, <2>f
            <7>2. \A f \in Table(h, s) : f.id < t
              BY <5>2 DEF OwnAt
            <7> QED
              BY <7>1, <7>2, <5>1, <5>3, <2>b, <2>f
          <6> QED
            BY <6>1, <6>2, <2>d
        <5>6. ASSUME NEW i \in 1 .. Len(g.replies[s]), g.replies[s][i].type = "RESPONSE"
              PROVE  /\ g.replies[s][i].id < t1
                     /\ \A f \in Table(g, s) :
                           f.id = g.replies[s][i].id => f.call = g.replies[s][i].call
          <6> DEFINE e == g.replies[s][i]
          <6>1. /\ e.id \in Nat /\ e.id < t
                /\ \A f \in Table(h, s) : f.id = e.id => f.call = e.call
            BY <5>6, <5>1, <5>2, <2>d DEF OwnAt
          <6> HIDE DEF e
          <6>2. /\ e.id < t1
                /\ \A f \in Table(g, s) : f.id = e.id => f.call = e.call
            BY <6>1, <5>1, <5>3, <2>b, <2>f
          <6> QED
            BY <6>2 DEF e
        <5> QED
          BY <4>2, <5>4, <5>5, <5>6 DEF OwnAt
      <4> QED
        BY <4>1, <4>2
    <3> QED
      BY <3>1 DEF Own
  <2>g. /\ \A y \in Calls : y # x => g.call[y] = h.call[y]
        /\ g.call[x].of = h.call[x].of /\ g.call[x].answers = h.call[x].answers
        /\ g.call[x].pc \in {"waiting", "timer", "raised"}
        /\ waits = (g.call[x].pc = "waiting")
        /\ waits => g.call[x].conn = s
    BY <2>2 DEF StubbedCalls, waits
  <2>6. Pending(g, T)
    <3>1. ASSUME NEW c \in Conns, NEW e \in Table(g, c)
          PROVE  /\ g.call[e.call].pc # "new"
                 /\ e.call \notin T => g.call[e.call].pc = "waiting" /\ g.call[e.call].conn = c
                 /\ \A f \in Table(g, c) : f.call = e.call => f = e
      <4>1. PendingAt(h, T, c)
        BY <1>0 DEF Pending
      <4>2. CASE e \in Table(h, c)
        <5>1. e.call \in Calls /\ e.call # x /\ g.call[e.call] = h.call[e.call]
          BY <4>2, <1>e, <2>g DEF Entries
        <5>2. \A f \in Table(g, c) : f.call = e.call => f \in Table(h, c)
          BY <5>1, <2>a, <2>b, <2>f
        <5> QED
          BY <4>1, <4>2, <5>1, <5>2 DEF PendingAt
      <4>3. CASE e \notin Table(h, c)
        <5>1. c = s /\ waits /\ e = Entry(id, x)
          BY <4>3, <2>a, <2>b
        <5>2. \A f \in Table(g, c) : f.call = e.call => f = e
          BY <5>1, <2>b, <2>f, <1>e
        <5> QED
          BY <5>1, <5>2, <2>f, <2>g
      <4> QED
        BY <4>2, <4>3
    <3> QED
      BY <3>1 DEF Pending, PendingAt
  <2>7. Told(g, T)
    <3>1. ASSUME NEW y \in Calls PROVE ToldAt(g, T, y)
      <4>0. ToldAt(h, T, y)
        BY <1>0 DEF Told
      <4>1. CASE y # x
        BY <4>0, <4>1, <2>c, <2>g DEF ToldAt
      <4>2. CASE y = x
        <5>1. h.call[x].answers \in 0 .. 2
          BY <2>0 DEF CallStates
        <5>2. /\ g.call[x].of \in {None, x}
              /\ x \notin T => g.call[x].answers <= 0
          BY <4>0, <4>2, <5>1, <2>g DEF ToldAt
        <5>3. g.call[x].pc = "waiting" =>
                 g.call[x].conn \in Conns /\ Entry(id, x) \in Table(g, g.call[x].conn)
          BY <2>0, <2>c, <2>g
        <5>4. g.call[x].answers \in 0 .. 2
          BY <5>1, <2>g
        <5> QED
          BY <4>2, <5>2, <5>3, <5>4, <2>f DEF ToldAt
      <4> QED
        BY <4>1, <4>2
    <3> QED
      BY <3>1 DEF Told
  <2>8. Kept(h, g)
    BY <2>0, <2>2, <2>a DEF Kept, StubbedConns
  <2>9. \A y \in Calls \ {x} : g.call[y] = h.call[y]
    BY <2>g
  <2>10. g.call[x].pc # "new"
    BY <2>g
  <2>u. g.conn[s].ws # "none"
    BY <2>0, <2>2, <1>0 DEF StubbedConns
  <2>v. Unmade(g)
    BY <1>0, <2>a, <2>d, <2>u DEF Unmade
  <2>11. HeapInv(g, T)
    BY <2>2, <2>5, <2>6, <2>7, <2>v DEF HeapInv
  <2>12. \A c \in Conns : \A f \in Table(g, c) :
            f \in Table(h, c) \/ (f.call = x /\ g.call[x].pc = "waiting" /\ g.call[x].conn = c)
    BY <2>a, <2>b, <2>f, <2>g
  <2> QED
    BY <2>8, <2>9, <2>10, <2>11, <2>12 DEF g
<1> QED
  BY <1>1, <1>2
-------------------------------------------------------------------------------
(* Clean-up *)

\* The callbacks of S are told, nothing else changes.
LEMMA FailedOK ==
  ASSUME NEW h \in Heaps, NEW S, NEW g, g = failed(h, S)
  PROVE  /\ g \in Heaps
         /\ g.conn = h.conn /\ g.requests = h.requests /\ g.replies = h.replies
         /\ \A x \in Calls : x \notin S => g.call[x] = h.call[x]
         /\ \A x \in Calls : x \in S =>
               /\ g.call[x].pc = "returned" /\ g.call[x].answers = Once(h.call[x].answers)
               /\ g.call[x].conn = h.call[x].conn /\ g.call[x].of = h.call[x].of
<1> DEFINE k(x) == called_back(h.call[x])
           calls == [x \in Calls |-> IF x \in S THEN k(x) ELSE h.call[x]]
<1>1. g = [h EXCEPT !.call = calls]
  BY DEF failed
<1>2. ASSUME NEW x \in Calls
      PROVE  /\ h.call[x] \in CallStates /\ k(x) \in CallStates
             /\ k(x).pc = "returned" /\ k(x).answers = Once(h.call[x].answers)
             /\ k(x).conn = h.call[x].conn /\ k(x).of = h.call[x].of
  <2>1. h.call[x] \in CallStates
    BY DEF Heaps
  <2>2. h.call[x].answers \in 0 .. 2
    BY <2>1 DEF CallStates
  <2>3. Once(h.call[x].answers) \in 0 .. 2
    BY <2>2 DEF Once
  <2> QED
    BY <2>1, <2>3 DEF CallStates, PCs, called_back
<1> HIDE DEF k
<1>3. calls \in [Calls -> CallStates]
  BY <1>2
<1>4. \A x \in Calls : calls[x] = IF x \in S THEN k(x) ELSE h.call[x]
  OBVIOUS
<1> HIDE DEF calls
<1>5. /\ g \in Heaps /\ g.call = calls
      /\ g.conn = h.conn /\ g.requests = h.requests /\ g.replies = h.replies
  BY <1>1, <1>3 DEF Heaps
<1> QED
  BY <1>2, <1>4, <1>5

\* The callbacks of a connection are told and their entries removed.  Where stop
\* throws, its own entry and the later ones are left.
LEMMA ToldOK ==
  ASSUME NEW h, NEW T, HeapInv(h, T), NEW c \in Conns,
         NEW stop, stop = None \/ stop \in Table(h, c)
  PROVE  /\ HeapInv(told(h, c, stop), T \cup Throwing(stop))
         /\ Kept(h, told(h, c, stop))
         /\ Table(told(h, c, stop), c) = Left(h, c, stop)
         /\ \A x \in Calls : h.call[x].pc = "new" => told(h, c, stop).call[x].pc = "new"
<1> DEFINE S == {e.call : e \in Reached(h, c, stop)}
           f == failed(h, S)
           m == told(h, c, stop)
           left == Left(h, c, stop)
           U == T \cup Throwing(stop)
<1>0. h \in Heaps /\ Own(h) /\ Pending(h, T) /\ Told(h, T) /\ Unmade(h)
  BY DEF HeapInv
<1>h. h \in Heaps
  BY <1>0
<1>1. /\ \A d \in Conns : \A e \in Table(h, d) : e \in Entries /\ e.id \in Nat /\ e.call \in Calls
      /\ left \in SUBSET Entries
  BY <1>h DEF Heaps, Sockets, Entries, Table, Left
<1>2. m = WithTable(f, c, left)
  BY DEF told, WithTable
<1>3. /\ f \in Heaps
      /\ f.conn = h.conn /\ f.requests = h.requests /\ f.replies = h.replies
      /\ \A x \in Calls : x \notin S => f.call[x] = h.call[x]
      /\ \A x \in Calls : x \in S =>
            /\ f.call[x].pc = "returned" /\ f.call[x].answers = Once(h.call[x].answers)
            /\ f.call[x].conn = h.call[x].conn /\ f.call[x].of = h.call[x].of
  BY <1>h, FailedOK
<1>4. \A e \in Table(h, c) : e \in left \/ e.call \in S
  BY <1>1 DEF Left, Reached, Table
<1>5. left \subseteq Table(h, c) /\ (stop = None => left = {})
  BY DEF Left, Table
<1>6. \A x \in S : \E e \in Table(h, c) : e.call = x
  BY DEF Reached, Table
<1>7. \A e \in left : e.call \notin U => e.call \notin S
  <2> SUFFICES ASSUME NEW e \in left, e.call \notin U, e.call \in S PROVE FALSE
    OBVIOUS
  <2>1. PICK e2 \in Table(h, c) : e2.call = e.call /\ (stop = None \/ e2.id <= stop.id)
    BY DEF Reached, Table
  <2>2. stop # None /\ e.id >= stop.id /\ e \in Table(h, c) /\ stop \in Table(h, c)
    BY DEF Left, Table
  <2>3. e2 = e
    BY <1>0, <2>1, <2>2 DEF Pending, PendingAt
  <2>4. e.id = stop.id
    BY <1>1, <2>1, <2>2, <2>3
  <2>5. e = stop
    BY <1>0, <2>2, <2>4 DEF Own, OwnAt
  <2> QED
    BY <2>2, <2>5 DEF Throwing
<1> HIDE DEF S, f, m, left
<1>g. f \in Heaps
  BY <1>3
<1>8. /\ m \in Heaps /\ Table(m, c) = left
      /\ m.conn[c].ws = f.conn[c].ws /\ m.conn[c].is_closed = f.conn[c].is_closed
      /\ m.conn[c].transmissionId = f.conn[c].transmissionId
  BY <1>1, <1>2, <1>g, SetTable
<1>9. \A d \in Conns \ {c} : m.conn[d] = f.conn[d]
  BY <1>1, <1>2, <1>g, SetTable
<1>10. m.call = f.call /\ m.requests = f.requests /\ m.replies = f.replies
  BY <1>1, <1>2, <1>g, SetTable
<1>11. /\ \A d \in Conns : Table(m, d) \subseteq Table(h, d)
       /\ \A d \in Conns : d # c => Table(m, d) = Table(h, d)
       /\ \A d \in Conns : m.conn[d].transmissionId = h.conn[d].transmissionId
       /\ \A d \in Conns : m.conn[d].ws = h.conn[d].ws /\ m.conn[d].is_closed = h.conn[d].is_closed
       /\ m.requests = h.requests /\ m.replies = h.replies
  BY <1>3, <1>5, <1>8, <1>9, <1>10 DEF Table
<1>12. Own(m)
  BY <1>0, <1>11 DEF Own, OwnAt
<1>13. Pending(m, U)
  <2>1. ASSUME NEW d \in Conns, NEW e \in Table(m, d)
        PROVE  /\ m.call[e.call].pc # "new"
               /\ e.call \notin U => m.call[e.call].pc = "waiting" /\ m.call[e.call].conn = d
               /\ \A g \in Table(m, d) : g.call = e.call => g = e
    <3>1. /\ e \in Table(h, d) /\ e.call \in Calls
          /\ h.call[e.call].pc # "new"
          /\ e.call \notin T => h.call[e.call].pc = "waiting" /\ h.call[e.call].conn = d
          /\ \A g \in Table(h, d) : g.call = e.call => g = e
      BY <1>0, <1>1, <1>11 DEF Pending, PendingAt
    <3>2. e.call \notin U => e.call \notin S
      <4>1. CASE d = c
        BY <4>1, <1>7, <1>8
      <4>2. CASE d # c
        <5> SUFFICES ASSUME e.call \notin U, e.call \in S PROVE FALSE
          OBVIOUS
        <5>1. PICK g \in Table(h, c) : g.call = e.call
          BY <1>6
        <5>2. h.call[g.call].conn = c
          BY <1>0, <5>1 DEF Pending, PendingAt
        <5> QED
          BY <3>1, <4>2, <5>1, <5>2
      <4> QED
        BY <4>1, <4>2
    <3>3. m.call[e.call] = h.call[e.call] \/ m.call[e.call].pc = "returned"
      BY <1>3, <1>10, <3>1
    <3>4. e.call \notin U => m.call[e.call] = h.call[e.call]
      BY <1>3, <1>10, <3>1, <3>2
    <3> QED
      BY <1>11, <3>1, <3>3, <3>4
  <2> QED
    BY <2>1 DEF Pending, PendingAt
<1>14. Told(m, U)
  <2>1. ASSUME NEW x \in Calls PROVE ToldAt(m, U, x)
    <3>0. ToldAt(h, T, x) /\ h.call[x].answers \in 0 .. 2
      BY <1>0 DEF Told, Heaps, CallStates
    <3>1. CASE x \in S
      <4>1. PICK e \in Table(h, c) : e.call = x
        BY <3>1, <1>6
      <4>2. x \notin U => h.call[x].pc = "waiting"
        BY <1>0, <4>1 DEF Pending, PendingAt
      <4>3. /\ m.call[x].pc = "returned" /\ m.call[x].of = h.call[x].of
            /\ m.call[x].answers = Once(h.call[x].answers)
        BY <3>1, <1>3, <1>10
      <4> QED
        BY <3>0, <4>2, <4>3 DEF ToldAt, Once
    <3>2. CASE x \notin S
      <4>1. m.call[x] = h.call[x]
        BY <3>2, <1>3, <1>10
      <4>2. ASSUME h.call[x].pc = "waiting"
            PROVE  /\ h.call[x].conn \in Conns
                   /\ \E e \in Table(m, h.call[x].conn) : e.call = x
        <5>1. h.call[x].conn \in Conns /\ \E e \in Table(h, h.call[x].conn) : e.call = x
          BY <3>0, <4>2 DEF ToldAt
        <5> QED
          BY <5>1, <3>2, <1>4, <1>8, <1>11
      <4> QED
        BY <3>0, <4>1, <4>2 DEF ToldAt
    <3> QED
      BY <3>1, <3>2
  <2> QED
    BY <2>1 DEF Told
<1>15. Kept(h, m) /\ Unmade(m)
  BY <1>0, <1>11 DEF Kept, Unmade
<1>16. ASSUME NEW x \in Calls, h.call[x].pc = "new" PROVE m.call[x].pc = "new"
  <2>1. x \notin S
    BY <1>0, <1>6, <1>16 DEF Pending, PendingAt
  <2> QED
    BY <2>1, <1>3, <1>10, <1>16
<1> QED
  BY <1>8, <1>12, <1>13, <1>14, <1>15, <1>16 DEF HeapInv, m, left

\* A call that a callback makes while the table is emptied is dropped with it.
LEMMA RetriedOK ==
  ASSUME NEW h, NEW T, HeapInv(h, T), NEW c \in Conns, Table(h, c) = {},
         NEW r \in Calls, h.call[r].pc = "new",
         NEW s \in Conns \cup {None}, s # None => h.conn[s].ws # "none"
  PROVE  /\ HeapInv(retried(h, c, r, s), T)
         /\ Kept(h, retried(h, c, r, s))
         /\ Table(retried(h, c, r, s), c) = {}
<1> DEFINE h1 == stub(h, r, s)
           g == retried(h, c, r, s)
<1>0. r # None
  BY JsAssumption
<1>1. /\ HeapInv(h1, T) /\ Kept(h, h1)
      /\ \A d \in Conns : \A f \in Table(h1, d) :
            f \in Table(h, d) \/ (f.call = r /\ h1.call[r].pc = "waiting" /\ h1.call[r].conn = d)
  BY StubOK
<1>2. CASE ~(h1.call[r].pc = "waiting" /\ h1.call[r].conn = c)
  <2>1. g = h1
    BY <1>0, <1>2 DEF retried
  <2>2. Table(h1, c) = {}
    BY <1>1, <1>2
  <2> QED
    BY <1>1, <2>1, <2>2
<1>3. CASE h1.call[r].pc = "waiting" /\ h1.call[r].conn = c
  <2>0. PICK dropped \in PCs : dropped = "dropped"
    BY DEF PCs
  <2> DEFINE n == WithPc(h1, r, dropped)
  <2>1. g = WithTable(n, c, {})
    BY <1>0, <1>3, <2>0 DEF retried, WithPc, WithTable
  <2> HIDE DEF h1, n, g
  <2>2. h1 \in Heaps /\ Own(h1) /\ Pending(h1, T) /\ Told(h1, T) /\ Unmade(h1)
    BY <1>1 DEF HeapInv
  <2>3. h1 \in Heaps /\ n = WithPc(h1, r, dropped)
    BY <2>2 DEF n
  <2>4. n \in Heaps /\ n.call[r].pc = dropped
    BY <2>3, <2>0, SetPc
  <2>5. n.call[r].answers = h1.call[r].answers /\ n.call[r].of = h1.call[r].of
    BY <2>3, <2>0, SetPc
  <2>6. \A y \in Calls \ {r} : n.call[y] = h1.call[y]
    BY <2>3, <2>0, SetPc
  <2>7. n.conn = h1.conn /\ n.requests = h1.requests /\ n.replies = h1.replies
    BY <2>3, <2>0, SetPc
  <2>8. /\ g \in Heaps /\ Table(g, c) = {}
        /\ g.conn[c].ws = n.conn[c].ws /\ g.conn[c].is_closed = n.conn[c].is_closed
        /\ g.conn[c].transmissionId = n.conn[c].transmissionId
    BY <2>1, <2>4, SetTable
  <2>9. \A d \in Conns \ {c} : g.conn[d] = n.conn[d]
    BY <2>1, <2>4, SetTable
  <2>10. g.call = n.call /\ g.requests = n.requests /\ g.replies = n.replies
    BY <2>1, <2>4, SetTable
  <2>11. /\ \A d \in Conns : d # c => Table(g, d) = Table(h1, d)
         /\ \A d \in Conns : Table(g, d) \subseteq Table(h1, d)
         /\ \A d \in Conns : /\ g.conn[d].transmissionId = h1.conn[d].transmissionId
                             /\ g.conn[d].ws = h1.conn[d].ws
                             /\ g.conn[d].is_closed = h1.conn[d].is_closed
         /\ g.requests = h1.requests /\ g.replies = h1.replies
    BY <2>7, <2>8, <2>9, <2>10 DEF Table
  <2>12. /\ \A y \in Calls : y # r => g.call[y] = h1.call[y]
         /\ g.call[r].pc = "dropped"
         /\ g.call[r].answers = h1.call[r].answers /\ g.call[r].of = h1.call[r].of
    BY <2>0, <2>4, <2>5, <2>6, <2>10
  <2>13. Own(g)
    BY <2>2, <2>11 DEF Own, OwnAt
  <2>14. Pending(g, T)
    <3>1. ASSUME NEW d \in Conns, NEW e \in Table(g, d)
          PROVE  /\ g.call[e.call].pc # "new"
                 /\ e.call \notin T => g.call[e.call].pc = "waiting" /\ g.call[e.call].conn = d
                 /\ \A f \in Table(g, d) : f.call = e.call => f = e
      <4>1. /\ d # c /\ e \in Table(h1, d) /\ e.call \in Calls
            /\ h1.call[e.call].pc # "new"
            /\ e.call \notin T => h1.call[e.call].pc = "waiting" /\ h1.call[e.call].conn = d
            /\ \A f \in Table(h1, d) : f.call = e.call => f = e
        BY <2>2, <2>8, <2>11 DEF Pending, PendingAt, Heaps, Sockets, Entries, Table
      <4> QED
        BY <1>3, <4>1, <2>11, <2>12
    <3> QED
      BY <3>1 DEF Pending, PendingAt
  <2>15. Told(g, T)
    <3>1. ASSUME NEW x \in Calls PROVE ToldAt(g, T, x)
      <4>0. ToldAt(h1, T, x)
        BY <2>2 DEF Told
      <4>1. CASE x = r
        BY <4>0, <4>1, <1>3, <2>12 DEF ToldAt
      <4>2. CASE x # r
        <5>1. ASSUME h1.call[x].pc = "waiting"
              PROVE  /\ h1.call[x].conn \in Conns
                     /\ \E e \in Table(g, h1.call[x].conn) : e.call = x
          <6>1. /\ h1.call[x].conn \in Conns
                /\ \E e \in Table(h1, h1.call[x].conn) : e.call = x
            BY <4>0, <5>1 DEF ToldAt
          <6>2. h1.call[x].conn # c
            BY <1>1, <4>2, <6>1
          <6> QED
            BY <6>1, <6>2, <2>11
        <5> QED
          BY <4>0, <4>2, <5>1, <2>12 DEF ToldAt
      <4> QED
        BY <4>1, <4>2
    <3> QED
      BY <3>1 DEF Told
  <2>16. Kept(h1, g) /\ Unmade(g)
    BY <2>2, <2>11 DEF Kept, Unmade
  <2>17. Kept(h, g)
    BY <1>1, <2>16, KeptTrans
  <2>18. HeapInv(g, T)
    BY <2>8, <2>13, <2>14, <2>15, <2>16 DEF HeapInv
  <2> QED
    BY <2>8, <2>17, <2>18 DEF g
<1> QED
  BY <1>2, <1>3

\* The whole clean-up, with the call that a callback may make.
LEMMA CleanupOK ==
  ASSUME NEW h, NEW T, HeapInv(h, T), NEW c \in Conns,
         NEW stop, stop = None \/ stop \in Table(h, c),
         NEW r \in Calls \cup {None}, r # None => stop = None /\ h.call[r].pc = "new",
         NEW s \in Conns \cup {None}, s # None => h.conn[s].ws # "none"
  PROVE  /\ HeapInv(cleanup(h, c, stop, r, s), T \cup Throwing(stop))
         /\ Kept(h, cleanup(h, c, stop, r, s))
         /\ stop = None => Table(cleanup(h, c, stop, r, s), c) = {}
<1> DEFINE m == told(h, c, stop)
           g == cleanup(h, c, stop, r, s)
           U == T \cup Throwing(stop)
<1>1. /\ HeapInv(m, U) /\ Kept(h, m) /\ Table(m, c) = Left(h, c, stop)
      /\ \A x \in Calls : h.call[x].pc = "new" => m.call[x].pc = "new"
  BY ToldOK
<1>2. stop = None => Left(h, c, stop) = {}
  BY DEF Left
<1>3. CASE r = None \/ Reached(h, c, stop) = {}
  <2>1. g = m
    BY <1>3 DEF cleanup, retried
  <2> QED
    BY <1>1, <1>2, <2>1
<1>4. CASE r # None /\ Reached(h, c, stop) # {}
  <2>1. g = retried(m, c, r, s)
    BY <1>4 DEF cleanup
  <2>2. r \in Calls /\ Table(m, c) = {} /\ m.call[r].pc = "new"
    BY <1>1, <1>2, <1>4
  <2>s. s # None => m.conn[s].ws # "none"
    BY <1>1 DEF Kept
  <2> HIDE DEF m, g, U
  <2>3. /\ HeapInv(g, U) /\ Kept(m, g) /\ Table(g, c) = {}
    BY <1>1, <2>1, <2>2, <2>s, RetriedOK
  <2>4. Kept(h, g)
    BY <1>1, <2>3, KeptTrans
  <2> QED
    BY <2>3, <2>4 DEF g, U
<1> QED
  BY <1>3, <1>4

\* A connection that is cut loses what is under way, and nothing else.
LEMMA CutOK ==
  ASSUME NEW h, NEW T, HeapInv(h, T), NEW c \in Conns, h.conn[c].ws # "none",
         NEW ws \in {"CLOSING", "CLOSED"}
  PROVE  /\ HeapInv(Cut(h, c, ws), T)
         /\ Kept(h, Cut(h, c, ws))
         /\ Table(Cut(h, c, ws), c) = Table(h, c)
         /\ Cut(h, c, ws).call = h.call
         /\ Cut(h, c, ws).conn[c].ws = ws
<1> DEFINE a == WithWs(h, c, ws)
           b == WithRequests(a, c, {})
           g == Cut(h, c, ws)
<1>0. h \in Heaps /\ Own(h) /\ Pending(h, T) /\ Told(h, T) /\ Unmade(h)
  BY DEF HeapInv
<1>h. h \in Heaps
  BY <1>0
<1>1. g = WithReplies(b, c, <<>>)
  BY DEF Cut, WithWs, WithRequests, WithReplies
<1>2. a = WithWs(h, c, ws) /\ b = WithRequests(a, c, {})
  OBVIOUS
<1>w. PICK w \in SocketStates : w = ws /\ w # "none"
  BY DEF SocketStates
<1>3. a = WithWs(h, c, w)
  BY <1>w, <1>2
<1>s. {} \in SUBSET Entries
  OBVIOUS
<1>p. <<>> \in Seq(Packets)
  OBVIOUS
<1>q. PICK empty \in Seq(Packets) : empty = <<>>
  BY <1>p
<1> HIDE DEF a, b, g
<1>4. a \in Heaps /\ a.conn[c].ws = w /\ Table(a, c) = Table(h, c)
  BY <1>h, <1>w, <1>3, SetWs
<1>5. /\ a.conn[c].is_closed = h.conn[c].is_closed
      /\ a.conn[c].transmissionId = h.conn[c].transmissionId
      /\ \A d \in Conns \ {c} : a.conn[d] = h.conn[d]
  BY <1>h, <1>w, <1>3, SetWs
<1>6. a.call = h.call /\ a.requests = h.requests /\ a.replies = h.replies
  BY <1>h, <1>w, <1>3, SetWs
<1>a. a \in Heaps
  BY <1>4
<1>7. /\ b \in Heaps
      /\ b.requests[c] = {} /\ \A d \in Conns \ {c} : b.requests[d] = a.requests[d]
      /\ b.call = a.call /\ b.conn = a.conn /\ b.replies = a.replies
  BY <1>a, <1>2, <1>s, SetRequests
<1>b. b \in Heaps
  BY <1>7
<1>r. empty \in Seq(Packets)
  OBVIOUS
<1>e. g = WithReplies(b, c, empty)
  BY <1>1, <1>q
<1>8. /\ g \in Heaps
      /\ g.replies[c] = empty /\ \A d \in Conns \ {c} : g.replies[d] = b.replies[d]
      /\ g.call = b.call /\ g.conn = b.conn /\ g.requests = b.requests
  BY <1>b, <1>r, <1>e, SetReplies
<1>9. /\ \A d \in Conns : Table(g, d) = Table(h, d)
      /\ \A d \in Conns : /\ g.conn[d].transmissionId = h.conn[d].transmissionId
                          /\ g.conn[d].is_closed = h.conn[d].is_closed
      /\ \A d \in Conns : d # c => g.conn[d].ws = h.conn[d].ws
      /\ g.conn[c].ws = ws
  BY <1>w, <1>4, <1>5, <1>7, <1>8 DEF Table
<1>10. /\ g.call = h.call
       /\ g.requests[c] = {} /\ g.replies[c] = <<>>
       /\ \A d \in Conns : d # c => g.requests[d] = h.requests[d] /\ g.replies[d] = h.replies[d]
  BY <1>q, <1>6, <1>7, <1>8
<1>11. Own(g)
  <2>1. ASSUME NEW d \in Conns PROVE OwnAt(g, d)
    <3>0. OwnAt(h, d)
      BY <1>0 DEF Own
    <3>1. CASE d = c
      <4>1. Len(g.replies[d]) = 0
        BY <3>1, <1>10
      <4> QED
        BY <3>0, <3>1, <4>1, <1>9, <1>10 DEF OwnAt
    <3>2. CASE d # c
      BY <3>0, <3>2, <1>9, <1>10 DEF OwnAt
    <3> QED
      BY <3>1, <3>2
  <2> QED
    BY <2>1 DEF Own
<1>12. Pending(g, T) /\ Told(g, T)
  BY <1>0, <1>9, <1>10 DEF Pending, PendingAt, Told, ToldAt
<1>13. Kept(h, g) /\ Unmade(g)
  BY <1>0, <1>w, <1>9, <1>10 DEF Kept, Unmade
<1> QED
  BY <1>8, <1>9, <1>10, <1>11, <1>12, <1>13 DEF HeapInv, g

\* close() of a connection, with its clean-up.
LEMMA CloseOK ==
  ASSUME NEW h, NEW T, HeapInv(h, T), NEW c \in Conns, h.conn[c].ws # "none",
         NEW stop, stop = None \/ stop \in Table(h, c),
         NEW r \in Calls \cup {None}, r # None => stop = None /\ h.call[r].pc = "new",
         NEW s \in Conns \cup {None}, s # None => h.conn[s].ws # "none"
  PROVE  /\ HeapInv(close(h, c, stop, r, s), T \cup Throwing(stop))
         /\ Kept(h, close(h, c, stop, r, s))
         /\ stop = None => Table(close(h, c, stop, r, s), c) = {}
<1>1. PICK ws \in {"CLOSING", "CLOSED"} :
         close(h, c, stop, r, s) = cleanup(Cut(h, c, ws), c, stop, r, s)
  BY DEF close
<1> DEFINE k == Cut(h, c, ws)
<1>2. /\ HeapInv(k, T) /\ Kept(h, k)
      /\ Table(k, c) = Table(h, c) /\ k.call = h.call
  BY CutOK
<1>3. s # None => k.conn[s].ws # "none"
  BY <1>2 DEF Kept
<1> HIDE DEF k
<1>4. /\ HeapInv(cleanup(k, c, stop, r, s), T \cup Throwing(stop))
      /\ Kept(k, cleanup(k, c, stop, r, s))
      /\ stop = None => Table(cleanup(k, c, stop, r, s), c) = {}
  BY <1>2, <1>3, CleanupOK
<1> QED
  BY <1>1, <1>2, <1>4, KeptTrans DEF k
-------------------------------------------------------------------------------
(* Packets and answers *)

\* A response comes from a response that was there, or from a request.
LEMMA UnderWayOK ==
  ASSUME NEW h, NEW T, HeapInv(h, T), NEW g \in Heaps, g.call = h.call,
         \A c \in Conns : /\ Table(g, c) = Table(h, c)
                          /\ g.conn[c].transmissionId = h.conn[c].transmissionId
                          /\ g.requests[c] \subseteq h.requests[c],
         \A c \in Conns : g.conn[c].ws = "none" =>
                          h.conn[c].ws = "none" /\ g.replies[c] = <<>>,
         \A c \in Conns : \A i \in 1 .. Len(g.replies[c]) :
            g.replies[c][i].type = "RESPONSE" =>
               \/ \E j \in 1 .. Len(h.replies[c]) : h.replies[c][j] = g.replies[c][i]
               \/ \E e \in h.requests[c] : /\ e.call \notin Voids
                                           /\ e.call = g.replies[c][i].call
                                           /\ e.id = g.replies[c][i].id
  PROVE  HeapInv(g, T)
<1>0. Own(h) /\ Pending(h, T) /\ Told(h, T) /\ Unmade(h)
  BY DEF HeapInv
<1>1. ASSUME NEW c \in Conns PROVE OwnAt(g, c)
  <2>0. OwnAt(h, c)
    BY <1>0 DEF Own
  <2>1. ASSUME NEW i \in 1 .. Len(g.replies[c]), g.replies[c][i].type = "RESPONSE"
        PROVE  /\ g.replies[c][i].id < g.conn[c].transmissionId
               /\ \A f \in Table(g, c) :
                     f.id = g.replies[c][i].id => f.call = g.replies[c][i].call
    <3> DEFINE p == g.replies[c][i]
    <3>1. CASE \E j \in 1 .. Len(h.replies[c]) : h.replies[c][j] = p
      <4>1. PICK j \in 1 .. Len(h.replies[c]) : h.replies[c][j] = p
        BY <3>1
      <4> QED
        BY <2>0, <2>1, <4>1 DEF OwnAt
    <3>2. CASE \E e \in h.requests[c] : e.call \notin Voids /\ e.call = p.call /\ e.id = p.id
      BY <2>0, <3>2 DEF OwnAt
    <3> QED
      BY <2>1, <3>1, <3>2
  <2> QED
    BY <2>0, <2>1 DEF OwnAt
<1>2. Own(g)
  BY <1>1 DEF Own
<1>3. Pending(g, T)
  BY <1>0 DEF Pending, PendingAt
<1>4. Told(g, T)
  BY <1>0 DEF Told, ToldAt
<1>5. Unmade(g)
  BY <1>0 DEF Unmade
<1> QED
  BY <1>2, <1>3, <1>4, <1>5 DEF HeapInv

\* The callback of an entry runs with a packet of its own call.
LEMMA AnsweredOK ==
  ASSUME NEW h, NEW T, HeapInv(h, T), NEW c \in Conns, NEW e \in Table(h, c),
         NEW p, p.call = e.call
  PROVE  HeapInv(answered(h, c, e, p), T) /\ Kept(h, answered(h, c, e, p))
<1> DEFINE x == e.call
           left == Table(h, c) \ {e}
           m == WithTable(h, c, left)
           k == [called_back(h.call[x]) EXCEPT !.of = p.call]
           g == answered(h, c, e, p)
<1>0. h \in Heaps /\ Own(h) /\ Pending(h, T) /\ Told(h, T) /\ Unmade(h)
  BY DEF HeapInv
<1>h. h \in Heaps
  BY <1>0
<1>1. /\ \A d \in Conns : \A f \in Table(h, d) : f.call \in Calls
      /\ left \in SUBSET Entries
  BY <1>h DEF Heaps, Sockets, Entries, Table
<1>2. x \in Calls /\ h.call[x] \in CallStates
  BY <1>h, <1>1 DEF Heaps
<1>3. /\ k \in CallStates /\ k.pc = "returned" /\ k.conn = h.call[x].conn
      /\ k.answers = Once(h.call[x].answers) /\ k.of = x
  <2>1. Once(h.call[x].answers) \in 0 .. 2
    BY <1>2 DEF CallStates, Once
  <2>2. p.call = x
    OBVIOUS
  <2> HIDE DEF x
  <2> QED
    BY <1>2, <2>1, <2>2 DEF CallStates, PCs, called_back
<1>4. g = WithCall(m, x, k)
  BY DEF answered, WithTable, WithCall, Table
<1>m. m = WithTable(h, c, left)
  OBVIOUS
<1> HIDE DEF k, g, m
<1>5. /\ m \in Heaps /\ Table(m, c) = left
      /\ m.conn[c].ws = h.conn[c].ws /\ m.conn[c].is_closed = h.conn[c].is_closed
      /\ m.conn[c].transmissionId = h.conn[c].transmissionId
  BY <1>h, <1>1, <1>m, SetTable
<1>6. \A d \in Conns \ {c} : m.conn[d] = h.conn[d]
  BY <1>h, <1>1, <1>m, SetTable
<1>7. m.call = h.call /\ m.requests = h.requests /\ m.replies = h.replies
  BY <1>h, <1>1, <1>m, SetTable
<1>8. x \in Calls /\ k \in CallStates /\ m \in Heaps
  BY <1>2, <1>3, <1>5
<1> HIDE DEF left, x
<1>9. /\ g \in Heaps
      /\ g.call[x] = k /\ \A y \in Calls \ {x} : g.call[y] = m.call[y]
      /\ g.conn = m.conn /\ g.requests = m.requests /\ g.replies = m.replies
  BY <1>4, <1>8, SetCall
<1>10. /\ \A d \in Conns : d # c => Table(g, d) = Table(h, d)
       /\ \A d \in Conns : Table(g, d) \subseteq Table(h, d)
       /\ \A f \in Table(h, c) : f # e => f \in Table(g, c)
       /\ e \notin Table(g, c)
       /\ \A d \in Conns : /\ g.conn[d].transmissionId = h.conn[d].transmissionId
                           /\ g.conn[d].ws = h.conn[d].ws
                           /\ g.conn[d].is_closed = h.conn[d].is_closed
       /\ g.requests = h.requests /\ g.replies = h.replies
  BY <1>5, <1>6, <1>7, <1>9 DEF Table, left
<1>11. /\ \A y \in Calls : y # x => g.call[y] = h.call[y]
       /\ g.call[x].pc = "returned" /\ g.call[x].of = x
       /\ g.call[x].answers = Once(h.call[x].answers)
  BY <1>3, <1>7, <1>9
<1>12. Own(g)
  BY <1>0, <1>10 DEF Own, OwnAt
<1>13. e.call = x /\ PendingAt(h, T, c)
  BY <1>0 DEF x, Pending
<1>14. Pending(g, T)
  <2>1. ASSUME NEW d \in Conns, NEW f \in Table(g, d)
        PROVE  /\ g.call[f.call].pc # "new"
               /\ f.call \notin T => g.call[f.call].pc = "waiting" /\ g.call[f.call].conn = d
               /\ \A f2 \in Table(g, d) : f2.call = f.call => f2 = f
    <3>1. /\ f \in Table(h, d) /\ f.call \in Calls
          /\ h.call[f.call].pc # "new"
          /\ f.call \notin T => h.call[f.call].pc = "waiting" /\ h.call[f.call].conn = d
          /\ \A f2 \in Table(h, d) : f2.call = f.call => f2 = f
      BY <1>0, <1>1, <1>10 DEF Pending, PendingAt
    <3>2. CASE f.call = x
      <4>1. d # c
        BY <3>1, <3>2, <1>10, <1>13
      <4>2. x \notin T => h.call[x].conn = c
        BY <1>13 DEF PendingAt
      <4> QED
        BY <1>10, <1>11, <3>1, <3>2, <4>1, <4>2
    <3>3. CASE f.call # x
      BY <1>10, <1>11, <3>1, <3>3
    <3> QED
      BY <3>2, <3>3
  <2> QED
    BY <2>1 DEF Pending, PendingAt
<1>15. Told(g, T)
  <2>1. ASSUME NEW y \in Calls PROVE ToldAt(g, T, y)
    <3>0. ToldAt(h, T, y)
      BY <1>0 DEF Told
    <3>1. CASE y = x
      <4>1. x \notin T => h.call[x].pc = "waiting"
        BY <1>13 DEF PendingAt
      <4>2. h.call[x].answers \in 0 .. 2
        BY <1>2, <3>1 DEF CallStates, x
      <4> QED
        BY <3>0, <3>1, <4>1, <4>2, <1>11 DEF ToldAt, Once
    <3>2. CASE y # x
      <4>1. g.call[y] = h.call[y]
        BY <3>2, <1>11
      <4>2. ASSUME h.call[y].pc = "waiting"
            PROVE  /\ h.call[y].conn \in Conns
                   /\ \E f \in Table(g, h.call[y].conn) : f.call = y
        <5>1. h.call[y].conn \in Conns /\ \E f \in Table(h, h.call[y].conn) : f.call = y
          BY <3>0, <4>2 DEF ToldAt
        <5> QED
          BY <5>1, <3>2, <1>10, <1>13
      <4> QED
        BY <3>0, <4>1, <4>2 DEF ToldAt
    <3> QED
      BY <3>1, <3>2
  <2> QED
    BY <2>1 DEF Told
<1>16. Kept(h, g) /\ Unmade(g)
  BY <1>0, <1>10 DEF Kept, Unmade
<1> QED
  BY <1>9, <1>12, <1>14, <1>15, <1>16 DEF HeapInv, g
-------------------------------------------------------------------------------
(* The inductive invariant *)

\* The connections made so far are the first n.
Fresh(h, n) ==
    \A c \in Conns :
        /\ (h.conn[c].ws = "none") = (c > n)
        /\ h.conn[c].ws = "none" => h.conn[c].is_closed = "undefined"

\* The channel and the stubs have connections that were open at some time; while
\* the channel is open neither of the two has been closed.
Bound(h, ch, st) ==
    /\ ch.conn # None => h.conn[ch.conn].is_closed # "undefined"
    /\ st # None => h.conn[st].is_closed # "undefined"
    /\ ~ch.is_closed =>
          /\ ch.conn # None /\ h.conn[ch.conn].is_closed = "no"
          /\ st # None /\ h.conn[st].is_closed = "no"

\* A closed connection has told its callbacks, unless one has thrown.
Swept(h, T) ==
    \A c \in Conns : h.conn[c].is_closed = "yes" => Table(h, c) = {} \/ T # {}

Channels == [conn : Conns \cup {None}, is_closed : BOOLEAN]

SysInv(h, n, ch, st, T) ==
    /\ HeapInv(h, T) /\ T \subseteq Calls
    /\ n \in 0 .. MaxConns /\ ch \in Channels /\ st \in Conns \cup {None}
    /\ Fresh(h, n) /\ Bound(h, ch, st) /\ Swept(h, T)

IInv == SysInv(heap, CONNID, channel, stubs, thrown)

\* What a function of the heap keeps.
LEMMA KeptOK ==
  ASSUME NEW h, NEW n, NEW ch \in Channels, NEW st \in Conns \cup {None}, NEW T,
         SysInv(h, n, ch, st, T),
         NEW g, NEW U, Kept(h, g), HeapInv(g, U), T \subseteq U, U \subseteq Calls
  PROVE  SysInv(g, n, ch, st, U)
<1>1. n \in 0 .. MaxConns /\ Fresh(h, n) /\ Bound(h, ch, st) /\ Swept(h, T)
  BY DEF SysInv
<1>2. Fresh(g, n)
  BY <1>1 DEF Fresh, Kept
<1>3. Bound(g, ch, st)
  BY <1>1 DEF Bound, Kept, Channels
<1>4. Swept(g, U)
  BY <1>1 DEF Swept, Kept
<1> QED
  BY <1>1, <1>2, <1>3, <1>4 DEF SysInv

\* A connection that the page or the channel has was made.
LEMMA Made ==
  ASSUME NEW h, NEW n, NEW ch, NEW st, NEW T, SysInv(h, n, ch, st, T)
  PROVE  /\ \A c \in Conns : c <= n => h.conn[c].ws # "none"
         /\ st # None => st \in Conns /\ h.conn[st].ws # "none"
         /\ ch.conn # None => ch.conn \in Conns /\ h.conn[ch.conn].ws # "none"
<1>1. /\ n \in 0 .. MaxConns /\ Fresh(h, n) /\ Bound(h, ch, st)
      /\ ch \in Channels /\ st \in Conns \cup {None}
  BY DEF SysInv
<1>2. \A c \in Conns : c <= n => h.conn[c].ws # "none"
  BY <1>1, JsAssumption DEF Fresh, Conns
<1>3. \A c \in Conns : h.conn[c].is_closed # "undefined" => h.conn[c].ws # "none"
  BY <1>1 DEF Fresh
<1> QED
  BY <1>1, <1>2, <1>3 DEF Bound, Channels

\* The step to heap g.
LEMMA BecomeOK ==
  ASSUME NEW g, g \in Heaps, Become(g) PROVE heap' = g
  BY DEF Become, heap, Heaps

\* The variables are the parts of the heap.
LEMMA HeapParts ==
  /\ heap.conn = conn /\ heap.requests = requests
  /\ heap.replies = replies /\ heap.call = call
  BY DEF heap

\* What is thrown belongs to calls.
LEMMA ThrowingOK ==
  ASSUME NEW h \in Heaps, NEW c \in Conns, NEW stop, stop = None \/ stop \in Table(h, c)
  PROVE  Throwing(stop) \subseteq Calls
  BY DEF Throwing, Table, Heaps, Sockets, Entries

\* The page has just been loaded.
LEMMA InitOK == Init => IInv
<1> SUFFICES ASSUME Init PROVE IInv
  OBVIOUS
<1>0. None \notin Calls \cup Conns /\ MaxConns \in Nat
  BY JsAssumption
<1>1. WSConnection("none", None) \in Sockets /\ NewCall \in CallStates
  BY DEF Sockets, WSConnection, Entries, NewCall, CallStates, PCs
<1>2. /\ \A c \in Conns : /\ heap.conn[c].ws = "none" /\ Table(heap, c) = {}
                          /\ heap.conn[c].is_closed = "undefined"
                          /\ heap.requests[c] = {} /\ heap.replies[c] = <<>>
      /\ \A x \in Calls : heap.call[x] = NewCall
  BY HeapParts DEF Init, Table, WSConnection
<1>3. heap \in Heaps
  <2>1. conn \in [Conns -> Sockets]
    BY <1>1 DEF Init
  <2>2. requests \in [Conns -> SUBSET Entries] /\ replies \in [Conns -> Seq(Packets)]
    BY DEF Init
  <2>3. call \in [Calls -> CallStates]
    BY <1>1 DEF Init
  <2> QED
    BY <2>1, <2>2, <2>3 DEF heap, Heaps
<1>4. Own(heap) /\ Pending(heap, thrown) /\ Unmade(heap)
  BY <1>2 DEF Own, OwnAt, Pending, PendingAt, Unmade
<1>5. Told(heap, thrown)
  BY <1>2 DEF Told, ToldAt, NewCall
<1>6. HeapInv(heap, thrown)
  BY <1>3, <1>4, <1>5 DEF HeapInv
<1>7. Fresh(heap, CONNID) /\ Bound(heap, channel, stubs) /\ Swept(heap, thrown)
  BY <1>0, <1>2 DEF Init, Fresh, Bound, Swept, Conns
<1>8. /\ thrown \subseteq Calls /\ CONNID \in 0 .. MaxConns
      /\ channel \in Channels /\ stubs \in Conns \cup {None}
  BY <1>0 DEF Init, Channels
<1> QED
  BY <1>6, <1>7, <1>8 DEF IInv, SysInv
-------------------------------------------------------------------------------
(* Steps of the page *)

\* What a step may not do to a closed connection.
TakesNothing(h, g) ==
    \A c \in Conns : h.conn[c].is_closed = "yes" => Table(g, c) \subseteq Table(h, c)

\* A step whose new heap is g.
LEMMA KeptStep ==
  ASSUME IInv, NEW g, NEW U, Kept(heap, g), HeapInv(g, U), thrown \subseteq U, U \subseteq Calls,
         Become(g), thrown' = U, UNCHANGED <<CONNID, channel, stubs>>
  PROVE  IInv' /\ TakesNothing(heap, heap')
<1>0. SysInv(heap, CONNID, channel, stubs, thrown)
  BY DEF IInv
<1>1. channel \in Channels /\ stubs \in Conns \cup {None}
  BY <1>0 DEF SysInv
<1>2. heap' = g
  BY BecomeOK DEF HeapInv
<1>3. SysInv(g, CONNID, channel, stubs, U)
  BY <1>0, <1>1, KeptOK
<1>4. TakesNothing(heap, g)
  BY DEF TakesNothing, Kept
<1>5. SysInv(heap', CONNID', channel', stubs', thrown')
  BY <1>2, <1>3
<1> QED
  BY <1>2, <1>4, <1>5 DEF IInv

\* A new connection has nothing pending.
LEMMA ConnectStep ==
  ASSUME IInv, NEW a \in Addresses, connect(a) PROVE IInv' /\ TakesNothing(heap, heap')
<1> DEFINE c == CONNID + 1
           k == WSConnection("CONNECTING", a)
<1>0. /\ HeapInv(heap, thrown) /\ thrown \subseteq Calls
      /\ CONNID \in 0 .. MaxConns /\ channel \in Channels /\ stubs \in Conns \cup {None}
      /\ Fresh(heap, CONNID) /\ Bound(heap, channel, stubs) /\ Swept(heap, thrown)
  BY DEF IInv, SysInv
<1>1. /\ heap \in Heaps /\ Own(heap) /\ Pending(heap, thrown)
      /\ Told(heap, thrown) /\ Unmade(heap)
  BY <1>0 DEF HeapInv
<1>2. c \in Conns /\ CONNID' = c
  BY <1>0, JsAssumption DEF connect, Conns
<1>3. /\ heap.conn[c].ws = "none" /\ heap.conn[c].is_closed = "undefined"
      /\ Table(heap, c) = {} /\ heap.requests[c] = {} /\ heap.replies[c] = <<>>
  <2>1. c > CONNID
    BY <1>0
  <2> HIDE DEF c
  <2>2. heap.conn[c].ws = "none"
    BY <1>0, <1>2, <2>1 DEF Fresh
  <2> QED
    BY <1>0, <1>1, <1>2, <2>2 DEF Fresh, Unmade
<1>4. /\ k \in Sockets /\ k.ws = "CONNECTING" /\ k.is_closed = "undefined"
      /\ k.transmissions = {}
  BY DEF WSConnection, Sockets, Entries
<1>5. heap' = WithConn(heap, c, k)
  BY DEF connect, heap, WithConn
<1>6. UNCHANGED <<channel, stubs, thrown>>
  BY DEF connect
<1> HIDE DEF k
<1>h. heap \in Heaps
  BY <1>1
<1>d. \A d \in Conns : (d > c) = (d > CONNID /\ d # c)
  BY <1>0, <1>2 DEF Conns
<1> HIDE DEF c
<1>7. /\ heap' \in Heaps
      /\ heap'.conn[c] = k /\ \A d \in Conns \ {c} : heap'.conn[d] = heap.conn[d]
      /\ heap'.call = heap.call /\ heap'.requests = heap.requests /\ heap'.replies = heap.replies
  BY <1>h, <1>2, <1>4, <1>5, SetConn
<1> DEFINE g == heap'
<1>8. /\ g \in Heaps /\ g.call = heap.call
      /\ g.requests = heap.requests /\ g.replies = heap.replies
      /\ \A d \in Conns : d # c => g.conn[d] = heap.conn[d]
      /\ g.conn[c].ws = "CONNECTING" /\ g.conn[c].is_closed = "undefined"
      /\ \A d \in Conns : Table(g, d) = Table(heap, d)
  BY <1>3, <1>4, <1>7 DEF Table
<1> HIDE DEF g
<1>9. Own(g)
  <2>1. ASSUME NEW d \in Conns PROVE OwnAt(g, d)
    <3>0. OwnAt(heap, d)
      BY <1>1 DEF Own
    <3>1. CASE d = c
      <4>1. Len(g.replies[d]) = 0
        BY <3>1, <1>3, <1>8
      <4> QED
        BY <3>1, <4>1, <1>3, <1>8 DEF OwnAt
    <3>2. CASE d # c
      BY <3>0, <3>2, <1>8 DEF OwnAt
    <3> QED
      BY <3>1, <3>2
  <2> QED
    BY <2>1 DEF Own
<1>10. Pending(g, thrown)
  BY <1>1, <1>8 DEF Pending, PendingAt
<1>11. Told(g, thrown)
  BY <1>1, <1>8 DEF Told, ToldAt
<1>12. Unmade(g)
  BY <1>1, <1>8 DEF Unmade
<1>13. HeapInv(g, thrown)
  BY <1>8, <1>9, <1>10, <1>11, <1>12 DEF HeapInv
<1>14. Fresh(g, c)
  BY <1>0, <1>8, <1>d, <1>2 DEF Fresh
<1>15. Bound(g, channel, stubs) /\ Swept(g, thrown)
  BY <1>0, <1>3, <1>8 DEF Bound, Swept, Channels
<1>16. c \in 0 .. MaxConns
  BY <1>2, JsAssumption DEF Conns
<1>17. SysInv(g, c, channel, stubs, thrown)
  BY <1>0, <1>13, <1>14, <1>15, <1>16 DEF SysInv
<1>18. SysInv(heap', CONNID', channel', stubs', thrown')
  BY <1>2, <1>6, <1>17 DEF g
<1>19. TakesNothing(heap, heap')
  BY <1>8 DEF TakesNothing, g
<1> QED
  BY <1>18, <1>19 DEF IInv

\* A call through the stubs or on a connection.
LEMMA CallStep ==
  ASSUME IInv, NEW x \in Calls, Call(x) PROVE IInv' /\ TakesNothing(heap, heap')
<1>0. /\ SysInv(heap, CONNID, channel, stubs, thrown)
      /\ HeapInv(heap, thrown) /\ thrown \subseteq Calls
      /\ CONNID \in 0 .. MaxConns /\ stubs \in Conns \cup {None}
  BY DEF IInv, SysInv
<1>1. heap.call[x].pc = "new" /\ UNCHANGED <<CONNID, channel, stubs, thrown>>
  BY HeapParts DEF Call
<1>2. PICK s \in {stubs} \cup 1 .. CONNID : Become(stub(heap, x, s))
  BY DEF Call
<1>3. s \in Conns \cup {None} /\ (s # None => heap.conn[s].ws # "none")
  <2>1. CASE s = stubs
    BY <1>0, <2>1, Made
  <2>2. CASE s \in 1 .. CONNID
    <3>1. s \in Conns /\ s <= CONNID
      BY <1>0, <2>2, JsAssumption DEF Conns
    <3> QED
      BY <1>0, <3>1, Made
  <2> QED
    BY <1>2, <2>1, <2>2
<1> DEFINE g == stub(heap, x, s)
<1>4. HeapInv(g, thrown) /\ Kept(heap, g) /\ Become(g)
  BY <1>0, <1>1, <1>2, <1>3, StubOK
<1> HIDE DEF g
<1> QED
  BY <1>0, <1>1, <1>4, KeptStep

\* A timer tells a call that has no entry.
LEMMA TimeoutStep ==
  ASSUME IInv, NEW x \in Calls, timeout(x) PROVE IInv' /\ TakesNothing(heap, heap')
<1> DEFINE k == called_back(heap.call[x])
           g == WithCall(heap, x, k)
<1>0. HeapInv(heap, thrown) /\ thrown \subseteq Calls
  BY DEF IInv, SysInv
<1>1. /\ heap \in Heaps /\ Own(heap) /\ Pending(heap, thrown)
      /\ Told(heap, thrown) /\ Unmade(heap)
  BY <1>0 DEF HeapInv
<1>h. heap \in Heaps
  BY <1>1
<1>2. heap.call[x] \in CallStates /\ heap.call[x].pc = "timer"
  BY <1>h, HeapParts DEF Heaps, timeout
<1>3. /\ k \in CallStates /\ k.pc = "returned" /\ k.of = heap.call[x].of
      /\ k.answers = Once(heap.call[x].answers)
  <2>1. Once(heap.call[x].answers) \in 0 .. 2
    BY <1>2 DEF CallStates, Once
  <2> QED
    BY <1>2, <2>1 DEF CallStates, PCs, called_back
<1>4. Become(g) /\ UNCHANGED <<CONNID, channel, stubs, thrown>>
  BY HeapParts DEF timeout, Become, heap, WithCall
<1>g. g = WithCall(heap, x, k)
  OBVIOUS
<1> HIDE DEF k, g
<1>k. k \in CallStates
  BY <1>3
<1>5. /\ g \in Heaps
      /\ g.call[x] = k /\ \A y \in Calls \ {x} : g.call[y] = heap.call[y]
      /\ g.conn = heap.conn /\ g.requests = heap.requests /\ g.replies = heap.replies
  BY <1>h, <1>k, <1>g, SetCall
<1>6. \A d \in Conns : Table(g, d) = Table(heap, d)
  BY <1>5 DEF Table
<1>7. Own(g)
  BY <1>1, <1>5, <1>6 DEF Own, OwnAt
<1>8. Pending(g, thrown)
  <2>1. ASSUME NEW d \in Conns PROVE PendingAt(g, thrown, d)
    <3>1. PendingAt(heap, thrown, d)
      BY <1>1 DEF Pending
    <3>2. \A e \in Table(heap, d) : e.call \in Calls
      BY <1>h DEF Heaps, Sockets, Entries, Table
    <3>3. \A y \in Calls : \/ g.call[y] = heap.call[y]
                           \/ heap.call[y].pc = "timer" /\ g.call[y].pc = "returned"
      BY <1>2, <1>3, <1>5
    <3> QED
      BY <3>1, <3>2, <3>3, <1>6 DEF PendingAt
  <2> QED
    BY <2>1 DEF Pending
<1>9. Told(g, thrown)
  <2>1. ASSUME NEW y \in Calls PROVE ToldAt(g, thrown, y)
    <3>0. ToldAt(heap, thrown, y)
      BY <1>1 DEF Told
    <3>1. CASE y = x
      <4>1. heap.call[x].answers \in 0 .. 2
        BY <1>2 DEF CallStates
      <4> QED
        BY <3>0, <3>1, <4>1, <1>2, <1>3, <1>5 DEF ToldAt, Once
    <3>2. CASE y # x
      BY <3>0, <3>2, <1>5, <1>6 DEF ToldAt
    <3> QED
      BY <3>1, <3>2
  <2> QED
    BY <2>1 DEF Told
<1>10. Unmade(g) /\ Kept(heap, g)
  BY <1>1, <1>5, <1>6 DEF Unmade, Kept
<1>11. HeapInv(g, thrown)
  BY <1>5, <1>7, <1>8, <1>9, <1>10 DEF HeapInv
<1> QED
  BY <1>0, <1>4, <1>10, <1>11, KeptStep

\* Where a clean-up stops, and the calls it may make.
LEMMA StopsOK ==
  ASSUME IInv, NEW c \in Conns, NEW stop \in Stops(c), NEW r \in Retries(stop)
  PROVE  /\ stop = None \/ stop \in Table(heap, c)
         /\ r \in Calls \cup {None}
         /\ r # None => stop = None /\ heap.call[r].pc = "new"
         /\ Throwing(stop) \subseteq Calls
<1>1. heap \in Heaps
  BY DEF IInv, SysInv, HeapInv
<1>2. stop = None \/ stop \in Table(heap, c)
  BY HeapParts DEF Stops, Table
<1>3. Throwing(stop) \subseteq Calls
  BY <1>1, <1>2, ThrowingOK
<1> QED
  BY <1>2, <1>3, HeapParts DEF Retries

\* close() of a connection that was made, from outside a handler.
LEMMA ClosingOK ==
  ASSUME IInv, NEW c \in Conns, heap.conn[c].ws # "none",
         NEW stop \in Stops(c), NEW r \in Retries(stop)
  PROVE  LET g == close(heap, c, stop, r, stubs)
             U == thrown \cup Throwing(stop)
         IN  /\ Kept(heap, g) /\ HeapInv(g, U)
             /\ thrown \subseteq U /\ U \subseteq Calls
<1>0. /\ SysInv(heap, CONNID, channel, stubs, thrown)
      /\ HeapInv(heap, thrown) /\ thrown \subseteq Calls /\ stubs \in Conns \cup {None}
  BY DEF IInv, SysInv
<1>1. stubs # None => heap.conn[stubs].ws # "none"
  BY <1>0, Made
<1>2. /\ stop = None \/ stop \in Table(heap, c)
      /\ r \in Calls \cup {None}
      /\ r # None => stop = None /\ heap.call[r].pc = "new"
      /\ Throwing(stop) \subseteq Calls
  BY StopsOK
<1>3. /\ HeapInv(close(heap, c, stop, r, stubs), thrown \cup Throwing(stop))
      /\ Kept(heap, close(heap, c, stop, r, stubs))
  BY <1>0, <1>1, <1>2, CloseOK
<1> QED
  BY <1>0, <1>2, <1>3

\* The page closes one of its connections.
LEMMA ConnCloseStep ==
  ASSUME IInv, NEW c \in Conns, conn_close(c) PROVE IInv' /\ TakesNothing(heap, heap')
<1>1. PICK stop \in Stops(c) : \E r \in Retries(stop) :
         /\ Become(close(heap, c, stop, r, stubs))
         /\ thrown' = thrown \cup Throwing(stop)
  BY DEF conn_close
<1>2. PICK r \in Retries(stop) :
         /\ Become(close(heap, c, stop, r, stubs))
         /\ thrown' = thrown \cup Throwing(stop)
  BY <1>1
<1>3. c <= CONNID /\ UNCHANGED <<CONNID, channel, stubs>>
  BY DEF conn_close
<1>4. heap.conn[c].ws # "none"
  BY <1>3, Made DEF IInv
<1> DEFINE g == close(heap, c, stop, r, stubs)
           U == thrown \cup Throwing(stop)
<1>5. /\ Kept(heap, g) /\ HeapInv(g, U)
      /\ thrown \subseteq U /\ U \subseteq Calls
  BY <1>4, ClosingOK
<1>6. Become(g) /\ thrown' = U
  BY <1>2
<1> HIDE DEF g, U
<1> QED
  BY <1>3, <1>5, <1>6, KeptStep

\* The page closes the channel.
LEMMA ChannelCloseStep ==
  ASSUME IInv, Channel_close PROVE IInv' /\ TakesNothing(heap, heap')
<1>0. /\ SysInv(heap, CONNID, channel, stubs, thrown)
      /\ channel \in Channels /\ stubs \in Conns \cup {None} /\ Bound(heap, channel, stubs)
  BY DEF IInv, SysInv
<1>1. PICK stop \in Stops(channel.conn) : \E r \in Retries(stop) :
         /\ Become(close(heap, channel.conn, stop, r, stubs))
         /\ channel' = [conn |-> IF stop = None THEN None ELSE channel.conn,
                        is_closed |-> TRUE]
         /\ thrown' = thrown \cup Throwing(stop)
  BY DEF Channel_close
<1>2. PICK r \in Retries(stop) :
         /\ Become(close(heap, channel.conn, stop, r, stubs))
         /\ channel' = [conn |-> IF stop = None THEN None ELSE channel.conn,
                        is_closed |-> TRUE]
         /\ thrown' = thrown \cup Throwing(stop)
  BY <1>1
<1>3. UNCHANGED <<CONNID, stubs>> /\ ~channel.is_closed
  BY DEF Channel_close
<1>4. channel.conn \in Conns /\ heap.conn[channel.conn].ws # "none"
  BY <1>0, <1>3, Made DEF Bound
<1> DEFINE g == close(heap, channel.conn, stop, r, stubs)
           U == thrown \cup Throwing(stop)
<1>5. /\ Kept(heap, g) /\ HeapInv(g, U)
      /\ thrown \subseteq U /\ U \subseteq Calls
  BY <1>4, ClosingOK
<1>6. Become(g) /\ thrown' = U
  BY <1>2
<1> HIDE DEF g, U
<1>7. heap' = g
  BY <1>5, <1>6, BecomeOK DEF HeapInv
<1>8. SysInv(g, CONNID, channel, stubs, U)
  BY <1>0, <1>5, KeptOK
<1>9. channel' \in Channels /\ channel'.is_closed = TRUE /\ channel'.conn \in {None, channel.conn}
  BY <1>0, <1>2 DEF Channels
<1>10. SysInv(g, CONNID, channel', stubs, U)
  BY <1>8, <1>9 DEF SysInv, Bound
<1>11. SysInv(heap', CONNID', channel', stubs', thrown')
  BY <1>3, <1>6, <1>7, <1>10
<1>12. TakesNothing(heap, heap')
  BY <1>5, <1>7 DEF TakesNothing, Kept
<1> QED
  BY <1>11, <1>12 DEF IInv

\* New stubs have the connection of the channel.
LEMMA InitStubsStep ==
  ASSUME IInv, init_stubs PROVE IInv' /\ TakesNothing(heap, heap')
<1>0. SysInv(heap, CONNID, channel, stubs, thrown)
  BY DEF IInv
<1>1. heap' = heap /\ stubs' = channel.conn /\ UNCHANGED <<CONNID, channel, thrown>>
  BY DEF init_stubs, heap
<1>2. SysInv(heap, CONNID, channel, channel.conn, thrown)
  BY <1>0 DEF SysInv, Bound, Channels
<1>3. SysInv(heap', CONNID', channel', stubs', thrown')
  BY <1>1, <1>2
<1>4. TakesNothing(heap, heap')
  BY <1>1 DEF TakesNothing
<1> QED
  BY <1>3, <1>4 DEF IInv
-------------------------------------------------------------------------------
(* Events of a socket *)

\* Opening and closing a socket changes no table.
LEMMA FlagsOK ==
  ASSUME NEW h, NEW T, HeapInv(h, T), NEW c \in Conns, h.conn[c].ws # "none",
         NEW k \in Flags
  PROVE  LET g == WithClosed(h, c, k)
         IN  /\ HeapInv(g, T) /\ g.conn[c].is_closed = k
             /\ g.conn[c].ws = h.conn[c].ws
             /\ \A d \in Conns : Table(g, d) = Table(h, d)
             /\ \A d \in Conns \ {c} : g.conn[d] = h.conn[d]
             /\ g.call = h.call
<1> DEFINE g == WithClosed(h, c, k)
<1>h. h \in Heaps
  BY DEF HeapInv
<1>g. g = WithClosed(h, c, k)
  OBVIOUS
<1> HIDE DEF g
<1>1. /\ g \in Heaps /\ g.conn[c].is_closed = k
      /\ g.conn[c].ws = h.conn[c].ws /\ g.conn[c].transmissionId = h.conn[c].transmissionId
      /\ Table(g, c) = Table(h, c)
  BY <1>h, <1>g, SetClosed
<1>2. \A d \in Conns \ {c} : g.conn[d] = h.conn[d]
  BY <1>h, <1>g, SetClosed
<1>3. g.call = h.call /\ g.requests = h.requests /\ g.replies = h.replies
  BY <1>h, <1>g, SetClosed
<1>4. \A d \in Conns : /\ Table(g, d) = Table(h, d)
                       /\ g.conn[d].transmissionId = h.conn[d].transmissionId
                       /\ g.conn[d].ws = h.conn[d].ws
  BY <1>1, <1>2 DEF Table
<1>5. \A d \in Conns : g.conn[d].ws = "none" => h.conn[d].ws = "none" /\ g.replies[d] = <<>>
  BY <1>3, <1>4 DEF HeapInv, Unmade
<1>6. g \in Heaps
  BY <1>1
<1>7. HeapInv(g, T)
  BY <1>3, <1>4, <1>5, <1>6, UnderWayOK
<1> QED
  BY <1>1, <1>2, <1>3, <1>4, <1>7 DEF g

\* A socket opens: channel and stubs have an open connection.
LEMMA OpenStep ==
  ASSUME IInv, NEW c \in Conns, onopen(c) PROVE IInv' /\ TakesNothing(heap, heap')
<1>0. /\ HeapInv(heap, thrown) /\ thrown \subseteq Calls
      /\ CONNID \in 0 .. MaxConns /\ channel \in Channels /\ stubs \in Conns \cup {None}
      /\ Fresh(heap, CONNID) /\ Bound(heap, channel, stubs) /\ Swept(heap, thrown)
  BY DEF IInv, SysInv
<1>n. c # None
  BY JsAssumption
<1>o. PICK open \in SocketStates : open = "OPEN"
  BY DEF SocketStates
<1>f. PICK no \in Flags : no = "no"
  BY DEF Flags
<1> DEFINE a == WithWs(heap, c, open)
           g == WithClosed(a, c, no)
<1>1. heap' = g
  <2> DEFINE k == [conn EXCEPT ![c].ws = open]
             l == [k EXCEPT ![c].is_closed = no]
  <2>1. conn' = l /\ UNCHANGED <<requests, replies, call>>
    BY <1>o, <1>f DEF onopen
  <2>2. a = [conn |-> k, requests |-> requests, replies |-> replies, call |-> call]
    BY DEF WithWs, heap
  <2> HIDE DEF a, k
  <2>3. g = [conn |-> l, requests |-> requests, replies |-> replies, call |-> call]
    BY <2>2 DEF WithClosed
  <2> QED
    BY <2>1, <2>3 DEF heap
<1>2. /\ heap.conn[c].ws = "CONNECTING"
      /\ channel' = [conn |-> c, is_closed |-> FALSE]
      /\ stubs' = IF stubs # None /\ heap.conn[stubs].is_closed # "yes" THEN stubs ELSE c
      /\ UNCHANGED <<CONNID, thrown>>
  BY HeapParts DEF onopen, bindConnection
<1>h. heap \in Heaps
  BY <1>0 DEF HeapInv
<1>a. a = WithWs(heap, c, open)
  OBVIOUS
<1> HIDE DEF a
<1>3. /\ a \in Heaps /\ a.conn[c].ws = open
      /\ a.conn[c].is_closed = heap.conn[c].is_closed
      /\ a.conn[c].transmissionId = heap.conn[c].transmissionId
      /\ Table(a, c) = Table(heap, c)
  BY <1>h, <1>o, <1>a, SetWs
<1>4. \A d \in Conns \ {c} : a.conn[d] = heap.conn[d]
  BY <1>h, <1>o, <1>a, SetWs
<1>5. a.call = heap.call /\ a.requests = heap.requests /\ a.replies = heap.replies
  BY <1>h, <1>o, <1>a, SetWs
<1>6. \A d \in Conns : /\ Table(a, d) = Table(heap, d)
                       /\ a.conn[d].transmissionId = heap.conn[d].transmissionId
  BY <1>3, <1>4 DEF Table
<1>7. \A d \in Conns : a.conn[d].ws = "none" => heap.conn[d].ws = "none" /\ a.replies[d] = <<>>
  BY <1>0, <1>o, <1>3, <1>4, <1>5 DEF HeapInv, Unmade
<1>8. a \in Heaps
  BY <1>3
<1>9. HeapInv(a, thrown)
  BY <1>0, <1>5, <1>6, <1>7, <1>8, UnderWayOK
<1>10. a.conn[c].ws # "none"
  BY <1>o, <1>3
<1>11. /\ HeapInv(g, thrown) /\ g.conn[c].is_closed = no /\ g.conn[c].ws = a.conn[c].ws
       /\ \A d \in Conns : Table(g, d) = Table(a, d)
       /\ \A d \in Conns \ {c} : g.conn[d] = a.conn[d]
  BY <1>9, <1>10, <1>f, FlagsOK
<1> HIDE DEF g
<1>12. /\ g.conn[c].is_closed = "no" /\ g.conn[c].ws # "none"
       /\ \A d \in Conns : d # c => g.conn[d] = heap.conn[d]
       /\ \A d \in Conns : Table(g, d) = Table(heap, d)
  BY <1>f, <1>4, <1>6, <1>10, <1>11
<1>13. Fresh(g, CONNID)
  BY <1>0, <1>2, <1>12 DEF Fresh
<1>14. Swept(g, thrown)
  BY <1>0, <1>12 DEF Swept
<1>15. channel' \in Channels /\ channel'.conn = c
  BY <1>2 DEF Channels
<1>16. stubs' \in Conns /\ g.conn[stubs'].is_closed = "no"
  <2>1. CASE stubs # None /\ heap.conn[stubs].is_closed # "yes"
    <3>1. stubs' = stubs /\ stubs \in Conns /\ heap.conn[stubs].is_closed # "undefined"
      BY <1>0, <1>2, <2>1 DEF Bound
    <3>2. heap.conn[stubs].is_closed \in {"undefined", "no", "yes"}
      BY <1>h, <3>1 DEF Heaps, Sockets
    <3> QED
      BY <1>12, <2>1, <3>1, <3>2
  <2>2. CASE ~(stubs # None /\ heap.conn[stubs].is_closed # "yes")
    BY <1>2, <1>12, <2>2
  <2> QED
    BY <2>1, <2>2
<1>17. Bound(g, channel', stubs')
  BY <1>n, <1>12, <1>15, <1>16, JsAssumption DEF Bound
<1>18. SysInv(g, CONNID, channel', stubs', thrown)
  BY <1>0, <1>11, <1>13, <1>14, <1>15, <1>16, <1>17 DEF SysInv
<1>19. SysInv(heap', CONNID', channel', stubs', thrown')
  BY <1>1, <1>2, <1>18
<1>20. TakesNothing(heap, heap')
  BY <1>1, <1>12 DEF TakesNothing
<1> QED
  BY <1>19, <1>20 DEF IInv

\* The server begins to close.
LEMMA PeerClosesStep ==
  ASSUME IInv, NEW c \in Conns, PeerCloses(c) PROVE IInv' /\ TakesNothing(heap, heap')
<1>0. HeapInv(heap, thrown) /\ thrown \subseteq Calls
  BY DEF IInv, SysInv
<1>1. /\ heap.conn[c].ws # "none" /\ Become(Cut(heap, c, "CLOSING"))
      /\ UNCHANGED <<CONNID, channel, stubs, thrown>>
  BY HeapParts DEF PeerCloses
<1> DEFINE g == Cut(heap, c, "CLOSING")
<1>2. HeapInv(g, thrown) /\ Kept(heap, g)
  BY <1>0, <1>1, CutOK
<1>3. Become(g)
  BY <1>1
<1> HIDE DEF g
<1> QED
  BY <1>0, <1>1, <1>2, <1>3, KeptStep

\* The rest of a sequence.
LEMMA TailFacts ==
  ASSUME NEW S, NEW q \in Seq(S), q # <<>>
  PROVE  /\ Tail(q) \in Seq(S) /\ Head(q) = q[1] /\ 1 \in 1 .. Len(q)
         /\ \A i \in 1 .. Len(Tail(q)) : i + 1 \in 1 .. Len(q) /\ q[i + 1] = Tail(q)[i]
  OBVIOUS

\* A sequence and one more.
LEMMA AppendFacts ==
  ASSUME NEW S, NEW q \in Seq(S), NEW p \in S
  PROVE  /\ Append(q, p) \in Seq(S)
         /\ \A i \in 1 .. Len(Append(q, p)) :
               Append(q, p)[i] = p \/ (i \in 1 .. Len(q) /\ q[i] = Append(q, p)[i])
  OBVIOUS

\* A packet is taken from the front.
LEMMA TakenOK ==
  ASSUME NEW h, NEW T, HeapInv(h, T), NEW c \in Conns, h.replies[c] # <<>>
  PROVE  LET g == WithReplies(h, c, Tail(h.replies[c]))
         IN  HeapInv(g, T) /\ Kept(h, g) /\ g.conn = h.conn /\ g.call = h.call
<1> DEFINE q == h.replies[c]
           k == Tail(q)
           g == WithReplies(h, c, k)
<1>h. h \in Heaps
  BY DEF HeapInv
<1>1. q \in Seq(Packets) /\ q # <<>>
  BY <1>h DEF Heaps
<1>g. g = WithReplies(h, c, k)
  OBVIOUS
<1>q. h.replies[c] = q /\ k = Tail(q)
  OBVIOUS
<1> HIDE DEF q, k, g
<1>2. /\ k \in Seq(Packets)
      /\ \A i \in 1 .. Len(k) : i + 1 \in 1 .. Len(q) /\ q[i + 1] = k[i]
  BY <1>1, <1>q, TailFacts
<1>3. /\ g \in Heaps
      /\ g.replies[c] = k /\ \A d \in Conns \ {c} : g.replies[d] = h.replies[d]
      /\ g.call = h.call /\ g.conn = h.conn /\ g.requests = h.requests
  BY <1>h, <1>2, <1>g, SetReplies
<1>4. \A d \in Conns : \A i \in 1 .. Len(g.replies[d]) :
         \E j \in 1 .. Len(h.replies[d]) : h.replies[d][j] = g.replies[d][i]
  <2>1. ASSUME NEW d \in Conns, NEW i \in 1 .. Len(g.replies[d])
        PROVE  \E j \in 1 .. Len(h.replies[d]) : h.replies[d][j] = g.replies[d][i]
    <3>1. CASE d = c
      <4>1. i + 1 \in 1 .. Len(h.replies[d]) /\ h.replies[d][i + 1] = g.replies[d][i]
        BY <2>1, <3>1, <1>2, <1>3, <1>q
      <4> QED
        BY <4>1
    <3>2. CASE d # c
      <4>1. g.replies[d] = h.replies[d]
        BY <3>2, <1>3
      <4> QED
        BY <2>1, <4>1
    <3> QED
      BY <3>1, <3>2
  <2> QED
    BY <2>1
<1>5. \A d \in Conns : g.conn[d].ws = "none" => h.conn[d].ws = "none" /\ g.replies[d] = <<>>
  <2>1. \A d \in Conns : h.conn[d].ws = "none" => d # c
    BY <1>1, <1>q DEF HeapInv, Unmade
  <2> QED
    BY <2>1, <1>3 DEF HeapInv, Unmade
<1>6. \A d \in Conns : /\ Table(g, d) = Table(h, d)
                       /\ g.conn[d].transmissionId = h.conn[d].transmissionId
                       /\ g.requests[d] \subseteq h.requests[d]
  BY <1>3 DEF Table
<1>7. g \in Heaps /\ g.call = h.call
  BY <1>3
<1>8. HeapInv(g, T)
  BY <1>4, <1>5, <1>6, <1>7, UnderWayOK
<1>9. Kept(h, g)
  BY <1>3 DEF Kept, Table
<1> QED
  BY <1>3, <1>8, <1>9 DEF g, k, q

\* A response, with or without a callback for it.
LEMMA MessageStep ==
  ASSUME IInv, NEW c \in Conns, onmessage(c) PROVE IInv' /\ TakesNothing(heap, heap')
<1> DEFINE p == Head(replies[c])
           taken == WithReplies(heap, c, Tail(heap.replies[c]))
<1>0. HeapInv(heap, thrown) /\ thrown \subseteq Calls
  BY DEF IInv, SysInv
<1>1. heap.replies[c] # <<>> /\ UNCHANGED <<CONNID, channel, stubs, thrown>>
  BY HeapParts DEF onmessage
<1>t. taken = [heap EXCEPT !.replies[c] = Tail(@)]
  BY DEF WithReplies
<1>2. /\ p.type = "RESPONSE"
      /\ \/ \E e \in conn[c].transmissions : e.id = p.id /\ Become(answered(taken, c, e, p))
         \/ Become(taken)
  BY <1>t DEF onmessage
<1>3. HeapInv(taken, thrown) /\ Kept(heap, taken) /\ taken.conn = heap.conn
  BY <1>0, <1>1, TakenOK
<1>4. CASE Become(taken)
  <2> HIDE DEF taken
  <2> QED
    BY <1>0, <1>1, <1>3, <1>4, KeptStep
<1>5. CASE \E e \in conn[c].transmissions : e.id = p.id /\ Become(answered(taken, c, e, p))
  <2>1. PICK e \in Table(heap, c) : e.id = p.id /\ Become(answered(taken, c, e, p))
    BY <1>5, HeapParts DEF Table
  <2>2. p = heap.replies[c][1] /\ 1 \in 1 .. Len(heap.replies[c])
    <3>1. heap.replies[c] \in Seq(Packets)
      BY <1>0 DEF HeapInv, Heaps
    <3> QED
      BY <1>1, <3>1, TailFacts, HeapParts
  <2> HIDE DEF taken, p
  <2>3. p.call = e.call
    <3>1. OwnAt(heap, c)
      BY <1>0 DEF HeapInv, Own
    <3> QED
      BY <1>2, <2>1, <2>2, <3>1 DEF OwnAt
  <2>4. e \in Table(taken, c)
    BY <1>3 DEF Table
  <2> DEFINE g == answered(taken, c, e, p)
  <2>5. HeapInv(g, thrown) /\ Kept(taken, g)
    BY <1>3, <2>3, <2>4, AnsweredOK
  <2>6. Become(g)
    BY <2>1
  <2> HIDE DEF g
  <2>7. Kept(heap, g)
    BY <1>3, <2>5, KeptTrans
  <2> QED
    BY <1>0, <1>1, <2>5, <2>6, <2>7, KeptStep
<1> QED
  BY <1>2, <1>4, <1>5

\* A packet that is no response.
LEMMA ListenerStep ==
  ASSUME IInv, NEW c \in Conns, Listener_onmessage(c)
  PROVE  IInv' /\ TakesNothing(heap, heap')
<1> DEFINE taken == WithReplies(heap, c, Tail(heap.replies[c]))
<1>0. HeapInv(heap, thrown) /\ thrown \subseteq Calls
  BY DEF IInv, SysInv
<1>1. heap.replies[c] # <<>> /\ UNCHANGED <<CONNID, channel, stubs, thrown>>
  BY HeapParts DEF Listener_onmessage
<1>2. Become(taken)
  BY DEF Listener_onmessage, WithReplies
<1>3. HeapInv(taken, thrown) /\ Kept(heap, taken)
  BY <1>0, <1>1, TakenOK
<1> HIDE DEF taken
<1> QED
  BY <1>0, <1>1, <1>2, <1>3, KeptStep

\* The server: one packet is added, a response only to a request it has.
LEMMA ServerStep ==
  ASSUME IInv, NEW c \in Conns, Server(c) PROVE IInv' /\ TakesNothing(heap, heap')
<1>0. HeapInv(heap, thrown) /\ thrown \subseteq Calls
  BY DEF IInv, SysInv
<1>h. heap \in Heaps
  BY <1>0 DEF HeapInv
<1>1. conn[c].ws = "OPEN" /\ UNCHANGED <<CONNID, conn, channel, stubs, call, thrown>>
  BY DEF Server
<1>2. PICK p \in Packets :
         /\ replies' = [replies EXCEPT ![c] = Append(@, p)]
         /\ p.type = "RESPONSE" =>
               \E e \in requests[c] : e.call \notin Voids /\ e.call = p.call /\ e.id = p.id
  <2>1. ASSUME NEW e \in requests[c], ServerAnswers(c, e) \/ ServerFails(c, e)
        PROVE  \E p \in Packets :
                  /\ replies' = [replies EXCEPT ![c] = Append(@, p)]
                  /\ p.type = "RESPONSE" =>
                        \E f \in requests[c] : f.call \notin Voids /\ f.call = p.call /\ f.id = p.id
    <3>0. e.id \in Nat /\ e.call \in Calls
      BY <1>h, HeapParts DEF Heaps, Entries
    <3>1. CASE ServerAnswers(c, e)
      <4> DEFINE p == Packet("RESPONSE", e.id, e.call)
      <4>1. p \in Packets /\ p.call = e.call /\ p.id = e.id
        BY <3>0 DEF Packets, Packet
      <4>2. e.call \notin Voids /\ replies' = [replies EXCEPT ![c] = Append(@, p)]
        BY <3>1 DEF ServerAnswers, Reply
      <4> QED
        BY <4>1, <4>2
    <3>2. CASE ServerFails(c, e)
      <4> DEFINE p == Packet("UNKNOWN", e.id, e.call)
      <4>1. p \in Packets /\ p.type = "UNKNOWN"
        BY <3>0 DEF Packets, Packet
      <4>2. replies' = [replies EXCEPT ![c] = Append(@, p)]
        BY <3>2 DEF ServerFails, Reply
      <4> QED
        BY <4>1, <4>2
    <3> QED
      BY <2>1, <3>1, <3>2
  <2>2. ASSUME ServerCalls(c)
        PROVE  \E p \in Packets :
                  /\ replies' = [replies EXCEPT ![c] = Append(@, p)]
                  /\ p.type # "RESPONSE"
    <3> DEFINE p == Packet("REQUEST", 0, None)
    <3>1. p \in Packets /\ p.type = "REQUEST"
      BY DEF Packets, Packet
    <3>2. replies' = [replies EXCEPT ![c] = Append(@, p)]
      BY <2>2 DEF ServerCalls, Reply
    <3> QED
      BY <3>1, <3>2
  <2> QED
    BY <2>1, <2>2 DEF Server
<1>3. /\ requests' \in [Conns -> SUBSET Entries]
      /\ \A d \in Conns : requests'[d] \subseteq requests[d]
  <2>1. requests \in [Conns -> SUBSET Entries]
    BY <1>h, HeapParts DEF Heaps
  <2> QED
    BY <2>1 DEF Server, ServerAnswers, ServerFails, ServerCalls
<1> DEFINE g == heap'
<1>4. /\ g.conn = heap.conn /\ g.call = heap.call
      /\ g.requests = requests' /\ g.replies = replies'
  BY <1>1 DEF heap
<1>5. /\ replies \in [Conns -> Seq(Packets)] /\ replies[c] \in Seq(Packets)
      /\ Append(replies[c], p) \in Seq(Packets)
      /\ \A i \in 1 .. Len(Append(replies[c], p)) :
            \/ Append(replies[c], p)[i] = p
            \/ i \in 1 .. Len(replies[c]) /\ replies[c][i] = Append(replies[c], p)[i]
  <2>1. replies \in [Conns -> Seq(Packets)]
    BY <1>h, HeapParts DEF Heaps
  <2>2. replies[c] \in Seq(Packets) /\ p \in Packets
    BY <2>1
  <2> QED
    BY <2>1, <2>2, AppendFacts
<1>6. g \in Heaps
  <2>1. replies' \in [Conns -> Seq(Packets)]
    BY <1>2, <1>5
  <2>2. conn' \in [Conns -> Sockets] /\ call' \in [Calls -> CallStates]
    BY <1>h, <1>1, HeapParts DEF Heaps
  <2> QED
    BY <2>1, <2>2, <1>3 DEF heap, Heaps
<1>7. ASSUME NEW d \in Conns, NEW i \in 1 .. Len(g.replies[d]), g.replies[d][i].type = "RESPONSE"
      PROVE  \/ \E j \in 1 .. Len(heap.replies[d]) : heap.replies[d][j] = g.replies[d][i]
             \/ \E e \in heap.requests[d] : /\ e.call \notin Voids
                                            /\ e.call = g.replies[d][i].call
                                            /\ e.id = g.replies[d][i].id
  <2> HIDE DEF g
  <2>1. CASE d # c
    <3>1. g.replies[d] = heap.replies[d]
      BY <2>1, <1>2, <1>4, <1>5, HeapParts
    <3> QED
      BY <1>7, <3>1
  <2>2. CASE d = c
    <3>1. g.replies[d] = Append(replies[c], p)
      BY <2>2, <1>2, <1>4, <1>5
    <3>2. heap.replies[d] = replies[c] /\ heap.requests[d] = requests[c]
      BY <2>2, HeapParts
    <3>3. CASE g.replies[d][i] = p
      BY <1>2, <1>7, <3>2, <3>3
    <3>4. CASE i \in 1 .. Len(replies[c]) /\ replies[c][i] = g.replies[d][i]
      BY <3>2, <3>4
    <3> QED
      BY <1>5, <1>7, <3>1, <3>3, <3>4
  <2> QED
    BY <2>1, <2>2
<1>8. ASSUME NEW d \in Conns, g.conn[d].ws = "none"
      PROVE  heap.conn[d].ws = "none" /\ g.replies[d] = <<>>
  <2> HIDE DEF g
  <2>1. heap.conn[d].ws = "none" /\ d # c
    BY <1>1, <1>4, <1>8, HeapParts
  <2>2. g.replies[d] = heap.replies[d]
    BY <2>1, <1>2, <1>4, <1>5, HeapParts
  <2> QED
    BY <1>0, <2>1, <2>2 DEF HeapInv, Unmade
<1>9. \A d \in Conns : /\ Table(g, d) = Table(heap, d)
                       /\ g.conn[d].transmissionId = heap.conn[d].transmissionId
                       /\ g.requests[d] \subseteq heap.requests[d]
  BY <1>3, <1>4, HeapParts DEF Table
<1>10. Become(g) /\ Kept(heap, g)
  BY <1>4 DEF Become, Kept, Table, heap
<1> HIDE DEF g
<1>11. HeapInv(g, thrown)
  BY <1>0, <1>4, <1>6, <1>7, <1>8, <1>9, UnderWayOK
<1> QED
  BY <1>0, <1>1, <1>10, <1>11, KeptStep
-------------------------------------------------------------------------------
(* onclose *)

\* What is left of the channel and the stubs when a handler has closed c.
Closing(h, c) == WithClosed(Cut(h, c, "CLOSED"), c, "yes")

\* A close event changes flags and loses packets.
LEMMA ClosingFacts ==
  ASSUME NEW h, NEW T, HeapInv(h, T), NEW c \in Conns, h.conn[c].ws # "none"
  PROVE  LET g == Closing(h, c)
         IN  /\ HeapInv(g, T) /\ g.conn[c].is_closed = "yes"
             /\ \A d \in Conns : /\ Table(g, d) = Table(h, d)
                                 /\ (g.conn[d].ws = "none") = (h.conn[d].ws = "none")
                                 /\ d # c => g.conn[d].is_closed = h.conn[d].is_closed
             /\ g.call = h.call
<1> DEFINE k == Cut(h, c, "CLOSED")
<1>y. PICK yes \in Flags : yes = "yes"
  BY DEF Flags
<1> DEFINE g == WithClosed(k, c, yes)
<1>1. /\ HeapInv(k, T) /\ Kept(h, k) /\ Table(k, c) = Table(h, c)
      /\ k.call = h.call /\ k.conn[c].ws = "CLOSED"
  BY CutOK
<1>2. \A d \in Conns : Table(k, d) = Table(h, d)
  BY DEF Cut, Table, HeapInv, Heaps, Sockets
<1> HIDE DEF k
<1>3. /\ HeapInv(g, T) /\ g.conn[c].is_closed = yes
      /\ g.conn[c].ws = k.conn[c].ws
      /\ \A d \in Conns : Table(g, d) = Table(k, d)
      /\ \A d \in Conns \ {c} : g.conn[d] = k.conn[d]
      /\ g.call = k.call
  BY <1>1, <1>y, FlagsOK
<1>4. g = Closing(h, c)
  BY <1>y DEF Closing, k
<1> HIDE DEF g
<1>5. \A d \in Conns : /\ Table(g, d) = Table(h, d)
                       /\ (g.conn[d].ws = "none") = (h.conn[d].ws = "none")
                       /\ d # c => g.conn[d].is_closed = h.conn[d].is_closed
  BY <1>1, <1>2, <1>3 DEF Kept
<1> QED
  BY <1>y, <1>1, <1>3, <1>4, <1>5

\* The system after a close event of c, whatever the callbacks did.
LEMMA AfterClose ==
  ASSUME NEW h, NEW n, NEW ch, NEW st, NEW T, SysInv(h, n, ch, st, T),
         NEW c \in Conns, h.conn[c].ws # "none",
         NEW g, NEW U, HeapInv(g, U), Kept(Closing(h, c), g),
         T \subseteq U, U \subseteq Calls, Table(g, c) = {} \/ U # {},
         NEW ch1 \in Channels, ch1.is_closed, ch1.conn \in {None, ch.conn},
         NEW st1 \in {None, st}
  PROVE  SysInv(g, n, ch1, st1, U) /\ TakesNothing(h, g)
<1> DEFINE k == Closing(h, c)
<1>0. /\ HeapInv(h, T) /\ n \in 0 .. MaxConns
      /\ st \in Conns \cup {None} /\ ch \in Channels
      /\ Fresh(h, n) /\ Bound(h, ch, st) /\ Swept(h, T)
  BY DEF SysInv
<1>1. /\ k.conn[c].is_closed = "yes"
      /\ \A d \in Conns : /\ Table(k, d) = Table(h, d)
                          /\ (k.conn[d].ws = "none") = (h.conn[d].ws = "none")
                          /\ d # c => k.conn[d].is_closed = h.conn[d].is_closed
  BY <1>0, ClosingFacts
<1> HIDE DEF k
<1>2. /\ g.conn[c].is_closed = "yes"
      /\ \A d \in Conns : /\ (g.conn[d].ws = "none") = (h.conn[d].ws = "none")
                          /\ d # c => g.conn[d].is_closed = h.conn[d].is_closed
                          /\ g.conn[d].is_closed = "yes" => Table(g, d) \subseteq Table(h, d)
  BY <1>1 DEF Kept, k
<1>3. Fresh(g, n)
  BY <1>0, <1>2 DEF Fresh
<1>4. Bound(g, ch1, st1)
  BY <1>0, <1>2 DEF Bound, Channels
<1>5. Swept(g, U)
  BY <1>0, <1>2 DEF Swept
<1>6. TakesNothing(h, g)
  <2>1. \A d \in Conns : h.conn[d].is_closed = "yes" => g.conn[d].is_closed = "yes"
    BY <1>2
  <2> QED
    BY <1>2, <2>1 DEF TakesNothing
<1> QED
  BY <1>0, <1>3, <1>4, <1>5, <1>6 DEF SysInv

\* The channel closes the connection it has, which may be another one.
LEMMA ConnectionClosedOK ==
  ASSUME IInv, NEW c \in Conns, heap.conn[c].ws # "none",
         NEW stop, stop = None \/ (~channel.is_closed /\ stop \in Table(heap, channel.conn)),
         NEW r \in Calls \cup {None}, r # None => stop = None /\ heap.call[r].pc = "new"
  PROVE  LET g == connection_closed(Closing(heap, c), c, stop, r)
         IN  HeapInv(g, thrown \cup Throwing(stop)) /\ Kept(Closing(heap, c), g)
<1> DEFINE k == Closing(heap, c)
           g == connection_closed(k, c, stop, r)
<1>0. /\ SysInv(heap, CONNID, channel, stubs, thrown)
      /\ HeapInv(heap, thrown)
      /\ channel \in Channels /\ stubs \in Conns \cup {None} /\ Bound(heap, channel, stubs)
  BY DEF IInv, SysInv
<1>1. /\ HeapInv(k, thrown) /\ k.call = heap.call
      /\ \A d \in Conns : /\ Table(k, d) = Table(heap, d)
                          /\ (k.conn[d].ws = "none") = (heap.conn[d].ws = "none")
  BY <1>0, ClosingFacts
<1>s. stubs # None => stubs \in Conns /\ k.conn[stubs].ws # "none"
  BY <1>0, <1>1, Made
<1> HIDE DEF k
<1>2. CASE channel.is_closed
  <2>1. g = k /\ Throwing(stop) = {}
    BY <1>2 DEF connection_closed, Throwing
  <2>2. Kept(k, k) /\ thrown \cup {} = thrown
    BY DEF Kept
  <2> QED
    BY <1>1, <2>1, <2>2 DEF k
<1>3. CASE ~channel.is_closed
  <2>1. channel.conn \in Conns /\ k.conn[channel.conn].ws # "none"
    BY <1>0, <1>1, <1>3, Made DEF Bound
  <2>2. g = close(k, channel.conn, stop, r, stubs)
    BY <1>3 DEF connection_closed
  <2>3. stop = None \/ stop \in Table(k, channel.conn)
    BY <1>1, <2>1
  <2>4. r # None => stop = None /\ k.call[r].pc = "new"
    BY <1>1
  <2> HIDE DEF g
  <2>5. /\ HeapInv(close(k, channel.conn, stop, r, stubs), thrown \cup Throwing(stop))
        /\ Kept(k, close(k, channel.conn, stop, r, stubs))
    BY <1>0, <1>1, <1>s, <2>1, <2>3, <2>4, CloseOK
  <2> QED
    BY <2>2, <2>5 DEF g, k
<1> QED
  BY <1>2, <1>3

\* The close event: channel, stubs and clean-up.
LEMMA CloseStep ==
  ASSUME IInv, NEW c \in Conns, onclose(c) PROVE IInv' /\ TakesNothing(heap, heap')
<1> DEFINE closed == Closing(heap, c)
           stops == IF channel.is_closed THEN {None} ELSE Stops(channel.conn)
<1>0. /\ SysInv(heap, CONNID, channel, stubs, thrown)
      /\ HeapInv(heap, thrown) /\ thrown \subseteq Calls
      /\ channel \in Channels /\ stubs \in Conns \cup {None} /\ Bound(heap, channel, stubs)
  BY DEF IInv, SysInv
<1>1. /\ heap.conn[c].ws # "none" /\ CONNID' = CONNID
      /\ closed = [Cut(heap, c, "CLOSED") EXCEPT !.conn[c].is_closed = "yes"]
  BY HeapParts DEF onclose, Closing, WithClosed
<1>n. None \notin Conns
  BY JsAssumption
<1> HIDE DEF closed
<1>e. ASSUME NEW g, NEW U, NEW ch1 \in Channels, NEW st1 \in {None, stubs},
             heap' = g, thrown' = U, channel' = ch1, stubs' = st1,
             HeapInv(g, U), Kept(closed, g),
             thrown \subseteq U, U \subseteq Calls, Table(g, c) = {} \/ U # {},
             ch1.is_closed, ch1.conn \in {None, channel.conn}
      PROVE  IInv' /\ TakesNothing(heap, heap')
  <2>1. SysInv(g, CONNID, ch1, st1, U) /\ TakesNothing(heap, g)
    BY <1>0, <1>1, <1>e, AfterClose DEF closed
  <2>2. SysInv(heap', CONNID', channel', stubs', thrown') /\ TakesNothing(heap, heap')
    BY <1>1, <1>e, <2>1
  <2> QED
    BY <2>2 DEF IInv
<1>2. CASE \E stop \in Stops(c) : \E r \in Retries(stop) :
              LET h == connection_closed(closed, c, None, r)
                  again == IF r # None /\ h.call[r].pc = "new" THEN r ELSE None
              IN  /\ Become(cleanup(h, c, IF stop \in h.conn[c].transmissions
                                          THEN stop ELSE None, again, None))
                  /\ channel' = IF channel.is_closed THEN channel
                                ELSE [conn |-> None, is_closed |-> TRUE]
                  /\ stubs' = None
                  /\ thrown' = thrown \cup
                        (IF stop \in h.conn[c].transmissions THEN Throwing(stop) ELSE {})
  <2>1. PICK stop \in Stops(c) : \E r \in Retries(stop) :
              LET h == connection_closed(closed, c, None, r)
                  again == IF r # None /\ h.call[r].pc = "new" THEN r ELSE None
              IN  /\ Become(cleanup(h, c, IF stop \in h.conn[c].transmissions
                                          THEN stop ELSE None, again, None))
                  /\ channel' = IF channel.is_closed THEN channel
                                ELSE [conn |-> None, is_closed |-> TRUE]
                  /\ stubs' = None
                  /\ thrown' = thrown \cup
                        (IF stop \in h.conn[c].transmissions THEN Throwing(stop) ELSE {})
    BY <1>2
  <2>2. PICK r \in Retries(stop) :
              LET h == connection_closed(closed, c, None, r)
                  again == IF r # None /\ h.call[r].pc = "new" THEN r ELSE None
              IN  /\ Become(cleanup(h, c, IF stop \in h.conn[c].transmissions
                                          THEN stop ELSE None, again, None))
                  /\ channel' = IF channel.is_closed THEN channel
                                ELSE [conn |-> None, is_closed |-> TRUE]
                  /\ stubs' = None
                  /\ thrown' = thrown \cup
                        (IF stop \in h.conn[c].transmissions THEN Throwing(stop) ELSE {})
    BY <2>1
  <2> DEFINE h == connection_closed(closed, c, None, r)
             again == IF r # None /\ h.call[r].pc = "new" THEN r ELSE None
             stop1 == IF stop \in Table(h, c) THEN stop ELSE None
             g == cleanup(h, c, stop1, again, None)
             U == thrown \cup Throwing(stop1)
             ch1 == IF channel.is_closed THEN channel
                    ELSE [conn |-> None, is_closed |-> TRUE]
  <2>3. /\ stop = None \/ stop \in Table(heap, c)
        /\ r \in Calls \cup {None}
        /\ r # None => stop = None /\ heap.call[r].pc = "new"
        /\ Throwing(stop) \subseteq Calls
    BY StopsOK
  <2>4. HeapInv(h, thrown \cup Throwing(None)) /\ Kept(closed, h)
    BY <1>1, <2>3, ConnectionClosedOK DEF closed
  <2>5. HeapInv(h, thrown)
    BY <2>4 DEF Throwing
  <2>6. /\ Become(g) /\ channel' = ch1 /\ stubs' = None /\ thrown' = U
    BY <2>2 DEF Throwing, Table
  <2>7. /\ stop1 = None \/ stop1 \in Table(h, c)
        /\ again \in Calls \cup {None}
        /\ again # None => stop1 = None /\ h.call[again].pc = "new"
        /\ Throwing(stop1) \subseteq Calls
        /\ stop1 # None => U # {}
    BY <2>3 DEF Throwing
  <2> HIDE DEF h, again, stop1
  <2>8. /\ HeapInv(g, U) /\ Kept(h, g)
        /\ stop1 = None => Table(g, c) = {}
    BY <2>5, <2>7, CleanupOK
  <2>9. thrown \subseteq U /\ U \subseteq Calls
    BY <1>0, <2>7
  <2>10. ch1 \in Channels /\ ch1.is_closed /\ ch1.conn \in {None, channel.conn}
    BY <1>0 DEF Channels
  <2> HIDE DEF g, U, ch1
  <2>11. heap' = g
    BY <2>6, <2>8, BecomeOK DEF HeapInv
  <2>12. Kept(closed, g)
    BY <2>4, <2>8, KeptTrans
  <2>13. Table(g, c) = {} \/ U # {}
    BY <2>7, <2>8
  <2> QED
    BY <1>e, <2>6, <2>8, <2>9, <2>10, <2>11, <2>12, <2>13
<1>3. CASE \E stop \in stops \ {None} :
              /\ Become(connection_closed(closed, c, stop, None))
              /\ channel' = [channel EXCEPT !.is_closed = TRUE]
              /\ thrown' = thrown \cup Throwing(stop)
              /\ UNCHANGED stubs
  <2>1. PICK stop \in stops \ {None} :
              /\ Become(connection_closed(closed, c, stop, None))
              /\ channel' = [channel EXCEPT !.is_closed = TRUE]
              /\ thrown' = thrown \cup Throwing(stop)
              /\ UNCHANGED stubs
    BY <1>3
  <2> DEFINE g == connection_closed(closed, c, stop, None)
             U == thrown \cup Throwing(stop)
             ch1 == [channel EXCEPT !.is_closed = TRUE]
  <2>2. /\ ~channel.is_closed /\ channel.conn \in Conns
        /\ stop # None /\ stop \in Table(heap, channel.conn)
    BY <1>0, <2>1, HeapParts DEF Stops, Table, Bound, Channels
  <2>3. HeapInv(g, U) /\ Kept(closed, g)
    BY <1>1, <2>2, ConnectionClosedOK DEF closed
  <2>4. thrown \subseteq U /\ U \subseteq Calls /\ U # {}
    <3>1. heap \in Heaps
      BY <1>0 DEF HeapInv
    <3>2. Throwing(stop) \subseteq Calls
      BY <2>2, <3>1, ThrowingOK
    <3> QED
      BY <1>0, <2>2, <3>2 DEF Throwing
  <2>5. ch1 \in Channels /\ ch1.is_closed /\ ch1.conn \in {None, channel.conn}
    BY <1>0 DEF Channels
  <2>6. Become(g) /\ thrown' = U /\ channel' = ch1 /\ stubs' = stubs
    BY <2>1
  <2> HIDE DEF g, U, ch1
  <2>7. heap' = g
    BY <2>3, <2>6, BecomeOK DEF HeapInv
  <2> QED
    BY <1>e, <2>3, <2>4, <2>5, <2>6, <2>7
<1>4. stops = IF channel.is_closed THEN {None} ELSE Stops(channel.conn)
  OBVIOUS
<1> HIDE DEF stops
<1> QED
  BY <1>1, <1>2, <1>3, <1>4 DEF onclose
-------------------------------------------------------------------------------
(* Theorems *)

\* Every step keeps the invariant.
LEMMA NextOK == IInv /\ [Next]_vars => IInv' /\ TakesNothing(heap, heap')
<1> SUFFICES ASSUME IInv, [Next]_vars PROVE IInv' /\ TakesNothing(heap, heap')
  OBVIOUS
<1>1. ASSUME NEW a \in Addresses, connect(a) PROVE IInv' /\ TakesNothing(heap, heap')
  BY <1>1, ConnectStep
<1>2. ASSUME NEW x \in Calls, Call(x) PROVE IInv' /\ TakesNothing(heap, heap')
  BY <1>2, CallStep
<1>3. ASSUME NEW x \in Calls, timeout(x) PROVE IInv' /\ TakesNothing(heap, heap')
  BY <1>3, TimeoutStep
<1>4. CASE Channel_close
  BY <1>4, ChannelCloseStep
<1>5. CASE init_stubs
  BY <1>5, InitStubsStep
<1>6. ASSUME NEW c \in Conns,
             \/ conn_close(c) \/ onopen(c) \/ Closed(c) \/ Lost(c) \/ PeerCloses(c)
             \/ onmessage(c) \/ Listener_onmessage(c) \/ Server(c)
      PROVE  IInv' /\ TakesNothing(heap, heap')
  <2>1. CASE conn_close(c)
    BY <2>1, ConnCloseStep
  <2>2. CASE onopen(c)
    BY <2>2, OpenStep
  <2>3. CASE Closed(c) \/ Lost(c)
    <3>1. onclose(c)
      BY <2>3 DEF Closed, Lost
    <3> QED
      BY <3>1, CloseStep
  <2>4. CASE PeerCloses(c)
    BY <2>4, PeerClosesStep
  <2>5. CASE onmessage(c)
    BY <2>5, MessageStep
  <2>6. CASE Listener_onmessage(c)
    BY <2>6, ListenerStep
  <2>7. CASE Server(c)
    BY <2>7, ServerStep
  <2> QED
    BY <1>6, <2>1, <2>2, <2>3, <2>4, <2>5, <2>6, <2>7
<1>7. CASE UNCHANGED vars
  <2>1. /\ heap' = heap
        /\ CONNID' = CONNID /\ channel' = channel /\ stubs' = stubs /\ thrown' = thrown
    BY <1>7 DEF vars, heap
  <2>2. SysInv(heap', CONNID', channel', stubs', thrown')
    BY <2>1 DEF IInv
  <2> QED
    BY <2>1, <2>2 DEF IInv, TakesNothing
<1> QED
  BY <1>1, <1>2, <1>3, <1>4, <1>5, <1>6, <1>7 DEF Next

\* The inductive invariant holds in every behaviour of the client.
THEOREM Invariance == Spec => []IInv
<1>1. Init => IInv
  BY InitOK
<1>2. IInv /\ [Next]_vars => IInv'
  BY NextOK
<1> QED
  BY <1>1, <1>2, PTL DEF Spec

\* The state keeps its shape; the ids of a table are natural numbers given out.
THEOREM TypeCorrect == Spec => []TypeOK
<1>1. IInv => TypeOK
  <2> SUFFICES ASSUME IInv PROVE TypeOK
    OBVIOUS
  <2>1. /\ heap \in Heaps /\ thrown \subseteq Calls /\ CONNID \in 0 .. MaxConns
        /\ channel \in Channels /\ stubs \in Conns \cup {None}
    BY DEF IInv, SysInv, HeapInv
  <2>2. /\ conn \in [Conns -> Sockets] /\ requests \in [Conns -> SUBSET Entries]
        /\ replies \in [Conns -> Seq(Packets)] /\ call \in [Calls -> CallStates]
    BY <2>1, HeapParts DEF Heaps
  <2> QED
    BY <2>1, <2>2 DEF TypeOK, Sockets, Entries, Packets, CallStates, Channels
<1> QED
  BY <1>1, Invariance, PTL

\* A callback is never given the response to another call (onmessage).
THEOREM OwnAnswers == Spec => []OwnAnswer
<1>1. IInv => OwnAnswer
  BY HeapParts DEF IInv, SysInv, HeapInv, Told, ToldAt, OwnAnswer
<1> QED
  BY <1>1, Invariance, PTL

\* A callback that has not thrown in a clean-up runs at most once, whichever of
\* a response, a timer and a close reach it (cleanup, onmessage, setTimeout).
THEOREM ToldOnce == Spec => []CallbackAtMostOnce
<1>1. IInv => CallbackAtMostOnce
  <2> SUFFICES ASSUME IInv, NEW x \in Calls
               PROVE  call[x].answers <= (IF x \in thrown THEN 2 ELSE 1)
    BY DEF CallbackAtMostOnce
  <2>1. ToldAt(heap, thrown, x) /\ heap.call[x].answers \in 0 .. 2
    BY DEF IInv, SysInv, HeapInv, Told, Heaps, CallStates
  <2> QED
    BY <2>1, HeapParts DEF ToldAt
<1> QED
  BY <1>1, Invariance, PTL

\* What waits is in the table of a connection whose close event is to come
\* (registration in the stub, onclose, cleanup).
THEOREM NothingForgotten == Spec => []NoneForgotten
<1>1. IInv => NoneForgotten
  <2> SUFFICES ASSUME IInv, NEW x \in Calls, call[x].pc = "waiting"
               PROVE  LET c == conn[call[x].conn]
                      IN  /\ \E e \in c.transmissions : e.call = x
                          /\ c.is_closed = "yes" => thrown # {}
    BY DEF NoneForgotten
  <2>1. ToldAt(heap, thrown, x) /\ Swept(heap, thrown)
    BY DEF IInv, SysInv, HeapInv, Told
  <2>2. call[x].conn \in Conns /\ \E e \in Table(heap, call[x].conn) : e.call = x
    BY <2>1, HeapParts DEF ToldAt
  <2> QED
    BY <2>1, <2>2, HeapParts DEF Swept, Table
<1> QED
  BY <1>1, Invariance, PTL

\* An open channel has stubs on a connection that is not closed
\* (bindConnection, connection_closed).
THEOREM StubsStayBound == Spec => []StubsBound
<1>1. IInv => StubsBound
  BY HeapParts DEF IInv, SysInv, Bound, StubsBound
<1> QED
  BY <1>1, Invariance, PTL

\* No step gives a closed connection another callback to tell (stub, cleanup).
THEOREM NoneAfterClose == Spec => ClosedTakesNothing
<1>1. IInv /\ [Next]_vars =>
         [\A c \in Conns : conn[c].is_closed = "yes" =>
             conn'[c].transmissions \subseteq conn[c].transmissions]_vars
  <2> SUFFICES ASSUME IInv, [Next]_vars, NEW c \in Conns, conn[c].is_closed = "yes"
               PROVE  conn'[c].transmissions \subseteq conn[c].transmissions
    OBVIOUS
  <2>1. TakesNothing(heap, heap')
    BY NextOK
  <2> QED
    BY <2>1 DEF TakesNothing, Table, heap
<1> QED
  BY <1>1, Invariance, PTL DEF Spec, ClosedTakesNothing
===============================================================================
