----------------------------- MODULE StreamProofs -----------------------------
(***************************************************************************)
(* Proofs about Stream, for any tasks, any number of bytes and any choice  *)
(* of the environment's events (Env).                                      *)
(*                                                                         *)
(*   TypeCorrect, OrderKept, ClosedOnce, PolledWithData   whatever happens *)
(*   Quiet, Implements        provided no waiting task is cancelled        *)
(*   ClosedAfterSending       provided only close() may come               *)
(*   WaiterKept               and moreover one task at most awaits write() *)
(***************************************************************************)
EXTENDS Stream, SequenceTheorems, TLAPS

USE StreamAssumption DEF EnvEvents

\* What a send leaves of the data follows, in the buffer, what it took.
LEMMA Split ==
  ASSUME NEW s \in Seq(Nat), NEW n \in 0..Len(s)
  PROVE  /\ SubSeq(s, 1, n) \in Seq(Nat)
         /\ SubSeq(s, n + 1, Len(s)) \in Seq(Nat)
         /\ SubSeq(s, 1, n) \o SubSeq(s, n + 1, Len(s)) = s
         /\ n = Len(s) => SubSeq(s, n + 1, Len(s)) = <<>>
         /\ n < Len(s) => SubSeq(s, n + 1, Len(s)) # <<>>
<1>1. Len(s) \in Nat /\ \A i \in 1..Len(s) : s[i] \in Nat
  BY LenProperties, ElementOfSeq
<1>2. SubSeq(s, 1, n) \in Seq(Nat)
  BY <1>1, SubSeqProperties
<1>3. /\ SubSeq(s, n + 1, Len(s)) \in Seq(Nat)
      /\ Len(SubSeq(s, n + 1, Len(s))) = Len(s) - n
  BY <1>1, SubSeqProperties
<1>4. SubSeq(s, 1, n) \o SubSeq(s, n + 1, Len(s)) = SubSeq(s, 1, Len(s))
  <2>1. 1 \in 1..Len(s) + 1 /\ n \in 1 - 1..Len(s) /\ Len(s) \in n..Len(s)
    BY <1>1
  <2>2. QED
    BY <2>1, ConcatAdjacentSubSeq
<1>5. SubSeq(s, 1, Len(s)) = s
  BY SubSeqFull
<1>6. n = Len(s) => SubSeq(s, n + 1, Len(s)) = <<>>
  BY <1>1, SubSeqEmpty
<1>7. n < Len(s) => SubSeq(s, n + 1, Len(s)) # <<>>
  <2>1. HAVE n < Len(s)
  <2>2. Len(SubSeq(s, n + 1, Len(s))) # 0
    BY <1>1, <1>3, <2>1
  <2>3. QED
    BY <2>2, EmptySeq
<1>8. QED
  BY <1>2, <1>3, <1>4, <1>5, <1>6, <1>7

\* Concatenation is associative.
LEMMA Regroup ==
  ASSUME NEW s \in Seq(Nat), NEW t \in Seq(Nat), NEW u \in Seq(Nat)
  PROVE  (s \o t) \o u = s \o (t \o u)
BY ConcatAssociative, SMT

\* The data of a call is a sequence, and not empty.
LEMMA DataType ==
  ASSUME NEW n \in Room, written \in Seq(Nat)
  PROVE  Data(n) \in Seq(Nat) /\ Len(Data(n)) = n /\ n \in Nat \ {0}
<1>1. Len(written) \in Nat
  BY LenProperties
<1>2. n \in Nat \ {0}
  BY <1>1 DEF Room
<1>3. QED
  BY <1>1, <1>2 DEF Data
-------------------------------------------------------------------------------
(* Type correctness *)

\* The three ways a transport is closed keep the state in shape.
LEMMA CloseType ==
  ASSUME TypeOK
  PROVE  /\ finnal_close => state' = "CLOSED" /\ closed_event' = TRUE /\ lost' \in Nat
         /\ force_close /\ UNCHANGED <<shut_wr, soon, waiting>> => TypeOK'
         /\ do_close => TypeOK'
<1>1. finnal_close => state' = "CLOSED" /\ closed_event' = TRUE /\ lost' \in Nat
  BY DEF finnal_close, TypeOK
<1>2. ASSUME force_close, UNCHANGED <<shut_wr, soon, waiting>> PROVE TypeOK'
  <2>1. writer' \in BOOLEAN
    BY <1>2 DEF force_close
  <2>2. QED
    BY <1>1, <1>2, <2>1, EmptySeq DEF force_close, waiting, TypeOK
<1>3. ASSUME do_close PROVE TypeOK'
  <2>1. CASE closed_event
    BY <1>3, <2>1 DEF do_close, bytes, waiting, TypeOK
  <2>2. CASE ~closed_event /\ write_buffer = <<>>
    BY <1>1, <1>3, <2>2 DEF do_close, bytes, waiting, TypeOK
  <2>3. CASE ~closed_event /\ write_buffer # <<>>
    BY <1>3, <2>3 DEF do_close, bytes, waiting, TypeOK
  <2>4. QED
    BY <2>1, <2>2, <2>3
<1>4. QED
  BY <1>1, <1>2, <1>3

\* What write_sync can do, from an argument in shape: send at once, fail, or
\* queue.
Sent(data, n) ==
    /\ ~closed_event
    /\ write_buffer = <<>>
    /\ n \in 0..Len(data)
    /\ wire' = wire \o SubSeq(data, 1, n)
    /\ write_buffer' = SubSeq(data, n + 1, Len(data))
    /\ writer' = (writer \/ n < Len(data))
    /\ soon' = IF n = Len(data) /\ state = "CLOSING" THEN soon + 1 ELSE soon
    /\ written' = written \o data
    /\ UNCHANGED <<closing, reader, dropped, shut_wr>>

SendFailed ==
    /\ ~closed_event
    /\ write_buffer = <<>>
    /\ SendFails
    /\ force_close
    /\ UNCHANGED <<soon, shut_wr>>

Queued(data) == Enqueue(data) /\ UNCHANGED shut_wr

LEMMA WriteCases ==
  ASSUME NEW data, write_sync(data)
  PROVE  (\E n \in 0..Len(data) : Sent(data, n)) \/ SendFailed \/ Queued(data)
BY DEF write_sync, TrySend, SendTakes, Sent, SendFailed, Queued, closing

\* Writing keeps all but the waiters in shape.
LEMMA WriteType ==
  ASSUME TypeOK, NEW data \in Seq(Nat), write_sync(data)
  PROVE  /\ state' \in {"OPENED", "CLOSING", "CLOSED"}
         /\ closed_event' \in BOOLEAN /\ reader' \in BOOLEAN /\ writer' \in BOOLEAN
         /\ shut_wr' \in BOOLEAN
         /\ write_buffer' \in Seq(Nat) /\ written' \in Seq(Nat)
         /\ wire' \in Seq(Nat) /\ dropped' \in Seq(Nat)
         /\ soon' \in Nat /\ lost' \in Nat
<1>1. ASSUME NEW n \in 0..Len(data), Sent(data, n)
      PROVE  /\ UNCHANGED <<state, closed_event, reader, shut_wr, dropped, lost>>
             /\ writer' \in BOOLEAN
             /\ write_buffer' \in Seq(Nat) /\ written' \in Seq(Nat)
             /\ wire' \in Seq(Nat) /\ soon' \in Nat
  <2>1. SubSeq(data, 1, n) \in Seq(Nat) /\ SubSeq(data, n + 1, Len(data)) \in Seq(Nat)
    BY Split
  <2>2. wire' \in Seq(Nat) /\ written' \in Seq(Nat)
    BY <1>1, <2>1, ConcatProperties DEF Sent, TypeOK
  <2>3. writer' \in BOOLEAN
    BY <1>1 DEF Sent
  <2>4. soon' \in Nat
    BY <1>1 DEF Sent, TypeOK
  <2>5. QED
    BY <1>1, <2>1, <2>2, <2>3, <2>4 DEF Sent, closing
<1>2. ASSUME SendFailed
      PROVE  /\ UNCHANGED <<shut_wr, soon, wire, written>>
             /\ state' = "CLOSED" /\ closed_event' = TRUE /\ lost' \in Nat
             /\ reader' = FALSE /\ writer' \in BOOLEAN
             /\ write_buffer' = <<>> /\ dropped' = write_buffer
  <2>1. writer' \in BOOLEAN
    BY <1>2 DEF SendFailed, force_close
  <2>2. QED
    BY <1>2, <2>1, CloseType DEF SendFailed, force_close
<1>3. ASSUME Queued(data)
      PROVE  /\ UNCHANGED <<state, closed_event, reader, writer, shut_wr, dropped,
                            lost, soon, wire>>
             /\ write_buffer' \in Seq(Nat) /\ written' \in Seq(Nat)
  BY <1>3, ConcatProperties DEF Queued, Enqueue, closing, TypeOK
<1>4. QED
  BY <1>1, <1>2, <1>3, WriteCases, EmptySeq DEF TypeOK

\* Waiting, resuming and waking keep the waiters in shape.
LEMMA WaitType ==
  ASSUME TypeOK
  PROVE  /\ \A t \in Tasks : \A buffer : WaitAll(t, buffer) =>
               /\ write_empty_waiter' \in Tasks \cup {None}
               /\ fut' \in [Tasks -> {"none", "pending", "done", "cancelled"}]
         /\ WakeWaiter =>
               /\ write_empty_waiter' \in Tasks \cup {None}
               /\ fut' \in [Tasks -> {"none", "pending", "done", "cancelled"}]
BY DEF WaitAll, WakeWaiter, waiting, TypeOK

\* Every variable keeps its shape.
LEMMA TypeInit == Init => TypeOK
<1>1. <<>> \in Seq(Nat)
  BY EmptySeq
<1>2. ASSUME Init PROVE TypeOK
  <2>1. fut \in [Tasks -> {"none", "pending", "done", "cancelled"}]
    BY <1>2 DEF Init
  <2>2. /\ write_buffer \in Seq(Nat) /\ written \in Seq(Nat)
        /\ wire \in Seq(Nat) /\ dropped \in Seq(Nat)
    BY <1>1, <1>2, Zenon DEF Init
  <2>3. QED
    BY <1>2, <2>1, <2>2 DEF Init, TypeOK
<1>3. QED
  BY <1>2

\* Every step keeps the shape of the state.
LEMMA TypeStep == TypeOK /\ [Next]_vars => TypeOK'
<1> SUFFICES ASSUME TypeOK, [Next]_vars PROVE TypeOK'
  OBVIOUS
<1>1. CASE close
  BY <1>1, CloseType DEF close
<1>2. CASE shutdown
  BY <1>2 DEF shutdown, closing, bytes, waiting, TypeOK
<1>3. CASE finnal_close_soon
  <2>1. soon' \in Nat
    BY <1>3 DEF finnal_close_soon, TypeOK
  <2>2. QED
    BY <1>3, <2>1, CloseType DEF finnal_close_soon, bytes, waiting, TypeOK
<1>4. ASSUME NEW n \in Room, WriteSync(n) PROVE TypeOK'
  <2>1. Data(n) \in Seq(Nat)
    BY DataType DEF TypeOK
  <2>2. QED
    BY <1>4, <2>1, WriteType DEF WriteSync, waiting, TypeOK
<1>5. ASSUME NEW t \in Tasks, NEW n \in Room, Write(t, n) PROVE TypeOK'
  <2>1. Data(n) \in Seq(Nat)
    BY DataType DEF TypeOK
  <2>2. QED
    BY <1>5, <2>1, WriteType, WaitType DEF Write, TypeOK
<1>6. ASSUME NEW t \in Tasks, WaitForWriteAll(t) PROVE TypeOK'
  BY <1>6, WaitType DEF WaitForWriteAll, closing, bytes, TypeOK
<1>7. ASSUME NEW t \in Tasks, Resume(t) PROVE TypeOK'
  BY <1>7 DEF Resume, closing, bytes, TypeOK
<1>8. ASSUME NEW t \in Tasks, CancelWait(t) PROVE TypeOK'
  BY <1>8 DEF CancelWait, closing, bytes, TypeOK
<1>9. ASSUME NEW n \in 1..Len(write_buffer), WriterSends(n) PROVE TypeOK'
  <2>1. n \in 0..Len(write_buffer)
    BY LenProperties DEF TypeOK
  <2>2. write_buffer' \in Seq(Nat) /\ wire' \in Seq(Nat)
    BY <1>9, <2>1, Split, ConcatProperties DEF WriterSends, SendTakes, TypeOK
  <2>3. CASE write_buffer' = <<>>
    <3>1. /\ state' \in {"OPENED", "CLOSING", "CLOSED"}
          /\ closed_event' \in BOOLEAN /\ lost' \in Nat
      BY <1>9, <2>3, CloseType DEF WriterSends, Drained, closing, TypeOK
    <3>2. QED
      BY <1>9, <2>2, <2>3, <3>1, WaitType DEF WriterSends, Drained, TypeOK
  <2>4. CASE write_buffer' # <<>>
    BY <1>9, <2>2, <2>4 DEF WriterSends, closing, waiting, TypeOK
  <2>5. QED
    BY <2>3, <2>4
<1>10. CASE WriterFails
  BY <1>10, CloseType DEF WriterFails
<1>11. CASE ReadEOF
  BY <1>11, CloseType DEF ReadEOF, closing, bytes, waiting, TypeOK
<1>12. CASE ReadFails
  BY <1>12, CloseType DEF ReadFails
<1>13. CASE UNCHANGED vars
  BY <1>13 DEF vars, TypeOK
<1>14. QED
  BY <1>1, <1>2, <1>3, <1>4, <1>5, <1>6, <1>7, <1>8, <1>9, <1>10, <1>11,
     <1>12, <1>13 DEF Next, Writer

\* Every reachable state has the declared shape.
THEOREM TypeCorrect == Spec => []TypeOK
BY TypeInit, TypeStep, PTL DEF Spec
-------------------------------------------------------------------------------
(* Order *)

\* Bytes are discarded only by the step that closes, which empties the buffer
\* for good: nothing is behind a discarded byte.
DroppedLast == dropped # <<>> => closed_event /\ write_buffer = <<>>

OrderInv == TypeOK /\ DeliveredInOrder /\ DroppedLast

\* While a transport lives, what it accepted is sent or buffered.
LEMMA LiveOrder ==
  ASSUME OrderInv, ~closed_event
  PROVE  dropped = <<>> /\ wire \o write_buffer = written
<1>1. dropped = <<>>
  BY DEF OrderInv, DroppedLast
<1>2. wire \o write_buffer \in Seq(Nat) /\ write_buffer \in Seq(Nat) /\ wire \in Seq(Nat)
  BY ConcatProperties DEF OrderInv, TypeOK
<1>3. (wire \o write_buffer) \o <<>> = wire \o write_buffer
  BY <1>2, ConcatEmptySeq
<1>4. wire \o write_buffer \o dropped = written
  BY DEF OrderInv, DeliveredInOrder
<1>5. QED
  BY <1>1, <1>3, <1>4

\* Order in a live state is order: the converse.
LEMMA LiveOrderPrimed ==
  ASSUME TypeOK', dropped' = <<>>, wire' \o write_buffer' = written'
  PROVE  DeliveredInOrder'
<1>1. wire' \in Seq(Nat) /\ write_buffer' \in Seq(Nat)
  BY DEF TypeOK
<1>2. wire' \o write_buffer' \in Seq(Nat)
  BY <1>1, ConcatProperties
<1>3. (wire' \o write_buffer') \o <<>> = wire' \o write_buffer'
  BY <1>2, ConcatEmptySeq
<1>4. QED
  BY <1>3 DEF DeliveredInOrder

\* Sending a first part of some bytes, and keeping the rest, moves no byte.
LEMMA SendKeepsOrder ==
  ASSUME NEW sent \in Seq(Nat), NEW s \in Seq(Nat), NEW n \in 0..Len(s)
  PROVE  (sent \o SubSeq(s, 1, n)) \o SubSeq(s, n + 1, Len(s)) = sent \o s
<1>1. /\ SubSeq(s, 1, n) \in Seq(Nat)
      /\ SubSeq(s, n + 1, Len(s)) \in Seq(Nat)
      /\ SubSeq(s, 1, n) \o SubSeq(s, n + 1, Len(s)) = s
  BY Split
<1>2. (sent \o SubSeq(s, 1, n)) \o SubSeq(s, n + 1, Len(s))
        = sent \o (SubSeq(s, 1, n) \o SubSeq(s, n + 1, Len(s)))
  BY <1>1, Regroup
<1>3. QED
  BY <1>1, <1>2

\* A forced close moves the buffer to the discarded bytes.
LEMMA ForceOrder ==
  ASSUME OrderInv, TypeOK', ~closed_event, force_close
  PROVE  DeliveredInOrder' /\ DroppedLast'
<1>1. /\ wire' = wire /\ written' = written
      /\ write_buffer' = <<>> /\ dropped' = write_buffer
      /\ closed_event' = TRUE
  BY DEF force_close, finnal_close
<1>2. wire \o <<>> = wire
  BY ConcatEmptySeq DEF OrderInv, TypeOK
<1>3. QED
  BY <1>1, <1>2, LiveOrder DEF DeliveredInOrder, DroppedLast

\* Writing keeps the order.
LEMMA WriteOrder ==
  ASSUME OrderInv, TypeOK', NEW data \in Seq(Nat), Len(data) > 0, write_sync(data)
  PROVE  DeliveredInOrder' /\ DroppedLast'
<1>1. wire \in Seq(Nat) /\ write_buffer \in Seq(Nat) /\ written \in Seq(Nat)
      /\ dropped \in Seq(Nat)
  BY DEF OrderInv, TypeOK
<1>2. ASSUME NEW n \in 0..Len(data), Sent(data, n)
      PROVE  DeliveredInOrder' /\ DroppedLast'
  <2>1. /\ wire' = wire \o SubSeq(data, 1, n)
        /\ write_buffer' = SubSeq(data, n + 1, Len(data))
        /\ written' = written \o data
        /\ ~closed_event /\ write_buffer = <<>> /\ dropped' = dropped
    BY <1>2 DEF Sent
  <2>2. dropped = <<>> /\ wire \o <<>> = written
    BY <2>1, LiveOrder
  <2>3. wire = written
    BY <1>1, <2>2, ConcatEmptySeq
  <2>4. wire' \o write_buffer' = written'
    BY <1>1, <2>1, <2>3, SendKeepsOrder
  <2>5. QED
    BY <2>1, <2>2, <2>4, LiveOrderPrimed DEF DroppedLast
<1>3. CASE SendFailed
  BY <1>3, ForceOrder DEF SendFailed
<1>4. CASE Queued(data)
  <2>1. /\ wire' = wire /\ write_buffer' = write_buffer \o data
        /\ written' = written \o data /\ dropped' = dropped
        /\ write_buffer # <<>>
    BY <1>4 DEF Queued, Enqueue
  <2>2. dropped = <<>>
    BY <2>1 DEF OrderInv, DroppedLast
  <2>3. wire \o write_buffer \o <<>> = written
    BY <2>2 DEF OrderInv, DeliveredInOrder
  <2>4. wire \o write_buffer \in Seq(Nat)
    BY <1>1, ConcatProperties
  <2>5. wire \o write_buffer = written
    BY <2>3, <2>4, ConcatEmptySeq
  <2>6. (wire \o write_buffer) \o data = wire \o (write_buffer \o data)
    BY <1>1, Regroup
  <2>7. wire' \o write_buffer' = written'
    BY <2>1, <2>5, <2>6
  <2>8. QED
    BY <2>1, <2>2, <2>7, LiveOrderPrimed DEF DroppedLast
<1>5. QED
  BY <1>2, <1>3, <1>4, WriteCases

\* Every other step leaves the four histories alone, but for the writer's.
LEMMA OrderStep == OrderInv /\ [Next]_vars => OrderInv'
<1> SUFFICES ASSUME OrderInv, [Next]_vars PROVE OrderInv'
  OBVIOUS
<1>0. TypeOK /\ TypeOK'
  BY TypeStep DEF OrderInv
<1>1. ASSUME UNCHANGED bytes, closed_event' = closed_event \/ closed_event' = TRUE
      PROVE  DeliveredInOrder' /\ DroppedLast'
  BY <1>1 DEF bytes, OrderInv, DeliveredInOrder, DroppedLast
<1>2. ASSUME NEW n \in Room, write_sync(Data(n))
      PROVE  DeliveredInOrder' /\ DroppedLast'
  <2>1. Data(n) \in Seq(Nat) /\ Len(Data(n)) > 0
    BY <1>0, DataType DEF TypeOK
  <2>2. QED
    BY <1>0, <1>2, <2>1, WriteOrder
<1>3. ASSUME NEW n \in 1..Len(write_buffer), WriterSends(n)
      PROVE  DeliveredInOrder' /\ DroppedLast'
  <2>1. /\ ~closed_event
        /\ wire' = wire \o SubSeq(write_buffer, 1, n)
        /\ write_buffer' = SubSeq(write_buffer, n + 1, Len(write_buffer))
        /\ written' = written /\ dropped' = dropped
    BY <1>3 DEF WriterSends, SendTakes
  <2>2. n \in 0..Len(write_buffer) /\ wire \in Seq(Nat) /\ write_buffer \in Seq(Nat)
    BY <1>0, LenProperties DEF TypeOK
  <2>3. dropped = <<>> /\ wire \o write_buffer = written
    BY <2>1, LiveOrder
  <2>4. wire' \o write_buffer' = written'
    BY <2>1, <2>2, <2>3, SendKeepsOrder
  <2>5. QED
    BY <1>0, <2>1, <2>3, <2>4, LiveOrderPrimed DEF DroppedLast
<1>4. ASSUME force_close, ~closed_event PROVE DeliveredInOrder' /\ DroppedLast'
  BY <1>0, <1>4, ForceOrder
<1>5. ASSUME do_close PROVE DeliveredInOrder' /\ DroppedLast'
  BY <1>1, <1>5 DEF do_close, finnal_close
<1>6. CASE close
  BY <1>0, <1>5, <1>6 DEF close, OrderInv
<1>7. CASE shutdown
  BY <1>0, <1>1, <1>7 DEF shutdown, closing, OrderInv
<1>8. CASE finnal_close_soon
  BY <1>0, <1>1, <1>8 DEF finnal_close_soon, finnal_close, OrderInv
<1>9. ASSUME NEW n \in Room, WriteSync(n) PROVE OrderInv'
  BY <1>0, <1>2, <1>9 DEF WriteSync, OrderInv
<1>10. ASSUME NEW t \in Tasks, NEW n \in Room, Write(t, n) PROVE OrderInv'
  BY <1>0, <1>2, <1>10 DEF Write, OrderInv
<1>11. ASSUME NEW t \in Tasks, WaitForWriteAll(t) \/ Resume(t) \/ CancelWait(t)
       PROVE  OrderInv'
  BY <1>0, <1>1, <1>11 DEF WaitForWriteAll, Resume, CancelWait, closing, OrderInv
<1>12. CASE Writer
  BY <1>0, <1>3, <1>4, <1>12 DEF Writer, WriterFails, OrderInv
<1>13. CASE ReadEOF
  BY <1>0, <1>1, <1>5, <1>13 DEF ReadEOF, closing, OrderInv
<1>14. CASE ReadFails
  BY <1>0, <1>4, <1>14 DEF ReadFails, OrderInv
<1>15. CASE UNCHANGED vars
  BY <1>0, <1>1, <1>15 DEF vars, bytes, OrderInv
<1>16. QED
  BY <1>6, <1>7, <1>8, <1>9, <1>10, <1>11, <1>12, <1>13, <1>14, <1>15 DEF Next

\* Whatever fails and whoever is cancelled, each byte that was accepted is on
\* the wire, in the buffer or discarded, once and in order.
THEOREM OrderKept == Spec => []DeliveredInOrder
<1>1. Init => OrderInv
  <2>1. <<>> \in Seq(Nat) /\ <<>> \o <<>> = <<>>
    BY EmptySeq, ConcatEmptySeq
  <2>2. Init => DeliveredInOrder
    BY <2>1 DEF Init, DeliveredInOrder
  <2>3. QED
    BY <2>2, TypeInit DEF Init, OrderInv, DroppedLast
<1>2. OrderInv => DeliveredInOrder
  BY DEF OrderInv
<1>3. QED
  BY <1>1, <1>2, OrderStep, PTL DEF Spec
-------------------------------------------------------------------------------
(* Closing once, and polling for a purpose *)

\* The first _finnal_close sets closed_event; another one finds it set.
LEMMA OnceStep == TypeOK /\ OnCloseOnce /\ [Next]_vars => OnCloseOnce'
<1> SUFFICES ASSUME TypeOK, OnCloseOnce, [Next]_vars PROVE OnCloseOnce'
  OBVIOUS
<1>1. finnal_close => OnCloseOnce'
  BY DEF finnal_close, OnCloseOnce, TypeOK
<1>2. UNCHANGED closing => OnCloseOnce'
  BY DEF closing, OnCloseOnce
<1>3. do_close => OnCloseOnce'
  BY <1>1 DEF do_close, OnCloseOnce
<1>4. force_close => OnCloseOnce'
  BY <1>1 DEF force_close
<1>5. ASSUME NEW n \in Room, write_sync(Data(n)) PROVE OnCloseOnce'
  BY <1>2, <1>4, <1>5 DEF write_sync, TrySend, Enqueue
<1>6. ASSUME NEW n \in Nat, WriterSends(n) PROVE OnCloseOnce'
  BY <1>1, <1>2, <1>6 DEF WriterSends, Drained
<1>7. CASE UNCHANGED vars
  BY <1>2, <1>7 DEF vars, closing
<1>8. ASSUME NEW t \in Tasks, WaitForWriteAll(t) \/ Resume(t) \/ CancelWait(t)
      PROVE  OnCloseOnce'
  BY <1>2, <1>8 DEF WaitForWriteAll, Resume, CancelWait
<1>9. 1..Len(write_buffer) \subseteq Nat
  BY LenProperties DEF TypeOK
<1>10. QED
  BY <1>1, <1>2, <1>3, <1>4, <1>5, <1>6, <1>7, <1>8, <1>9
  DEF Next, close, shutdown, finnal_close_soon, WriteSync, Write, Writer,
      WriterFails, ReadEOF, ReadFails

\* The owner hears of the end exactly once, by whichever of the four ways to
\* _finnal_close it comes, and also when several of them are taken.
THEOREM ClosedOnce == Spec => []OnCloseOnce
<1>1. Init => OnCloseOnce
  BY DEF Init, OnCloseOnce
<1>2. QED
  BY <1>1, OnceStep, TypeCorrect, PTL DEF Spec

\* The writer is registered by a send that leaves bytes and is removed by the
\* one that leaves none.
LEMMA PolledStep == TypeOK /\ WriterHasData /\ [Next]_vars => WriterHasData'
<1> SUFFICES ASSUME TypeOK, WriterHasData, [Next]_vars PROVE WriterHasData'
  OBVIOUS
<1>1. ASSUME closed_event' = TRUE PROVE WriterHasData'
  BY <1>1 DEF WriterHasData
<1>2. ASSUME UNCHANGED <<closed_event, writer, write_buffer>> PROVE WriterHasData'
  BY <1>2 DEF WriterHasData
<1>3. do_close => WriterHasData'
  BY <1>1, <1>2 DEF do_close, bytes, finnal_close
<1>4. force_close => WriterHasData'
  BY <1>1 DEF force_close, finnal_close
<1>5. ASSUME NEW n \in Room, write_sync(Data(n)) PROVE WriterHasData'
  <2>1. Data(n) \in Seq(Nat) /\ Len(Data(n)) \in Nat
    BY DataType DEF TypeOK
  <2>2. ASSUME NEW k \in 0..Len(Data(n)), Sent(Data(n), k) PROVE WriterHasData'
    <3>1. CASE k < Len(Data(n))
      <4>1. SubSeq(Data(n), k + 1, Len(Data(n))) # <<>>
        BY <2>1, <3>1, Split
      <4>2. QED
        BY <2>2, <4>1 DEF Sent, WriterHasData
    <3>2. CASE ~(k < Len(Data(n)))
      <4>1. ~writer
        BY <2>2 DEF Sent, WriterHasData
      <4>2. ~writer'
        BY <2>2, <3>2, <4>1, Zenon DEF Sent
      <4>3. QED
        BY <4>2 DEF WriterHasData
    <3>3. QED
      BY <3>1, <3>2
  <2>3. CASE SendFailed
    BY <1>4, <2>3 DEF SendFailed
  <2>4. CASE Queued(Data(n))
    <3>1. write_buffer \in Seq(Nat) /\ write_buffer # <<>>
      BY <2>4 DEF Queued, Enqueue, TypeOK
    <3>2. write_buffer \o Data(n) # <<>>
      BY <2>1, <3>1, ConcatEqualIffEmpty
    <3>3. QED
      BY <2>4, <3>2 DEF Queued, Enqueue, WriterHasData
  <2>5. QED
    BY <1>5, <2>2, <2>3, <2>4, WriteCases
<1>6. ASSUME NEW n \in 1..Len(write_buffer), WriterSends(n) PROVE WriterHasData'
  BY <1>6 DEF WriterSends, Drained, WriterHasData
<1>7. ASSUME NEW t \in Tasks, WaitForWriteAll(t) \/ Resume(t) \/ CancelWait(t)
      PROVE  WriterHasData'
  BY <1>2, <1>7 DEF WaitForWriteAll, Resume, CancelWait, closing, bytes
<1>8. shutdown \/ finnal_close_soon => WriterHasData'
  BY <1>1 DEF shutdown, finnal_close_soon, finnal_close, WriterHasData
<1>9. ReadEOF => WriterHasData'
  BY <1>2, <1>3 DEF ReadEOF, closing, bytes
<1>10. CASE UNCHANGED vars
  BY <1>2, <1>10 DEF vars
<1>11. QED
  BY <1>3, <1>4, <1>5, <1>6, <1>7, <1>8, <1>9, <1>10
  DEF Next, close, WriteSync, Write, Writer, WriterFails, ReadFails

\* The assertion at the head of _writer never fails.
THEOREM PolledWithData == Spec => []WriterHasData
<1>1. Init => WriterHasData
  BY DEF Init, WriterHasData
<1>2. QED
  BY <1>1, PolledStep, TypeCorrect, PTL DEF Spec
-------------------------------------------------------------------------------
(* The life of a transport, when no waiting task is cancelled *)

\* What close() relies on: a transport is CLOSING only while bytes remain, its
\* reader is gone by then, and nothing is left once it is closed.
LifeInv ==
    /\ OrderInv
    /\ OnCloseOnce
    /\ WriterHasData
    /\ QuietWhenClosed
    /\ \A t \in Tasks : fut[t] # "cancelled"
    /\ soon = 0
    /\ shut_wr => "shutdown" \in Env
    /\ reader => state = "OPENED"
    /\ state = "OPENED" => ~closed_event
    /\ state = "CLOSED" => closed_event
    /\ state = "CLOSING" /\ ~closed_event => write_buffer # <<>>
    /\ closed_event => write_buffer = <<>>

\* The part of LifeInv that a step can disturb, apart from the waiters.
LifeCore ==
    /\ QuietWhenClosed
    /\ shut_wr => "shutdown" \in Env
    /\ reader => state = "OPENED"
    /\ state = "OPENED" => ~closed_event
    /\ state = "CLOSED" => closed_event
    /\ state = "CLOSING" /\ ~closed_event => write_buffer # <<>>
    /\ closed_event => write_buffer = <<>>

\* A forced close of a live transport, and an unforced one, leave LifeCore.
LEMMA CloseLife ==
  ASSUME LifeInv
  PROVE  /\ ~closed_event /\ force_close /\ UNCHANGED shut_wr => LifeCore'
         /\ do_close => LifeCore'
<1>1. writer \in BOOLEAN /\ closed_event \in BOOLEAN
  BY DEF LifeInv, OrderInv, TypeOK
<1>2. ASSUME ~closed_event, force_close, UNCHANGED shut_wr PROVE LifeCore'
  <2>1. ~(writer /\ write_buffer = <<>>)
    BY <1>2 DEF LifeInv, WriterHasData
  <2>2. ~writer'
    BY <1>2, <2>1, Zenon DEF force_close
  <2>3. QED
    BY <1>2, <2>2 DEF force_close, finnal_close, LifeInv, LifeCore, QuietWhenClosed
<1>3. ASSUME do_close PROVE LifeCore'
  <2>1. CASE closed_event
    BY <1>3, <2>1 DEF do_close, bytes, LifeInv, LifeCore, QuietWhenClosed
  <2>2. CASE ~closed_event /\ write_buffer = <<>>
    BY <1>3, <2>2 DEF do_close, bytes, finnal_close, LifeInv, LifeCore, QuietWhenClosed
  <2>3. CASE ~closed_event /\ write_buffer # <<>>
    BY <1>3, <2>3 DEF do_close, bytes, LifeInv, LifeCore, QuietWhenClosed
  <2>4. QED
    BY <2>1, <2>2, <2>3
<1>4. QED
  BY <1>2, <1>3

\* Writing to a live transport leaves it alive or closes it by force; and it
\* never schedules a _finnal_close, as a CLOSING transport has bytes buffered.
LEMMA WriteLife ==
  ASSUME LifeInv, NEW n \in Room, write_sync(Data(n))
  PROVE  LifeCore' /\ soon' = 0
<1>1. Data(n) \in Seq(Nat) /\ Len(Data(n)) \in Nat
  BY DataType DEF LifeInv, OrderInv, TypeOK
<1>2. ASSUME NEW k \in 0..Len(Data(n)), Sent(Data(n), k) PROVE LifeCore' /\ soon' = 0
  <2>1. state = "OPENED"
    BY <1>2 DEF Sent, LifeInv, OrderInv, TypeOK
  <2>2. UNCHANGED <<state, closed_event, shut_wr>> /\ soon' = 0 /\ ~closed_event
    BY <1>2, <2>1 DEF Sent, closing, LifeInv
  <2>3. QED
    BY <2>1, <2>2 DEF LifeInv, LifeCore, QuietWhenClosed
<1>3. ASSUME SendFailed PROVE LifeCore' /\ soon' = 0
  BY <1>3, CloseLife DEF SendFailed, LifeInv
<1>4. ASSUME Queued(Data(n)) PROVE LifeCore' /\ soon' = 0
  <2>1. /\ ~closed_event
        /\ UNCHANGED <<state, closed_event, reader, writer, shut_wr, soon>>
    BY <1>4 DEF Queued, Enqueue, closing, LifeInv
  <2>2. write_buffer' # <<>>
    <3>1. write_buffer \in Seq(Nat) /\ write_buffer # <<>>
      BY <1>4 DEF Queued, Enqueue, LifeInv, OrderInv, TypeOK
    <3>2. write_buffer \o Data(n) # <<>>
      BY <1>1, <3>1, ConcatEqualIffEmpty
    <3>3. QED
      BY <1>4, <3>2 DEF Queued, Enqueue
  <2>3. QED
    BY <2>1, <2>2 DEF LifeInv, LifeCore, QuietWhenClosed
<1>5. QED
  BY <1>2, <1>3, <1>4, WriteCases

\* Without cancellation no future is ever cancelled.
LEMMA WaitLife ==
  ASSUME LifeInv
  PROVE  /\ ~WakeFails
         /\ WakeWaiter \/ UNCHANGED waiting => \A t \in Tasks : fut'[t] # "cancelled"
         /\ \A t \in Tasks : \A buffer : WaitAll(t, buffer) =>
                \A u \in Tasks : fut'[u] # "cancelled"
<1>1. fut \in [Tasks -> {"none", "pending", "done", "cancelled"}]
  BY DEF LifeInv, OrderInv, TypeOK
<1>2. write_empty_waiter \in Tasks \cup {None}
  BY DEF LifeInv, OrderInv, TypeOK
<1>3. \A t \in Tasks : fut[t] # "cancelled"
  BY DEF LifeInv
<1>4. ~WakeFails
  BY <1>2, <1>3 DEF WakeFails
<1>5. WakeWaiter \/ UNCHANGED waiting => \A t \in Tasks : fut'[t] # "cancelled"
  BY <1>1, <1>3 DEF WakeWaiter, waiting
<1>6. \A t \in Tasks : \A buffer : WaitAll(t, buffer) =>
          \A u \in Tasks : fut'[u] # "cancelled"
  BY <1>1, <1>3 DEF WaitAll, waiting
<1>7. QED
  BY <1>4, <1>5, <1>6

\* LifeInv is inductive.
LEMMA LifeStep ==
  ASSUME "cancel" \notin Env, LifeInv, [Next]_vars
  PROVE  LifeInv'
<1>1. OrderInv' /\ OnCloseOnce' /\ WriterHasData'
  BY OrderStep, OnceStep, PolledStep DEF LifeInv, OrderInv
<1>2. fut \in [Tasks -> {"none", "pending", "done", "cancelled"}]
  BY DEF LifeInv, OrderInv, TypeOK
<1>3. ASSUME LifeCore', soon' = 0, \A t \in Tasks : fut'[t] # "cancelled"
      PROVE  LifeInv'
  BY <1>1, <1>3 DEF LifeCore, LifeInv
<1>4. (UNCHANGED <<closing, reader, writer, shut_wr, write_buffer>>) => LifeCore'
  BY DEF closing, LifeInv, LifeCore, QuietWhenClosed
<1>5. UNCHANGED waiting => \A t \in Tasks : fut'[t] # "cancelled"
  BY WaitLife
<1>6. CASE close
  BY <1>3, <1>5, <1>6, CloseLife DEF close, do_close, LifeInv
<1>7. CASE shutdown
  <2>1. /\ UNCHANGED <<state, closed_event, reader, write_buffer, soon, waiting>>
        /\ ~closed_event /\ "shutdown" \in Env
    BY <1>7 DEF shutdown, closing, bytes
  <2>2. LifeCore'
    BY <2>1 DEF LifeInv, LifeCore, QuietWhenClosed
  <2>3. QED
    BY <1>3, <1>5, <2>1, <2>2 DEF LifeInv
<1>8. CASE finnal_close_soon
  BY <1>8 DEF finnal_close_soon, LifeInv
<1>9. ASSUME NEW n \in Room, WriteSync(n) PROVE LifeInv'
  BY <1>3, <1>5, <1>9, WriteLife DEF WriteSync
<1>10. ASSUME NEW t \in Tasks, NEW n \in Room, Write(t, n) PROVE LifeInv'
  BY <1>3, <1>10, WriteLife, WaitLife DEF Write
<1>11. ASSUME NEW t \in Tasks, WaitForWriteAll(t) PROVE LifeInv'
  BY <1>3, <1>4, <1>11, WaitLife DEF WaitForWriteAll, bytes, LifeInv
<1>12. ASSUME NEW t \in Tasks, Resume(t) PROVE LifeInv'
  <2>1. \A u \in Tasks : fut'[u] # "cancelled"
    BY <1>2, <1>12 DEF Resume, LifeInv
  <2>2. QED
    BY <1>3, <1>4, <1>12, <2>1 DEF Resume, bytes, LifeInv
<1>13. ASSUME NEW t \in Tasks, CancelWait(t) PROVE LifeInv'
  BY <1>13 DEF CancelWait
<1>14. ASSUME NEW n \in 1..Len(write_buffer), WriterSends(n) PROVE LifeInv'
  <2>1. /\ ~closed_event /\ writer
        /\ UNCHANGED <<reader, shut_wr, soon>>
    BY <1>14 DEF WriterSends
  <2>2. CASE write_buffer' = <<>>
    <3>1. writer' = FALSE /\ WakeWaiter
      BY <1>14, <2>2 DEF WriterSends, Drained
    <3>2. CASE state = "CLOSING"
      <4>1. finnal_close /\ ~reader
        BY <1>14, <2>2, <3>2, WaitLife DEF WriterSends, Drained, LifeInv
      <4>2. LifeCore'
        BY <2>1, <2>2, <3>1, <4>1 DEF finnal_close, LifeInv, LifeCore, QuietWhenClosed
      <4>3. QED
        BY <1>3, <2>1, <3>1, <4>2, WaitLife DEF LifeInv
    <3>3. CASE state # "CLOSING"
      <4>1. UNCHANGED <<state, closed_event>>
        BY <1>14, <2>2, <3>3 DEF WriterSends, Drained, closing
      <4>2. LifeCore'
        BY <2>1, <2>2, <3>1, <3>3, <4>1 DEF LifeInv, LifeCore, QuietWhenClosed
      <4>3. QED
        BY <1>3, <2>1, <3>1, <4>2, WaitLife DEF LifeInv
    <3>4. QED
      BY <3>2, <3>3
  <2>3. CASE write_buffer' # <<>>
    <3>1. UNCHANGED <<state, closed_event, writer, waiting>>
      BY <1>14, <2>3 DEF WriterSends, closing
    <3>2. LifeCore'
      BY <2>1, <2>3, <3>1 DEF LifeInv, LifeCore, QuietWhenClosed
    <3>3. QED
      BY <1>3, <1>5, <2>1, <3>1, <3>2 DEF LifeInv
  <2>4. QED
    BY <2>2, <2>3
<1>15. CASE WriterFails
  BY <1>3, <1>5, <1>15, CloseLife DEF WriterFails, LifeInv
<1>16. CASE ReadEOF
  <2>1. state = "OPENED"
    BY <1>16 DEF ReadEOF, LifeInv
  <2>2. do_close
    BY <1>16, <2>1 DEF ReadEOF
  <2>3. QED
    BY <1>3, <1>5, <2>2, CloseLife DEF do_close, LifeInv
<1>17. CASE ReadFails
  BY <1>3, <1>5, <1>17, CloseLife DEF ReadFails, LifeInv
<1>18. CASE UNCHANGED vars
  BY <1>3, <1>4, <1>5, <1>18 DEF vars, closing, waiting, LifeInv
<1>19. QED
  BY <1>6, <1>7, <1>8, <1>9, <1>10, <1>11, <1>12, <1>13, <1>14, <1>15, <1>16,
     <1>17, <1>18 DEF Next, Writer

\* A new transport is alive.
LEMMA LifeInit == Init => LifeInv
<1>1. <<>> \in Seq(Nat) /\ <<>> \o <<>> = <<>>
  BY EmptySeq, ConcatEmptySeq
<1>2. Init => DeliveredInOrder
  BY <1>1 DEF Init, DeliveredInOrder
<1>3. QED
  BY <1>2, TypeInit DEF Init, LifeInv, OrderInv, DroppedLast, OnCloseOnce,
     WriterHasData, QuietWhenClosed

\* No reader or writer is left on the descriptor of a finalised transport.
THEOREM Quiet == "cancel" \notin Env => (Spec => []QuietWhenClosed)
<1> SUFFICES ASSUME "cancel" \notin Env PROVE Spec => []QuietWhenClosed
  OBVIOUS
<1>1. LifeInv /\ [Next]_vars => LifeInv'
  BY LifeStep
<1>2. LifeInv => QuietWhenClosed
  BY DEF LifeInv
<1>3. QED
  BY <1>1, <1>2, LifeInit, PTL DEF Spec
-------------------------------------------------------------------------------
(* Orderly closing, when nothing fails, is shut down or cancelled *)

\* Only close() is called, and the peer may end its data.
Orderly == Env \subseteq {"close"}

\* Nothing was discarded, and buffered bytes have a registered writer.
CalmInv ==
    /\ LifeInv
    /\ dropped = <<>>
    /\ write_buffer # <<>> => writer

\* The kernel takes what it is offered.
LEMMA NothingFails ==
  ASSUME Orderly, LifeInv
  PROVE  ~SendFails /\ ~SendFailed /\ ~WriterFails /\ ~ReadFails
BY DEF Orderly, LifeInv, SendFails, SendFailed, WriterFails, ReadFails

\* close() keeps the writer that the buffered bytes need.
LEMMA CloseCalm ==
  ASSUME CalmInv, do_close
  PROVE  dropped' = dropped /\ (write_buffer' # <<>> => writer')
BY DEF do_close, bytes, CalmInv, LifeInv

\* write_sync registers the writer when it leaves bytes in the buffer.
LEMMA WriteCalm ==
  ASSUME Orderly, CalmInv, NEW n \in Room, write_sync(Data(n))
  PROVE  dropped' = dropped /\ (write_buffer' # <<>> => writer')
<1>1. Data(n) \in Seq(Nat) /\ Len(Data(n)) \in Nat
  BY DataType DEF CalmInv, LifeInv, OrderInv, TypeOK
<1>2. ASSUME NEW k \in 0..Len(Data(n)), Sent(Data(n), k)
      PROVE  dropped' = dropped /\ (write_buffer' # <<>> => writer')
  <2>1. CASE k < Len(Data(n))
    BY <1>2, <2>1, Zenon DEF Sent
  <2>2. CASE k = Len(Data(n))
    <3>1. SubSeq(Data(n), k + 1, Len(Data(n))) = <<>>
      BY <1>1, <2>2, Split
    <3>2. QED
      BY <1>2, <3>1 DEF Sent
  <2>3. k < Len(Data(n)) \/ k = Len(Data(n))
    BY <1>1
  <2>4. QED
    BY <2>1, <2>2, <2>3
<1>3. CASE Queued(Data(n))
  BY <1>3 DEF Queued, Enqueue, CalmInv
<1>4. ~SendFailed
  BY NothingFails DEF CalmInv
<1>5. QED
  BY <1>2, <1>3, <1>4, WriteCases

\* CalmInv is inductive.
LEMMA CalmStep ==
  ASSUME Orderly, CalmInv, [Next]_vars
  PROVE  CalmInv'
<1>1. LifeInv'
  BY LifeStep DEF Orderly, CalmInv
<1>2. ASSUME dropped' = dropped, write_buffer' # <<>> => writer' PROVE CalmInv'
  BY <1>1, <1>2 DEF CalmInv
<1>3. ASSUME UNCHANGED <<bytes, writer>> PROVE CalmInv'
  BY <1>2, <1>3 DEF bytes, CalmInv
<1>4. do_close => CalmInv'
  BY <1>2, CloseCalm
<1>5. ASSUME NEW n \in Room, write_sync(Data(n)) PROVE CalmInv'
  BY <1>2, <1>5, WriteCalm
<1>6. ASSUME NEW n \in 1..Len(write_buffer), WriterSends(n) PROVE CalmInv'
  <2>1. writer /\ dropped' = dropped /\ (write_buffer' # <<>> => writer' = writer)
    BY <1>6 DEF WriterSends
  <2>2. QED
    BY <1>2, <2>1
<1>7. ASSUME NEW t \in Tasks, WaitForWriteAll(t) \/ Resume(t) \/ CancelWait(t)
      PROVE  CalmInv'
  BY <1>3, <1>7 DEF WaitForWriteAll, Resume, CancelWait
<1>8. ~shutdown /\ ~WriterFails /\ ~ReadFails
  BY NothingFails DEF Orderly, CalmInv, shutdown
<1>9. finnal_close_soon => CalmInv'
  BY <1>3 DEF finnal_close_soon
<1>10. ReadEOF => CalmInv'
  BY <1>3, <1>4 DEF ReadEOF
<1>11. CASE UNCHANGED vars
  BY <1>3, <1>11 DEF vars, bytes
<1>12. QED
  BY <1>4, <1>5, <1>6, <1>7, <1>8, <1>9, <1>10, <1>11
  DEF Next, close, WriteSync, Write, Writer

\* A new transport is calm.
LEMMA CalmInit == Init => CalmInv
BY LifeInit DEF Init, CalmInv

\* However the close() or the end of the peer's data falls among the writes and
\* the partial sends, a transport that gets closed has sent every byte it
\* accepted (do_close waits for the buffer, _writer finalises).
THEOREM ClosedAfterSending == Orderly => (Spec => []CloseLosesNothing)
<1> SUFFICES ASSUME Orderly PROVE Spec => []CloseLosesNothing
  OBVIOUS
<1>1. CalmInv /\ [Next]_vars => CalmInv'
  BY CalmStep
<1>2. CalmInv => CloseLosesNothing
  <2> SUFFICES ASSUME CalmInv, closed_event PROVE wire = written
    BY DEF CloseLosesNothing
  <2>1. wire \o <<>> \o <<>> = written
    BY DEF CalmInv, LifeInv, OrderInv, DeliveredInOrder
  <2>2. wire \in Seq(Nat)
    BY DEF CalmInv, LifeInv, OrderInv, TypeOK
  <2>3. QED
    BY <2>1, <2>2, ConcatEmptySeq
<1>3. QED
  BY <1>1, <1>2, CalmInit, PTL DEF Spec

\* With one writing task, the waiter holds its future until it is resolved.
LEMMA WaiterStep ==
  ASSUME Orderly, \A t, u \in Tasks : t = u,
         CalmInv, CalmInv', NoForgottenWaiter, [Next]_vars
  PROVE  NoForgottenWaiter'
<1>1. /\ fut \in [Tasks -> {"none", "pending", "done", "cancelled"}]
      /\ None \notin Tasks
  BY DEF CalmInv, LifeInv, OrderInv, TypeOK
<1>2. ASSUME UNCHANGED waiting, writer => writer' \/ write_buffer = <<>>
      PROVE  NoForgottenWaiter'
  <2> SUFFICES ASSUME NEW t \in Tasks, fut'[t] = "pending"
               PROVE  write_empty_waiter' = t /\ writer'
    BY DEF NoForgottenWaiter
  <2>1. write_empty_waiter = t /\ writer
    BY <1>2 DEF NoForgottenWaiter, waiting
  <2>2. write_buffer # <<>>
    BY <2>1 DEF CalmInv, LifeInv, QuietWhenClosed, WriterHasData
  <2>3. QED
    BY <1>2, <2>1, <2>2 DEF waiting
<1>3. do_close => NoForgottenWaiter'
  BY <1>2 DEF do_close
<1>4. ASSUME NEW t \in Tasks, NEW buffer, WaitAll(t, buffer), fut[t] = "none",
             buffer # <<>> => writer'
      PROVE  NoForgottenWaiter'
  BY <1>1, <1>4 DEF WaitAll, waiting, NoForgottenWaiter
<1>5. ASSUME NEW n \in Room, WriteSync(n) PROVE NoForgottenWaiter'
  <2>1. write_sync(Data(n)) /\ UNCHANGED waiting
    BY <1>5 DEF WriteSync
  <2>2. write_buffer # <<>> => writer' = writer
    BY <2>1 DEF write_sync, TrySend, Enqueue
  <2>3. QED
    BY <1>2, <2>1, <2>2
<1>6. ASSUME NEW t \in Tasks, NEW n \in Room, Write(t, n) PROVE NoForgottenWaiter'
  BY <1>4, <1>6 DEF Write, CalmInv
<1>7. ASSUME NEW t \in Tasks, WaitForWriteAll(t) PROVE NoForgottenWaiter'
  BY <1>4, <1>7 DEF WaitForWriteAll, CalmInv
<1>8. ASSUME NEW t \in Tasks, Resume(t) PROVE NoForgottenWaiter'
  BY <1>1, <1>8 DEF Resume, NoForgottenWaiter
<1>9. ASSUME NEW n \in 1..Len(write_buffer), WriterSends(n) PROVE NoForgottenWaiter'
  <2>1. CASE write_buffer' = <<>>
    <3>1. WakeWaiter
      BY <1>9, <2>1 DEF WriterSends, Drained
    <3>2. \A t \in Tasks : fut'[t] # "pending"
      BY <1>1, <3>1 DEF WakeWaiter, waiting, NoForgottenWaiter, CalmInv, LifeInv
    <3>3. QED
      BY <3>2 DEF NoForgottenWaiter
  <2>2. CASE write_buffer' # <<>>
    BY <1>2, <1>9, <2>2 DEF WriterSends
  <2>3. QED
    BY <2>1, <2>2
<1>10. /\ ~shutdown /\ ~WriterFails /\ ~ReadFails
       /\ \A t \in Tasks : ~CancelWait(t)
  BY NothingFails DEF Orderly, CalmInv, shutdown, CancelWait
<1>11. ~finnal_close_soon
  BY DEF CalmInv, LifeInv, finnal_close_soon
<1>12. ReadEOF => NoForgottenWaiter'
  BY <1>2, <1>3 DEF ReadEOF
<1>13. CASE UNCHANGED vars
  BY <1>2, <1>13 DEF vars, waiting
<1>14. QED
  BY <1>3, <1>5, <1>6, <1>7, <1>8, <1>9, <1>10, <1>11, <1>12, <1>13
  DEF Next, close, Writer

\* One task that writes, among any synchronous writes, partial sends and closes,
\* never waits for a future that _writer has lost sight of.  With a second task
\* this is false, as it is after shutdown(): see the run two_writers.
THEOREM WaiterKept ==
  Orderly /\ (\A t, u \in Tasks : t = u) => (Spec => []NoForgottenWaiter)
<1> SUFFICES ASSUME Orderly, \A t, u \in Tasks : t = u
             PROVE  Spec => []NoForgottenWaiter
  OBVIOUS
<1>1. Init => NoForgottenWaiter
  BY DEF Init, NoForgottenWaiter
<1>2. CalmInv /\ [Next]_vars => CalmInv'
  BY CalmStep
<1>3. CalmInv /\ CalmInv' /\ NoForgottenWaiter /\ [Next]_vars => NoForgottenWaiter'
  BY WaiterStep
<1>4. QED
  BY <1>1, <1>2, <1>3, CalmInit, PTL DEF Spec
-------------------------------------------------------------------------------
(* Stream implements TransportLifecycle *)

\* A sequence extends each of its prefixes.
LEMMA ExtendsConcat ==
  ASSUME NEW s \in Seq(Nat), NEW t \in Seq(Nat)
  PROVE  Lifecycle!Extends(s, s \o t)
<1>1. /\ Len(s) \in Nat /\ Len(t) \in Nat
      /\ Len(s \o t) = Len(s) + Len(t)
  BY ConcatProperties, LenProperties
<1>2. SubSeq(s \o t, 1, Len(s)) = s
  <2>1. CASE s = <<>>
    <3>1. Len(s) = 0
      BY <2>1, EmptySeq
    <3>2. SubSeq(s \o t, 1, Len(s)) = <<>>
      BY <3>1, SubSeqEmpty
    <3>3. QED
      BY <2>1, <3>2
  <2>2. CASE s # <<>>
    <3>1. Len(s) \in Nat \ {0}
      BY <2>2, EmptySeq
    <3>2. 1 \in 1..Len(s) /\ Len(s) \in 1..Len(s)
      BY <3>1
    <3>3. SubSeq(s \o t, 1, Len(s)) = SubSeq(s, 1, Len(s))
      BY <3>2, SubSeqOfConcat1
    <3>4. QED
      BY <3>3, SubSeqFull
  <2>3. QED
    BY <2>1, <2>2
<1>3. QED
  BY <1>1, <1>2 DEF Lifecycle!Extends

\* Nothing is added: a sequence extends itself.
LEMMA ExtendsSelf ==
  ASSUME NEW s \in Seq(Nat)
  PROVE  Lifecycle!Extends(s, s)
<1>1. <<>> \in Seq(Nat) /\ s \o <<>> = s
  BY EmptySeq, ConcatEmptySeq
<1>2. Lifecycle!Extends(s, s \o <<>>)
  BY <1>1, ExtendsConcat
<1>3. QED
  BY <1>1, <1>2

\* Bytes that move while the transport stays as it is are a Transfer.
LEMMA TransferStep ==
  ASSUME LifeInv, LifeInv', ~closed_event, UNCHANGED closing,
         NEW more \in Seq(Nat), written' = written \o more,
         NEW sent \in Seq(Nat), wire' = wire \o sent
  PROVE  Lifecycle!Next
<1>1. /\ wire \in Seq(Nat) /\ written \in Seq(Nat)
      /\ wire' \in Seq(Nat) /\ write_buffer' \in Seq(Nat)
  BY DEF LifeInv, OrderInv, TypeOK
<1>2. Lifecycle!Extends(written, written') /\ Lifecycle!Extends(wire, wire')
  BY <1>1, ExtendsConcat
<1>3. wire' \o write_buffer' = written'
  <2>1. OrderInv' /\ ~closed_event'
    BY DEF closing, LifeInv
  <2>2. dropped' = <<>>
    BY <2>1 DEF OrderInv, DroppedLast
  <2>3. wire' \o write_buffer' \o <<>> = written'
    BY <2>1, <2>2 DEF OrderInv, DeliveredInOrder
  <2>4. wire' \o write_buffer' \in Seq(Nat)
    BY <1>1, ConcatProperties
  <2>5. QED
    BY <2>3, <2>4, ConcatEmptySeq
<1>4. Lifecycle!Extends(wire', written')
  BY <1>1, <1>3, ExtendsConcat
<1>5. Lifecycle!Transfer
  BY <1>2, <1>4 DEF Lifecycle!Transfer, closing
<1>6. QED
  BY <1>5 DEF Lifecycle!Next

\* A forced close is an Abort, and only happens where one may.
LEMMA AbortStep ==
  ASSUME LifeInv, ~closed_event, force_close,
         Env \cap {"socket", "callback", "shutdown"} # {}
  PROVE  Lifecycle!Next
<1>1. Lifecycle!Abort
  BY DEF force_close, finnal_close, Lifecycle!Abort
<1>2. QED
  BY <1>1 DEF Lifecycle!Next

\* close() finishes a transport with nothing buffered, starts to close one
\* with something, and is not visible on one that is closed.
LEMMA CloseStep ==
  ASSUME LifeInv, do_close
  PROVE  [Lifecycle!Next]_(Lifecycle!vars)
<1>1. CASE closed_event
  <2>1. UNCHANGED <<closed_event, lost, written, wire>>
    BY <1>1 DEF do_close, bytes
  <2>2. UNCHANGED Lifecycle!vars
    BY <1>1, <2>1 DEF Lifecycle!vars
  <2>3. QED
    BY <2>2
<1>2. CASE ~closed_event /\ write_buffer = <<>>
  <2>1. wire = written
    <3>1. wire \o <<>> = written
      BY <1>2, LiveOrder DEF LifeInv
    <3>2. QED
      BY <3>1, ConcatEmptySeq DEF LifeInv, OrderInv, TypeOK
  <2>2. finnal_close /\ UNCHANGED <<written, wire>>
    BY <1>2 DEF do_close, bytes
  <2>3. Lifecycle!Extends(wire, wire')
    BY <2>2, ExtendsSelf DEF LifeInv, OrderInv, TypeOK
  <2>4. Lifecycle!Finish
    BY <1>2, <2>1, <2>2, <2>3 DEF finnal_close, Lifecycle!Finish
  <2>5. QED
    BY <2>4 DEF Lifecycle!Next
<1>3. CASE ~closed_event /\ write_buffer # <<>>
  <2>1. /\ state # "CLOSING" /\ state' = "CLOSING"
        /\ UNCHANGED <<closed_event, lost, written, wire>>
    BY <1>3 DEF do_close, bytes
  <2>2. Lifecycle!StartClose
    BY <1>3, <2>1 DEF Lifecycle!StartClose
  <2>3. QED
    BY <2>2 DEF Lifecycle!Next
<1>4. QED
  BY <1>1, <1>2, <1>3

\* Writing transfers bytes, or aborts.
LEMMA WriteStep ==
  ASSUME LifeInv, LifeInv', NEW n \in Room, write_sync(Data(n))
  PROVE  Lifecycle!Next
<1>1. Data(n) \in Seq(Nat) /\ wire \in Seq(Nat)
  BY DataType DEF LifeInv, OrderInv, TypeOK
<1>2. ASSUME NEW k \in 0..Len(Data(n)), Sent(Data(n), k) PROVE Lifecycle!Next
  <2>1. SubSeq(Data(n), 1, k) \in Seq(Nat)
    BY <1>1, Split
  <2>2. QED
    BY <1>1, <1>2, <2>1, TransferStep DEF Sent
<1>3. CASE SendFailed
  <2>1. Env \cap {"socket", "callback", "shutdown"} # {}
    BY <1>3 DEF SendFailed, SendFails, LifeInv
  <2>2. QED
    BY <1>3, <2>1, AbortStep DEF SendFailed
<1>4. CASE Queued(Data(n))
  <2>1. ~closed_event
    BY <1>4 DEF Queued, Enqueue, LifeInv
  <2>2. <<>> \in Seq(Nat) /\ wire' = wire \o <<>>
    BY <1>1, <1>4, EmptySeq, ConcatEmptySeq DEF Queued, Enqueue
  <2>3. written' = written \o Data(n) /\ UNCHANGED closing
    BY <1>4 DEF Queued, Enqueue
  <2>4. QED
    BY <1>1, <2>1, <2>2, <2>3, TransferStep
<1>5. QED
  BY <1>2, <1>3, <1>4, WriteCases

\* The write callback transfers bytes; the last of them finish a closing
\* transport.
LEMMA WriterStep ==
  ASSUME LifeInv, LifeInv', NEW n \in 1..Len(write_buffer), WriterSends(n)
  PROVE  Lifecycle!Next
<1>1. /\ wire \in Seq(Nat) /\ written \in Seq(Nat) /\ write_buffer \in Seq(Nat)
      /\ n \in 0..Len(write_buffer)
  BY LenProperties DEF LifeInv, OrderInv, TypeOK
<1>2. /\ ~closed_event
      /\ wire' = wire \o SubSeq(write_buffer, 1, n)
      /\ write_buffer' = SubSeq(write_buffer, n + 1, Len(write_buffer))
      /\ written' = written /\ dropped' = dropped
  BY DEF WriterSends, SendTakes
<1>3. SubSeq(write_buffer, 1, n) \in Seq(Nat)
  BY <1>1, Split
<1>4. CASE UNCHANGED closing
  <2>1. <<>> \in Seq(Nat) /\ written' = written \o <<>>
    BY <1>1, <1>2, EmptySeq, ConcatEmptySeq
  <2>2. QED
    BY <1>2, <1>3, <1>4, <2>1, TransferStep
<1>5. CASE write_buffer' = <<>> /\ finnal_close
  <2>1. dropped = <<>>
    BY <1>2, LiveOrder DEF LifeInv
  <2>2. wire' \o <<>> \o <<>> = written'
    BY <1>2, <1>5, <2>1 DEF LifeInv, OrderInv, DeliveredInOrder
  <2>3. wire' \in Seq(Nat)
    BY DEF LifeInv, OrderInv, TypeOK
  <2>4. wire' = written
    BY <1>2, <2>2, <2>3, ConcatEmptySeq
  <2>5. Lifecycle!Extends(wire, wire')
    BY <1>1, <1>2, <1>3, ExtendsConcat
  <2>6. Lifecycle!Finish
    BY <1>2, <1>5, <2>4, <2>5 DEF finnal_close, Lifecycle!Finish
  <2>7. QED
    BY <2>6 DEF Lifecycle!Next
<1>6. QED
  BY <1>4, <1>5 DEF WriterSends, Drained

\* Every step of a Stream is a step of its lifecycle, or not visible in it.
LEMMA RefinementStep ==
  ASSUME LifeInv, LifeInv', [Next]_vars
  PROVE  [Lifecycle!Next]_(Lifecycle!vars)
<1>1. ASSUME UNCHANGED <<state, closed_event, lost, written, wire>>
      PROVE  [Lifecycle!Next]_(Lifecycle!vars)
  BY <1>1 DEF Lifecycle!vars
<1>2. ASSUME force_close, ~closed_event, Env \cap {"socket", "callback", "shutdown"} # {}
      PROVE  Lifecycle!Next
  BY <1>2, AbortStep
<1>3. CASE close
  BY <1>3, CloseStep DEF close
<1>4. CASE shutdown
  BY <1>1, <1>4 DEF shutdown, closing, bytes
<1>5. CASE finnal_close_soon
  BY <1>5 DEF finnal_close_soon, LifeInv
<1>6. ASSUME NEW n \in Room, write_sync(Data(n)) PROVE Lifecycle!Next
  BY <1>6, WriteStep
<1>7. ASSUME NEW t \in Tasks, WaitForWriteAll(t) \/ Resume(t) \/ CancelWait(t)
      PROVE  [Lifecycle!Next]_(Lifecycle!vars)
  BY <1>1, <1>7 DEF WaitForWriteAll, Resume, CancelWait, closing, bytes
<1>8. ASSUME NEW n \in 1..Len(write_buffer), WriterSends(n) PROVE Lifecycle!Next
  BY <1>8, WriterStep
<1>9. CASE WriterFails
  <2>1. Env \cap {"socket", "callback", "shutdown"} # {}
    BY <1>9 DEF WriterFails, SendFails, LifeInv
  <2>2. QED
    BY <1>2, <1>9, <2>1 DEF WriterFails
<1>10. CASE ReadEOF
  <2>1. state = "OPENED"
    BY <1>10 DEF ReadEOF, LifeInv
  <2>2. QED
    BY <1>10, <2>1, CloseStep DEF ReadEOF
<1>11. CASE ReadFails
  <2>1. Env \cap {"socket", "callback", "shutdown"} # {}
    BY <1>11 DEF ReadFails
  <2>2. QED
    BY <1>2, <1>11, <2>1 DEF ReadFails
<1>12. CASE UNCHANGED vars
  BY <1>1, <1>12 DEF vars
<1>13. QED
  BY <1>3, <1>4, <1>5, <1>6, <1>7, <1>8, <1>9, <1>10, <1>11, <1>12
  DEF Next, Writer, WriteSync, Write

\* A Stream whose waiting tasks are not cancelled is a TransportLifecycle,
\* whatever else happens to it and however much is written.
THEOREM Implements == "cancel" \notin Env => (Spec => ImplementsLifecycle)
<1> SUFFICES ASSUME "cancel" \notin Env PROVE Spec => ImplementsLifecycle
  OBVIOUS
<1>1. Init => Lifecycle!Init
  BY DEF Init, Lifecycle!Init
<1>2. LifeInv /\ [Next]_vars => LifeInv'
  BY LifeStep
<1>3. LifeInv /\ LifeInv' /\ [Next]_vars => [Lifecycle!Next]_(Lifecycle!vars)
  BY RefinementStep
<1>4. QED
  BY <1>1, <1>2, <1>3, LifeInit, PTL DEF Spec, ImplementsLifecycle, Lifecycle!Spec
===============================================================================
