------------------------- MODULE SerialHandlerProofs --------------------------
(***************************************************************************)
(* Proofs about SerialHandler, for any jobs, any outcomes and both values  *)
(* of close_on_exception.                                                  *)
(*                                                                         *)
(* The idea: as long as run() is alive, the deque holds exactly the jobs   *)
(* submitted and not begun, in order, with the sentinel of shutdown()      *)
(* between those that came before it and those that came after (Queued).   *)
(***************************************************************************)
EXTENDS SerialHandler, SequenceTheorems, FiniteSetTheorems, TLAPS

USE HandlerAssumption DEF JobOutcomes, EnvEvents

alive == pc \in {"wait", "job", "error"}

\* A job that runs, or whose failure is handled, is the last one begun.
Begun == pc \in {"job", "error"} => started # <<>>

\* The i-th element of the deque.
Queued ==
    alive =>
      /\ Len(pending_tasks) =
           Len(submitted) - Len(started) + (IF is_closing THEN 1 ELSE 0)
      /\ \A i \in 1..Len(pending_tasks) :
           pending_tasks[i] =
             IF Len(started) + i <= quota THEN submitted[Len(started) + i]
             ELSE IF Len(started) + i = quota + 1 THEN None
             ELSE submitted[Len(started) + i - 1]

\* How far run() has come.
Progress ==
    /\ Len(started) <= quota
    /\ quota <= Len(submitted)
    /\ ~is_closing => quota = Len(submitted)
    /\ \A i \in 1..Len(started) : started[i] = submitted[i]

\* Why run() ended.
Ended ==
    pc = "ended" =>
      \/ close_on_exception /\ failed # {}
      \/ is_closing /\ Len(started) = quota

OrderInv ==
    /\ TypeOK
    /\ Begun
    /\ Queued
    /\ Progress
    /\ Ended
    /\ pc = "error" => failed # {}
-------------------------------------------------------------------------------
(* Type correctness *)

\* Taking the next job keeps the deque and the history in shape.
LEMMA TakeType ==
  ASSUME TypeOK, take_next
  PROVE  /\ pending_tasks' \in Seq(Jobs \cup {None})
         /\ is_closed' \in BOOLEAN
         /\ started' \in Seq(Jobs)
         /\ pc' \in {"wait", "job", "ended"}
         /\ Begun'
<1>1. <<>> \in Seq(Jobs \cup {None})
  BY EmptySeq
<1>2. CASE pending_tasks = <<>>
  BY <1>2 DEF take_next, TypeOK, Begun
<1>3. CASE pending_tasks # <<>> /\ Head(pending_tasks) = None
  BY <1>1, <1>3 DEF take_next, close_self, TypeOK, Begun
<1>4. CASE pending_tasks # <<>> /\ Head(pending_tasks) # None
  <2>1. /\ Head(pending_tasks) \in Jobs
        /\ Tail(pending_tasks) \in Seq(Jobs \cup {None})
    BY <1>4, HeadTailProperties DEF TypeOK
  <2>2. /\ Append(started, Head(pending_tasks)) \in Seq(Jobs)
        /\ Append(started, Head(pending_tasks)) # <<>>
    BY <2>1, AppendProperties DEF TypeOK
  <2>3. QED
    BY <1>4, <2>1, <2>2 DEF take_next, TypeOK, Begun
<1>5. QED
  BY <1>2, <1>3, <1>4

\* A new handler is in shape.
LEMMA TypeInit == Init => TypeOK /\ Begun
<1>1. <<>> \in Seq(Jobs \cup {None}) /\ <<>> \in Seq(Jobs)
  BY EmptySeq
<1>2. ASSUME Init PROVE TypeOK /\ Begun
  <2>1. pending_tasks \in Seq(Jobs \cup {None}) /\ submitted \in Seq(Jobs) /\ started \in Seq(Jobs)
    BY <1>1, <1>2, Zenon DEF Init
  <2>2. QED
    BY <1>2, <2>1 DEF Init, TypeOK, Begun
<1>3. QED
  BY <1>2

\* Every step keeps the shape of the state.
LEMMA TypeStep == TypeOK /\ Begun /\ [Next]_vars => TypeOK' /\ Begun'
<1> SUFFICES ASSUME TypeOK, Begun, [Next]_vars PROVE TypeOK' /\ Begun'
  OBVIOUS
<1>0. <<>> \in Seq(Jobs \cup {None})
  BY EmptySeq
<1>1. ASSUME NEW j \in Jobs, submit(j) PROVE TypeOK' /\ Begun'
  <2>1. /\ Append(pending_tasks, j) \in Seq(Jobs \cup {None})
        /\ Append(submitted, j) \in Seq(Jobs)
    BY AppendProperties DEF TypeOK
  <2>2. QED
    BY <1>1, <2>1 DEF submit, TypeOK, Begun
<1>2. CASE shutdown
  <2>1. Append(pending_tasks, None) \in Seq(Jobs \cup {None})
    BY AppendProperties DEF TypeOK
  <2>2. QED
    BY <1>2, <2>1 DEF shutdown, TypeOK, Begun
<1>3. CASE close
  BY <1>0, <1>3 DEF close, TypeOK, Begun
<1>4. CASE wake
  BY <1>4, TakeType DEF wake, TypeOK, Begun
<1>5. CASE job_returns
  BY <1>5, TakeType DEF job_returns, TypeOK, Begun
<1>6. CASE job_raises
  <2>1. started[Len(started)] \in Jobs
    <3>1. Len(started) \in 1..Len(started)
      BY <1>6, EmptySeq DEF job_raises, Begun, TypeOK
    <3>2. QED
      BY <3>1, ElementOfSeq DEF TypeOK
  <2>2. QED
    BY <1>6, <2>1 DEF job_raises, TypeOK, Begun
<1>7. CASE error_handled
  BY <1>0, <1>7, TakeType DEF error_handled, close_self, TypeOK, Begun
<1>8. CASE crash
  BY <1>8 DEF crash, TypeOK, Begun
<1>9. CASE UNCHANGED vars
  BY <1>9 DEF vars, TypeOK, Begun
<1>10. QED
  BY <1>1, <1>2, <1>3, <1>4, <1>5, <1>6, <1>7, <1>8, <1>9 DEF Next, run

\* Every reachable state has the declared shape.
THEOREM TypeCorrect == Spec => []TypeOK
BY TypeInit, TypeStep, PTL DEF Spec
-------------------------------------------------------------------------------
(* Order and draining *)

\* The first element of the deque is the next job submitted, or the sentinel
\* with all jobs that came before it begun; taking it keeps what is said of
\* the rest.
LEMMA TakeOrder ==
  ASSUME OrderInv, alive, take_next, UNCHANGED <<is_closing, submitted, quota, failed>>
  PROVE  Queued' /\ Progress' /\ Ended'
<1>1. TypeOK /\ Queued /\ Progress
  BY DEF OrderInv
<1>2. /\ Len(pending_tasks) \in Nat /\ Len(submitted) \in Nat /\ Len(started) \in Nat
      /\ quota \in Nat
      /\ \A i \in 1..Len(submitted) : submitted[i] \in Jobs
  BY <1>1, LenProperties, ElementOfSeq DEF TypeOK
<1>3. CASE pending_tasks = <<>>
  <2>1. UNCHANGED <<pending_tasks, started>> /\ pc' = "wait"
    BY <1>3 DEF take_next
  <2>2. QED
    BY <1>1, <2>1 DEF Queued, Progress, Ended, alive
<1>4. ASSUME pending_tasks # <<>>
      PROVE  /\ Len(pending_tasks) > 0
             /\ Head(pending_tasks) = pending_tasks[1]
             /\ Len(Tail(pending_tasks)) = Len(pending_tasks) - 1
             /\ \A i \in 1..Len(Tail(pending_tasks)) :
                    Tail(pending_tasks)[i] = pending_tasks[i + 1]
  <2>1. Len(pending_tasks) > 0
    BY <1>1, <1>2, <1>4, EmptySeq DEF TypeOK
  <2>2. QED
    BY <1>1, <1>4, <2>1, HeadTailProperties DEF TypeOK
<1>5. CASE pending_tasks # <<>> /\ Head(pending_tasks) = None
  <2>1. /\ UNCHANGED started /\ pc' = "ended"
    BY <1>5 DEF take_next, close_self
  <2>2. pending_tasks[1] = None /\ Len(pending_tasks) > 0
    BY <1>4, <1>5
  <2>3. Len(started) + 1 > quota
    <3>1. SUFFICES ASSUME Len(started) + 1 <= quota PROVE FALSE
      BY <1>2
    <3>2. 1 \in 1..Len(pending_tasks)
      BY <1>2, <2>2
    <3>3. pending_tasks[1] = submitted[Len(started) + 1]
      BY <1>1, <3>1, <3>2 DEF Queued
    <3>4. Len(started) + 1 \in 1..Len(submitted)
      BY <1>1, <1>2, <3>1 DEF Progress
    <3>5. QED
      BY <1>2, <2>2, <3>3, <3>4
  <2>4. Len(started) = quota /\ is_closing
    BY <1>1, <1>2, <2>2, <2>3 DEF Queued, Progress
  <2>5. QED
    BY <1>1, <2>1, <2>4 DEF Queued, Progress, Ended, alive
<1>6. CASE pending_tasks # <<>> /\ Head(pending_tasks) # None
  <2>1. /\ pending_tasks' = Tail(pending_tasks)
        /\ started' = Append(started, Head(pending_tasks)) /\ pc' = "job"
    BY <1>6 DEF take_next
  <2>2. pending_tasks[1] # None /\ Len(pending_tasks) > 0
    BY <1>4, <1>6
  <2>3. Len(started) + 1 <= quota
    BY <1>1, <1>2, <2>2 DEF Queued, Progress
  <2>4. Head(pending_tasks) = submitted[Len(started) + 1]
    BY <1>1, <1>2, <1>4, <1>6, <2>2, <2>3 DEF Queued
  <2>5. Head(pending_tasks) \in Jobs
    BY <1>1, <1>2, <2>3, <2>4 DEF Progress
  <2>6. /\ Len(started') = Len(started) + 1
        /\ \A i \in 1..Len(started) : started'[i] = started[i]
        /\ started'[Len(started) + 1] = submitted[Len(started) + 1]
    BY <1>1, <2>1, <2>4, <2>5, AppendProperties DEF TypeOK
  <2>7. Progress'
    BY <1>1, <1>2, <2>3, <2>6 DEF Progress
  <2>8. Queued'
    <3>1. Len(pending_tasks') = Len(submitted) - Len(started') + (IF is_closing THEN 1 ELSE 0)
      BY <1>1, <1>2, <1>4, <1>6, <2>1, <2>6 DEF Queued
    <3>2. ASSUME NEW i \in 1..Len(pending_tasks')
          PROVE  pending_tasks'[i] =
                   IF Len(started') + i <= quota THEN submitted[Len(started') + i]
                   ELSE IF Len(started') + i = quota + 1 THEN None
                   ELSE submitted[Len(started') + i - 1]
      <4>1. /\ i + 1 \in 1..Len(pending_tasks)
            /\ pending_tasks'[i] = pending_tasks[i + 1]
        BY <1>2, <1>4, <1>6, <2>1
      <4>2. /\ Len(started') + i = Len(started) + (i + 1)
            /\ Len(started') + i - 1 = Len(started) + (i + 1) - 1
        BY <1>2, <2>6
      <4>3. QED
        BY <1>1, <4>1, <4>2 DEF Queued
    <3>3. QED
      BY <3>1, <3>2 DEF Queued
  <2>9. QED
    BY <2>1, <2>7, <2>8 DEF Ended
<1>7. QED
  BY <1>3, <1>5, <1>6

\* A step that leaves the queue and the history alone, and does not bring
\* run() back to life or end it.
LEMMA StillOrder ==
  ASSUME OrderInv, alive' => alive, pc' # "ended" \/ pc = "ended",
         UNCHANGED <<is_closing, submitted, quota, started>>,
         alive' => pending_tasks' = pending_tasks,
         failed \subseteq failed'
  PROVE  Queued' /\ Progress' /\ Ended'
<1>1. Queued'
  BY DEF OrderInv, Queued
<1>2. Progress'
  BY DEF OrderInv, Progress
<1>3. Ended'
  BY DEF OrderInv, Ended
<1>4. QED
  BY <1>1, <1>2, <1>3

\* OrderInv is inductive.
LEMMA OrderStep == OrderInv /\ [Next]_vars => OrderInv'
<1> SUFFICES ASSUME OrderInv, [Next]_vars PROVE OrderInv'
  OBVIOUS
<1>1. TypeOK /\ Begun /\ TypeOK' /\ Begun'
  BY TypeStep DEF OrderInv
<1>2. /\ Len(pending_tasks) \in Nat /\ Len(submitted) \in Nat /\ Len(started) \in Nat
      /\ quota \in Nat
  BY <1>1, LenProperties DEF TypeOK
<1>3. ASSUME Queued', Progress', Ended', pc' = "error" => failed' # {} PROVE OrderInv'
  BY <1>1, <1>3 DEF OrderInv
<1>4. ASSUME NEW j \in Jobs, submit(j) PROVE OrderInv'
  <2>1. /\ Len(pending_tasks') = Len(pending_tasks) + 1
        /\ \A i \in 1..Len(pending_tasks) : pending_tasks'[i] = pending_tasks[i]
        /\ pending_tasks'[Len(pending_tasks) + 1] = j
    BY <1>1, <1>4, AppendProperties DEF submit, TypeOK
  <2>2. /\ Len(submitted') = Len(submitted) + 1
        /\ \A i \in 1..Len(submitted) : submitted'[i] = submitted[i]
        /\ submitted'[Len(submitted) + 1] = j
    BY <1>1, <1>4, AppendProperties DEF submit, TypeOK
  <2>3. /\ UNCHANGED <<is_closing, pc, started, failed>>
        /\ quota' = IF is_closing THEN quota ELSE quota + 1
    BY <1>4 DEF submit
  <2>4. Progress'
    BY <1>2, <2>2, <2>3 DEF OrderInv, Progress
  <2>5. Queued'
    <3> SUFFICES ASSUME alive PROVE Queued'
      BY <2>3 DEF Queued, alive
    <3>1. Queued /\ Progress
      BY DEF OrderInv
    <3>2. /\ Len(pending_tasks) = Len(submitted) - Len(started) + (IF is_closing THEN 1 ELSE 0)
          /\ Len(started) <= quota /\ quota <= Len(submitted)
          /\ ~is_closing => quota = Len(submitted)
      BY <3>1 DEF Queued, Progress
    <3>3. Len(pending_tasks') = Len(submitted') - Len(started') + (IF is_closing' THEN 1 ELSE 0)
      BY <1>2, <2>1, <2>2, <2>3, <3>2
    <3>4. ASSUME NEW i \in 1..Len(pending_tasks')
          PROVE  pending_tasks'[i] =
                   IF Len(started) + i <= quota' THEN submitted'[Len(started) + i]
                   ELSE IF Len(started) + i = quota' + 1 THEN None
                   ELSE submitted'[Len(started) + i - 1]
      <4>1. CASE i \in 1..Len(pending_tasks)
        <5>1. pending_tasks'[i] = pending_tasks[i]
          BY <2>1, <4>1
        <5>2. pending_tasks[i] =
                IF Len(started) + i <= quota THEN submitted[Len(started) + i]
                ELSE IF Len(started) + i = quota + 1 THEN None
                ELSE submitted[Len(started) + i - 1]
          BY <3>1, <4>1 DEF Queued
        <5>3. CASE is_closing
          <6>1. Len(started) + i - 1 <= Len(submitted) /\ quota' = quota
            BY <1>2, <2>3, <3>2, <4>1, <5>3
          <6>2. Len(started) + i <= quota => Len(started) + i \in 1..Len(submitted)
            BY <1>2, <3>2, <4>1
          <6>3. Len(started) + i > quota + 1 => Len(started) + i - 1 \in 1..Len(submitted)
            BY <1>2, <4>1, <6>1
          <6>4. CASE Len(started) + i <= quota
            BY <2>2, <5>1, <5>2, <6>1, <6>2, <6>4
          <6>5. CASE Len(started) + i = quota + 1
            BY <1>2, <5>1, <5>2, <6>1, <6>5
          <6>6. CASE Len(started) + i > quota + 1
            BY <1>2, <2>2, <4>1, <5>1, <5>2, <6>1, <6>3, <6>6, SMTT(30)
          <6>7. QED
            BY <1>2, <4>1, <6>4, <6>5, <6>6
        <5>4. CASE ~is_closing
          <6>1. Len(started) + i \in 1..Len(submitted) /\ quota = Len(submitted) /\ quota' = quota + 1
            BY <1>2, <2>3, <3>2, <4>1, <5>4
          <6>2. QED
            BY <1>2, <2>2, <5>1, <5>2, <6>1
        <5>5. QED
          BY <5>3, <5>4
      <4>2. CASE i = Len(pending_tasks) + 1
        <5>1. pending_tasks'[i] = j
          BY <2>1, <4>2
        <5>2. CASE is_closing
          <6>1. Len(started) + i - 1 = Len(submitted) + 1 /\ quota' = quota
            BY <1>2, <2>3, <3>2, <4>2, <5>2
          <6>2. Len(started) + i > quota + 1
            BY <1>2, <3>2, <4>2, <6>1
          <6>3. QED
            BY <1>2, <2>2, <4>2, <5>1, <6>1, <6>2
        <5>3. CASE ~is_closing
          <6>1. Len(started) + i = Len(submitted) + 1 /\ quota' = Len(submitted) + 1
            BY <1>2, <2>3, <3>2, <4>2, <5>3
          <6>2. QED
            BY <1>2, <2>2, <5>1, <6>1
        <5>4. QED
          BY <5>2, <5>3
      <4>3. QED
        BY <1>2, <2>1, <4>1, <4>2
    <3>5. QED
      BY <2>3, <3>3, <3>4 DEF Queued
  <2>6. Ended'
    BY <2>3 DEF OrderInv, Ended
  <2>7. QED
    BY <1>3, <2>3, <2>4, <2>5, <2>6 DEF OrderInv
<1>5. CASE shutdown
  <2>1. /\ Len(pending_tasks') = Len(pending_tasks) + 1
        /\ \A i \in 1..Len(pending_tasks) : pending_tasks'[i] = pending_tasks[i]
        /\ pending_tasks'[Len(pending_tasks) + 1] = None
    <3>1. None \in Jobs \cup {None}
      OBVIOUS
    <3>2. QED
      BY <1>1, <1>5, <3>1, AppendProperties DEF shutdown, TypeOK
  <2>2. /\ UNCHANGED <<pc, submitted, quota, started, failed>>
        /\ ~is_closing /\ is_closing'
    BY <1>5 DEF shutdown
  <2>3. Progress' /\ Ended'
    BY <2>2 DEF OrderInv, Progress, Ended
  <2>4. Queued'
    <3>1. CASE alive
      BY <1>2, <2>1, <2>2, <3>1, SMTT(30) DEF OrderInv, Queued, Progress
    <3>2. CASE ~alive
      BY <2>2, <3>2 DEF Queued, alive
    <3>3. QED
      BY <3>1, <3>2
  <2>5. QED
    BY <1>3, <2>2, <2>3, <2>4 DEF OrderInv
<1>6. CASE close
  BY <1>3, <1>6, StillOrder DEF close, alive
<1>7. CASE wake
  BY <1>1, <1>3, <1>7, TakeOrder, TakeType DEF wake, alive
<1>8. CASE job_returns
  BY <1>1, <1>3, <1>8, TakeOrder, TakeType DEF job_returns, alive
<1>9. CASE job_raises
  BY <1>3, <1>9, StillOrder DEF job_raises, alive
<1>10. CASE error_handled
  <2>1. failed # {}
    BY <1>10 DEF error_handled, OrderInv
  <2>2. CASE close_on_exception
    <3>1. UNCHANGED <<is_closing, submitted, quota, failed, started>> /\ pc' = "ended"
      BY <1>10, <2>2 DEF error_handled, close_self
    <3>2. Queued' /\ Progress' /\ Ended'
      BY <2>1, <2>2, <3>1 DEF OrderInv, Queued, Progress, Ended, alive
    <3>3. QED
      BY <1>3, <3>1, <3>2
  <2>3. CASE ~close_on_exception
    BY <1>1, <1>3, <1>10, <2>3, TakeOrder, TakeType DEF error_handled, alive
  <2>4. QED
    BY <2>2, <2>3
<1>11. CASE crash
  BY <1>3, <1>11, StillOrder DEF crash, alive
<1>12. CASE UNCHANGED vars
  BY <1>3, <1>12, StillOrder DEF vars, alive, OrderInv
<1>13. QED
  BY <1>4, <1>5, <1>6, <1>7, <1>8, <1>9, <1>10, <1>11, <1>12 DEF Next, run

\* A new handler has nothing to do.
LEMMA OrderInit == Init => OrderInv
<1>1. Len(<<>>) = 0
  BY EmptySeq
<1>2. Init => Queued /\ Progress
  BY <1>1 DEF Init, Queued, Progress
<1>3. QED
  BY <1>2, TypeInit DEF Init, OrderInv, Ended

\* Jobs begin in the order of submit(), each once, and none that came after
\* shutdown(), however jobs end and whenever the handler is closed.
THEOREM InOrder == Spec => []StartedInOrder
<1>1. OrderInv => StartedInOrder
  <2> SUFFICES ASSUME OrderInv PROVE StartedInOrder
    OBVIOUS
  <2>1. /\ started \in Seq(Jobs) /\ submitted \in Seq(Jobs)
        /\ Len(started) <= quota /\ quota <= Len(submitted) /\ quota \in Nat
        /\ \A i \in 1..Len(started) : started[i] = submitted[i]
    BY DEF OrderInv, Progress, TypeOK
  <2>2. Len(started) \in Nat /\ Len(submitted) \in Nat
    BY <2>1, LenProperties
  <2>3. \A i \in 1..Len(started) : submitted[i] \in Jobs
    BY <2>1, <2>2, ElementOfSeq
  <2>4. /\ SubSeq(submitted, 1, Len(started)) \in Seq(Jobs)
        /\ Len(SubSeq(submitted, 1, Len(started))) = Len(started)
        /\ \A i \in 1..Len(started) : SubSeq(submitted, 1, Len(started))[i] = submitted[i]
    BY <2>2, <2>3, SubSeqProperties
  <2>5. started = SubSeq(submitted, 1, Len(started))
    BY <2>1, <2>4, SeqEqual
  <2>6. QED
    BY <2>1, <2>5 DEF StartedInOrder
<1>2. QED
  BY <1>1, OrderInit, OrderStep, PTL DEF Spec

\* A handler that stops of its own accord has begun all that was submitted
\* before shutdown().
THEOREM Drains == Spec => []GracefulDrains
<1>1. OrderInv => GracefulDrains
  BY DEF OrderInv, Ended, GracefulDrains
<1>2. QED
  BY <1>1, OrderInit, OrderStep, PTL DEF Spec
-------------------------------------------------------------------------------
(* Failure *)

\* With close_on_exception at most one job fails, it is the last one begun, and
\* run() neither runs nor waits from then on.
StopInv ==
    close_on_exception /\ failed # {} =>
        /\ started # <<>>
        /\ failed = {started[Len(started)]}
        /\ pc \notin {"wait", "job"}

\* StopInv is inductive: a job begins only from "wait" or "job", or after an
\* error that does not close.
LEMMA StopStep == Begun /\ StopInv /\ [Next]_vars => StopInv'
<1> SUFFICES ASSUME Begun, StopInv, [Next]_vars PROVE StopInv'
  OBVIOUS
<1>1. ASSUME UNCHANGED <<started, failed>>, pc' \in {"wait", "job"} => pc' = pc
      PROVE  StopInv'
  BY <1>1 DEF StopInv
<1>2. ASSUME NEW j \in Jobs, submit(j) PROVE StopInv'
  BY <1>1, <1>2 DEF submit
<1>3. CASE shutdown
  BY <1>1, <1>3 DEF shutdown
<1>4. CASE close
  BY <1>1, <1>4 DEF close
<1>5. CASE wake \/ job_returns
  BY <1>5 DEF wake, job_returns, StopInv
<1>6. CASE job_raises
  BY <1>6 DEF job_raises, Begun, StopInv
<1>7. CASE error_handled
  BY <1>1, <1>7 DEF error_handled, close_self, StopInv
<1>8. CASE crash
  BY <1>1, <1>8 DEF crash
<1>9. CASE UNCHANGED vars
  BY <1>1, <1>9 DEF vars
<1>10. QED
  BY <1>2, <1>3, <1>4, <1>5, <1>6, <1>7, <1>8, <1>9 DEF Next, run

\* With close_on_exception nothing begins after a failed job, though the deque
\* may be full and submit() goes on.
THEOREM Stops == Spec => []StopsAtFailure
<1>1. Init => StopInv
  BY DEF Init, StopInv
<1>2. StopInv => StopsAtFailure
  BY DEF StopInv, StopsAtFailure
<1>3. Spec => []Begun
  BY TypeInit, TypeStep, PTL DEF Spec
<1>4. QED
  BY <1>1, <1>2, <1>3, StopStep, PTL DEF Spec
-------------------------------------------------------------------------------
(* Wakeups *)

\* run() goes back to waiting only with an empty deque, and whoever adds to
\* the deque sets the event.
LEMMA WakeupStep == NoLostWakeup /\ [Next]_vars => NoLostWakeup'
<1> SUFFICES ASSUME NoLostWakeup, [Next]_vars PROVE NoLostWakeup'
  OBVIOUS
<1>1. take_next => NoLostWakeup'
  BY DEF take_next, close_self, NoLostWakeup
<1>2. (\E j \in Jobs : submit(j)) \/ shutdown => NoLostWakeup'
  BY DEF submit, shutdown, NoLostWakeup
<1>3. close \/ job_raises \/ crash => NoLostWakeup'
  BY DEF close, job_raises, crash, NoLostWakeup
<1>4. wake \/ job_returns \/ error_handled => NoLostWakeup'
  BY <1>1 DEF wake, job_returns, error_handled, close_self, NoLostWakeup
<1>5. UNCHANGED vars => NoLostWakeup'
  BY DEF vars, NoLostWakeup
<1>6. QED
  BY <1>2, <1>3, <1>4, <1>5 DEF Next, run

\* run() never sleeps on work: a non-empty deque has set its event.
THEOREM Wakeups == Spec => []NoLostWakeup
<1>1. Init => NoLostWakeup
  BY DEF Init, NoLostWakeup
<1>2. QED
  BY <1>1, WakeupStep, PTL DEF Spec
-------------------------------------------------------------------------------
(* Refinement of JobQueue *)

\* A handler that is closed runs nothing, and only an Exception is a failure.
HaltInv ==
    /\ OrderInv
    /\ is_closed => ~alive
    /\ failed # {} => "exception" \in Outcomes

\* HaltInv is inductive.
LEMMA HaltStep == HaltInv /\ [Next]_vars => HaltInv'
<1> SUFFICES ASSUME HaltInv, [Next]_vars
             PROVE  (is_closed => ~alive)' /\ (failed # {} => "exception" \in Outcomes)'
  BY OrderStep DEF HaltInv
<1> USE DEF HaltInv, alive
<1>1. CASE (\E j \in Jobs : submit(j)) \/ shutdown
  BY <1>1 DEF submit, shutdown
<1>2. CASE close
  BY <1>2 DEF close
<1>3. CASE wake \/ job_returns \/ error_handled
  BY <1>3 DEF wake, job_returns, error_handled, take_next, close_self
<1>4. CASE job_raises \/ crash
  BY <1>4 DEF job_raises, crash
<1>5. CASE UNCHANGED vars
  BY <1>5 DEF vars
<1>6. QED
  BY <1>1, <1>2, <1>3, <1>4, <1>5 DEF Next, run

\* JobQueue counts as this module does.
LEMMA QueueCardinality == \A S : Queue!Cardinality(S) = Cardinality(S)
  BY DEF Queue!Cardinality, Cardinality, Queue!IsFiniteSet, IsFiniteSet

\* The inner loop of run() begins the next job, goes to sleep, or has met the
\* sentinel with nothing left that was due.
LEMMA TakeRefines ==
  ASSUME HaltInv, alive, take_next, UNCHANGED <<is_closing, submitted, quota, failed>>
  PROVE  Queue!Next
<1>1. /\ TypeOK /\ ~is_closed /\ pc # "crashed" /\ Progress' /\ Ended'
      /\ is_closed => FALSE
  BY TakeOrder DEF HaltInv, OrderInv, alive
<1>2. Len(started) \in Nat /\ Len(submitted) \in Nat /\ quota \in Nat
  BY <1>1, LenProperties DEF TypeOK
<1>3. CASE pending_tasks = <<>>
  <2>1. UNCHANGED <<started, is_closed>> /\ pc' = "wait"
    BY <1>3 DEF take_next
  <2>2. QED
    BY <1>1, <2>1 DEF Queue!Next, Queue!End
<1>4. CASE pending_tasks # <<>> /\ Head(pending_tasks) = None
  <2>1. UNCHANGED started /\ pc' = "ended" /\ is_closed'
    BY <1>4 DEF take_next, close_self
  <2>2. CASE is_closing /\ Len(started) = quota
    BY <1>1, <2>1, <2>2 DEF Queue!Next, Queue!Finish
  <2>3. CASE close_on_exception /\ failed # {}
    <3>1. MayHalt
      BY <2>3 DEF HaltInv, MayHalt
    <3>2. QED
      BY <1>1, <2>1, <3>1 DEF Queue!Next, Queue!Halt
  <2>4. QED
    BY <1>1, <2>1, <2>2, <2>3 DEF Ended
<1>5. CASE pending_tasks # <<>> /\ Head(pending_tasks) # None
  <2>1. /\ started' = Append(started, Head(pending_tasks))
        /\ pc' = "job" /\ UNCHANGED is_closed
    BY <1>5 DEF take_next
  <2>2. Head(pending_tasks) \in Jobs
    BY <1>1, <1>5, HeadTailProperties DEF TypeOK
  <2>3. Len(started') = Len(started) + 1 /\ started'[Len(started) + 1] = Head(pending_tasks)
    BY <1>1, <2>1, <2>2, AppendProperties DEF TypeOK
  <2>4. Len(started) < quota /\ Head(pending_tasks) = submitted[Len(started) + 1]
    BY <1>1, <1>2, <2>3 DEF Progress
  <2>5. Queue!Cardinality({submitted[Len(started) + 1]}) = 1
    <3>1. Cardinality({submitted[Len(started) + 1]}) = 1
      BY FS_Singleton
    <3>2. QED
      BY <3>1, QueueCardinality
  <2> DEFINE job == submitted[Len(started) + 1]
  <2>6. started'[Len(started')] = job
    BY <2>3, <2>4
  <2>7. UNCHANGED <<is_closed, submitted, quota, is_closing>> /\ started' = Append(started, job)
    BY <2>1, <2>4
  <2> HIDE DEF job
  <2>8. Queue!Begin
    <3>1. (IF pc = "job" THEN {started[Len(started)]} ELSE {})' = {job}
      BY <2>1, <2>6
    <3>2. Queue!Cardinality((IF pc = "job" THEN {started[Len(started)]} ELSE {})') <= 1
      <4>1. Queue!Cardinality((IF pc = "job" THEN {started[Len(started)]} ELSE {})') = 1
        BY <2>5, <3>1, Zenon DEF job
      <4>2. \A n : n = 1 => n <= 1
        OBVIOUS
      <4>3. QED
        BY <4>1, <4>2, Zenon
    <3>3. (is_closed \/ pc = "crashed")' = (is_closed \/ pc = "crashed")
      BY <1>1, <2>1
    <3>4. ~(is_closed \/ pc = "crashed")
      BY <1>1
    <3>5. QED
      BY <2>4, <2>7, <3>1, <3>2, <3>3, <3>4 DEF Queue!Begin, job
  <2>9. QED
    BY <2>8 DEF Queue!Next
<1>6. QED
  BY <1>3, <1>4, <1>5

\* Every step of the handler is a step of the queue, or none.
LEMMA QueueStep == HaltInv /\ [Next]_vars => [Queue!Next]_Queue!vars
<1> SUFFICES ASSUME HaltInv, [Next]_vars PROVE Queue!Next \/ UNCHANGED Queue!vars
  OBVIOUS
<1>0. TypeOK /\ HaltInv /\ Begun
  BY DEF HaltInv, OrderInv
<1>1. ASSUME NEW j \in Jobs, submit(j) PROVE Queue!Next
  <2>1. \A i \in 1..Len(submitted) : submitted[i] # j
    BY <1>1 DEF submit, Submitted
  <2>2. Queue!Submit
    BY <1>1, <2>1 DEF submit, Queue!Submit
  <2>3. QED
    BY <2>2 DEF Queue!Next
<1>2. CASE shutdown
  BY <1>2 DEF shutdown, Queue!Next, Queue!Shutdown
<1>3. CASE close
  <2>1. /\ "close" \in Env /\ ~is_closed /\ is_closed'
        /\ pc' = IF pc = "crashed" THEN pc ELSE "cancelled"
        /\ UNCHANGED <<is_closing, submitted, quota, started>>
    BY <1>3 DEF close
  <2>2. CASE pc = "crashed"
    BY <2>1, <2>2 DEF Queue!vars
  <2>3. CASE pc # "crashed"
    BY <2>1, <2>3 DEF Queue!Next, Queue!Halt, MayHalt
  <2>4. QED
    BY <2>2, <2>3
<1>4. CASE wake \/ job_returns
  BY <1>0, <1>4, TakeRefines DEF wake, job_returns, alive
<1>5. CASE job_raises
  BY <1>5 DEF job_raises, Queue!Next, Queue!End
<1>6. CASE error_handled /\ close_on_exception
  <2>1. /\ ~is_closed /\ is_closed' /\ pc = "error" /\ pc' = "ended"
        /\ UNCHANGED <<is_closing, submitted, quota, started>>
    BY <1>0, <1>6 DEF error_handled, close_self, HaltInv, alive
  <2>2. MayHalt
    BY <1>0, <1>6, <2>1 DEF MayHalt, HaltInv, OrderInv
  <2>3. QED
    BY <2>1, <2>2 DEF Queue!Next, Queue!Halt
<1>7. CASE error_handled /\ ~close_on_exception
  BY <1>0, <1>7, TakeRefines DEF error_handled, alive
<1>8. CASE crash
  <2>1. /\ pc \in {"job", "error"} /\ pc' = "crashed"
        /\ UNCHANGED <<is_closed, is_closing, submitted, quota, started>>
    BY <1>8 DEF crash
  <2>2. MayHalt
    BY <1>0, <1>8 DEF crash, MayHalt, HaltInv, OrderInv
  <2>3. ~is_closed
    BY <1>0, <2>1 DEF HaltInv, alive
  <2>4. QED
    BY <2>1, <2>2, <2>3 DEF Queue!Next, Queue!Halt
<1>9. CASE UNCHANGED vars
  BY <1>9 DEF vars, Queue!vars
<1>10. QED
  BY <1>1, <1>2, <1>3, <1>4, <1>5, <1>6, <1>7, <1>8, <1>9 DEF Next, run

\* The handler implements the queue: one job at a time and in order, none after
\* close(), and no end before all that was due unless something failed or
\* close() was called (run() and its sentinel).
THEOREM Implements == Spec => ImplementsQueue
<1>1. Init => HaltInv
  BY OrderInit DEF Init, HaltInv
<1>2. Init => Queue!Init
  BY DEF Init, Queue!Init
<1>3. QED
  BY <1>1, <1>2, HaltStep, QueueStep, PTL DEF Spec, ImplementsQueue, Queue!Spec
===============================================================================
