------------------------ MODULE ParallelHandlerProofs -------------------------
(***************************************************************************)
(* Proofs about ParallelHandler, for any jobs and outcomes, any size of    *)
(* the pool and both values of close_on_exception.                         *)
(*                                                                         *)
(* The idea: run() takes the jobs in the order of submit(), each once      *)
(* (QueueInv), so a job it spawns was never spawned before.  Only such a   *)
(* fresh job may take a permit or be doomed; if jobs could come twice,     *)
(* neither PermitsConserved nor DoomedNeverRun would be inductive.         *)
(***************************************************************************)
EXTENDS ParallelHandler, SequenceTheorems, FiniteSetTheorems, TLAPS

USE ParallelAssumption DEF JobOutcomes, EnvEvents

\* The states in which run() may still take from the deque.
alive == pc \in {"wait", "loop", "acquire", "error"}

SpawnedJobs == {spawned[i] : i \in 1..Len(spawned)}

\* How many jobs run() has taken from the deque.
Taken == Len(spawned) + (IF pc = "acquire" THEN 1 ELSE 0)

\* A job whose call failed is spawned in name only.
Uncalled == \E i \in 1..Len(spawned) : spawned[i] \notin executed \cup tasks

\* No job was submitted twice.
Distinct(s) == \A i, k \in 1..Len(s) : s[i] = s[k] => i = k

\* The deque p when n of the jobs s were taken, q of which came before shutdown()
\* (c: which has been called).
Line(p, s, n, q, c) ==
    /\ n <= q /\ q <= Len(s)
    /\ ~c => q = Len(s)
    /\ Len(p) = Len(s) - n + (IF c THEN 1 ELSE 0)
    /\ \A i \in 1..Len(p) :
          p[i] = IF n + i <= q THEN s[n + i]
                 ELSE IF n + i = q + 1 THEN None
                 ELSE s[n + i - 1]

\* What run() has taken it took in order, and the deque holds the rest.
QueueInv ==
    /\ Distinct(submitted)
    /\ Len(spawned) <= quota /\ quota <= Len(submitted)
    /\ \A i \in 1..Len(spawned) : spawned[i] = submitted[i]
    /\ alive => Line(pending_tasks, submitted, Taken, quota, is_closing)
    /\ pc = "acquire" => current = submitted[Len(spawned) + 1] /\ waiter_count > 0

\* The permits, and the waiter that run() is.
PermitInv == semaphore + Cardinality(tasks) = concurrency

\* Only spawned jobs run, and of those that are doomed none that is not cancelled.
DoomInv ==
    /\ tasks \cup executed \cup doomed \subseteq SpawnedJobs
    /\ doomed \cap tasks \subseteq cancelling
    /\ doomed \cap executed = {}

\* Why run() ended, or is about to.
EndInv ==
    /\ pc \in {"joined", "ended"} => tasks = {}
    /\ pc = "error" => Uncalled
    /\ pc \in {"join", "joined", "ended"} => Uncalled \/ (is_closing /\ Len(spawned) = quota)

PoolInv == TypeOK /\ QueueInv /\ PermitInv /\ DoomInv /\ EndInv
-------------------------------------------------------------------------------
(* The deque as a value *)

\* What is said of a deque before the sentinel: its head is the next job, or the
\* sentinel when all jobs that came before shutdown() were taken.
LEMMA LineHead ==
  ASSUME NEW p \in Seq(Jobs \cup {None}), NEW s \in Seq(Jobs), NEW n \in Nat, NEW q \in Nat,
         NEW c \in BOOLEAN, Line(p, s, n, q, c), p # <<>>
  PROVE  /\ Head(p) = None => c /\ n = q
         /\ Head(p) # None => n + 1 <= q /\ Head(p) = s[n + 1]
         /\ n + 1 <= q => Head(p) # None
<1>1. /\ Len(p) \in Nat /\ Len(s) \in Nat /\ \A i \in 1..Len(s) : s[i] \in Jobs
      /\ Len(p) > 0 /\ Head(p) = p[1] /\ 1 \in 1..Len(p)
  <2>1. Len(p) \in Nat /\ Len(s) \in Nat /\ \A i \in 1..Len(s) : s[i] \in Jobs
    BY LenProperties, ElementOfSeq
  <2>2. Len(p) > 0
    BY <2>1, EmptySeq
  <2>3. QED
    BY <2>1, <2>2, HeadTailProperties
<1>2. p[1] = IF n + 1 <= q THEN s[n + 1] ELSE IF n + 1 = q + 1 THEN None ELSE s[n + 1 - 1]
  BY <1>1 DEF Line
<1>3. n <= q /\ q <= Len(s) /\ Len(p) = Len(s) - n + (IF c THEN 1 ELSE 0) /\ (~c => q = Len(s))
  BY DEF Line
<1>4. CASE n + 1 <= q
  <2>1. n + 1 \in 1..Len(s)
    BY <1>1, <1>3, <1>4
  <2>2. QED
    BY <1>1, <1>2, <1>4, <2>1
<1>5. CASE n = q
  <2>1. Head(p) = None
    BY <1>1, <1>2, <1>5
  <2>2. c
    BY <1>1, <1>3, <1>5
  <2>3. QED
    BY <1>5, <2>1, <2>2
<1>6. QED
  BY <1>3, <1>4, <1>5

\* Taking the head keeps what is said of the rest.
LEMMA LineTail ==
  ASSUME NEW p \in Seq(Jobs \cup {None}), NEW s \in Seq(Jobs), NEW n \in Nat, NEW q \in Nat,
         NEW c \in BOOLEAN, Line(p, s, n, q, c), p # <<>>, Head(p) # None
  PROVE  Line(Tail(p), s, n + 1, q, c)
<1>1. n + 1 <= q
  BY LineHead
<1>2. /\ Len(Tail(p)) = Len(p) - 1 /\ Len(p) \in Nat /\ Len(s) \in Nat
      /\ \A i \in 1..Len(Tail(p)) : Tail(p)[i] = p[i + 1]
  BY HeadTailProperties, LenProperties
<1>3. /\ q <= Len(s) /\ ~c => q = Len(s)
      /\ Len(p) = Len(s) - n + (IF c THEN 1 ELSE 0)
  BY DEF Line
<1>4. ASSUME NEW i \in 1..Len(Tail(p))
      PROVE  Tail(p)[i] = IF (n + 1) + i <= q THEN s[(n + 1) + i]
                          ELSE IF (n + 1) + i = q + 1 THEN None
                          ELSE s[(n + 1) + i - 1]
  <2>1. i + 1 \in 1..Len(p) /\ Tail(p)[i] = p[i + 1]
    BY <1>2
  <2>2. (n + 1) + i = n + (i + 1) /\ (n + 1) + i - 1 = n + (i + 1) - 1
    BY <1>2
  <2>3. QED
    BY <2>1, <2>2 DEF Line
<1>5. Len(Tail(p)) = Len(s) - (n + 1) + (IF c THEN 1 ELSE 0)
  BY <1>2, <1>3
<1>6. q <= Len(s) /\ (~c => q = Len(s))
  BY DEF Line
<1>7. QED
  BY <1>1, <1>4, <1>5, <1>6 DEF Line

\* submit() adds at the end, before or after the sentinel.
LEMMA LineSubmit ==
  ASSUME NEW p \in Seq(Jobs \cup {None}), NEW s \in Seq(Jobs), NEW n \in Nat, NEW q \in Nat,
         NEW c \in BOOLEAN, Line(p, s, n, q, c), NEW j \in Jobs
  PROVE  Line(Append(p, j), Append(s, j), n, IF c THEN q ELSE q + 1, c)
<1> DEFINE pp == Append(p, j)
           ss == Append(s, j)
           qq == IF c THEN q ELSE q + 1
<1>1. /\ Len(pp) = Len(p) + 1 /\ pp[Len(p) + 1] = j
      /\ \A i \in 1..Len(p) : pp[i] = p[i]
  BY AppendProperties
<1>2. /\ Len(ss) = Len(s) + 1 /\ ss[Len(s) + 1] = j
      /\ \A i \in 1..Len(s) : ss[i] = s[i]
  BY AppendProperties
<1>3. Len(p) \in Nat /\ Len(s) \in Nat
  BY LenProperties
<1>4. n <= q /\ q <= Len(s) /\ (~c => q = Len(s)) /\ Len(p) = Len(s) - n + (IF c THEN 1 ELSE 0)
  BY DEF Line
<1> HIDE DEF pp, ss
<1>5. n <= qq /\ qq <= Len(ss) /\ (~c => qq = Len(ss))
      /\ Len(pp) = Len(ss) - n + (IF c THEN 1 ELSE 0)
  <2>1. CASE c
    BY <1>1, <1>2, <1>3, <1>4, <2>1
  <2>2. CASE ~c
    BY <1>1, <1>2, <1>3, <1>4, <2>2
  <2>3. QED
    BY <2>1, <2>2
<1>6. ASSUME NEW i \in 1..Len(pp)
      PROVE  pp[i] = IF n + i <= qq THEN ss[n + i]
                     ELSE IF n + i = qq + 1 THEN None
                     ELSE ss[n + i - 1]
  <2>1. CASE i \in 1..Len(p)
    <3>1. /\ pp[i] = p[i]
          /\ p[i] = IF n + i <= q THEN s[n + i]
                    ELSE IF n + i = q + 1 THEN None
                    ELSE s[n + i - 1]
      BY <1>1, <2>1 DEF Line
    <3>2. CASE ~c
      <4>1. n + i \in 1..Len(s) /\ n + i <= q /\ n + i <= qq
        BY <1>3, <1>4, <2>1, <3>2
      <4>2. QED
        BY <1>2, <3>1, <4>1
    <3>3. CASE c
      <4>1. qq = q
        BY <3>3
      <4>2. CASE n + i <= q
        <5>1. n + i \in 1..Len(s)
          BY <1>3, <1>4, <2>1, <4>2
        <5>2. QED
          BY <1>2, <3>1, <4>1, <4>2, <5>1
      <4>3. CASE n + i = q + 1
        <5>1. ~(n + i <= q)
          BY <4>3
        <5>2. QED
          BY <3>1, <4>1, <4>3, <5>1
      <4>4. CASE n + i > q + 1
        <5>1. ~(n + i <= q) /\ n + i # q + 1 /\ n + i - 1 \in 1..Len(s)
          BY <1>3, <1>4, <2>1, <3>3, <4>4
        <5>2. QED
          BY <1>2, <3>1, <4>1, <5>1
      <4>5. QED
        BY <2>1, <4>2, <4>3, <4>4
    <3>4. QED
      BY <3>2, <3>3
  <2>2. CASE i = Len(p) + 1
    <3>1. pp[i] = j
      BY <1>1, <2>2
    <3>2. CASE ~c
      <4>1. n + i = Len(s) + 1 /\ n + i <= qq
        BY <1>3, <1>4, <2>2, <3>2
      <4>2. QED
        BY <1>2, <3>1, <4>1
    <3>3. CASE c
      <4>1. n + i - 1 = Len(s) + 1 /\ ~(n + i <= qq) /\ n + i # qq + 1
        BY <1>3, <1>4, <2>2, <3>3
      <4>2. QED
        BY <1>2, <3>1, <4>1
    <3>4. QED
      BY <3>2, <3>3
  <2>3. QED
    BY <1>1, <1>3, <2>1, <2>2
<1>7. QED
  BY <1>5, <1>6 DEF Line, pp, ss

\* shutdown() adds the sentinel behind all that was submitted.
LEMMA LineShutdown ==
  ASSUME NEW p \in Seq(Jobs \cup {None}), NEW s \in Seq(Jobs), NEW n \in Nat, NEW q \in Nat,
         Line(p, s, n, q, FALSE)
  PROVE  Line(Append(p, None), s, n, q, TRUE)
<1> DEFINE pp == Append(p, None)
<1>1. /\ Len(pp) = Len(p) + 1 /\ pp[Len(p) + 1] = None
      /\ \A i \in 1..Len(p) : pp[i] = p[i]
  <2>1. None \in Jobs \cup {None}
    OBVIOUS
  <2>2. QED
    BY <2>1, AppendProperties
<1>2. Len(p) \in Nat /\ Len(s) \in Nat
  BY LenProperties
<1>3. n <= q /\ q = Len(s) /\ Len(p) = Len(s) - n
  BY <1>2 DEF Line
<1> HIDE DEF pp
<1>4. ASSUME NEW i \in 1..Len(pp)
      PROVE  pp[i] = IF n + i <= q THEN s[n + i]
                     ELSE IF n + i = q + 1 THEN None
                     ELSE s[n + i - 1]
  <2>1. CASE i \in 1..Len(p)
    <3>1. pp[i] = p[i] /\ n + i <= q
      BY <1>1, <1>2, <1>3, <2>1
    <3>2. p[i] = s[n + i]
      BY <2>1, <3>1 DEF Line
    <3>3. QED
      BY <3>1, <3>2
  <2>2. CASE i = Len(p) + 1
    <3>1. pp[i] = None /\ ~(n + i <= q) /\ n + i = q + 1
      BY <1>1, <1>2, <1>3, <2>2
    <3>2. QED
      BY <3>1
  <2>3. QED
    BY <1>1, <1>2, <2>1, <2>2
<1>5. Len(pp) = Len(s) - n + 1
  BY <1>1, <1>2, <1>3
<1>6. QED
  BY <1>3, <1>4, <1>5 DEF Line, pp

\* A job appended to a sequence it is not in keeps it free of repetitions.
LEMMA AppendDistinct ==
  ASSUME NEW s \in Seq(Jobs), NEW j \in Jobs, Distinct(s),
         \A i \in 1..Len(s) : s[i] # j
  PROVE  Distinct(Append(s, j))
<1>1. /\ Len(Append(s, j)) = Len(s) + 1 /\ Append(s, j)[Len(s) + 1] = j /\ Len(s) \in Nat
      /\ \A i \in 1..Len(s) : Append(s, j)[i] = s[i]
  BY AppendProperties, LenProperties
<1>2. SUFFICES ASSUME NEW i \in 1..Len(s) + 1, NEW k \in 1..Len(s) + 1,
                      Append(s, j)[i] = Append(s, j)[k]
               PROVE  i = k
  BY <1>1 DEF Distinct
<1>3. i \in 1..Len(s) \/ i = Len(s) + 1
  BY <1>1
<1>4. k \in 1..Len(s) \/ k = Len(s) + 1
  BY <1>1
<1>5. QED
  BY <1>1, <1>2, <1>3, <1>4 DEF Distinct
-------------------------------------------------------------------------------
(* Steps of the parts of the state *)

\* A job that was not spawned yet is not among those that were.
LEMMA FreshJob ==
  ASSUME TypeOK, QueueInv, Len(spawned) + 1 <= quota
  PROVE  /\ submitted[Len(spawned) + 1] \in Jobs
         /\ submitted[Len(spawned) + 1] \notin SpawnedJobs
<1>1. /\ Len(spawned) \in Nat /\ Len(submitted) \in Nat /\ quota \in Nat
      /\ \A i \in 1..Len(submitted) : submitted[i] \in Jobs
  BY LenProperties, ElementOfSeq DEF TypeOK
<1>2. Len(spawned) + 1 \in 1..Len(submitted) /\ 1..Len(spawned) \subseteq 1..Len(submitted)
  BY <1>1 DEF QueueInv
<1>3. \A i \in 1..Len(spawned) : i # Len(spawned) + 1
  BY <1>1
<1>4. QED
  BY <1>1, <1>2, <1>3 DEF QueueInv, Distinct, SpawnedJobs

\* The history of spawned jobs with one more.
LEMMA SpawnedMore ==
  ASSUME TypeOK, NEW j \in Jobs, spawned' = Append(spawned, j)
  PROVE  /\ spawned' \in Seq(Jobs) /\ Len(spawned') = Len(spawned) + 1
         /\ \A i \in 1..Len(spawned) : spawned'[i] = spawned[i]
         /\ spawned'[Len(spawned) + 1] = j
         /\ SpawnedJobs' = SpawnedJobs \cup {j}
<1>1. /\ spawned' \in Seq(Jobs) /\ Len(spawned') = Len(spawned) + 1
      /\ \A i \in 1..Len(spawned) : spawned'[i] = spawned[i]
      /\ spawned'[Len(spawned) + 1] = j
  BY AppendProperties DEF TypeOK
<1>2. Len(spawned) \in Nat /\ 1..Len(spawned') = 1..Len(spawned) \cup {Len(spawned) + 1}
  BY <1>1, LenProperties DEF TypeOK
<1>3. SpawnedJobs' = SpawnedJobs \cup {j}
  BY <1>1, <1>2 DEF SpawnedJobs
<1>4. QED
  BY <1>1, <1>3

\* A fresh job takes a permit and is doomed or not.
LEMMA StartStep ==
  ASSUME TypeOK, QueueInv, PermitInv, DoomInv, Len(spawned) + 1 <= quota, semaphore > 0,
         NEW j, j = submitted[Len(spawned) + 1], start_task(j), executed' = executed
  PROVE  /\ semaphore' \in Nat /\ tasks' \in SUBSET Jobs /\ cancelling' \in SUBSET tasks'
         /\ spawned' \in Seq(Jobs) /\ doomed' \in SUBSET Jobs
         /\ Len(spawned') = Len(spawned) + 1
         /\ \A i \in 1..Len(spawned') : spawned'[i] = submitted[i]
         /\ PermitInv' /\ DoomInv'
<1>1. j \in Jobs /\ j \notin SpawnedJobs
  BY FreshJob
<1>2. /\ semaphore' = semaphore - 1 /\ tasks' = tasks \cup {j}
      /\ spawned' = Append(spawned, j)
      /\ \/ cancelling' = cancelling \cup {j} /\ doomed' = doomed \cup {j}
         \/ cancelling' = cancelling /\ doomed' = doomed
  BY DEF start_task
<1>3. /\ spawned' \in Seq(Jobs) /\ Len(spawned') = Len(spawned) + 1
      /\ \A i \in 1..Len(spawned) : spawned'[i] = spawned[i]
      /\ spawned'[Len(spawned) + 1] = j
      /\ SpawnedJobs' = SpawnedJobs \cup {j}
  BY <1>1, <1>2, SpawnedMore
<1>4. \A i \in 1..Len(spawned') : spawned'[i] = submitted[i]
  <2>1. Len(spawned) \in Nat
    BY LenProperties DEF TypeOK
  <2>2. \A i \in 1..Len(spawned') : i \in 1..Len(spawned) \/ i = Len(spawned) + 1
    BY <1>3, <2>1
  <2>3. QED
    BY <1>3, <2>2 DEF QueueInv
<1>5. semaphore' \in Nat /\ tasks' \in SUBSET Jobs /\ cancelling' \in SUBSET tasks'
      /\ doomed' \in SUBSET Jobs
  BY <1>1, <1>2 DEF TypeOK
<1>6. PermitInv'
  <2>1. IsFiniteSet(tasks)
    BY FS_Subset DEF TypeOK
  <2>2. j \notin tasks
    BY <1>1 DEF DoomInv
  <2>3. Cardinality(tasks \cup {j}) = Cardinality(tasks) + 1 /\ Cardinality(tasks) \in Nat
    BY <2>1, <2>2, FS_AddElement, FS_CardinalityType
  <2>4. QED
    BY <1>2, <2>3 DEF PermitInv, TypeOK
<1>7. DoomInv'
  BY <1>1, <1>2, <1>3 DEF DoomInv, TypeOK
<1>8. QED
  BY <1>3, <1>4, <1>5, <1>6, <1>7

\* A task that ends gives its permit back.
LEMMA DoneStep ==
  ASSUME TypeOK, PermitInv, DoomInv, NEW j \in tasks, task_done(j),
         executed' \subseteq executed \cup {j}, j \in cancelling \/ j \notin doomed,
         executed' = executed \/ j \notin doomed
  PROVE  /\ semaphore' \in Nat /\ tasks' \in SUBSET Jobs /\ cancelling' \in SUBSET tasks'
         /\ executed' \in SUBSET Jobs
         /\ PermitInv' /\ DoomInv'
         /\ pc' \in {"wait", "loop", "acquire", "error", "join", "joined", "ended", "cancelled"}
         /\ joiner' \in {"none", "pool", "pool_empty", "returned"}
         /\ notified(j) \in [Jobs -> {"none", "new", "waiting", "resumed", "done"}]
<1>1. /\ semaphore' = semaphore + 1 /\ tasks' = tasks \ {j}
      /\ cancelling' = cancelling \ {j} /\ UNCHANGED <<spawned, doomed>>
  BY DEF task_done
<1>2. semaphore' \in Nat /\ tasks' \in SUBSET Jobs /\ cancelling' \in SUBSET tasks'
      /\ executed' \in SUBSET Jobs
  BY <1>1 DEF TypeOK
<1>3. PermitInv'
  <2>1. IsFiniteSet(tasks)
    BY FS_Subset DEF TypeOK
  <2>2. Cardinality(tasks \ {j}) = Cardinality(tasks) - 1 /\ Cardinality(tasks) \in Nat
    BY <2>1, FS_RemoveElement, FS_CardinalityType
  <2>3. QED
    BY <1>1, <2>2 DEF PermitInv, TypeOK
<1>4. SpawnedJobs' = SpawnedJobs
  BY <1>1 DEF SpawnedJobs
<1>5. DoomInv'
  BY <1>1, <1>4 DEF DoomInv
<1>6. pc' \in {"wait", "loop", "acquire", "error", "join", "joined", "ended", "cancelled"}
  BY DEF task_done, TypeOK
<1>7. joiner' \in {"none", "pool", "pool_empty", "returned"}
  BY DEF task_done, TypeOK
<1>8. notified(j) \in [Jobs -> {"none", "new", "waiting", "resumed", "done"}]
  BY DEF notified, TypeOK
<1>9. QED
  BY <1>2, <1>3, <1>5, <1>6, <1>7, <1>8

\* What run() took and what is queued, in a step that touches neither.
LEMMA QueueStill ==
  ASSUME QueueInv, UNCHANGED <<submitted, quota, spawned, is_closing>>,
         alive' => alive /\ pending_tasks' = pending_tasks,
         alive' => (pc' = "acquire" <=> pc = "acquire"),
         pc' = "acquire" => current' = current /\ waiter_count' = waiter_count
  PROVE  QueueInv'
<1>1. pc' = "acquire" => pc = "acquire"
  BY DEF alive
<1>2. alive' => Taken' = Taken
  BY DEF Taken
<1>3. QED
  BY <1>1, <1>2 DEF QueueInv

\* Nothing is spawned, run or ended.
LEMMA DoomStill ==
  ASSUME DoomInv, PermitInv,
         UNCHANGED <<semaphore, tasks, cancelling, spawned, executed, doomed>>
  PROVE  DoomInv' /\ PermitInv'
BY DEF DoomInv, PermitInv, SpawnedJobs

\* The reason why run() ended stays one.
LEMMA EndStill ==
  ASSUME EndInv, spawned' = spawned, executed' \cup tasks' \subseteq executed \cup tasks,
         is_closing => is_closing' /\ quota' = quota,
         tasks' \subseteq tasks,
         pc' \in {"joined", "ended"} => pc \in {"joined", "ended"} \/ tasks' = {},
         pc' \in {"join", "joined", "ended"} => pc \in {"join", "joined", "ended"},
         pc' = "error" => pc = "error"
  PROVE  EndInv'
<1>1. Uncalled => Uncalled'
  BY DEF Uncalled
<1>2. QED
  BY <1>1 DEF EndInv
-------------------------------------------------------------------------------
(* The actions *)

\* submit(): a job that is new.
LEMMA SubmitStep ==
  ASSUME PoolInv, NEW j \in Jobs, submit(j)
  PROVE  PoolInv'
<1>0. TypeOK /\ QueueInv /\ PermitInv /\ DoomInv /\ EndInv
  BY DEF PoolInv
<1>1. /\ pending_tasks' = Append(pending_tasks, j) /\ submitted' = Append(submitted, j)
      /\ quota' = IF is_closing THEN quota ELSE quota + 1
      /\ new_task_received' = TRUE
      /\ UNCHANGED <<is_closing, is_closed, got_exception, pc, current, semaphore,
                     waiter_count, tasks, cancelling, spawned, doomed, on_exception,
                     joiner, executed>>
  BY DEF submit, pool
<1>2. /\ Append(pending_tasks, j) \in Seq(Jobs \cup {None})
      /\ Append(submitted, j) \in Seq(Jobs) /\ Len(Append(submitted, j)) = Len(submitted) + 1
      /\ \A i \in 1..Len(submitted) : Append(submitted, j)[i] = submitted[i]
  BY <1>0, AppendProperties DEF TypeOK
<1>3. TypeOK'
  BY <1>0, <1>1, <1>2 DEF TypeOK
<1>4. Len(submitted) \in Nat /\ Len(spawned) \in Nat
  BY <1>0, LenProperties DEF TypeOK
<1>5. QueueInv'
  <2>1. Distinct(submitted')
    BY <1>0, <1>1, AppendDistinct DEF QueueInv, submit, Submitted, TypeOK
  <2>2. \A i \in 1..Len(spawned) : i \in 1..Len(submitted)
    BY <1>0, <1>4 DEF QueueInv, TypeOK
  <2>3. \A i \in 1..Len(spawned') : spawned'[i] = submitted'[i]
    BY <1>0, <1>1, <1>2, <2>2 DEF QueueInv
  <2>4. Len(spawned') <= quota'
    BY <1>0, <1>1, <1>4 DEF QueueInv, TypeOK
  <2>5. ASSUME alive'
        PROVE  /\ Line(pending_tasks', submitted', Taken', quota', is_closing')
               /\ pc = "acquire" => Len(spawned) + 1 \in 1..Len(submitted)
    <3>1. Taken \in Nat /\ Taken' = Taken
      BY <1>1, <1>4 DEF Taken
    <3>2. Line(pending_tasks, submitted, Taken, quota, is_closing)
      BY <1>0, <1>1, <2>5 DEF QueueInv, alive
    <3>3. Line(Append(pending_tasks, j), Append(submitted, j), Taken,
               IF is_closing THEN quota ELSE quota + 1, is_closing)
      <4>1. /\ pending_tasks \in Seq(Jobs \cup {None}) /\ submitted \in Seq(Jobs)
            /\ quota \in Nat /\ is_closing \in BOOLEAN
        BY <1>0 DEF TypeOK
      <4>2. QED
        BY <3>1, <3>2, <4>1, LineSubmit, ZenonT(40)
    <3>4. pc = "acquire" => Len(spawned) + 1 \in 1..Len(submitted)
      <4>1. Taken <= quota /\ quota <= Len(submitted)
        BY <3>2 DEF Line
      <4>2. QED
        BY <1>0, <1>4, <4>1 DEF Taken, TypeOK
    <3>5. QED
      BY <1>1, <3>1, <3>3, <3>4
  <2>6. pc' = "acquire" => current' = submitted'[Len(spawned') + 1] /\ waiter_count' > 0
    <3>1. SUFFICES ASSUME pc = "acquire"
                   PROVE  current' = submitted'[Len(spawned') + 1] /\ waiter_count' > 0
      BY <1>1
    <3>2. Len(spawned) + 1 \in 1..Len(submitted)
      BY <1>1, <2>5, <3>1 DEF alive
    <3>3. QED
      BY <1>0, <1>1, <1>2, <3>1, <3>2 DEF QueueInv
  <2>7. quota' <= Len(submitted')
    BY <1>0, <1>1, <1>2, <1>4 DEF QueueInv, TypeOK
  <2>8. QED
    BY <2>1, <2>3, <2>4, <2>5, <2>6, <2>7 DEF QueueInv
<1>6. DoomInv' /\ PermitInv'
  BY <1>0, <1>1, DoomStill
<1>7. EndInv'
  BY <1>0, <1>1, EndStill
<1>8. QED
  BY <1>3, <1>5, <1>6, <1>7 DEF PoolInv

\* shutdown(): the sentinel.
LEMMA ShutdownStep ==
  ASSUME PoolInv, shutdown
  PROVE  PoolInv'
<1>0. TypeOK /\ QueueInv /\ PermitInv /\ DoomInv /\ EndInv
  BY DEF PoolInv
<1>1. /\ pending_tasks' = Append(pending_tasks, None) /\ ~is_closing /\ is_closing' = TRUE
      /\ new_task_received' = TRUE
      /\ UNCHANGED <<is_closed, got_exception, pc, current, semaphore, waiter_count, tasks,
                     cancelling, spawned, doomed, on_exception, joiner, submitted, quota,
                     executed>>
  BY DEF shutdown, pool
<1>2. Append(pending_tasks, None) \in Seq(Jobs \cup {None})
  BY <1>0, AppendProperties DEF TypeOK
<1>3. TypeOK'
  BY <1>0, <1>1, <1>2 DEF TypeOK
<1>4. QueueInv'
  <2>1. ASSUME alive'
        PROVE  Line(pending_tasks', submitted', Taken', quota', is_closing')
    <3>1. Taken \in Nat /\ Taken' = Taken
      BY <1>0, <1>1, LenProperties DEF Taken, TypeOK
    <3>2. Line(pending_tasks, submitted, Taken, quota, FALSE)
      BY <1>0, <1>1, <2>1 DEF QueueInv, alive, TypeOK
    <3>3. Line(Append(pending_tasks, None), submitted, Taken, quota, TRUE)
      BY <1>0, <3>1, <3>2, LineShutdown DEF TypeOK
    <3>4. QED
      BY <1>1, <3>1, <3>3
  <2>2. QED
    BY <1>0, <1>1, <2>1 DEF QueueInv
<1>5. DoomInv' /\ PermitInv'
  BY <1>0, <1>1, DoomStill
<1>6. EndInv'
  BY <1>0, <1>1, EndStill
<1>7. QED
  BY <1>3, <1>4, <1>5, <1>6 DEF PoolInv

\* close(), by the connection or by an on_exception task.
LEMMA CloseStep ==
  ASSUME PoolInv, close_from_outside,
         UNCHANGED <<new_task_received, is_closing, got_exception, pool, joiner,
                     submitted, quota, executed>>,
         on_exception' \in [Jobs -> {"none", "new", "waiting", "resumed", "done"}]
  PROVE  PoolInv'
<1>0. TypeOK /\ QueueInv /\ PermitInv /\ DoomInv /\ EndInv
  BY DEF PoolInv
<1>1. \/ UNCHANGED <<is_closed, pending_tasks, pc, current>>
      \/ /\ is_closed' = TRUE /\ pending_tasks' = <<>> /\ current' = None
         /\ pc' = IF pc = "ended" THEN pc ELSE "cancelled"
  BY DEF close_from_outside
<1>2. UNCHANGED <<semaphore, waiter_count, tasks, cancelling, spawned, doomed>>
  BY DEF pool
<1>3. <<>> \in Seq(Jobs \cup {None})
  BY EmptySeq
<1>4. TypeOK'
  BY <1>0, <1>1, <1>2, <1>3 DEF TypeOK
<1>5. QueueInv'
  BY <1>0, <1>1, <1>2, QueueStill DEF alive
<1>6. DoomInv' /\ PermitInv'
  BY <1>0, <1>2, DoomStill
<1>7. EndInv'
  BY <1>0, <1>1, <1>2, EndStill
<1>8. QED
  BY <1>4, <1>5, <1>6, <1>7 DEF PoolInv

\* A job ends, fails or is cancelled.
LEMMA JobStep ==
  ASSUME PoolInv, NEW j \in Jobs, job(j)
  PROVE  PoolInv'
<1>0. TypeOK /\ QueueInv /\ PermitInv /\ DoomInv /\ EndInv
  BY DEF PoolInv
<1>1. /\ j \in tasks /\ task_done(j) /\ UNCHANGED <<handler, is_closed, current>>
      /\ executed' = executed \/ (j \notin cancelling /\ executed' = executed \cup {j})
      /\ j \in cancelling \/ executed' = executed \cup {j}
      /\ got_exception' \in BOOLEAN
      /\ on_exception' = notified(j) \/ on_exception' = [notified(j) EXCEPT ![j] = "new"]
  BY <1>0 DEF job, job_ends, job_cancelled, job_fails, TypeOK
<1>2. j \in cancelling \/ j \notin doomed
  BY <1>0, <1>1 DEF DoomInv
<1>3. executed' = executed \/ j \notin doomed
  BY <1>0, <1>1 DEF DoomInv
<1>4. executed' \subseteq executed \cup {j}
  BY <1>1
<1>5. /\ semaphore' \in Nat /\ tasks' \in SUBSET Jobs /\ cancelling' \in SUBSET tasks'
      /\ executed' \in SUBSET Jobs /\ PermitInv' /\ DoomInv'
      /\ pc' \in {"wait", "loop", "acquire", "error", "join", "joined", "ended", "cancelled"}
      /\ joiner' \in {"none", "pool", "pool_empty", "returned"}
      /\ notified(j) \in [Jobs -> {"none", "new", "waiting", "resumed", "done"}]
  BY <1>0, <1>1, <1>2, <1>3, <1>4, DoneStep
<1>6. /\ tasks' = tasks \ {j} /\ UNCHANGED <<waiter_count, spawned, doomed>>
      /\ pc' = pc \/ (pc = "join" /\ pc' = "joined" /\ tasks = {j})
      /\ UNCHANGED <<pending_tasks, new_task_received, is_closing, submitted, quota>>
  BY <1>1 DEF task_done, empties, handler
<1>7. TypeOK'
  <2>1. on_exception' \in [Jobs -> {"none", "new", "waiting", "resumed", "done"}]
    BY <1>1, <1>5
  <2>2. QED
    BY <1>0, <1>1, <1>5, <1>6, <2>1 DEF TypeOK
<1>8. QueueInv'
  BY <1>0, <1>1, <1>6, QueueStill DEF alive
<1>9. EndInv'
  <2>1. executed' \cup tasks' \subseteq executed \cup tasks
    BY <1>1, <1>4, <1>6
  <2>2. QED
    BY <1>0, <1>6, <2>1, EndStill
<1>10. QED
  BY <1>5, <1>7, <1>8, <1>9 DEF PoolInv

\* The end of run(): the pool is empty, or run() waits for that.
LEMMA FinishStep ==
  ASSUME PoolInv, NEW rest \in Seq(Jobs \cup {None}), finish_run(rest),
         Uncalled \/ (is_closing /\ Len(spawned) = quota),
         UNCHANGED <<new_task_received, is_closing, got_exception, current, pool,
                     on_exception, joiner, submitted, quota, executed>>
  PROVE  PoolInv'
<1>0. TypeOK /\ QueueInv /\ PermitInv /\ DoomInv /\ EndInv
  BY DEF PoolInv
<1>1. \/ /\ tasks = {} /\ is_closed' = TRUE /\ pending_tasks' = <<>> /\ pc' = "ended"
      \/ pending_tasks' = rest /\ pc' = "join" /\ is_closed' = is_closed
  BY DEF finish_run, is_empty
<1>2. UNCHANGED <<semaphore, waiter_count, tasks, cancelling, spawned, doomed>>
  BY DEF pool
<1>3. <<>> \in Seq(Jobs \cup {None})
  BY EmptySeq
<1>4. TypeOK'
  BY <1>0, <1>1, <1>2, <1>3 DEF TypeOK
<1>5. QueueInv'
  BY <1>0, <1>1, <1>2, QueueStill DEF alive
<1>6. DoomInv' /\ PermitInv'
  BY <1>0, <1>2, DoomStill
<1>7. EndInv'
  <2>1. Uncalled => Uncalled'
    BY <1>2 DEF Uncalled
  <2>2. QED
    BY <1>1, <1>2, <2>1 DEF EndInv
<1>8. QED
  BY <1>4, <1>5, <1>6, <1>7 DEF PoolInv

\* What run() takes when it takes a job.
LEMMA TakeJob ==
  ASSUME TypeOK, QueueInv, pc = "loop", pending_tasks # <<>>, Head(pending_tasks) # None
  PROVE  /\ Len(spawned) \in Nat /\ Len(spawned) + 1 <= quota
         /\ Head(pending_tasks) = submitted[Len(spawned) + 1]
         /\ Head(pending_tasks) \in Jobs
         /\ Tail(pending_tasks) \in Seq(Jobs \cup {None})
         /\ Line(Tail(pending_tasks), submitted, Len(spawned) + 1, quota, is_closing)
<1>1. Len(spawned) \in Nat /\ Taken = Len(spawned)
  BY LenProperties DEF TypeOK, Taken
<1>2. Line(pending_tasks, submitted, Len(spawned), quota, is_closing)
  BY <1>1 DEF QueueInv, alive
<1>3. /\ Len(spawned) + 1 <= quota
      /\ Head(pending_tasks) = submitted[Len(spawned) + 1]
  <2>1. /\ pending_tasks \in Seq(Jobs \cup {None}) /\ submitted \in Seq(Jobs)
        /\ quota \in Nat /\ is_closing \in BOOLEAN
    BY DEF TypeOK
  <2>2. QED
    BY <1>1, <1>2, <2>1, LineHead, Zenon
<1>4. Line(Tail(pending_tasks), submitted, Len(spawned) + 1, quota, is_closing)
  BY <1>1, <1>2, LineTail DEF TypeOK
<1>5. /\ Head(pending_tasks) \in Jobs \cup {None}
      /\ Tail(pending_tasks) \in Seq(Jobs \cup {None})
  BY HeadTailProperties DEF TypeOK
<1>6. QED
  BY <1>1, <1>3, <1>4, <1>5

\* run() meets the sentinel when it has taken all that was due.
LEMMA AtSentinel ==
  ASSUME TypeOK, QueueInv, pc = "loop", pending_tasks # <<>>, Head(pending_tasks) = None
  PROVE  is_closing /\ Len(spawned) = quota
<1>1. Len(spawned) \in Nat /\ Taken = Len(spawned)
  BY LenProperties DEF TypeOK, Taken
<1>2. Line(pending_tasks, submitted, Len(spawned), quota, is_closing)
  BY <1>1 DEF QueueInv, alive
<1>3. QED
  BY <1>1, <1>2, LineHead DEF TypeOK

\* A permit was free, or has become so: the job is a task of the pool.
LEMMA SpawnStep ==
  ASSUME PoolInv, loop_spawn \/ acquired
  PROVE  PoolInv'
<1>0. TypeOK /\ QueueInv /\ PermitInv /\ DoomInv /\ EndInv
  BY DEF PoolInv
<1>1. ASSUME NEW j, start_task(j), j = submitted[Len(spawned) + 1], semaphore > 0,
             Len(spawned) + 1 <= quota,
             Line(pending_tasks', submitted, Len(spawned) + 1, quota, is_closing),
             pending_tasks' \in Seq(Jobs \cup {None}), pc' = "loop",
             current' \in Jobs \cup {None}, waiter_count' \in Nat,
             UNCHANGED <<new_task_received, is_closing, is_closed, got_exception,
                         on_exception, joiner, submitted, quota, executed>>
      PROVE  PoolInv'
  <2>1. /\ semaphore' \in Nat /\ tasks' \in SUBSET Jobs /\ cancelling' \in SUBSET tasks'
        /\ spawned' \in Seq(Jobs) /\ doomed' \in SUBSET Jobs
        /\ Len(spawned') = Len(spawned) + 1
        /\ \A i \in 1..Len(spawned') : spawned'[i] = submitted[i]
        /\ PermitInv' /\ DoomInv'
    BY <1>0, <1>1, StartStep
  <2>2. TypeOK'
    BY <1>0, <1>1, <2>1 DEF TypeOK
  <2>3. Len(spawned) \in Nat
    BY <1>0, LenProperties DEF TypeOK
  <2>4. Taken' = Len(spawned) + 1
    BY <1>1, <2>1, <2>3 DEF Taken
  <2>5. QueueInv'
    BY <1>0, <1>1, <2>1, <2>4 DEF QueueInv
  <2>6. EndInv'
    BY <1>1 DEF EndInv
  <2>7. QED
    BY <2>1, <2>2, <2>5, <2>6 DEF PoolInv
<1>2. CASE loop_spawn
  <2>1. /\ pc = "loop" /\ pending_tasks # <<>> /\ Head(pending_tasks) # None
        /\ semaphore > 0 /\ start_task(Head(pending_tasks))
        /\ pending_tasks' = Tail(pending_tasks)
        /\ UNCHANGED <<new_task_received, is_closing, is_closed, got_exception, pc,
                       current, waiter_count, on_exception, joiner, submitted,
                       quota, executed>>
    BY <1>2 DEF loop_spawn
  <2>2. current' \in Jobs \cup {None} /\ waiter_count' \in Nat /\ pc' = "loop"
    BY <1>0, <2>1 DEF TypeOK
  <2>3. QED
    BY <1>0, <1>1, <2>1, <2>2, TakeJob
<1>3. CASE acquired
  <2>1. /\ pc = "acquire" /\ semaphore > 0 /\ waiter_count' = waiter_count - 1
        /\ start_task(current) /\ current' = None /\ pc' = "loop"
        /\ UNCHANGED <<pending_tasks, new_task_received, is_closing, submitted, quota>>
        /\ UNCHANGED <<is_closed, got_exception, on_exception, joiner, executed>>
    BY <1>3 DEF acquired, handler
  <2>2. Taken = Len(spawned) + 1 /\ Len(spawned) \in Nat
    BY <1>0, <2>1, LenProperties DEF Taken, TypeOK
  <2>3. /\ Line(pending_tasks, submitted, Len(spawned) + 1, quota, is_closing)
        /\ current = submitted[Len(spawned) + 1] /\ waiter_count > 0
    BY <1>0, <2>1, <2>2 DEF QueueInv, alive
  <2>4. Len(spawned) + 1 <= quota
    BY <2>3 DEF Line
  <2>5. waiter_count' \in Nat /\ current' \in Jobs \cup {None}
    BY <1>0, <2>1, <2>3 DEF TypeOK
  <2>6. pending_tasks' \in Seq(Jobs \cup {None})
    BY <1>0, <2>1 DEF TypeOK
  <2>7. QED
    BY <1>1, <2>1, <2>3, <2>4, <2>5, <2>6
<1>4. QED
  BY <1>2, <1>3

\* No permit is free: run() waits for one with the job in its hand.
LEMMA AcquireStep ==
  ASSUME PoolInv, loop_acquire
  PROVE  PoolInv'
<1>0. TypeOK /\ QueueInv /\ PermitInv /\ DoomInv /\ EndInv
  BY DEF PoolInv
<1>1. /\ pc = "loop" /\ pending_tasks # <<>> /\ Head(pending_tasks) # None
      /\ pc' = "acquire" /\ current' = Head(pending_tasks)
      /\ pending_tasks' = Tail(pending_tasks) /\ waiter_count' = waiter_count + 1
      /\ UNCHANGED <<new_task_received, is_closing, is_closed, got_exception,
                     semaphore, tasks, cancelling, spawned, doomed, on_exception,
                     joiner, submitted, quota, executed>>
  BY DEF loop_acquire
<1>2. /\ Len(spawned) \in Nat
      /\ Head(pending_tasks) = submitted[Len(spawned) + 1]
      /\ Head(pending_tasks) \in Jobs
      /\ Tail(pending_tasks) \in Seq(Jobs \cup {None})
      /\ Line(Tail(pending_tasks), submitted, Len(spawned) + 1, quota, is_closing)
  BY <1>0, <1>1, TakeJob
<1>3. TypeOK'
  BY <1>0, <1>1, <1>2 DEF TypeOK
<1>4. QueueInv'
  <2>1. Taken' = Len(spawned) + 1
    BY <1>1 DEF Taken
  <2>2. waiter_count' > 0
    BY <1>0, <1>1 DEF TypeOK
  <2>3. QED
    BY <1>0, <1>1, <1>2, <2>1, <2>2 DEF QueueInv
<1>5. DoomInv' /\ PermitInv'
  BY <1>0, <1>1, DoomStill
<1>6. EndInv'
  BY <1>1 DEF EndInv
<1>7. QED
  BY <1>3, <1>4, <1>5, <1>6 DEF PoolInv

\* Calling the coroutine function raises.
LEMMA BadCallStep ==
  ASSUME PoolInv, loop_bad_call
  PROVE  PoolInv'
<1>0. TypeOK /\ QueueInv /\ PermitInv /\ DoomInv /\ EndInv
  BY DEF PoolInv
<1> DEFINE j == Head(pending_tasks)
<1>1. /\ pc = "loop" /\ pending_tasks # <<>> /\ j # None
      /\ pc' = "error" /\ spawned' = Append(spawned, j)
      /\ pending_tasks' = Tail(pending_tasks)
      /\ UNCHANGED <<new_task_received, is_closing, is_closed, got_exception,
                     current, semaphore, waiter_count, tasks, cancelling, doomed,
                     on_exception, joiner, submitted, quota, executed>>
  BY DEF loop_bad_call
<1>2. /\ Len(spawned) \in Nat /\ Len(spawned) + 1 <= quota
      /\ j = submitted[Len(spawned) + 1] /\ j \in Jobs
      /\ Tail(pending_tasks) \in Seq(Jobs \cup {None})
      /\ Line(Tail(pending_tasks), submitted, Len(spawned) + 1, quota, is_closing)
  BY <1>0, <1>1, TakeJob
<1>3. j \notin SpawnedJobs
  BY <1>0, <1>2, FreshJob
<1> HIDE DEF j
<1>4. /\ spawned' \in Seq(Jobs) /\ Len(spawned') = Len(spawned) + 1
      /\ \A i \in 1..Len(spawned) : spawned'[i] = spawned[i]
      /\ spawned'[Len(spawned) + 1] = j
      /\ SpawnedJobs' = SpawnedJobs \cup {j}
  BY <1>0, <1>1, <1>2, SpawnedMore
<1>5. TypeOK'
  BY <1>0, <1>1, <1>2, <1>4 DEF TypeOK
<1>6. QueueInv'
  <2>1. Taken' = Len(spawned) + 1
    BY <1>1, <1>2, <1>4 DEF Taken
  <2>2. \A i \in 1..Len(spawned') : spawned'[i] = submitted[i]
    <3>1. \A i \in 1..Len(spawned') : i \in 1..Len(spawned) \/ i = Len(spawned) + 1
      BY <1>2, <1>4
    <3>2. QED
      BY <1>0, <1>2, <1>4, <3>1 DEF QueueInv
  <2>3. QED
    BY <1>0, <1>1, <1>2, <1>4, <2>1, <2>2 DEF QueueInv
<1>7. DoomInv' /\ PermitInv'
  BY <1>0, <1>1, <1>4 DEF DoomInv, PermitInv
<1>8. EndInv'
  <2>1. j \notin executed' \cup tasks'
    BY <1>0, <1>1, <1>3 DEF DoomInv
  <2>2. Len(spawned) + 1 \in 1..Len(spawned')
    BY <1>2, <1>4
  <2>3. Uncalled'
    BY <1>4, <2>1, <2>2 DEF Uncalled
  <2>4. QED
    BY <1>1, <2>3 DEF EndInv
<1>9. QED
  BY <1>5, <1>6, <1>7, <1>8 DEF PoolInv

\* The sentinel, and the end of error_handler.
LEMMA EndingStep ==
  ASSUME PoolInv, loop_sentinel \/ error_handled \/ run_joined
  PROVE  PoolInv'
<1>0. TypeOK /\ QueueInv /\ PermitInv /\ DoomInv /\ EndInv
  BY DEF PoolInv
<1>1. CASE loop_sentinel
  <2>1. /\ pc = "loop" /\ pending_tasks # <<>> /\ Head(pending_tasks) = None
        /\ finish_run(Tail(pending_tasks))
    BY <1>1 DEF loop_sentinel
  <2>4. is_closing /\ Len(spawned) = quota
    BY <1>0, <2>1, AtSentinel
  <2>5. Tail(pending_tasks) \in Seq(Jobs \cup {None})
    BY <1>0, <2>1, HeadTailProperties DEF TypeOK
  <2>6. QED
    BY <1>1, <2>1, <2>4, <2>5, FinishStep DEF loop_sentinel
<1>2. CASE error_handled
  <2>1. Uncalled /\ pending_tasks \in Seq(Jobs \cup {None})
    BY <1>0, <1>2 DEF error_handled, EndInv, TypeOK
  <2>2. CASE close_on_exception
    BY <1>2, <2>1, <2>2, FinishStep DEF error_handled
  <2>3. CASE ~close_on_exception
    <3>1. /\ pc = "error" /\ pc' = "loop"
          /\ UNCHANGED <<new_task_received, is_closing, got_exception, current, pool,
                         on_exception, joiner, submitted, quota, executed, is_closed,
                         pending_tasks>>
      BY <1>2, <2>3 DEF error_handled
    <3>2. UNCHANGED <<semaphore, waiter_count, tasks, cancelling, spawned, doomed>>
      BY <3>1 DEF pool
    <3>3. TypeOK'
      BY <1>0, <3>1, <3>2 DEF TypeOK
    <3>4. QueueInv'
      BY <1>0, <3>1, <3>2, QueueStill DEF alive
    <3>5. DoomInv' /\ PermitInv'
      BY <1>0, <3>1, <3>2, DoomStill
    <3>6. EndInv'
      BY <3>1 DEF EndInv
    <3>7. QED
      BY <3>3, <3>4, <3>5, <3>6 DEF PoolInv
  <2>4. QED
    BY <2>2, <2>3
<1>3. CASE run_joined
  <2>1. /\ pc = "joined" /\ is_closed' = TRUE /\ pending_tasks' = <<>> /\ pc' = "ended"
        /\ UNCHANGED <<new_task_received, is_closing, got_exception, current, pool,
                       on_exception, joiner, submitted, quota, executed>>
    BY <1>3 DEF run_joined
  <2>2. UNCHANGED <<semaphore, waiter_count, tasks, cancelling, spawned, doomed>>
    BY <2>1 DEF pool
  <2>3. <<>> \in Seq(Jobs \cup {None})
    BY EmptySeq
  <2>4. TypeOK'
    BY <1>0, <2>1, <2>2, <2>3 DEF TypeOK
  <2>5. QueueInv'
    BY <1>0, <2>1, <2>2, QueueStill DEF alive
  <2>6. DoomInv' /\ PermitInv'
    BY <1>0, <2>1, <2>2, DoomStill
  <2>7. EndInv'
    BY <1>0, <2>1, <2>2, EndStill
  <2>8. QED
    BY <2>4, <2>5, <2>6, <2>7 DEF PoolInv
<1>4. QED
  BY <1>1, <1>2, <1>3

\* A step of a task that waits, or of one that joins, which only moves the task.
LEMMA QuietStep ==
  ASSUME PoolInv,
         UNCHANGED <<pending_tasks, is_closing, is_closed, got_exception, current,
                     semaphore, waiter_count, tasks, cancelling, submitted, quota,
                     spawned, executed, doomed>>,
         new_task_received' \in BOOLEAN,
         pc' = pc \/ (pc \in {"wait", "loop"} /\ pc' \in {"wait", "loop"}),
         on_exception' \in [Jobs -> {"none", "new", "waiting", "resumed", "done"}],
         joiner' \in {"none", "pool", "pool_empty", "returned"}
  PROVE  PoolInv'
<1>0. TypeOK /\ QueueInv /\ PermitInv /\ DoomInv /\ EndInv
  BY DEF PoolInv
<1>1. TypeOK'
  BY <1>0 DEF TypeOK
<1>2. QueueInv'
  BY <1>0, QueueStill DEF alive
<1>3. DoomInv' /\ PermitInv'
  BY <1>0, DoomStill
<1>4. EndInv'
  BY <1>0, EndStill
<1>5. QED
  BY <1>1, <1>2, <1>3, <1>4 DEF PoolInv
-------------------------------------------------------------------------------
(* The invariant and what follows from it *)

\* A new handler has nothing to do and all its permits.
LEMMA PoolInit == Init => PoolInv
<1> SUFFICES ASSUME Init PROVE PoolInv
  OBVIOUS
<1>1. <<>> \in Seq(Jobs \cup {None}) /\ <<>> \in Seq(Jobs) /\ Len(<<>>) = 0
  BY EmptySeq
<1>2. /\ pending_tasks = <<>> /\ submitted = <<>> /\ spawned = <<>> /\ quota = 0
      /\ pc = "wait" /\ is_closing = FALSE /\ tasks = {} /\ executed = {} /\ doomed = {}
      /\ cancelling = {} /\ semaphore = concurrency /\ current = None /\ waiter_count = 0
  BY DEF Init
<1>3. TypeOK
  <2>1. pending_tasks \in Seq(Jobs \cup {None}) /\ submitted \in Seq(Jobs) /\ spawned \in Seq(Jobs)
    BY <1>1, <1>2, Zenon
  <2>2. on_exception \in [Jobs -> {"none", "new", "waiting", "resumed", "done"}]
    BY DEF Init
  <2>3. QED
    <3>1. /\ new_task_received = FALSE /\ is_closed = FALSE /\ got_exception = FALSE
          /\ joiner = "none"
      BY DEF Init
    <3>2. QED
      BY <1>2, <2>1, <2>2, <3>1 DEF TypeOK
<1>4. Len(submitted) = 0 /\ Len(spawned) = 0 /\ Len(pending_tasks) = 0
  BY <1>1, <1>2, Zenon
<1>5. QueueInv
  BY <1>2, <1>4 DEF QueueInv, Distinct, Line, Taken
<1>6. PermitInv
  BY <1>2, FS_EmptySet DEF PermitInv
<1>7. DoomInv /\ EndInv
  BY <1>2 DEF DoomInv, EndInv
<1>8. QED
  BY <1>3, <1>5, <1>6, <1>7 DEF PoolInv

\* PoolInv is inductive.
LEMMA PoolStep == PoolInv /\ [Next]_vars => PoolInv'
<1> SUFFICES ASSUME PoolInv, [Next]_vars PROVE PoolInv'
  OBVIOUS
<1>0. TypeOK
  BY DEF PoolInv
<1>1. ASSUME NEW j \in Jobs, submit(j) PROVE PoolInv'
  BY <1>1, SubmitStep
<1>2. CASE shutdown
  BY <1>2, ShutdownStep
<1>3. CASE close
  BY <1>0, <1>3, CloseStep DEF close, TypeOK
<1>4. ASSUME NEW j \in Jobs, job(j) PROVE PoolInv'
  BY <1>4, JobStep
<1>5. ASSUME NEW j \in Jobs, on_exception_join(j) PROVE PoolInv'
  <2>1. on_exception' \in [Jobs -> {"none", "new", "waiting", "resumed", "done"}]
    BY <1>0, <1>5 DEF on_exception_join, TypeOK
  <2>2. QED
    BY <1>0, <1>5, <2>1, QuietStep DEF on_exception_join, handler, pool, TypeOK
<1>6. ASSUME NEW j \in Jobs, on_exception_close(j) PROVE PoolInv'
  <2>1. on_exception' \in [Jobs -> {"none", "new", "waiting", "resumed", "done"}]
    BY <1>0, <1>6 DEF on_exception_close, TypeOK
  <2>2. QED
    BY <1>6, <2>1, CloseStep DEF on_exception_close
<1>7. CASE wake
  BY <1>0, <1>7, QuietStep DEF wake, pool, TypeOK
<1>8. CASE loop_empty
  BY <1>0, <1>8, QuietStep DEF loop_empty, handler, pool, TypeOK
<1>9. CASE loop_spawn \/ acquired
  BY <1>9, SpawnStep
<1>10. CASE loop_acquire
  BY <1>10, AcquireStep
<1>11. CASE loop_bad_call
  BY <1>11, BadCallStep
<1>12. CASE loop_sentinel \/ error_handled \/ run_joined
  BY <1>12, EndingStep
<1>13. CASE join
  <2>1. joiner' \in {"none", "pool", "pool_empty", "returned"}
    BY <1>13 DEF join
  <2>2. QED
    BY <1>0, <1>13, <2>1, QuietStep DEF join, handler, pool, TypeOK
<1>14. CASE join_returns
  BY <1>0, <1>14, QuietStep DEF join_returns, handler, pool, TypeOK
<1>15. CASE UNCHANGED vars
  BY <1>0, <1>15, QuietStep DEF vars, TypeOK
<1>16. QED
  BY <1>1, <1>2, <1>3, <1>4, <1>5, <1>6, <1>7, <1>8, <1>9, <1>10, <1>11, <1>12, <1>13,
     <1>14, <1>15 DEF Next, run, closer

\* PoolInv holds in every state.
LEMMA PoolInvariant == Spec => []PoolInv
BY PoolInit, PoolStep, PTL DEF Spec

\* The state keeps its shape; permits never go below zero.
THEOREM TypeCorrect == Spec => []TypeOK
<1>1. PoolInv => TypeOK
  BY DEF PoolInv
<1>2. QED
  BY <1>1, PoolInvariant, PTL

\* No permit is lost or gained, whatever the jobs do and whoever is cancelled
\* (spawn, task_done).
THEOREM Permits == Spec => []PermitsConserved
<1>1. PoolInv => PermitsConserved
  BY DEF PoolInv, PermitInv, PermitsConserved
<1>2. QED
  BY <1>1, PoolInvariant, PTL

\* A job spawned after a failure was noticed is cancelled before its body runs
\* (the cancel() of run()), for no job is ever spawned twice.
THEOREM DoomedStayDown == Spec => []DoomedNeverRun
<1>1. PoolInv => DoomedNeverRun
  BY DEF PoolInv, DoomInv, DoomedNeverRun
<1>2. QED
  BY <1>1, PoolInvariant, PTL

\* A handler that stopped of its own accord, with every spawned job run, has
\* spawned what was submitted before shutdown(), in order, and the pool is empty
\* (the sentinel of run(), and its join of the pool).
THEOREM Drains == Spec => []GracefulDrains
<1>1. PoolInv => GracefulDrains
  <2> SUFFICES ASSUME PoolInv, pc = "ended", SpawnedJobs \subseteq executed \cup tasks
               PROVE  tasks = {} /\ spawned = SubSeq(submitted, 1, quota)
    BY DEF GracefulDrains, SpawnedJobs
  <2>1. tasks = {} /\ ~Uncalled
    BY DEF PoolInv, EndInv, Uncalled, SpawnedJobs
  <2>2. Len(spawned) = quota
    BY <2>1 DEF PoolInv, EndInv
  <2>3. /\ spawned \in Seq(Jobs) /\ submitted \in Seq(Jobs) /\ quota \in Nat
        /\ quota <= Len(submitted) /\ Len(submitted) \in Nat
        /\ \A i \in 1..quota : spawned[i] = submitted[i]
    BY <2>2, LenProperties DEF PoolInv, QueueInv, TypeOK
  <2>4. \A i \in 1..quota : submitted[i] \in Jobs
    BY <2>3, ElementOfSeq
  <2>5. /\ SubSeq(submitted, 1, quota) \in Seq(Jobs)
        /\ Len(SubSeq(submitted, 1, quota)) = quota
        /\ \A i \in 1..quota : SubSeq(submitted, 1, quota)[i] = submitted[i]
    BY <2>3, <2>4, SubSeqProperties
  <2>6. spawned = SubSeq(submitted, 1, quota)
    BY <2>2, <2>3, <2>5, SeqEqual
  <2>7. QED
    BY <2>1, <2>6
<1>2. QED
  BY <1>1, PoolInvariant, PTL
-------------------------------------------------------------------------------
(* Refinement of JobQueue *)

\* Why the handler stops: only a failure, close() or the sentinel ends run().
FateInv ==
    /\ is_closed => pc \in {"ended", "cancelled"}
    /\ pc = "error" => "bad_call" \in Outcomes
    /\ pc \in {"join", "joined"} => MayHalt \/ (is_closing /\ Len(spawned) = quota)
    /\ \A j \in Jobs : on_exception[j] # "none" => MayHalt

\* FateInv is inductive: a handler that is closed has no run() to reopen it, and
\* one that closes on a failure has met one.
LEMMA FateStep == PoolInv /\ FateInv /\ [Next]_vars => FateInv'
<1> SUFFICES ASSUME PoolInv, FateInv, [Next]_vars PROVE FateInv'
  OBVIOUS
<1>0. TypeOK /\ QueueInv
  BY DEF PoolInv
<1>1. on_exception \in [Jobs -> {"none", "new", "waiting", "resumed", "done"}]
  BY <1>0 DEF TypeOK
<1>2. ASSUME UNCHANGED <<is_closed, is_closing, spawned, on_exception>>,
             is_closing => UNCHANGED quota,
             pc' = pc \/ (~is_closed /\ pc' \in {"wait", "loop", "acquire"})
      PROVE  FateInv'
  BY <1>2 DEF FateInv
<1>3. ASSUME NEW j \in Jobs, submit(j) PROVE FateInv'
  <2>1. /\ UNCHANGED <<is_closed, is_closing, spawned, on_exception, pc>>
        /\ is_closing => UNCHANGED quota
    BY <1>3 DEF submit, pool
  <2>2. QED
    BY <1>2, <2>1
<1>4. CASE shutdown
  BY <1>4 DEF shutdown, pool, FateInv
<1>5. ASSUME close_from_outside, UNCHANGED <<is_closing, spawned, quota>>,
             \A j \in Jobs : on_exception'[j] # "none" => on_exception[j] # "none"
      PROVE  FateInv'
  BY <1>5 DEF close_from_outside, FateInv
<1>6. CASE close
  BY <1>5, <1>6 DEF close, pool
<1>7. ASSUME NEW j \in Jobs, job(j) PROVE FateInv'
  <2>1. /\ UNCHANGED <<is_closed, is_closing, spawned, quota>>
        /\ pc' = pc \/ (pc = "join" /\ pc' = "joined")
    BY <1>7 DEF job, job_ends, job_cancelled, job_fails, task_done, handler
  <2>2. \A k \in Jobs : notified(j)[k] # "none" => on_exception[k] # "none"
    BY <1>1 DEF notified
  <2>3. \A k \in Jobs : on_exception'[k] # "none" => MayHalt
    <3>1. CASE job_ends(j) \/ job_cancelled(j)
      BY <2>2, <3>1 DEF job_ends, job_cancelled, FateInv
    <3>2. CASE job_fails(j) /\ close_on_exception
      BY <3>2 DEF job_fails, MayHalt
    <3>3. CASE job_fails(j) /\ ~close_on_exception
      BY <2>2, <3>3 DEF job_fails, FateInv
    <3>4. QED
      BY <1>7, <3>1, <3>2, <3>3 DEF job
  <2>4. QED
    BY <2>1, <2>3 DEF FateInv
<1>8. ASSUME NEW j \in Jobs, on_exception_join(j) PROVE FateInv'
  <2>1. \A k \in Jobs : on_exception'[k] # "none" => on_exception[k] # "none"
    BY <1>1, <1>8 DEF on_exception_join
  <2>2. QED
    BY <1>8, <2>1 DEF on_exception_join, handler, pool, FateInv
<1>9. ASSUME NEW j \in Jobs, on_exception_close(j) PROVE FateInv'
  <2>1. \A k \in Jobs : on_exception'[k] # "none" => on_exception[k] # "none"
    BY <1>1, <1>9 DEF on_exception_close
  <2>2. QED
    BY <1>5, <1>9, <2>1 DEF on_exception_close, pool
<1>10. CASE wake \/ loop_empty \/ loop_acquire
  BY <1>2, <1>10 DEF wake, loop_empty, loop_acquire, pool, handler, FateInv
<1>11. CASE loop_spawn \/ acquired
  BY <1>11 DEF loop_spawn, acquired, handler, FateInv
<1>12. CASE loop_bad_call
  BY <1>12 DEF loop_bad_call, FateInv
<1>13. CASE loop_sentinel
  <2>1. is_closing /\ Len(spawned) = quota
    BY <1>0, <1>13, AtSentinel DEF loop_sentinel
  <2>2. QED
    BY <1>13, <2>1 DEF loop_sentinel, finish_run, pool, FateInv
<1>14. CASE error_handled
  <2>1. pc = "error" /\ "bad_call" \in Outcomes
    BY <1>14 DEF error_handled, FateInv
  <2>2. CASE close_on_exception
    BY <1>14, <2>1, <2>2 DEF error_handled, finish_run, pool, MayHalt, FateInv
  <2>3. CASE ~close_on_exception
    BY <1>14, <2>1, <2>3 DEF error_handled, pool, FateInv
  <2>4. QED
    BY <2>2, <2>3
<1>15. CASE run_joined
  BY <1>15 DEF run_joined, pool, FateInv
<1>16. CASE join \/ join_returns
  BY <1>2, <1>16 DEF join, join_returns, handler, pool
<1>17. CASE UNCHANGED vars
  BY <1>2, <1>17 DEF vars
<1>18. QED
  BY <1>3, <1>4, <1>6, <1>7, <1>8, <1>9, <1>10, <1>11, <1>12, <1>13, <1>14, <1>15, <1>16,
     <1>17 DEF Next, run, closer

\* JobQueue counts as this module does.
LEMMA QueueCardinality == \A S : Queue!Cardinality(S) = Cardinality(S)
  BY DEF Queue!Cardinality, Cardinality, Queue!IsFiniteSet, IsFiniteSet

\* The next job is spawned: it begins, and the pool is wide enough for it.
LEMMA SpawnRefines ==
  ASSUME PoolInv, PoolInv', FateInv, loop_spawn \/ acquired
  PROVE  Queue!Begin
<1>0. TypeOK /\ QueueInv /\ TypeOK' /\ PermitInv'
  BY DEF PoolInv
<1> DEFINE next == submitted[Len(spawned) + 1]
<1>1. /\ start_task(next) /\ Len(spawned) < quota /\ Len(spawned) \in Nat
      /\ pc \in {"loop", "acquire"}
      /\ UNCHANGED <<submitted, quota, is_closing, is_closed>>
  <2>1. CASE loop_spawn
    <3>1. /\ Len(spawned) \in Nat /\ Len(spawned) + 1 <= quota
          /\ Head(pending_tasks) = submitted[Len(spawned) + 1]
      BY <1>0, <2>1, TakeJob DEF loop_spawn
    <3>2. quota \in Nat
      BY <1>0 DEF TypeOK
    <3>3. QED
      BY <2>1, <3>1, <3>2 DEF loop_spawn
  <2>2. CASE acquired
    <3>1. current = submitted[Len(spawned) + 1] /\ Taken = Len(spawned) + 1
      BY <1>0, <2>2 DEF acquired, QueueInv, Taken
    <3>2. Taken <= quota
      BY <1>0, <2>2 DEF acquired, QueueInv, alive, Line
    <3>3. quota \in Nat /\ Len(spawned) \in Nat
      BY <1>0, LenProperties DEF TypeOK
    <3>4. QED
      BY <2>2, <3>1, <3>2, <3>3 DEF acquired, handler
  <2>3. QED
    BY <2>1, <2>2
<1>2. spawned' = Append(spawned, next) /\ tasks' = tasks \cup {next}
  BY <1>1 DEF start_task
<1>3. ~is_closed
  BY <1>1 DEF FateInv
<1>4. Queue!Cardinality(tasks') <= concurrency
  <2>1. IsFiniteSet(tasks')
    BY <1>0, FS_Subset DEF TypeOK
  <2>2. Cardinality(tasks') \in Nat /\ semaphore' \in Nat
    BY <1>0, <2>1, FS_CardinalityType DEF TypeOK
  <2>3. Cardinality(tasks') <= concurrency
    BY <1>0, <2>2 DEF PermitInv
  <2>4. Queue!Cardinality(tasks') = Cardinality(tasks')
    BY QueueCardinality
  <2>5. QED
    BY <2>3, <2>4, Zenon
<1>5. QED
  BY <1>1, <1>2, <1>3, <1>4 DEF Queue!Begin

\* A job whose call raises has begun, and is over.
LEMMA BadCallRefines ==
  ASSUME PoolInv, FateInv, loop_bad_call
  PROVE  Queue!Begin
<1>0. TypeOK /\ QueueInv /\ PermitInv
  BY DEF PoolInv
<1> DEFINE next == submitted[Len(spawned) + 1]
<1>1. /\ Len(spawned) \in Nat /\ Len(spawned) + 1 <= quota
      /\ Head(pending_tasks) = next
  BY <1>0, TakeJob DEF loop_bad_call
<1>2. quota \in Nat /\ ~is_closed
  BY <1>0 DEF TypeOK, FateInv, loop_bad_call
<1>3. /\ spawned' = Append(spawned, next)
      /\ UNCHANGED <<tasks, submitted, quota, is_closing, is_closed>>
  BY <1>1 DEF loop_bad_call
<1>4. Queue!Cardinality(tasks') <= concurrency
  <2>1. IsFiniteSet(tasks)
    BY <1>0, FS_Subset DEF TypeOK
  <2>2. Cardinality(tasks) \in Nat /\ semaphore \in Nat
    BY <1>0, <2>1, FS_CardinalityType DEF TypeOK
  <2>3. Cardinality(tasks) <= concurrency
    BY <1>0, <2>2 DEF PermitInv
  <2>4. Queue!Cardinality(tasks) = Cardinality(tasks) /\ tasks' = tasks
    BY <1>3, QueueCardinality
  <2>5. QED
    BY <2>3, <2>4, Zenon
<1>5. QED
  BY <1>1, <1>2, <1>3, <1>4 DEF Queue!Begin

\* Every step of the handler is a step of the queue, or none.
LEMMA QueueStep == PoolInv /\ FateInv /\ [Next]_vars => [Queue!Next]_Queue!vars
<1> SUFFICES ASSUME PoolInv, FateInv, [Next]_vars PROVE Queue!Next \/ UNCHANGED Queue!vars
  OBVIOUS
<1>0. TypeOK /\ QueueInv /\ EndInv /\ PoolInv'
  BY PoolStep DEF PoolInv
<1>1. ASSUME NEW j \in Jobs, submit(j) PROVE Queue!Next
  <2>1. \A i \in 1..Len(submitted) : submitted[i] # j
    BY <1>1 DEF submit, Submitted
  <2>2. Queue!Submit
    BY <1>1, <2>1 DEF submit, pool, Queue!Submit
  <2>3. QED
    BY <2>2 DEF Queue!Next
<1>2. CASE shutdown
  BY <1>2 DEF shutdown, pool, Queue!Next, Queue!Shutdown
<1>3. ASSUME close_from_outside, MayHalt, UNCHANGED <<is_closing, tasks, spawned, submitted, quota>>
      PROVE  Queue!Next \/ UNCHANGED Queue!vars
  BY <1>3 DEF close_from_outside, Queue!Next, Queue!Halt, Queue!vars
<1>4. CASE close
  BY <1>3, <1>4 DEF close, pool, MayHalt
<1>5. ASSUME NEW j \in Jobs, job(j) PROVE Queue!Next
  <2>1. tasks' \subseteq tasks /\ UNCHANGED <<is_closed, is_closing, spawned, submitted, quota>>
    BY <1>5 DEF job, job_ends, job_cancelled, job_fails, task_done, handler
  <2>2. QED
    BY <2>1 DEF Queue!Next, Queue!End
<1>6. ASSUME NEW j \in Jobs, closer(j) PROVE Queue!Next \/ UNCHANGED Queue!vars
  <2>1. CASE on_exception_join(j)
    BY <2>1 DEF on_exception_join, handler, pool, Queue!vars
  <2>2. CASE on_exception_close(j)
    <3>1. MayHalt
      BY <2>2 DEF on_exception_close, FateInv
    <3>2. QED
      BY <1>3, <2>2, <3>1 DEF on_exception_close, pool
  <2>3. QED
    BY <1>6, <2>1, <2>2 DEF closer
<1>7. CASE wake \/ loop_empty \/ loop_acquire
  BY <1>7 DEF wake, loop_empty, loop_acquire, handler, pool, Queue!vars
<1>8. CASE loop_spawn \/ acquired
  BY <1>0, <1>8, SpawnRefines DEF Queue!Next
<1>9. CASE loop_bad_call
  BY <1>9, BadCallRefines DEF Queue!Next
<1>10. ASSUME ~is_closed, is_closed', tasks = {}, MayHalt \/ (is_closing /\ Len(spawned) = quota),
              UNCHANGED <<is_closing, tasks, spawned, submitted, quota>>
       PROVE  Queue!Next
  BY <1>10 DEF Queue!Next, Queue!Finish, Queue!Halt
<1>11. ASSUME NEW rest, finish_run(rest), ~is_closed, UNCHANGED <<is_closing, pool, submitted, quota>>,
              MayHalt \/ (is_closing /\ Len(spawned) = quota)
       PROVE  Queue!Next \/ UNCHANGED Queue!vars
  <2>1. UNCHANGED <<tasks, spawned>>
    BY <1>11 DEF pool
  <2>2. CASE is_empty
    BY <1>10, <1>11, <2>1, <2>2 DEF finish_run, is_empty
  <2>3. CASE ~is_empty
    BY <1>11, <2>1, <2>3 DEF finish_run, Queue!vars
  <2>4. QED
    BY <2>2, <2>3
<1>12. CASE loop_sentinel
  <2>1. is_closing /\ Len(spawned) = quota
    BY <1>0, <1>12, AtSentinel DEF loop_sentinel
  <2>2. QED
    BY <1>11, <1>12, <2>1 DEF loop_sentinel, FateInv
<1>13. CASE error_handled
  <2>1. pc = "error" /\ ~is_closed /\ "bad_call" \in Outcomes
    BY <1>13 DEF error_handled, FateInv
  <2>2. CASE close_on_exception
    BY <1>11, <1>13, <2>1, <2>2 DEF error_handled, MayHalt
  <2>3. CASE ~close_on_exception
    BY <1>13, <2>3 DEF error_handled, pool, Queue!vars
  <2>4. QED
    BY <2>2, <2>3
<1>14. CASE run_joined
  BY <1>0, <1>10, <1>14 DEF run_joined, pool, EndInv, FateInv
<1>15. CASE join \/ join_returns
  BY <1>15 DEF join, join_returns, handler, pool, Queue!vars
<1>16. CASE UNCHANGED vars
  BY <1>16 DEF vars, Queue!vars
<1>17. QED
  BY <1>1, <1>2, <1>4, <1>5, <1>6, <1>7, <1>8, <1>9, <1>12, <1>13, <1>14, <1>15, <1>16
     DEF Next, run

\* A ParallelHandler is a JobQueue as wide as its pool: run() and the tasks and
\* callbacks of AioPool keep the order, the width and the end of the queue.
THEOREM Implements == Spec => ImplementsQueue
<1>1. Init => Queue!Init
  BY DEF Init, Queue!Init
<1>2. Init => FateInv
  BY DEF Init, FateInv
<1>3. QED
  BY <1>1, <1>2, PoolInit, PoolStep, FateStep, QueueStep, PTL
     DEF Spec, ImplementsQueue, Queue!Spec
===============================================================================
