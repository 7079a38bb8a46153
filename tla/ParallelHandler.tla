--------------------------- MODULE ParallelHandler ----------------------------
(***************************************************************************)
(* The concurrent job queue: ParallelHandler of pymaid/ext/handler.py with *)
(* the AioPool (pymaid/ext/pools/worker.py) it spawns its jobs in.         *)
(*                                                                         *)
(* run() takes jobs from the deque and spawns each as a task of the pool,  *)
(* waiting for a permit of the pool's semaphore when `concurrency` jobs    *)
(* are running.  With close_on_exception the first failed job makes the    *)
(* later ones be cancelled as soon as they are spawned, and an             *)
(* on_exception task closes the handler when the pool is empty.            *)
(*                                                                         *)
(* Actions are steps of tasks and callbacks on the event loop.  While pc   *)
(* is "loop" run() has not suspended, so nothing else of the handler runs. *)
(***************************************************************************)
EXTENDS Naturals, Sequences, FiniteSets

CONSTANTS Jobs,                 \* the jobs that may be submitted
          None,                 \* the sentinel queued by shutdown()
          concurrency,          \* the size of the pool
          close_on_exception,   \* the constructor's argument
          Outcomes,             \* how a job may end
          Env                   \* the optional events of the environment

\* "ok"; "exception": an Exception; "BaseEx": pymaid's own error class;
\* "bad_call": calling the coroutine function already raises.
JobOutcomes == {"ok", "exception", "BaseEx", "bad_call"}
\* "close": the connection is finalised and calls close().
EnvEvents == {"close"}

ASSUME ParallelAssumption ==
    /\ IsFiniteSet(Jobs)
    /\ None \notin Jobs
    /\ concurrency \in Nat \ {0}
    /\ close_on_exception \in BOOLEAN
    /\ Outcomes \subseteq JobOutcomes
    /\ Env \subseteq EnvEvents

VARIABLES
    pending_tasks, new_task_received, is_closing, is_closed,   \* Handler
    got_exception,
    pc,              \* where run() is; see TypeOK
    current,         \* the job run() waits for a permit with, or None
    semaphore,       \* free permits of AioPool.semaphore
    waiter_count,    \* AioPool.waiter_count
    tasks,           \* AioPool.tasks
    cancelling,      \* tasks that run() cancelled when it had spawned them
    on_exception,    \* per job: the on_exception task its failure created
    joiner,          \* a task in `await handler.join()`
    submitted, quota,   \* history: submit() order; how many before shutdown()
    spawned,            \* history: jobs in the order they were spawned
    executed,           \* history: jobs whose body ran to an outcome
    doomed              \* history: jobs spawned after a failure was noticed

handler == <<pending_tasks, new_task_received, is_closing, submitted, quota>>
pool == <<semaphore, waiter_count, tasks, cancelling, spawned, doomed>>
vars == <<pending_tasks, new_task_received, is_closing, is_closed,
          got_exception, pc, current, semaphore, waiter_count, tasks,
          cancelling, on_exception, joiner, submitted, quota, spawned,
          executed, doomed>>

Submitted == {submitted[i] : i \in 1..Len(submitted)}
is_empty == tasks = {} /\ waiter_count = 0
suspended == pc # "loop"

Init ==
    /\ pending_tasks = <<>>
    /\ new_task_received = FALSE
    /\ is_closing = FALSE
    /\ is_closed = FALSE
    /\ got_exception = FALSE
    /\ pc = "wait"
    /\ current = None
    /\ semaphore = concurrency
    /\ waiter_count = 0
    /\ tasks = {}
    /\ cancelling = {}
    /\ on_exception = [j \in Jobs |-> "none"]
    /\ joiner = "none"
    /\ submitted = <<>>
    /\ quota = 0
    /\ spawned = <<>>
    /\ executed = {}
    /\ doomed = {}
-------------------------------------------------------------------------------
(* Handler *)

submit(j) ==
    /\ suspended
    /\ j \notin Submitted
    /\ pending_tasks' = Append(pending_tasks, j)
    /\ new_task_received' = TRUE
    /\ submitted' = Append(submitted, j)
    /\ quota' = IF is_closing THEN quota ELSE quota + 1
    /\ UNCHANGED <<is_closing, is_closed, got_exception, pc, current, pool,
                   on_exception, joiner, executed>>

shutdown ==
    /\ suspended
    /\ ~is_closing
    /\ is_closing' = TRUE
    /\ pending_tasks' = Append(pending_tasks, None)
    /\ new_task_received' = TRUE
    /\ UNCHANGED <<is_closed, got_exception, pc, current, pool, on_exception,
                   joiner, submitted, quota, executed>>

\* close() from another task; run() is cancelled where it is suspended, and
\* spawn() does not take back its waiter_count when that is in acquire().
close_from_outside ==
    IF is_closed
    THEN UNCHANGED <<is_closed, pending_tasks, pc, current>>
    ELSE /\ is_closed' = TRUE
         /\ pending_tasks' = <<>>
         /\ pc' = IF pc = "ended" THEN pc ELSE "cancelled"
         /\ current' = None

close ==
    /\ "close" \in Env
    /\ suspended
    /\ ~is_closed
    /\ close_from_outside
    /\ UNCHANGED <<new_task_received, is_closing, got_exception, pool,
                   on_exception, joiner, submitted, quota, executed>>

\* Mutant: does not join the pool.
finish_run_at_once(rest) ==
    /\ is_closed' = TRUE
    /\ pending_tasks' = <<>>
    /\ pc' = "ended"

\* The last statements of run(), with the rest of the deque: join the pool,
\* close.
finish_run(rest) ==
    IF is_empty
    THEN /\ is_closed' = TRUE
         /\ pending_tasks' = <<>>
         /\ pc' = "ended"
    ELSE /\ pending_tasks' = rest
         /\ pc' = "join"
         /\ UNCHANGED is_closed
-------------------------------------------------------------------------------
(* AioPool *)

\* Mutant: the doomed task is not cancelled.
start_task_spared(j) ==
    /\ semaphore' = semaphore - 1
    /\ tasks' = tasks \cup {j}
    /\ spawned' = Append(spawned, j)
    /\ doomed' = IF close_on_exception /\ got_exception THEN doomed \cup {j} ELSE doomed
    /\ UNCHANGED cancelling

\* The rest of spawn() once the permit is there, and run()'s cancel().
start_task(j) ==
    /\ semaphore' = semaphore - 1
    /\ tasks' = tasks \cup {j}
    /\ spawned' = Append(spawned, j)
    /\ IF close_on_exception /\ got_exception
       THEN cancelling' = cancelling \cup {j} /\ doomed' = doomed \cup {j}
       ELSE UNCHANGED <<cancelling, doomed>>

\* Mutant: asks whether the pool is empty before the task is removed.
empties_before(j) == tasks = {} /\ waiter_count = 0

\* notify_empty(): whoever waits for empty_event at this moment is resumed.
empties(j) == tasks = {j} /\ waiter_count = 0

notified(j) == [k \in Jobs |->
    IF empties(j) /\ on_exception[k] = "waiting" THEN "resumed" ELSE on_exception[k]]

\* Mutant: the permit is not released.
task_done_keeping(j) ==
    /\ tasks' = tasks \ {j}
    /\ cancelling' = cancelling \ {j}
    /\ pc' = IF empties(j) /\ pc = "join" THEN "joined" ELSE pc
    /\ joiner' = IF empties(j) /\ joiner = "pool" THEN "pool_empty" ELSE joiner
    /\ UNCHANGED <<semaphore, waiter_count, spawned, doomed>>

task_done(j) ==
    /\ semaphore' = semaphore + 1
    /\ tasks' = tasks \ {j}
    /\ cancelling' = cancelling \ {j}
    /\ pc' = IF empties(j) /\ pc = "join" THEN "joined" ELSE pc
    /\ joiner' = IF empties(j) /\ joiner = "pool" THEN "pool_empty" ELSE joiner
    /\ UNCHANGED <<waiter_count, spawned, doomed>>

\* A task ends and its two done callbacks run, task_done and _discard_result.
\* The assertion of the latter on a BaseEx only reaches the loop's log.
job_ends(j) ==
    /\ suspended
    /\ j \in tasks \ cancelling
    /\ Outcomes \cap {"ok", "BaseEx"} # {}
    /\ task_done(j)
    /\ on_exception' = notified(j)
    /\ executed' = executed \cup {j}
    /\ UNCHANGED <<handler, is_closed, got_exception, current>>

job_cancelled(j) ==
    /\ suspended
    /\ j \in cancelling
    /\ task_done(j)
    /\ on_exception' = notified(j)
    /\ UNCHANGED <<handler, is_closed, got_exception, current, executed>>

\* The on_exception task is created after task_done has notified the waiters.
job_fails(j) ==
    /\ suspended
    /\ j \in tasks \ cancelling
    /\ "exception" \in Outcomes
    /\ task_done(j)
    /\ executed' = executed \cup {j}
    /\ IF close_on_exception
       THEN /\ got_exception' = TRUE
            /\ on_exception' = [notified(j) EXCEPT ![j] = "new"]
       ELSE UNCHANGED got_exception /\ on_exception' = notified(j)
    /\ UNCHANGED <<handler, is_closed, current>>

on_exception_join(j) ==
    /\ suspended
    /\ on_exception[j] = "new"
    /\ ~is_empty
    /\ on_exception' = [on_exception EXCEPT ![j] = "waiting"]
    /\ UNCHANGED <<handler, is_closed, got_exception, pc, current, pool,
                   joiner, executed>>

on_exception_close(j) ==
    /\ suspended
    /\ on_exception[j] = "resumed" \/ (on_exception[j] = "new" /\ is_empty)
    /\ on_exception' = [on_exception EXCEPT ![j] = "done"]
    /\ close_from_outside
    /\ UNCHANGED <<new_task_received, is_closing, got_exception, pool, joiner,
                   submitted, quota, executed>>
-------------------------------------------------------------------------------
(* ParallelHandler.run *)

wake ==
    /\ pc = "wait"
    /\ new_task_received
    /\ new_task_received' = FALSE
    /\ pc' = "loop"
    /\ UNCHANGED <<pending_tasks, is_closing, is_closed, got_exception, current,
                   pool, on_exception, joiner, submitted, quota, executed>>

loop_empty ==
    /\ pc = "loop"
    /\ pending_tasks = <<>>
    /\ pc' = "wait"
    /\ UNCHANGED <<handler, is_closed, got_exception, current, pool,
                   on_exception, joiner, executed>>

loop_sentinel ==
    /\ pc = "loop"
    /\ pending_tasks # <<>>
    /\ Head(pending_tasks) = None
    /\ finish_run(Tail(pending_tasks))
    /\ UNCHANGED <<new_task_received, is_closing, got_exception, current, pool,
                   on_exception, joiner, submitted, quota, executed>>

\* Mutant: the pool is never full.
loop_spawn_unlimited ==
    /\ pc = "loop"
    /\ pending_tasks # <<>>
    /\ Head(pending_tasks) # None
    /\ start_task(Head(pending_tasks))
    /\ pending_tasks' = Tail(pending_tasks)
    /\ UNCHANGED <<new_task_received, is_closing, is_closed, got_exception, pc,
                   current, waiter_count, on_exception, joiner, submitted,
                   quota, executed>>

\* A permit is free: acquire() does not suspend.
loop_spawn ==
    /\ pc = "loop"
    /\ pending_tasks # <<>>
    /\ Head(pending_tasks) # None
    /\ semaphore > 0
    /\ start_task(Head(pending_tasks))
    /\ pending_tasks' = Tail(pending_tasks)
    /\ UNCHANGED <<new_task_received, is_closing, is_closed, got_exception, pc,
                   current, waiter_count, on_exception, joiner, submitted,
                   quota, executed>>

loop_acquire ==
    /\ pc = "loop"
    /\ pending_tasks # <<>>
    /\ Head(pending_tasks) # None
    /\ semaphore = 0
    /\ pc' = "acquire"
    /\ current' = Head(pending_tasks)
    /\ pending_tasks' = Tail(pending_tasks)
    /\ waiter_count' = waiter_count + 1
    /\ UNCHANGED <<new_task_received, is_closing, is_closed, got_exception,
                   semaphore, tasks, cancelling, spawned, doomed, on_exception,
                   joiner, submitted, quota, executed>>

acquired ==
    /\ pc = "acquire"
    /\ semaphore > 0
    /\ waiter_count' = waiter_count - 1
    /\ start_task(current)
    /\ current' = None
    /\ pc' = "loop"
    /\ UNCHANGED <<handler, is_closed, got_exception, on_exception, joiner, executed>>

\* The call raises: error_handler is awaited, then perhaps the pool is joined.
loop_bad_call ==
    /\ pc = "loop"
    /\ "bad_call" \in Outcomes
    /\ pending_tasks # <<>>
    /\ Head(pending_tasks) # None
    /\ pc' = "error"
    /\ pending_tasks' = Tail(pending_tasks)
    /\ spawned' = Append(spawned, Head(pending_tasks))
    /\ UNCHANGED <<new_task_received, is_closing, is_closed, got_exception,
                   current, semaphore, waiter_count, tasks, cancelling, doomed,
                   on_exception, joiner, submitted, quota, executed>>

error_handled ==
    /\ pc = "error"
    /\ IF close_on_exception
       THEN finish_run(pending_tasks)
       ELSE pc' = "loop" /\ UNCHANGED <<is_closed, pending_tasks>>
    /\ UNCHANGED <<new_task_received, is_closing, got_exception, current, pool,
                   on_exception, joiner, submitted, quota, executed>>

\* The pool was empty when run() was resumed; it does not look again.
run_joined ==
    /\ pc = "joined"
    /\ is_closed' = TRUE
    /\ pending_tasks' = <<>>
    /\ pc' = "ended"
    /\ UNCHANGED <<new_task_received, is_closing, got_exception, current, pool,
                   on_exception, joiner, submitted, quota, executed>>
-------------------------------------------------------------------------------
(* join(): the pool first, then closed_event *)

join ==
    /\ suspended
    /\ joiner = "none"
    /\ is_closing
    /\ joiner' = IF is_empty THEN "pool_empty" ELSE "pool"
    /\ UNCHANGED <<handler, is_closed, got_exception, pc, current, pool,
                   on_exception, executed>>

join_returns ==
    /\ suspended
    /\ joiner = "pool_empty"
    /\ is_closed
    /\ joiner' = "returned"
    /\ UNCHANGED <<handler, is_closed, got_exception, pc, current, pool,
                   on_exception, executed>>
-------------------------------------------------------------------------------
run == \/ wake \/ loop_empty \/ loop_sentinel \/ loop_spawn \/ loop_acquire
       \/ loop_bad_call \/ acquired \/ error_handled \/ run_joined

job(j) == job_ends(j) \/ job_cancelled(j) \/ job_fails(j)

closer(j) == on_exception_join(j) \/ on_exception_close(j)

Next ==
    \/ \E j \in Jobs : submit(j)
    \/ shutdown
    \/ close
    \/ run
    \/ \E j \in Jobs : job(j)
    \/ \E j \in Jobs : closer(j)
    \/ join
    \/ join_returns

Spec == Init /\ [][Next]_vars

\* Every task that can go on is run by the loop, and jobs end; strong where a
\* run() that has not suspended disables the others for a moment.
FairSpec ==
    /\ Spec
    /\ WF_vars(run)
    /\ \A j \in Jobs : SF_vars(job(j)) /\ SF_vars(closer(j))
    /\ SF_vars(join_returns)
-------------------------------------------------------------------------------
(* Properties *)

\* The shape of the state.
TypeOK ==
    /\ pending_tasks \in Seq(Jobs \cup {None})
    /\ new_task_received \in BOOLEAN /\ is_closing \in BOOLEAN
    /\ is_closed \in BOOLEAN /\ got_exception \in BOOLEAN
    /\ pc \in {"wait", "loop", "acquire", "error", "join", "joined", "ended", "cancelled"}
    /\ current \in Jobs \cup {None}
    /\ semaphore \in Nat /\ waiter_count \in Nat
    /\ tasks \in SUBSET Jobs /\ cancelling \in SUBSET tasks
    /\ on_exception \in [Jobs -> {"none", "new", "waiting", "resumed", "done"}]
    /\ joiner \in {"none", "pool", "pool_empty", "returned"}
    /\ submitted \in Seq(Jobs) /\ quota \in Nat /\ spawned \in Seq(Jobs)
    /\ executed \in SUBSET Jobs /\ doomed \in SUBSET Jobs

\* The state has its shape, and the pool's permits are conserved through spawns,
\* ends and cancellations, so at most `concurrency` jobs run at a time and none
\* is locked out for good.
PermitsConserved == TypeOK /\ semaphore + Cardinality(tasks) = concurrency

\* With close_on_exception a job spawned after a failure was noticed is
\* cancelled before its body runs.
DoomedNeverRun == doomed \cap executed = {}

\* A handler that stopped of its own accord while no job had failed has taken
\* every job submitted before shutdown(), in that order and none from after it,
\* and waited for all of them.
GracefulDrains ==
    LET Spawned == {spawned[i] : i \in 1..Len(spawned)}
    IN  pc = "ended" /\ ~got_exception /\ Spawned \subseteq executed \cup tasks =>
            tasks = {} /\ spawned = SubSeq(submitted, 1, quota)

\* join() returns, also when the handler closes on a failure: the pool gets empty
\* and its waiters are told.  The exception is a handler that was closed while
\* run() waited for a permit: the pool then counts a waiter for ever.
JoinReturns ==
    joiner = "pool" ~> joiner = "returned" \/ (is_closed /\ waiter_count > 0)

\* What a failure, or the connection, may do to the queue.
MayHalt ==
    \/ "close" \in Env
    \/ close_on_exception /\ {"exception", "bad_call"} \cap Outcomes # {}

\* The handler as whoever submits to it sees it.
Queue == INSTANCE JobQueue WITH
    Width <- concurrency,
    MayHalt <- MayHalt,
    accepted <- submitted,
    due <- quota,
    closing <- is_closing,
    stopped <- is_closed,
    begun <- spawned,
    busy <- tasks

\* A ParallelHandler is a JobQueue as wide as its pool: jobs are spawned in the
\* order of submission, never more than the pool holds, none after close(), and
\* run() ends of its own accord only when all that was due has run.
ImplementsQueue == Queue!Spec
===============================================================================
