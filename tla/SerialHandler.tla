---------------------------- MODULE SerialHandler -----------------------------
(***************************************************************************)
(* The job queue of a connection: Handler and SerialHandler of             *)
(* pymaid/ext/handler.py.  Jobs are submitted by the connection's read     *)
(* callback; one task, run(), takes them from a deque and executes them    *)
(* one by one.  shutdown() queues a None that stops the task behind the    *)
(* jobs already there; close() stops it at once.                           *)
(*                                                                         *)
(* run() gives up control only while it waits for new_task_received, while *)
(* a job is suspended and while error_handler is; between these its steps  *)
(* are atomic (asyncio).                                                   *)
(***************************************************************************)
EXTENDS Naturals, Sequences

CONSTANTS Jobs,                 \* the jobs that may be submitted
          None,                 \* the sentinel queued by shutdown()
          close_on_exception,   \* the constructor's argument
          Outcomes,             \* how a job may end
          Env                   \* the optional events of the environment

\* "ok"; "exception": an Exception; "BaseEx": pymaid's own error class.
JobOutcomes == {"ok", "exception", "BaseEx"}
\* "close": the connection is finalised and calls close();
\* "error_handler": a custom error_handler raises.
EnvEvents == {"close", "error_handler"}

ASSUME HandlerAssumption ==
    /\ None \notin Jobs
    /\ close_on_exception \in BOOLEAN
    /\ Outcomes \subseteq JobOutcomes
    /\ Env \subseteq EnvEvents

VARIABLES
    pending_tasks,       \* deque of jobs and perhaps None
    new_task_received,   \* asyncio.Event
    is_closing,
    is_closed,           \* closed_event is set with it
    pc,                  \* where run() is; see TypeOK
    submitted,           \* history: the jobs in the order of submit()
    quota,               \* history: how many of them came before shutdown()
    started,             \* history: the jobs in the order they were begun
    failed               \* history: the jobs that raised an Exception

vars == <<pending_tasks, new_task_received, is_closing, is_closed, pc,
          submitted, quota, started, failed>>

Submitted == {submitted[i] : i \in 1..Len(submitted)}
Started == {started[i] : i \in 1..Len(started)}

Init ==
    /\ pending_tasks = <<>>
    /\ new_task_received = FALSE
    /\ is_closing = FALSE
    /\ is_closed = FALSE
    /\ pc = "wait"
    /\ submitted = <<>>
    /\ quota = 0
    /\ started = <<>>
    /\ failed = {}
-------------------------------------------------------------------------------
(* Handler *)

\* submit() is accepted in every state, after shutdown() and close() too.
submit(j) ==
    /\ j \notin Submitted
    /\ pending_tasks' = Append(pending_tasks, j)
    /\ new_task_received' = TRUE
    /\ submitted' = Append(submitted, j)
    /\ quota' = IF is_closing THEN quota ELSE quota + 1
    /\ UNCHANGED <<is_closing, is_closed, pc, started, failed>>

\* Mutant: the sentinel overtakes the jobs.
shutdown_in_front ==
    /\ ~is_closing
    /\ is_closing' = TRUE
    /\ pending_tasks' = <<None>> \o pending_tasks
    /\ new_task_received' = TRUE
    /\ UNCHANGED <<is_closed, pc, submitted, quota, started, failed>>

\* Mutant: the event is not set.
shutdown_silently ==
    /\ ~is_closing
    /\ is_closing' = TRUE
    /\ pending_tasks' = Append(pending_tasks, None)
    /\ UNCHANGED <<new_task_received, is_closed, pc, submitted, quota, started, failed>>

shutdown ==
    /\ ~is_closing
    /\ is_closing' = TRUE
    /\ pending_tasks' = Append(pending_tasks, None)
    /\ new_task_received' = TRUE
    /\ UNCHANGED <<is_closed, pc, submitted, quota, started, failed>>

\* Mutant: run() is not cancelled.
close_keeping_run ==
    /\ "close" \in Env
    /\ ~is_closed
    /\ is_closed' = TRUE
    /\ pending_tasks' = <<>>
    /\ UNCHANGED <<new_task_received, is_closing, pc, submitted, quota, started, failed>>

\* close() from outside run(): a task that has not ended is cancelled where it
\* is suspended.
close ==
    /\ "close" \in Env
    /\ ~is_closed
    /\ is_closed' = TRUE
    /\ pending_tasks' = <<>>
    /\ pc' = IF pc = "crashed" THEN pc ELSE "cancelled"
    /\ UNCHANGED <<new_task_received, is_closing, submitted, quota, started, failed>>

\* close() at the end of run().
close_self ==
    /\ is_closed' = TRUE
    /\ pending_tasks' = <<>>
    /\ pc' = "ended"
    /\ UNCHANGED started
-------------------------------------------------------------------------------
(* SerialHandler.run *)

\* The inner loop up to the next suspension: take a job, meet the sentinel, or
\* find the deque empty and go back to waiting.
take_next ==
    \/ /\ pending_tasks = <<>>
       /\ pc' = "wait"
       /\ UNCHANGED <<pending_tasks, is_closed, started>>
    \/ /\ pending_tasks # <<>>
       /\ Head(pending_tasks) = None
       /\ close_self
    \/ /\ pending_tasks # <<>>
       /\ Head(pending_tasks) # None
       /\ pending_tasks' = Tail(pending_tasks)
       /\ started' = Append(started, Head(pending_tasks))
       /\ pc' = "job"
       /\ UNCHANGED is_closed

wake ==
    /\ pc = "wait"
    /\ new_task_received
    /\ new_task_received' = FALSE
    /\ take_next
    /\ UNCHANGED <<is_closing, submitted, quota, failed>>

\* Mutant: one job per wakeup.
job_returns_to_wait ==
    /\ pc = "job"
    /\ "ok" \in Outcomes
    /\ pc' = "wait"
    /\ UNCHANGED <<pending_tasks, new_task_received, is_closing, is_closed,
                   submitted, quota, started, failed>>

job_returns ==
    /\ pc = "job"
    /\ "ok" \in Outcomes
    /\ take_next
    /\ UNCHANGED <<new_task_received, is_closing, submitted, quota, failed>>

\* `except Exception`: the job failed, error_handler is awaited.
job_raises ==
    /\ pc = "job"
    /\ "exception" \in Outcomes
    /\ pc' = "error"
    /\ failed' = failed \cup {started[Len(started)]}
    /\ UNCHANGED <<pending_tasks, new_task_received, is_closing, is_closed,
                   submitted, quota, started>>

\* Mutant: close_on_exception is ignored.
error_handled_goes_on ==
    /\ pc = "error"
    /\ take_next
    /\ UNCHANGED <<new_task_received, is_closing, submitted, quota, failed>>

error_handled ==
    /\ pc = "error"
    /\ IF close_on_exception THEN close_self ELSE take_next
    /\ UNCHANGED <<new_task_received, is_closing, submitted, quota, failed>>

\* The `assert False` under `except BaseEx`, or an error_handler that raises:
\* the exception ends run(), and nothing closes the handler.
crash ==
    /\ \/ pc = "job" /\ "BaseEx" \in Outcomes
       \/ pc = "error" /\ "error_handler" \in Env
    /\ pc' = "crashed"
    /\ UNCHANGED <<pending_tasks, new_task_received, is_closing, is_closed,
                   submitted, quota, started, failed>>
-------------------------------------------------------------------------------
run == wake \/ job_returns \/ job_raises \/ error_handled \/ crash

Next == (\E j \in Jobs : submit(j)) \/ shutdown \/ close \/ run

Spec == Init /\ [][Next]_vars

\* The loop runs the task whenever it can go on; jobs and error handlers end.
FairSpec == Spec /\ WF_vars(run)
-------------------------------------------------------------------------------
(* Properties *)

\* The shape of the state.
TypeOK ==
    /\ pending_tasks \in Seq(Jobs \cup {None})
    /\ new_task_received \in BOOLEAN
    /\ is_closing \in BOOLEAN
    /\ is_closed \in BOOLEAN
    /\ pc \in {"wait", "job", "error", "ended", "cancelled", "crashed"}
    /\ submitted \in Seq(Jobs)
    /\ quota \in Nat
    /\ started \in Seq(Jobs)
    /\ failed \in SUBSET Jobs

\* Jobs begin in the order they were submitted, none is skipped and none begun
\* twice; and none that came after shutdown() begins at all, though submit()
\* queued it without complaint.
StartedInOrder ==
    /\ Len(started) <= quota
    /\ started = SubSeq(submitted, 1, Len(started))

\* A handler that stopped of its own accord, not on a failed job, has begun
\* every job submitted before shutdown().
GracefulDrains ==
    pc = "ended" /\ (close_on_exception => failed = {}) => Len(started) = quota

\* With close_on_exception no job begins after one has failed.
StopsAtFailure ==
    close_on_exception =>
        \A j \in failed : started # <<>> /\ j = started[Len(started)]

\* A run() that waits has seen everything in the deque: no wakeup is lost
\* between new_task_received.clear() and the next wait().
NoLostWakeup == pc = "wait" /\ pending_tasks # <<>> => new_task_received

\* Every job submitted in time is begun, unless the handler closes first or an
\* exception ends run(), after which submit() goes on queueing.
JobsRun ==
    \A j \in Jobs :
        (j \in Submitted /\ ~is_closing) ~> (j \in Started \/ is_closed \/ pc = "crashed")

\* join() returns: shutdown() leads to closed_event, but for a run() that an
\* exception has ended.
ShutdownCompletes == is_closing ~> is_closed \/ pc = "crashed"

\* What a failure, or the connection, may do to the queue.
MayHalt ==
    \/ "close" \in Env
    \/ "BaseEx" \in Outcomes
    \/ "exception" \in Outcomes /\ (close_on_exception \/ "error_handler" \in Env)

\* The handler as whoever submits to it sees it.
Queue == INSTANCE JobQueue WITH
    Width <- 1,
    MayHalt <- MayHalt,
    accepted <- submitted,
    due <- quota,
    closing <- is_closing,
    stopped <- is_closed \/ pc = "crashed",
    begun <- started,
    busy <- IF pc = "job" THEN {started[Len(started)]} ELSE {}

\* A SerialHandler is a JobQueue of width one: whatever falls between wakeups,
\* failures and close(), one job runs at a time and in order, and run() ends of
\* its own accord only at the sentinel, with nothing left that was due.
ImplementsQueue == Queue!Spec
===============================================================================
