------------------------------- MODULE JobQueue -------------------------------
(***************************************************************************)
(* What a connection may rely on when it submits jobs to its handler: they *)
(* begin in the order in which they were submitted, each once, so many at  *)
(* a time; after shutdown() the handler accepts jobs but begins only those *)
(* that came before, and stops when these are done; and only a failure or  *)
(* close() makes it stop earlier.  SerialHandler and ParallelHandler       *)
(* implement it.                                                           *)
(***************************************************************************)
EXTENDS Naturals, Sequences, FiniteSets

CONSTANTS Jobs,
          Width,     \* how many jobs may run at a time
          MayHalt    \* whether the handler may stop before its jobs are done

VARIABLES accepted,   \* the jobs in the order in which they were submitted
          due,        \* how many of them came before shutdown()
          closing,    \* shutdown() was called
          stopped,    \* no job begins any more
          begun,      \* the jobs in the order in which they began
          busy        \* the jobs that run

vars == <<accepted, due, closing, stopped, begun, busy>>

Init ==
    /\ accepted = <<>>
    /\ due = 0
    /\ closing = FALSE
    /\ stopped = FALSE
    /\ begun = <<>>
    /\ busy = {}

Submit ==
    /\ \E j \in Jobs :
          /\ \A i \in 1..Len(accepted) : accepted[i] # j
          /\ accepted' = Append(accepted, j)
    /\ due' = IF closing THEN due ELSE due + 1
    /\ UNCHANGED <<closing, stopped, begun, busy>>

Shutdown ==
    /\ ~closing
    /\ closing' = TRUE
    /\ UNCHANGED <<accepted, due, stopped, begun, busy>>

\* The next job begins, perhaps in the place of others that end; it may end at
\* once.
Begin ==
    /\ ~stopped
    /\ Len(begun) < due
    /\ LET next == accepted[Len(begun) + 1]
       IN  /\ begun' = Append(begun, next)
           /\ busy' \subseteq busy \cup {next}
    /\ Cardinality(busy') <= Width
    /\ UNCHANGED <<accepted, due, closing, stopped>>

\* Jobs end, also those that run when the handler has stopped.
End ==
    /\ busy' \subseteq busy
    /\ UNCHANGED <<accepted, due, closing, stopped, begun>>

\* The handler has begun every job that is due, and none runs any more.
Finish ==
    /\ ~stopped
    /\ closing
    /\ Len(begun) = due
    /\ stopped' = TRUE
    /\ busy' = {}
    /\ UNCHANGED <<accepted, due, closing, begun>>

Halt ==
    /\ MayHalt
    /\ ~stopped
    /\ stopped' = TRUE
    /\ busy' \subseteq busy
    /\ UNCHANGED <<accepted, due, closing, begun>>

Next == Submit \/ Shutdown \/ Begin \/ End \/ Finish \/ Halt

Spec == Init /\ [][Next]_vars
===============================================================================
