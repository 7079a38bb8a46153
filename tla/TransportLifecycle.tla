-------------------------- MODULE TransportLifecycle --------------------------
(***************************************************************************)
(* What the rest of pymaid relies on when it holds a transport: a byte     *)
(* stream that is open, then perhaps closing, then closed; that tells its  *)
(* owner about the end exactly once (the on_close callbacks, which a       *)
(* channel uses to forget the connection); and that delivers what it       *)
(* accepted in order, losing bytes only by an abort.  Stream implements    *)
(* it: see Stream!Lifecycle.                                               *)
(***************************************************************************)
EXTENDS Naturals, Sequences

CONSTANT MayAbort   \* whether the environment can make the transport fail

VARIABLES phase,      \* "open", "closing" or "closed"
          lost,       \* how many times the on_close callbacks have run
          accepted,   \* the bytes handed to the transport
          delivered   \* the bytes the peer's socket has been given

vars == <<phase, lost, accepted, delivered>>

Extends(s, t) == Len(s) <= Len(t) /\ SubSeq(t, 1, Len(s)) = s

Init ==
    /\ phase = "open"
    /\ lost = 0
    /\ accepted = <<>>
    /\ delivered = <<>>

\* Bytes are accepted, or delivered, or both; a closed transport does neither.
Transfer ==
    /\ phase # "closed"
    /\ Extends(accepted, accepted')
    /\ Extends(delivered, delivered')
    /\ Extends(delivered', accepted')
    /\ UNCHANGED <<phase, lost>>

StartClose ==
    /\ phase = "open"
    /\ phase' = "closing"
    /\ UNCHANGED <<lost, accepted, delivered>>

\* The end of an orderly close: everything accepted has been delivered.
Finish ==
    /\ phase # "closed"
    /\ Extends(delivered, delivered')
    /\ delivered' = accepted
    /\ phase' = "closed"
    /\ lost' = lost + 1
    /\ UNCHANGED accepted

\* A forced close: what was not delivered is gone.
Abort ==
    /\ MayAbort
    /\ phase # "closed"
    /\ phase' = "closed"
    /\ lost' = lost + 1
    /\ UNCHANGED <<accepted, delivered>>

Next == Transfer \/ StartClose \/ Finish \/ Abort

Spec == Init /\ [][Next]_vars
===============================================================================
