----------------------------- MODULE RemoteCalls ------------------------------
(***************************************************************************)
(* What the two sides of a remote call may rely on, whatever becomes of    *)
(* the connection between them: a method is begun at most once, and only   *)
(* when it was called; it takes no request that was not sent, its caller   *)
(* receives no response that was not given; and a call that is done has    *)
(* received all of them.  A call that fails promises nothing more.         *)
(* RpcCalls implements it: see RpcCalls!Calling.                           *)
(***************************************************************************)
EXTENDS Naturals

CONSTANTS Calls,
          MayBreak   \* whether callers may give up, or the connection may fail

VARIABLES replies,    \* per call: how many responses it may have, "none", "one" or "many"
          caller,     \* per call: "new", "open", "done" or "failed"
          method,     \* per call: "idle", "running" or "ended"
          sent,       \* per call: the requests its caller has sent,
          taken,      \* those of them that its method has read,
          given,      \* the responses its method has sent,
          received    \* and those of them that its caller has read

vars == <<replies, caller, method, sent, taken, given, received>>

Init ==
    /\ replies \in [Calls -> {"none", "one", "many"}]
    /\ caller = [c \in Calls |-> "new"]
    /\ method = [c \in Calls |-> "idle"]
    /\ sent = [c \in Calls |-> 0]
    /\ taken = [c \in Calls |-> 0]
    /\ given = [c \in Calls |-> 0]
    /\ received = [c \in Calls |-> 0]

\* A call is made, with its request or before the first of a stream.  Nobody
\* waits for a method that sends no response.
Call(c) ==
    /\ caller[c] = "new"
    /\ caller' = [caller EXCEPT ![c] = IF replies[c] = "none" THEN "done" ELSE "open"]
    /\ \E n \in {0, 1} : sent' = [sent EXCEPT ![c] = @ + n]
    /\ UNCHANGED <<replies, method, taken, given, received>>

\* It cannot be made.
Refuse(c) ==
    /\ caller[c] = "new"
    /\ caller' = [caller EXCEPT ![c] = "failed"]
    /\ UNCHANGED <<replies, method, sent, taken, given, received>>

\* A method that has ended of its own accord had seen the end of the requests.
Request(c) ==
    /\ caller[c] = "open"
    /\ method[c] = "ended" => MayBreak
    /\ sent' = [sent EXCEPT ![c] = @ + 1]
    /\ UNCHANGED <<replies, caller, method, taken, given, received>>

Begin(c) ==
    /\ caller[c] # "new"
    /\ method[c] = "idle"
    /\ method' = [method EXCEPT ![c] = "running"]
    /\ UNCHANGED <<replies, caller, sent, taken, given, received>>

Take(c) ==
    /\ method[c] = "running"
    /\ taken[c] < sent[c]
    /\ taken' = [taken EXCEPT ![c] = @ + 1]
    /\ UNCHANGED <<replies, caller, method, sent, given, received>>

\* No response comes after the last, with which a call is done.
Give(c) ==
    /\ method[c] = "running"
    /\ caller[c] # "done"
    /\ replies[c] = "many" \/ (replies[c] = "one" /\ given[c] = 0)
    /\ given' = [given EXCEPT ![c] = @ + 1]
    /\ UNCHANGED <<replies, caller, method, sent, taken, received>>

\* Unless it was interrupted, a method that ends has read all its requests.
End(c) ==
    /\ method[c] = "running"
    /\ taken[c] = sent[c] \/ MayBreak
    /\ method' = [method EXCEPT ![c] = "ended"]
    /\ UNCHANGED <<replies, caller, sent, taken, given, received>>

Receive(c) ==
    /\ caller[c] = "open"
    /\ received[c] < given[c]
    /\ received' = [received EXCEPT ![c] = @ + 1]
    /\ UNCHANGED <<replies, caller, method, sent, taken, given>>

\* The caller has the last response, or learns that it had it.
Return(c) ==
    /\ caller[c] = "open"
    /\ method[c] # "idle"
    /\ caller' = [caller EXCEPT ![c] = "done"]
    /\ received' = [received EXCEPT ![c] = given[c]]
    /\ given[c] - received[c] \in {0, 1}
    /\ replies[c] = "one" => given[c] = 1
    /\ UNCHANGED <<replies, method, sent, taken, given>>

Break(c) ==
    /\ MayBreak
    /\ caller[c] = "open"
    /\ caller' = [caller EXCEPT ![c] = "failed"]
    /\ UNCHANGED <<replies, method, sent, taken, given, received>>

Next ==
    \E c \in Calls :
        \/ Call(c) \/ Refuse(c) \/ Request(c) \/ Receive(c) \/ Return(c) \/ Break(c)
        \/ Begin(c) \/ Take(c) \/ Give(c) \/ End(c)

Spec == Init /\ [][Next]_vars
===============================================================================
