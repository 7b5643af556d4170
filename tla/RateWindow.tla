----------------------------- MODULE RateWindow -----------------------------
(***************************************************************************)
(* What the rate limiter promises its callers (internal/ratelimit), with   *)
(* no map, no mutex, no goroutine and no clock: calls that begin and end   *)
(* at any moment, and whose answers are those of Quota at some moment in   *)
(* between.                                                                *)
(***************************************************************************)
EXTENDS Quota

CONSTANTS
    Client,     \* the threads that call the limiter
    NoName

VARIABLES
    op,         \* the call a client is in, "idle" when in none
    arg,        \* the bucket name of that call
    ret         \* the answer to the client's last call

vars == <<op, arg, ret, granted>>

Operation == {"idle", "exceed", "reset", "destroy"}
Answer    == {"none", "pass", "exceeded", "invalid", "found", "missing", "ok"}

TypeOK ==
    /\ op \in [Client -> Operation]
    /\ arg \in [Client -> Name \cup {NoName}]
    /\ ret \in [Client -> Answer]
    /\ granted \in [Name -> Nat]

Init ==
    /\ op = [c \in Client |-> "idle"]
    /\ arg = [c \in Client |-> NoName]
    /\ ret = [c \in Client |-> "none"]
    /\ granted = NoneGranted

Call(c, o, n) ==
    /\ op[c] = "idle"
    /\ op' = [op EXCEPT ![c] = o]
    /\ arg' = [arg EXCEPT ![c] = n]
    /\ ret' = [ret EXCEPT ![c] = "none"]
    /\ UNCHANGED granted

Return(c, o, a) ==
    /\ op[c] = o
    /\ op' = [op EXCEPT ![c] = "idle"]
    /\ arg' = [arg EXCEPT ![c] = NoName]
    /\ ret' = [ret EXCEPT ![c] = a]

Grant(c)  == Return(c, "exceed", "pass") /\ Within(arg[c])
Deny(c)   == Return(c, "exceed", "exceeded") /\ Over(arg[c])
Refuse(c) == Return(c, "exceed", "invalid") /\ Invalid(arg[c])

Forget(c)  == Return(c, "reset", "found") /\ Cleared(arg[c])
Missing(c) == Return(c, "reset", "missing") /\ Absent(arg[c])

Destroy(c) == Return(c, "destroy", "ok") /\ granted' = NoneGranted

Roll(n) == Cleared(n) /\ UNCHANGED <<op, arg, ret>>

Next ==
    \/ \E c \in Client, n \in Name : Call(c, "exceed", n) \/ Call(c, "reset", n)
    \/ \E c \in Client : Call(c, "destroy", NoName)
    \/ \E c \in Client :
          \/ Grant(c) \/ Deny(c) \/ Refuse(c)
          \/ Forget(c) \/ Missing(c) \/ Destroy(c)
    \/ \E n \in Name : Roll(n)

Spec == Init /\ [][Next]_vars
=============================================================================
