----------------------------- MODULE BurstWindow -----------------------------
(***************************************************************************)
(* What a fixed window lets through around its boundary                    *)
(* (internal/ratelimit/fixed_memory.go:9-16): FixedMemory on a machine     *)
(* where every step is quick, with a history of the requests that were let *)
(* through in the last period, whatever windows they were counted in.      *)
(***************************************************************************)
EXTENDS FixedMemory

VARIABLE
    recent      \* the requests let through in the last period, by name

burstVars == <<vars, recent>>

(***************************************************************************)
(* A request let through is a token: how long ago that was, and its number *)
(* among the ones of the same instant.                                     *)
(***************************************************************************)
Ages == 0 .. Period - 1

Token == [age : Ages, nth : Nat]

BurstInit == Init /\ recent = [n \in Name |-> {}]

LetThrough(n) ==
    \E t \in Caller :
       pc[t] = "verdict" /\ arg[t] = n /\ pc'[t] = "idle" /\ ret'[t] = "pass"

Now(n) == {r \in recent[n] : r.age = 0}

(* A caller has asked for the name, or for all, to be forgotten; the       *)
(* goroutine of an idle bucket is not a caller.                            *)
Forgotten(n) ==
    \E t \in Client :
       /\ pc[t] = "waitall" \/ (pc[t] = "wait" /\ arg[t] = n)
       /\ pc'[t] = "idle"

Remember ==
    recent' = [n \in Name |->
                 IF LetThrough(n)
                 THEN recent[n] \cup {[age |-> 0, nth |-> Cardinality(Now(n))]}
                 ELSE IF Forgotten(n) THEN {}
                 ELSE recent[n]]

Older(r) == [age |-> r.age + 1, nth |-> r.nth]

GrowOlder ==
    recent' = [n \in Name |->
                 {Older(r) : r \in {q \in recent[n] : q.age + 1 \in Ages}}]

BurstNext ==
    \/ (Request \/ Work) /\ Remember
    \/ Quiet /\ Advance /\ GrowOlder

BurstSpec == BurstInit /\ [][BurstNext]_burstVars

(* "A single burst near the boundary of a window can double the number of  *)
(* the requests" (fixed_memory.go:14-15): it can, and in no period does it *)
(* let more through than twice the limit and the one request that is       *)
(* counted in one window and compared in the next.                         *)
BurstBound ==
    \A n \in Name :
       Cardinality(recent[n]) <= 2 * (IF Limit[n] > 0 THEN Limit[n] ELSE 0) + 1
=============================================================================
