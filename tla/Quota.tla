-------------------------------- MODULE Quota --------------------------------
(***************************************************************************)
(* The windows of a rate limiter, as its callers may count on them         *)
(* (internal/ratelimit): for every bucket name the number of requests let  *)
(* through since the window of that name was last cleared.  A request may  *)
(* be let through as long as that number is at most the limit, it may be   *)
(* refused only once that number has reached the limit, and a window may   *)
(* be cleared at any moment (the period went by, the bucket was dropped).  *)
(*                                                                         *)
(* "At most", not "less than": the counter is read back in a second step,  *)
(* and one request may be counted in one window and let through in the     *)
(* next.  FixedMemory shows that one is all there can be.                  *)
(***************************************************************************)
EXTENDS Integers

CONSTANTS
    Name,       \* bucket names
    Limit,      \* the limit that the callers pass for a name
    Period      \* and the length of the window

VARIABLE
    granted     \* requests let through in the current window of a name

NoneGranted == [n \in Name |-> 0]

LimitsValid(n) == Period > 0 /\ Limit[n] > 0

Within(n) ==
    /\ LimitsValid(n)
    /\ granted[n] <= Limit[n]
    /\ granted' = [granted EXCEPT ![n] = @ + 1]

Over(n) ==
    /\ LimitsValid(n)
    /\ granted[n] >= Limit[n]
    /\ UNCHANGED granted

Invalid(n) == ~LimitsValid(n) /\ UNCHANGED granted

Cleared(n) == granted' = [granted EXCEPT ![n] = 0]

Absent(n) == granted[n] = 0 /\ UNCHANGED granted
=============================================================================
