---------------------------- MODULE MCFixedMemory ----------------------------
(* Instances of FixedMemory for TLC. *)
EXTENDS FixedMemory, TLC

CONSTANTS n1, n2

(* One name, whose second request in a window is over the limit. *)
OneName == n1 :> 1

(* A name with a limit and one whose limits are not valid. *)
OneInvalid == n1 :> 1 @@ n2 :> 0

Symmetry == Permutations(Caller) \cup Permutations(Bucket)

=============================================================================
