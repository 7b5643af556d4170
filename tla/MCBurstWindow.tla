---------------------------- MODULE MCBurstWindow ----------------------------
(* Instances of BurstWindow for TLC. *)
EXTENDS BurstWindow, TLC

CONSTANTS n1, n2

(* Two names with a limit. *)
BothLimited == n1 :> 1 @@ n2 :> 1

(* Sound where all names have the same limit. *)
SymmetryNames ==
    Permutations(Caller) \cup Permutations(Bucket) \cup Permutations(Name)
=============================================================================
