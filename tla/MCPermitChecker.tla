--------------------------- MODULE MCPermitChecker ---------------------------
(* Instances of PermitChecker for TLC. *)
EXTENDS PermitChecker, TLC

CONSTANTS n1, ip1, ip2, dotted, mapped, junk

(* A network of two addresses. *)
OneNet == n1 :> {ip1, ip2}

(* Two spellings of an address, and no address. *)
Spelled == dotted :> ip1 @@ mapped :> ip1 @@ junk :> NoIP

Limited == [login |-> 1, password |-> 1, ip |-> 1]

Symmetry == Permutations(Handler)
=============================================================================
