------------------------------ MODULE MCIPRules ------------------------------
(* Instances of IPRules for TLC. *)
EXTENDS IPRules, TLC

CONSTANTS n1, ip1, ip2

(* One network with several addresses. *)
OneNet == n1 :> {ip1, ip2}

(* The network of a single address. *)
SingleHost == n1 :> {ip1}
=============================================================================
