-------------------------------- MODULE MCCli --------------------------------
(* Instances of Cli for TLC. *)
EXTENDS Cli, TLC

CONSTANTS n1, ip1, ip2, ip3

OneNet == n1 :> {ip1, ip2}

(* Commands of every kind, and one of each of the mistakes. *)
Lines ==
    "add white" :> <<"add", "white", n1>> @@ "add black" :> <<"add", "black", n1>>
    @@ "rm black" :> <<"rm", "black", n1>>
    @@ "reset" :> <<"reset", "ip", "junk">>
    @@ "nothing" :> <<>> @@ " quit" :> <<"quit">>
    @@ "no network" :> <<"add", "white", "junk">>
    @@ "no list" :> <<"rm", "grey", n1>>
    @@ "too short" :> <<"add", "white">>

Typing == DOMAIN Lines
=============================================================================
