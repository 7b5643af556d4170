------------------------------ MODULE MCStartup ------------------------------
(* An instance of Startup for TLC. *)
EXTENDS Startup, TLC

(* Six bits; a day of sixteen nanoseconds. *)
Units == "s" :> 2 @@ "m" :> 6 @@ "d" :> 16

Text(value, unit) == <<[value |-> value, unit |-> unit]>>

Usual ==
    [readable |-> TRUE, base |-> <<>>, limits |-> [p \in Param |-> 2],
     level |-> "info", logFile |-> TRUE, storage |-> "pgsql",
     method |-> "fixed_memory", attempts |-> 2]

(* No limit and a negative one; a base duration that is given, that is     *)
(* zero, that has no unit, and that overflows to nothing and to less.      *)
Good ==
    { Usual, [Usual EXCEPT !.storage = "memory"], [Usual EXCEPT !.attempts = 0] }
    \cup { [Usual EXCEPT !.limits[p] = l] : p \in Param, l \in {0, -1} }
    \cup { [Usual EXCEPT !.storage = "memory", !.base = Text(t[1], t[2])] :
              t \in { <<3, <<"m">> >>, <<0, <<"s">> >>, <<5, <<>> >>,
                      <<4, <<"d">> >>, <<2, <<"d">> >> } }

(* One flaw each. *)
Bad ==
    { [Usual EXCEPT !.readable = FALSE], [Usual EXCEPT !.level = "loud"],
      [Usual EXCEPT !.logFile = FALSE], [Usual EXCEPT !.method = "redis"],
      [Usual EXCEPT !.storage = "redis"] }
    \cup { [Usual EXCEPT !.base = Text(t[1], t[2])] :
              t \in { <<NoValue, <<>> >>, <<NoValue, <<"m">> >>, <<32, <<>> >>,
                      <<1, <<"m", "s">> >>, <<1, <<"x">> >> } }

Files == Good \cup Bad
=============================================================================
