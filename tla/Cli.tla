--------------------------------- MODULE Cli ---------------------------------
(***************************************************************************)
(* The command line client, brutefp-cli (internal/app/brutefp-cli.go and   *)
(* internal/app/deps/brutecli), and the server it talks to, of which       *)
(* IPRules models the lists.                                               *)
(*                                                                         *)
(* A client has two goroutines: the main one waits for its context to be   *)
(* done; the reader reads a line, carries the command out and waits for    *)
(* the answer, one command at a time.  A client and the requests it sends  *)
(* share a slot of IPRules; the other slots are for the requests of the    *)
(* services that ask for permits and of clients like this one.             *)
(***************************************************************************)
EXTENDS IPRules, Sequences

CONSTANTS
    Client,     \* the slots that have a client
    Typed,      \* what is typed at the prompt
    Fields      \* its words (ParseArgs); a network stands for itself

ASSUME ClientAssumption ==
    /\ Client \subseteq Handler
    /\ DOMAIN Fields = Typed

VARIABLES
    reader,     \* the goroutine that reads; "off": the client does not run
    cancelled,  \* whether the context of the client is done
    (* history *)
    shown,      \* what the last command has printed
    effect      \* whether its request has changed the rules

clientVars == <<reader, cancelled, shown, effect>>

cliVars == <<vars, clientVars>>

Waiting == {"adding", "removing", "resetting"}

CliTypeOK ==
    /\ TypeOK
    /\ reader \in [Client -> {"off", "prompt", "over"} \cup Waiting]
    /\ cancelled \in [Client -> BOOLEAN]
    /\ shown \in [Client -> {"none", "OK", "error"}]
    /\ effect \in [Client -> BOOLEAN]

CliInit ==
    /\ Init
    /\ reader = [c \in Client |-> "off"]
    /\ cancelled = [c \in Client |-> FALSE]
    /\ shown = [c \in Client |-> "none"]
    /\ effect = [c \in Client |-> FALSE]

-----------------------------------------------------------------------------
(* The commands: Execute finds the command by the first word, the command  *)
(* looks at the others before it sends anything.                           *)

ListOf == [white |-> "allow", black |-> "deny"]

IsListCommand(words) ==
    /\ Len(words) = 3
    /\ words[1] \in {"add", "rm"}
    /\ words[2] \in DOMAIN ListOf
    /\ words[3] \in Net

IsResetCommand(words) ==
    /\ Len(words) = 3
    /\ words[1] = "reset"
    /\ words[2] \in {"login", "ip"}

Shown(status) == IF status = "OK" THEN "OK" ELSE "error"

(* The next prompt, and above it the answer to the last command.           *)
Prints(c, text) ==
    /\ reader' = [reader EXCEPT ![c] = "prompt"]
    /\ shown' = [shown EXCEPT ![c] = text]

Sends(c, what) ==
    /\ ~cancelled[c]
    /\ reader' = [reader EXCEPT ![c] = what]
    /\ shown' = [shown EXCEPT ![c] = "none"]
    /\ effect' = [effect EXCEPT ![c] = FALSE]
    /\ UNCHANGED cancelled

-----------------------------------------------------------------------------
(* The reader                                                              *)

(* BOUND: a client sends its next request to the lists when the one it has *)
(* given up waiting for is over.                                           *)
TypeList(c, words) ==
    /\ IsListCommand(words)
    /\ \/ /\ words[1] = "add"
          /\ AddTo(c, ListOf[words[2]], words[3])
          /\ Sends(c, "adding")
       \/ /\ words[1] = "rm"
          /\ RemoveFrom(c, ListOf[words[2]], words[3])
          /\ Sends(c, "removing")

TypeReset(c, words) ==
    /\ IsResetCommand(words)
    /\ Sends(c, "resetting")
    /\ UNCHANGED vars

(* An error of the command, or a server that cannot be reached: no request.*)
TypeInVain(c) ==
    /\ Prints(c, "error")
    /\ UNCHANGED <<vars, cancelled, effect>>

Type(c, t) ==
    /\ reader[c] = "prompt"
    /\ t # "quit"
    /\ TypeList(c, Fields[t]) \/ TypeReset(c, Fields[t]) \/ TypeInVain(c)

(* The exact line "quit", or the end of the input.                         *)
Quit(c) ==
    /\ reader[c] = "prompt"
    /\ reader' = [reader EXCEPT ![c] = "over"]
    /\ cancelled' = [cancelled EXCEPT ![c] = TRUE]
    /\ UNCHANGED <<vars, shown, effect>>

(* Mutant: the result counts, not the status within it. *)
ShowAnyAnswer(c) ==
    /\ reader[c] \in {"adding", "removing"}
    /\ pc[c] = "idle"
    /\ Prints(c, "OK")
    /\ UNCHANGED <<vars, cancelled, effect>>

(* Mutant: a command that fails is tried again, for ever. *)
ShowSuccess(c) ==
    /\ reader[c] \in {"adding", "removing"}
    /\ pc[c] = "idle"
    /\ ret[c] = "OK"
    /\ Prints(c, "OK")
    /\ UNCHANGED <<vars, cancelled, effect>>

ShowAnswer(c) ==
    /\ reader[c] \in {"adding", "removing"}
    /\ pc[c] = "idle"
    /\ Prints(c, Shown(ret[c]))
    /\ UNCHANGED <<vars, cancelled, effect>>

(* The answer to a reset, which PermitChecker details.                     *)
ShowReset(c) ==
    /\ reader[c] = "resetting"
    /\ \E status \in {"OK", "InvalidArgument", "Internal"} : Prints(c, Shown(status))
    /\ UNCHANGED <<vars, cancelled, effect>>

(* The connection breaks, or the context is done: the server goes on.      *)
LoseAnswer(c) ==
    /\ reader[c] \in Waiting
    /\ Prints(c, "error")
    /\ UNCHANGED <<vars, cancelled, effect>>

-----------------------------------------------------------------------------
(* The process of the client                                               *)

StartClient(c) ==
    /\ reader[c] = "off"
    /\ reader' = [reader EXCEPT ![c] = "prompt"]
    /\ UNCHANGED <<vars, cancelled, shown, effect>>

SignalClient(c) ==
    /\ reader[c] # "off"
    /\ cancelled' = [cancelled EXCEPT ![c] = TRUE]
    /\ UNCHANGED <<vars, reader, shown, effect>>

(* Run returns, Close closes the connection and the process ends, in       *)
(* whatever the reader is.                                                 *)
ClientGone(c) ==
    /\ reader' = [reader EXCEPT ![c] = "off"]
    /\ cancelled' = [cancelled EXCEPT ![c] = FALSE]
    /\ shown' = [shown EXCEPT ![c] = "none"]
    /\ effect' = [effect EXCEPT ![c] = FALSE]
    /\ UNCHANGED vars

(* Mutant: Run waits for the reader. *)
EndClientJoined(c) == cancelled[c] /\ reader[c] = "over" /\ ClientGone(c)

EndClient(c) == cancelled[c] /\ reader[c] # "off" /\ ClientGone(c)

-----------------------------------------------------------------------------
(* The server                                                              *)

Serve(h) ==
    /\ Progress(h)
    /\ effect' = [c \in Client |->
                    IF c = h /\ reader[c] \in Waiting THEN effect[c] \/ rules' # rules
                    ELSE effect[c]]
    /\ UNCHANGED <<reader, cancelled, shown>>

ServerEnds == ProcessEnds /\ UNCHANGED clientVars

OtherRequest(h) ==
    /\ h \notin Client
    /\ \/ \E typ \in RuleType, n \in Net : AddTo(h, typ, n) \/ RemoveFrom(h, typ, n)
       \/ \E ip \in IP : Lookup(h, ip)
       \/ Malformed(h)
    /\ UNCHANGED clientVars

-----------------------------------------------------------------------------
Reader(c) ==
    \/ \E t \in Typed : Type(c, t)
    \/ Quit(c) \/ ShowAnswer(c) \/ ShowReset(c) \/ LoseAnswer(c)

CliNext ==
    \/ \E c \in Client :
          Reader(c) \/ StartClient(c) \/ SignalClient(c) \/ EndClient(c)
    \/ \E h \in Handler : Serve(h) \/ OtherRequest(h)
    \/ ServerEnds

CliSpec == CliInit /\ [][CliNext]_cliVars

(***************************************************************************)
(* Fairness: a request that the server has got goes on, its answer arrives *)
(* and main gets its turn.  Nobody has to type, to answer a client that    *)
(* has gone or to end.                                                     *)
(***************************************************************************)
CliFairSpec ==
    /\ CliSpec
    /\ \A h \in Handler : WF_cliVars(Serve(h))
    /\ \A c \in Client :
          /\ WF_cliVars(ShowAnswer(c) \/ ShowReset(c))
          /\ WF_cliVars(EndClient(c))

-----------------------------------------------------------------------------
(* OK to an addition means that this very request has added the rule,      *)
(* whatever requests raced with it, however often it was tried before and  *)
(* whether or not the server was restarted: cmd_listadd.go:45-73.          *)
AddedMeansAdded ==
    [][\A c \in Client :
          reader[c] = "adding" /\ reader'[c] = "prompt" /\ shown'[c] = "OK"
          => effect[c]]_cliVars

(* A command that the server has refused has changed nothing: the user may *)
(* correct it and try again.                                               *)
RefusedIsHarmless ==
    \A c \in Client :
       reader[c] \in {"adding", "removing"} /\ pc[c] = "idle"
       /\ ret[c] \in {"InvalidArgument", "NotFound"} => ~effect[c]

(* A command does not keep the prompt for ever.                            *)
PromptComesBack == \A c \in Client : reader[c] \in Waiting ~> reader[c] \notin Waiting

(* A client that is told to end does, also in the middle of a command and  *)
(* while its reader waits for a line: brutefp-cli.go:62-93.                *)
ClientEnds == \A c \in Client : cancelled[c] ~> reader[c] = "off"
=============================================================================
