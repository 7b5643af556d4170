------------------------------ MODULE CliProofs ------------------------------
(***************************************************************************)
(* Proofs about the command line client (Cli), for any number of clients,  *)
(* of other requests and of networks, whatever is typed, with either       *)
(* repository.  The lists keep the invariant of IPRulesProofs under the    *)
(* client, and restarts of the server at any moment besides.               *)
(***************************************************************************)
EXTENDS Cli, IPRulesProofs

-----------------------------------------------------------------------------
(* What a client that waits for the answer to a change of the lists may    *)
(* conclude from what the server has done with the request so far.         *)
WaitInv ==
    \A c \in Client :
       /\ reader[c] = "adding" =>
             /\ pc[c] \in {"idle", "validate", "insert", "readback"}
             /\ pc[c] \in {"validate", "insert"} => ~effect[c]
             /\ pc[c] = "readback" => effect[c]
             /\ pc[c] = "idle" /\ ret[c] = "OK" => effect[c]
       /\ reader[c] = "removing" =>
             /\ pc[c] \in {"idle", "find", "delete"}
             /\ pc[c] # "idle" => ~effect[c]
       /\ reader[c] \in {"adding", "removing"} /\ pc[c] = "idle"
          /\ ret[c] \in {"InvalidArgument", "NotFound"} => ~effect[c]

ClientInv == CliTypeOK /\ IInv /\ WaitInv

LEMMA ClientInit ==
    ASSUME CliInit
    PROVE  ClientInv
BY InitInv DEF CliInit, ClientInv, CliTypeOK, WaitInv

-----------------------------------------------------------------------------
(* The goroutines of the client                                            *)

LEMMA TypeStep ==
    ASSUME ClientInv, NEW c \in Client, NEW t \in Typed, Type(c, t)
    PROVE  ClientInv'
<1>0. TypeOK /\ IInv /\ CliTypeOK /\ WaitInv /\ c \in Handler
  BY ClientAssumption DEF ClientInv, CliTypeOK
<1>1. CASE TypeList(c, Fields[t])
  <2>1. PICK typ \in RuleType, n \in Net :
           \/ AddTo(c, typ, n) /\ Sends(c, "adding")
           \/ RemoveFrom(c, typ, n) /\ Sends(c, "removing")
    BY <1>1 DEF TypeList, IsListCommand, ListOf, RuleType
  <2>2. (TypeOK /\ IInv)'
    BY <1>0, <2>1, ArrivalInv
  <2>3. CliTypeOK'
    BY <1>0, <2>1, <2>2 DEF CliTypeOK, Sends, Waiting
  <2>4. \A d \in Client \ {c} :
           /\ pc'[d] = pc[d] /\ ret'[d] = ret[d]
           /\ reader'[d] = reader[d] /\ effect'[d] = effect[d]
    BY <1>0, <2>1, ClientAssumption
       DEF CliTypeOK, TypeOK, Sends, AddTo, RemoveFrom, Receive, Goto
  <2>5. /\ ~effect'[c]
        /\ \/ reader'[c] = "adding" /\ pc'[c] = "validate"
           \/ reader'[c] = "removing" /\ pc'[c] = "find"
    BY <1>0, <2>1 DEF CliTypeOK, TypeOK, Sends, AddTo, RemoveFrom, Receive, Goto
  <2>6. WaitInv'
    BY <1>0, <2>4, <2>5 DEF WaitInv
  <2> QED BY <2>2, <2>3, <2>6 DEF ClientInv
<1>2. CASE TypeReset(c, Fields[t]) \/ TypeInVain(c)
  <2>1. (TypeOK /\ IInv)'
    BY <1>0, <1>2, StutterRules DEF TypeReset, TypeInVain
  <2>2. CliTypeOK'
    BY <1>0, <1>2, <2>1 DEF CliTypeOK, TypeReset, TypeInVain, Sends, Prints, Waiting
  <2>3. WaitInv'
    BY <1>0, <1>2
       DEF CliTypeOK, WaitInv, TypeReset, TypeInVain, Sends, Prints, vars
  <2> QED BY <2>1, <2>2, <2>3 DEF ClientInv
<1> QED BY <1>1, <1>2 DEF Type

LEMMA ClientStep ==
    ASSUME ClientInv, NEW c \in Client,
           \/ Quit(c) \/ ShowAnswer(c) \/ ShowReset(c) \/ LoseAnswer(c)
           \/ StartClient(c) \/ SignalClient(c) \/ EndClient(c)
    PROVE  ClientInv'
<1>0. TypeOK /\ IInv /\ CliTypeOK /\ WaitInv
  BY DEF ClientInv, CliTypeOK
<1>1. UNCHANGED vars
  BY DEF Quit, ShowAnswer, ShowReset, LoseAnswer, StartClient, SignalClient,
         EndClient, ClientGone
<1>2. (TypeOK /\ IInv)'
  BY <1>0, <1>1, StutterRules
<1>3. CliTypeOK'
  BY <1>0, <1>2
     DEF CliTypeOK, Quit, ShowAnswer, ShowReset, LoseAnswer, StartClient,
         SignalClient, EndClient, ClientGone, Prints, Shown
<1>4. WaitInv'
  BY <1>0, <1>1
     DEF CliTypeOK, WaitInv, Quit, ShowAnswer, ShowReset, LoseAnswer, StartClient,
         SignalClient, EndClient, ClientGone, Prints, vars
<1> QED BY <1>2, <1>3, <1>4 DEF ClientInv

-----------------------------------------------------------------------------
(* The server                                                              *)

(* The end of the server's process refuses nothing and acknowledges        *)
(* nothing: who waits is told Unavailable.                                 *)
LEMMA EndsWait ==
    ASSUME CliTypeOK, WaitInv, ProcessEnds, UNCHANGED reader,
           \A c \in Client : pc[c] = "idle" => effect'[c] = effect[c]
    PROVE  WaitInv'
<1>1. \A c \in Client : c \in Handler
  BY ClientAssumption
<1>2. \A c \in Client :
         /\ pc'[c] = "idle"
         /\ ret'[c] = IF pc[c] = "idle" THEN ret[c] ELSE "Unavailable"
  BY <1>1 DEF ProcessEnds
<1> QED BY <1>2 DEF WaitInv

LEMMA ServerEndsStep ==
    ASSUME ClientInv, ServerEnds
    PROVE  ClientInv'
<1>1. (TypeOK /\ IInv)'
  BY ProcessEndsInv DEF ClientInv, CliTypeOK, ServerEnds
<1>2. WaitInv'
  BY EndsWait DEF ClientInv, ServerEnds, clientVars
<1> QED BY <1>1, <1>2 DEF ClientInv, CliTypeOK, ServerEnds, clientVars

(* What the server answers to a request of the slot, and what it has done. *)
LEMMA ProgressAnswers ==
    ASSUME TypeOK, IInv, NEW h \in Handler, Progress(h), ~Panic(h)
    PROVE  /\ \A g \in Handler \ {h} : pc'[g] = pc[g] /\ ret'[g] = ret[g]
           /\ \/ /\ pc[h] = "validate" /\ rules' = rules
                 /\ \/ pc'[h] = "insert"
                    \/ pc'[h] = "idle" /\ ret'[h] # "OK"
              \/ /\ pc[h] = "insert"
                 /\ \/ pc'[h] \in {"readback", "idle"} /\ rules' # rules
                    \/ pc'[h] = "idle" /\ ret'[h] = "Internal"
                 /\ pc'[h] = "idle" => ret'[h] \in {"OK", "Internal"}
              \/ /\ pc[h] = "readback" /\ rules' = rules
                 /\ pc'[h] = "idle" /\ ret'[h] \in {"OK", "Internal"}
              \/ /\ pc[h] = "find" /\ rules' = rules /\ pc'[h] \in {"delete", "idle"}
              \/ /\ pc[h] = "delete" /\ pc'[h] = "idle"
                 /\ ret'[h] \in {"OK", "Internal"}
<1>1. ASSUME NEW s, Goto(h, s)
      PROVE  pc'[h] = s /\ \A g \in Handler \ {h} : pc'[g] = pc[g]
  BY <1>1 DEF TypeOK, Goto
<1>2. ASSUME NEW a, Return(h, a)
      PROVE  /\ pc'[h] = "idle" /\ ret'[h] = a
             /\ \A g \in Handler \ {h} : pc'[g] = pc[g] /\ ret'[g] = ret[g]
  BY <1>2 DEF TypeOK, Return
<1>3. CASE ValidateAdd(h)
  <2>1. CASE Goto(h, "insert") /\ UNCHANGED <<ret, rules>>
    BY <1>1, <1>3, <2>1 DEF ValidateAdd
  <2>2. CASE \E a \in {"InvalidArgument", "Internal"} : Return(h, a)
    BY <1>2, <1>3, <2>2 DEF ValidateAdd
  <2> QED BY <1>3, <2>1, <2>2 DEF ValidateAdd, Status
<1>4. CASE Insert(h)
  <2>1. pc[h] = "insert" /\ rules' = Inserted(h)
    BY <1>4 DEF Insert
  <2>2. rules' # rules
    <3> DEFINE r == [type |-> req[h].type, net |-> req[h].net, by |-> h,
                     at |-> NextPlace(req[h].net)]
    <3>1. r \in rules' /\ r.net = req[h].net /\ r.by = h
      BY <2>1 DEF Inserted
    <3> HIDE DEF r
    <3> QED BY <2>1, <3>1 DEF IInv, RequestInv, Mine, RulesOf
  <2>3. CASE Return(h, "OK")
    BY <1>2, <2>1, <2>2, <2>3
  <2>4. CASE Goto(h, "readback") /\ UNCHANGED ret
    BY <1>1, <2>1, <2>2, <2>4
  <2> QED BY <1>4, <2>3, <2>4 DEF Insert
<1>5. CASE InsertFails(h)
  BY <1>2, <1>5 DEF InsertFails, Status
<1>6. CASE ReadBack(h)
  <2>1. PICK a \in {"OK", "Internal"} : Return(h, a)
    BY <1>6 DEF ReadBack, Status
  <2> QED BY <1>2, <1>6, <2>1 DEF ReadBack
<1>7. CASE Find(h)
  <2>1. CASE Goto(h, "delete") /\ UNCHANGED ret
    BY <1>1, <1>7, <2>1 DEF Find
  <2>2. CASE \E a : Return(h, a)
    BY <1>2, <1>7, <2>2 DEF Find
  <2> QED BY <1>7, <2>1, <2>2 DEF Find
<1>8. CASE Delete(h)
  BY <1>2, <1>8 DEF Delete
<1>9. CASE DeleteFails(h)
  BY <1>2, <1>9 DEF DeleteFails, Status
<1> QED BY <1>3, <1>4, <1>5, <1>6, <1>7, <1>8, <1>9 DEF Progress

LEMMA ServeStep ==
    ASSUME ClientInv, NEW h \in Handler, Serve(h)
    PROVE  ClientInv'
<1>0. TypeOK /\ IInv /\ CliTypeOK /\ WaitInv /\ Progress(h)
  BY DEF ClientInv, CliTypeOK, Serve
<1>1. (TypeOK /\ IInv)'
  BY <1>0, ProgressInv
<1>2. /\ UNCHANGED <<reader, cancelled, shown>>
      /\ \A c \in Client :
            effect'[c] = IF c = h /\ reader[c] \in Waiting
                         THEN effect[c] \/ rules' # rules ELSE effect[c]
  BY DEF Serve
<1>3. CliTypeOK'
  BY <1>0, <1>1 DEF CliTypeOK, Serve
<1>4. CASE Panic(h)
  <2>1. pc[h] = "readback" /\ ProcessEnds
    BY <1>4 DEF Panic
  <2>2. \A c \in Client : pc[c] = "idle" => effect'[c] = effect[c]
    BY <1>2, <2>1
  <2> QED BY <1>0, <1>1, <1>2, <1>3, <2>1, <2>2, EndsWait DEF ClientInv
<1>5. CASE ~Panic(h)
  <2>1. \A c \in Client \ {h} :
           pc'[c] = pc[c] /\ ret'[c] = ret[c] /\ effect'[c] = effect[c]
    BY <1>0, <1>2, <1>5, ProgressAnswers, ClientAssumption
  <2>2. WaitInv'
    <3>1. SUFFICES ASSUME NEW c \in Client, c = h, reader[c] \in {"adding", "removing"}
                   PROVE  WaitInv'
      BY <1>0, <1>2, <2>1 DEF WaitInv
    <3>2. effect'[c] <=> effect[c] \/ rules' # rules
      BY <1>2, <3>1, Zenon DEF Waiting
    <3>3. pc'[c] = "idle" /\ pc[c] \in {"insert", "readback", "delete"}
          => ret'[c] \in {"OK", "Internal"}
      BY <1>0, <1>5, <3>1, ProgressAnswers
    <3> QED BY <1>0, <1>2, <1>5, <2>1, <3>1, <3>2, <3>3, ProgressAnswers DEF WaitInv
  <2> QED BY <1>1, <1>3, <2>2 DEF ClientInv
<1> QED BY <1>4, <1>5

LEMMA OtherStep ==
    ASSUME ClientInv, NEW h \in Handler, OtherRequest(h)
    PROVE  ClientInv'
<1>0. TypeOK /\ IInv /\ CliTypeOK /\ WaitInv
  BY DEF ClientInv, CliTypeOK
<1>1. (TypeOK /\ IInv)'
  BY <1>0, ArrivalInv DEF OtherRequest
<1>2. h \notin Client /\ UNCHANGED clientVars
  BY DEF OtherRequest
<1>3. \A c \in Client : pc'[c] = pc[c] /\ ret'[c] = ret[c]
  <2>1. \E s, a : pc' = [pc EXCEPT ![h] = s] /\ ret' = [ret EXCEPT ![h] = a]
    BY DEF OtherRequest, AddTo, RemoveFrom, Receive, Goto, Lookup, Malformed, Return
  <2> QED BY <1>0, <1>2, <2>1, ClientAssumption DEF TypeOK
<1>4. WaitInv'
  BY <1>0, <1>2, <1>3 DEF WaitInv, clientVars
<1> QED BY <1>0, <1>1, <1>2, <1>4 DEF ClientInv, CliTypeOK, clientVars

LEMMA ClientNext ==
    ASSUME ClientInv, [CliNext]_cliVars
    PROVE  ClientInv'
<1>1. CASE CliNext
  BY <1>1, TypeStep, ClientStep, ServeStep, OtherStep, ServerEndsStep
     DEF CliNext, Reader
<1>2. CASE UNCHANGED cliVars
  <2>1. (TypeOK /\ IInv)'
    BY <1>2, StutterRules DEF ClientInv, CliTypeOK, cliVars
  <2> QED BY <1>2, <2>1 DEF ClientInv, CliTypeOK, WaitInv, cliVars, clientVars, vars
<1> QED BY <1>1, <1>2

-----------------------------------------------------------------------------
(* The inductive invariant holds in every state of every behaviour: with   *)
(* the client and restarts of the server too, no acknowledged rule is lost *)
(* (AckedRuleStays is a part of IInv).                                     *)
THEOREM ClientInvariance == CliSpec => []ClientInv
<1>1. CliInit => ClientInv
  BY ClientInit
<1>2. ClientInv /\ [CliNext]_cliVars => ClientInv'
  BY ClientNext
<1> QED BY <1>1, <1>2, PTL DEF CliSpec

(* Every variable of the clients, and of the lists under them, keeps its   *)
(* type: brutefp-cli.go:62-93.                                             *)
THEOREM ClientTypes == CliSpec => []CliTypeOK
<1>1. ClientInv => CliTypeOK
  BY DEF ClientInv
<1> QED BY <1>1, ClientInvariance, PTL

(* What was acknowledged is there and in force while clients come and go   *)
(* and the server is restarted in the middle of requests                   *)
(* (pgsql/ip_rule.go:24-43, docker-compose.yaml:36); in force with the     *)
(* same two exceptions in the database as in Effective.                    *)
THEOREM DurableAndEffective ==
    ASSUME NoSingleHost, NoIPv6Net
    PROVE  CliSpec => [](AckedRuleStays /\ AckedIsEffective)
<1>1. ClientInv => AckedRuleStays /\ AckedIsEffective
  BY EffectiveState DEF ClientInv, CliTypeOK, IInv
<1> QED BY <1>1, ClientInvariance, PTL

(* To the lists a step of the client is a step of theirs, or none, or the  *)
(* end of the server's process.                                            *)
LEMMA ClientOfLists ==
    ASSUME [CliNext]_cliVars
    PROVE  Next \/ UNCHANGED vars \/ ProcessEnds
<1>1. ASSUME NEW c \in Client, NEW t \in Typed, Type(c, t)
      PROVE  Next \/ UNCHANGED vars
  <2>1. CASE TypeList(c, Fields[t])
    <3>1. PICK typ \in RuleType, n \in Net : AddTo(c, typ, n) \/ RemoveFrom(c, typ, n)
      BY <2>1 DEF TypeList, IsListCommand, ListOf, RuleType
    <3> QED BY <3>1, ClientAssumption DEF Next
  <2> QED BY <1>1, <2>1 DEF Type, TypeReset, TypeInVain
<1>2. ASSUME NEW c \in Client,
             \/ Quit(c) \/ ShowAnswer(c) \/ ShowReset(c) \/ LoseAnswer(c)
             \/ StartClient(c) \/ SignalClient(c) \/ EndClient(c)
      PROVE  UNCHANGED vars
  BY <1>2 DEF Quit, ShowAnswer, ShowReset, LoseAnswer, StartClient, SignalClient,
              EndClient, ClientGone
<1>3. ASSUME NEW h \in Handler, Serve(h) \/ OtherRequest(h)
      PROVE  Next
  BY <1>3 DEF Serve, OtherRequest, Next
<1> QED BY <1>1, <1>2, <1>3 DEF CliNext, Reader, ServerEnds, cliVars

(* NotFound is true under the client too, and across restarts of the       *)
(* server: ip_rule.go:61-70.                                               *)
THEOREM NotFoundToClients == CliSpec => NotFoundIsTrue
<1>1. ASSUME ClientInv, [CliNext]_cliVars, NEW h \in Handler,
             pc[h] = "find", pc'[h] = "idle", ret'[h] = "NotFound"
      PROVE  Named(req[h].type, req[h].net) \notin acked
  <2>1. ~UNCHANGED vars /\ ~ProcessEnds
    BY <1>1 DEF vars, ProcessEnds
  <2> QED BY <1>1, <2>1, ClientOfLists, NotFoundStep DEF ClientInv, CliTypeOK
<1>2. ClientInv /\ [CliNext]_cliVars
      => [\A h \in Handler :
            pc[h] = "find" /\ pc'[h] = "idle" /\ ret'[h] = "NotFound"
            => Named(req[h].type, req[h].net) \notin acked]_vars
  BY <1>1
<1> QED BY <1>2, ClientInvariance, PTL DEF CliSpec, NotFoundIsTrue

(* The lists keep the promise of RuleBook while clients come and go and    *)
(* the server is restarted at any moment: a restart leaves the book as it  *)
(* was in the database, and empties it in memory                           *)
(* (pgsql/ip_rule.go:18-65, docker-compose.yaml:36).                       *)
THEOREM BookOfClients ==
    ASSUME NoSingleHost
    PROVE  CliSpec => KeepsBook
<1>1. CliInit => Book!Init
  BY BookInit DEF CliInit
<1>2. ClientInv /\ [CliNext]_cliVars => [Book!Next]_(Book!vars)
  BY ClientOfLists, BookStep DEF ClientInv, CliTypeOK
<1> QED BY <1>1, <1>2, ClientInvariance, PTL DEF CliSpec, KeepsBook, Book!Spec

(* A command that was refused has changed nothing: cmd_listadd.go:60-73,   *)
(* cmd_listrm.go.                                                          *)
THEOREM RefusalIsHarmless == CliSpec => []RefusedIsHarmless
<1>1. ClientInv => RefusedIsHarmless
  BY DEF ClientInv, WaitInv, RefusedIsHarmless
<1> QED BY <1>1, ClientInvariance, PTL

(* OK to an addition is said only of a request that added the rule.        *)
THEOREM OKIsTrue == CliSpec => AddedMeansAdded
<1>1. ASSUME ClientInv, CliNext, NEW c \in Client,
             reader[c] = "adding", reader'[c] = "prompt", shown'[c] = "OK"
      PROVE  effect[c]
  <2>1. reader' # reader
    BY <1>1
  <2>2. PICK d \in Client :
           \/ \E t \in Typed : Type(d, t)
           \/ Quit(d) \/ ShowAnswer(d) \/ ShowReset(d) \/ LoseAnswer(d)
           \/ StartClient(d) \/ SignalClient(d) \/ EndClient(d)
    BY <1>1, <2>1 DEF CliNext, Reader, Serve, OtherRequest, ServerEnds, clientVars
  <2>3. d = c
    <3>1. \E x : reader' = [reader EXCEPT ![d] = x]
      BY <2>1, <2>2
         DEF Type, TypeList, TypeReset, TypeInVain, Sends, Quit, ShowAnswer, ShowReset,
             LoseAnswer, StartClient, SignalClient, EndClient, ClientGone, Prints
    <3> QED BY <1>1, <3>1 DEF ClientInv, CliTypeOK
  <2>4. ShowAnswer(c) \/ LoseAnswer(c)
    BY <1>1, <2>2, <2>3
       DEF ClientInv, CliTypeOK, Type, Quit, ShowReset, StartClient, SignalClient,
           EndClient, ClientGone
  <2>5. ~LoseAnswer(c)
    BY <1>1 DEF ClientInv, CliTypeOK, LoseAnswer, Prints
  <2>6. pc[c] = "idle" /\ ret[c] = "OK"
    BY <1>1, <2>4, <2>5 DEF ClientInv, CliTypeOK, ShowAnswer, Prints, Shown
  <2> QED BY <1>1, <2>6 DEF ClientInv, WaitInv
<1>2. ClientInv /\ [CliNext]_cliVars
      => [\A c \in Client :
            reader[c] = "adding" /\ reader'[c] = "prompt" /\ shown'[c] = "OK"
            => effect[c]]_cliVars
  BY <1>1
<1> QED BY <1>2, ClientInvariance, PTL DEF CliSpec, AddedMeansAdded
=============================================================================
