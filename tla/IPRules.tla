------------------------------- MODULE IPRules -------------------------------
(***************************************************************************)
(* The white and the black list: the gRPC handlers of IPRule               *)
(* (internal/handler/grpc/ip_rule_impl.go), the service they call          *)
(* (internal/service/ip_rule.go) and its two repositories, in memory and   *)
(* in PostgreSQL (internal/repository).                                    *)
(*                                                                         *)
(* Every request runs in a goroutine of its own.  A call of the repository *)
(* is one step (a critical section of the memory repository's mutex, or a  *)
(* statement the database runs in a transaction of its own); between two   *)
(* calls the other requests go on.  Nothing but the primary key constrains *)
(* the table.                                                              *)
(***************************************************************************)
EXTENDS Integers, FiniteSets

CONSTANTS
    Net,        \* networks, as ParseCIDR normalises them
    IP,         \* addresses that are asked for
    Hosts,      \* the addresses of a network
    IPv6,       \* the addresses that are not IPv4
    Handler,    \* requests that can be in progress at a time
    Store,      \* the repository in use: "memory" or "pgsql"
    NoNet

ASSUME StoreAssumption ==
    /\ Store \in {"memory", "pgsql"}
    /\ Hosts \in [Net -> SUBSET IP]
    /\ IPv6 \subseteq IP
    /\ NoNet \notin Net

VARIABLES
    rules,      \* the rules of the repository
    pc,         \* the next step of a request
    req,        \* what the request asks for
    found,      \* the type of the rule that a removal found
    ret,        \* the status or verdict a handler answered last
    (* history *)
    acked       \* rules whose addition was acknowledged, until deleted

vars == <<rules, pc, req, found, ret, acked>>

RuleType == {"allow", "deny"}

(***************************************************************************)
(* A rule, with the request slot that added it and its place among the     *)
(* rules of its network (the memory repository keeps the order of          *)
(* addition).  Slot and network identify a rule (OneRulePerHandler): they  *)
(* stand for its UUID.                                                     *)
(***************************************************************************)
IsRule(r) == r.type \in RuleType /\ r.net \in Net /\ r.by \in Handler

NoReq   == [op |-> "none", type |-> "none", net |-> NoNet]
Request == [op: {"add", "remove"}, type: RuleType, net: Net] \cup {NoReq}

Step   == {"idle", "validate", "insert", "readback", "find", "delete"}
Answer == {"none", "OK", "InvalidArgument", "NotFound", "Internal",
           "Unavailable", "allow", "deny", "norule"}

TypeOK ==
    /\ \A r \in rules : IsRule(r)
    /\ pc \in [Handler -> Step]
    /\ req \in [Handler -> Request]
    /\ found \in [Handler -> RuleType \cup {"none"}]
    /\ ret \in [Handler -> Answer]
    /\ acked \subseteq [type: RuleType, net: Net]

Init ==
    /\ rules = {}
    /\ pc = [h \in Handler |-> "idle"]
    /\ req = [h \in Handler |-> NoReq]
    /\ found = [h \in Handler |-> "none"]
    /\ ret = [h \in Handler |-> "none"]
    /\ acked = {}

-----------------------------------------------------------------------------
(* The repository                                                          *)

RulesOf(n) == {r \in rules : r.net = n}

(* The order of a list: of addition in memory, of the type in the database *)
(* (the enum ip_rules_type has allow before deny).                         *)
Before(q, r) ==
    IF Store = "memory" THEN q.at < r.at
    ELSE q.type = "allow" /\ r.type = "deny"

IsFirst(r, list) == r \in list /\ \A q \in list : ~Before(q, r)

(* GetList without IPNetExact: net.IPNet.Contains in memory, the operator  *)
(* << (is contained by and is not equal) in the database.                  *)
Covers(r, ip) ==
    /\ ip \in Hosts[r.net]
    /\ Store = "pgsql" => Hosts[r.net] # {ip}

(***************************************************************************)
(* What a reader of a list gets.  GetList does not ask rows.Err: when the  *)
(* connection breaks it returns the rows read so far, without an error.    *)
(* The driver reads the first row before the query returns, so a list that *)
(* is cut short is never emptied.  All but Lookup ask for no more than the *)
(* first row.                                                              *)
(***************************************************************************)
ReadsUnordered(list) ==                                         \* mutant
    IF Store = "memory" THEN {list}
    ELSE {cut \in SUBSET list : list # {} => cut # {}}

Reads(list) ==
    IF Store = "memory" THEN {list}
    ELSE {cut \in SUBSET list :
             /\ list # {} => cut # {}
             /\ \A r \in cut, q \in list : Before(q, r) => q \in cut}

(* A statement may fail in the database only. *)
MayFail == Store = "pgsql"

(* The search of the service puts an IPv4 mask on every address, and the   *)
(* text of an IPv6 address with such a mask is not an inet.                *)
SearchFails(ip) == Store = "pgsql" /\ ip \in IPv6

NextPlace(n) ==
    LET places == {0} \cup {r.at : r \in RulesOf(n)}
    IN  1 + (CHOOSE p \in places : \A q \in places : q <= p)

-----------------------------------------------------------------------------
(* Mutant: a duplicate has a code of its own. *)
StatusOfDuplicate(error) ==
    CASE error = "logic" -> "AlreadyExists"
      [] error = "notfound" -> "NotFound"
      [] OTHER -> "Internal"

(* Mutant: the service does not mark the errors of the database. *)
StatusUnmarked(error) ==
    IF error = "notfound" THEN "NotFound" ELSE "InvalidArgument"

(* rqres.FromError: the gRPC status of an error.  The service marks what   *)
(* the database reports as fatal, except in GetByIPNet.                    *)
Status(error) ==
    CASE error = "logic" -> "InvalidArgument"
      [] error = "notfound" -> "NotFound"
      [] error = "fatal" -> "Internal"
      [] OTHER -> "InvalidArgument"

Named(typ, n) == [type |-> typ, net |-> n]

Goto(h, step) == pc' = [pc EXCEPT ![h] = step]

Return(h, answer) ==
    /\ pc' = [pc EXCEPT ![h] = "idle"]
    /\ req' = [req EXCEPT ![h] = NoReq]
    /\ found' = [found EXCEPT ![h] = "none"]
    /\ ret' = [ret EXCEPT ![h] = answer]

Receive(h, op, typ, n, step) ==
    /\ pc[h] = "idle"
    /\ Goto(h, step)
    /\ req' = [req EXCEPT ![h] = [op |-> op, type |-> typ, net |-> n]]
    /\ ret' = [ret EXCEPT ![h] = "none"]
    /\ UNCHANGED <<rules, found, acked>>

AddTo(h, typ, n)      == Receive(h, "add", typ, n, "validate")
RemoveFrom(h, typ, n) == Receive(h, "remove", typ, n, "find")

(* The network does not parse. *)
Malformed(h) ==
    /\ pc[h] = "idle"
    /\ Return(h, Status("parse"))
    /\ UNCHANGED <<rules, acked>>

-----------------------------------------------------------------------------
(* AddToWhiteList, AddToBlackList                                          *)

(* Mutant: nobody looks for a duplicate. *)
ValidateAddBlindly(h) ==
    /\ pc[h] = "validate"
    /\ Goto(h, "insert")
    /\ UNCHANGED <<rules, req, found, ret, acked>>

(* Mutant: it looks again until the duplicate has gone. *)
ValidateAddAgain(h) ==
    /\ pc[h] = "validate"
    /\ RulesOf(req[h].net) = {}
    /\ Goto(h, "insert")
    /\ UNCHANGED <<rules, req, found, ret, acked>>

(* One network is in one list at most, whichever the list. *)
ValidateAdd(h) ==
    /\ pc[h] = "validate"
    /\ \/ IF RulesOf(req[h].net) = {}
          THEN Goto(h, "insert") /\ UNCHANGED <<req, found, ret>>
          ELSE Return(h, Status("logic"))
       \/ MayFail /\ Return(h, Status("fatal"))
    /\ UNCHANGED <<rules, acked>>

Inserted(h) ==
    rules \cup {[type |-> req[h].type, net |-> req[h].net, by |-> h,
                 at |-> NextPlace(req[h].net)]}

Insert(h) ==
    /\ pc[h] = "insert"
    /\ rules' = Inserted(h)
    /\ IF Store = "memory"
       THEN /\ Return(h, "OK")
            /\ acked' = acked \cup {Named(req[h].type, req[h].net)}
       ELSE /\ Goto(h, "readback")
            /\ UNCHANGED <<req, found, ret, acked>>

(* The database may have run the statement whose answer was lost; whether  *)
(* it has is settled by the time the request is answered.                  *)
InsertFails(h) ==
    /\ pc[h] = "insert"
    /\ MayFail
    /\ rules' \in {rules, Inserted(h)}
    /\ Return(h, Status("fatal"))
    /\ UNCHANGED acked

Mine(h) == {r \in RulesOf(req[h].net) : r.by = h}

(* The database repository reads the new row back by its id. *)
ReadBack(h) ==
    /\ pc[h] = "readback"
    /\ \/ /\ Mine(h) # {}
          /\ Return(h, "OK")
          /\ acked' = acked \cup {Named(req[h].type, req[h].net)}
       \/ /\ MayFail
          /\ Return(h, Status("fatal"))
          /\ UNCHANGED acked
    /\ UNCHANGED rules

(* The process ends and docker starts it again: every request in progress  *)
(* is lost, and so is what is in memory; the table stays.                  *)
ProcessEnds ==
    /\ pc' = [h \in Handler |-> "idle"]
    /\ req' = [h \in Handler |-> NoReq]
    /\ found' = [h \in Handler |-> "none"]
    /\ ret' = [h \in Handler |-> IF pc[h] = "idle" THEN ret[h] ELSE "Unavailable"]
    /\ IF Store = "memory"
       THEN rules' = {} /\ acked' = {}
       ELSE UNCHANGED <<rules, acked>>

(* rules[0] of an empty list.  No interceptor recovers.                    *)
Panic(h) ==
    /\ pc[h] = "readback"
    /\ Mine(h) = {}
    /\ ProcessEnds

-----------------------------------------------------------------------------
(* DeleteFromWhiteList, DeleteFromBlackList                                *)

(* GetByIPNet searches for the network alone, not for its type. *)
Find(h) ==
    /\ pc[h] = "find"
    /\ \/ \E r \in RulesOf(req[h].net) :
             /\ IsFirst(r, RulesOf(req[h].net))
             /\ Goto(h, "delete")
             /\ found' = [found EXCEPT ![h] = r.type]
             /\ UNCHANGED <<req, ret>>
       \/ RulesOf(req[h].net) = {} /\ Return(h, Status("notfound"))
       \/ MayFail /\ Return(h, Status("database"))
    /\ UNCHANGED <<rules, acked>>

DeletedOfBoth(h) == RulesOf(req[h].net)     \* mutant: from both lists

(* Mutant: the oldest of the duplicates, as if by its id. *)
DeletedOldest(h) ==
    LET same == {r \in RulesOf(req[h].net) : r.type = found[h]}
    IN  {r \in same : \A q \in same : r.at <= q.at}

Deleted(h) == {r \in rules : r.net = req[h].net /\ r.type = found[h]}

Delete(h) ==
    /\ pc[h] = "delete"
    /\ rules' = rules \ Deleted(h)
    /\ acked' = acked \ {Named(found[h], req[h].net)}
    /\ Return(h, "OK")

(* As an insertion that fails. *)
DeleteFails(h) ==
    /\ pc[h] = "delete"
    /\ MayFail
    /\ \/ /\ rules' = rules \ Deleted(h)
          /\ acked' = acked \ {Named(found[h], req[h].net)}
       \/ UNCHANGED <<rules, acked>>
    /\ Return(h, Status("fatal"))

-----------------------------------------------------------------------------
(* GetRuleTypeForIP: the first question of CheckQuery                      *)

Covering(ip) == {r \in rules : Covers(r, ip)}

Verdict(list) ==
    IF \E r \in list : r.type = "allow" THEN "allow"
    ELSE IF \E r \in list : r.type = "deny" THEN "deny"
    ELSE "norule"

(* The verdicts that a search for ip can come to, if any. *)
Verdicts(ip) ==
    IF SearchFails(ip) THEN {} ELSE {Verdict(list) : list \in Reads(Covering(ip))}

Lookup(h, ip) ==
    /\ pc[h] = "idle"
    /\ \/ \E v \in Verdicts(ip) : Return(h, v)
       \/ (MayFail \/ SearchFails(ip)) /\ Return(h, Status("fatal"))
    /\ UNCHANGED <<rules, acked>>

-----------------------------------------------------------------------------
Progress(h) ==
    \/ ValidateAdd(h) \/ Insert(h) \/ InsertFails(h) \/ ReadBack(h) \/ Panic(h)
    \/ Find(h) \/ Delete(h) \/ DeleteFails(h)

Next ==
    \E h \in Handler :
       \/ \E typ \in RuleType, n \in Net : AddTo(h, typ, n) \/ RemoveFrom(h, typ, n)
       \/ \E ip \in IP : Lookup(h, ip)
       \/ Malformed(h)
       \/ Progress(h)

Spec == Init /\ [][Next]_vars

(* A request in progress goes on; nobody has to send one. *)
FairSpec == Spec /\ \A h \in Handler : WF_vars(Progress(h))

-----------------------------------------------------------------------------
(* Safety                                                                  *)

(* The check for a duplicate and the insertion are two steps (ip_rule.go:35*)
(* and 42), so a network may get several rules; but only one per request   *)
(* that was in progress at the time.                                       *)
OneRulePerHandler == \A q, r \in rules : q.net = r.net /\ q.by = r.by => q = r

(* An acknowledged rule is there until a removal deletes it: no other      *)
(* request or failure loses it, and no restart but that of the memory      *)
(* repository.                                                             *)
AckedRuleStays ==
    \A a \in acked : \E r \in RulesOf(a.net) : r.type = a.type

(* An acknowledged rule is in force for every address of its network: a    *)
(* search for the address can come to a verdict, and whichever it comes to *)
(* is that of the rule, or of the white list, which goes before the black  *)
(* list, even when the list of the rules is cut short:                     *)
(* service/ip_rule.go:57-82, pgsql/ip_rule.go:46 and 57-64.                *)
AckedIsEffective ==
    \A a \in acked : \A ip \in Hosts[a.net] :
       /\ Verdicts(ip) # {}
       /\ \A v \in Verdicts(ip) : v = "allow" \/ (a.type = "deny" /\ v = "deny")

(* A removal that is answered NotFound was right: no addition of the       *)
(* network to that list was acknowledged and not deleted since.            *)
NotFoundIsTrue ==
    [][\A h \in Handler :
          pc[h] = "find" /\ pc'[h] = "idle" /\ ret'[h] = "NotFound"
          => Named(req[h].type, req[h].net) \notin acked]_vars

(* Every request is answered. *)
Answered == \A h \in Handler : pc[h] # "idle" ~> pc[h] = "idle"

-----------------------------------------------------------------------------
(* The inductive invariant behind the two: a request that is about to      *)
(* insert has no rule of the network, one that reads back has its own.     *)
RequestInv ==
    \A h \in Handler :
       /\ pc[h] # "idle" => req[h] # NoReq
       /\ pc[h] = "insert" => Mine(h) = {}
       /\ pc[h] = "readback" => \A r \in Mine(h) : r.type = req[h].type
       /\ pc[h] = "delete" => found[h] \in RuleType

IInv == OneRulePerHandler /\ AckedRuleStays /\ RequestInv

-----------------------------------------------------------------------------
(* The lists as RuleBook describes them: duplicates of a rule are one rule *)
(* of the book, and what a request knows of the table is left out.         *)
PhaseOf(step) ==
    CASE step = "idle" -> "idle"
      [] step \in {"validate", "insert"} -> "adding"
      [] step = "readback" -> "added"
      [] step = "find" -> "removing"
      [] OTHER -> "found"

SubjectOf(h) ==
    Named(IF pc[h] = "delete" THEN found[h] ELSE req[h].type, req[h].net)

InForce == {Named(r.type, r.net) : r \in rules}

Book == INSTANCE RuleBook WITH
    book <- InForce,
    phase <- [h \in Handler |-> PhaseOf(pc[h])],
    subject <- [h \in Handler |-> SubjectOf(h)],
    Database <- (Store = "pgsql")

(* Every request changes the book, or is answered from the whole of it, at *)
(* one moment, although it is a sequence of statements that may fail, be   *)
(* cut short or lose their answers, and others go on between them:         *)
(* service/ip_rule.go:17-107, pgsql/ip_rule.go:18-65.                      *)
KeepsBook == Book!Spec

-----------------------------------------------------------------------------
(* What the tests, comments and messages say and the code does not do      *)

(* "specified network already exists": a network is in one list, once      *)
(* (the duplicates of tests/ip_rule_test.go:70-73, 95-98).                 *)
OneRulePerNet == \A n \in Net : Cardinality(RulesOf(n)) <= 1

(* "network removed successfully from %s" (ip_rule_impl.go:83): a removal  *)
(* from a list removes from that list.                                     *)
RemovesFromItsList ==
    [][\A h \in Handler :
          pc[h] = "delete" /\ pc'[h] = "idle" /\ ret'[h] = "OK"
          => \A r \in rules \ rules' : r.type = req[h].type]_vars

(* "white ok" (tests/ip_rule_test.go:65-66): an addition is answered; it   *)
(* never ends the process.                                                 *)
NeverUnavailable == \A h \in Handler : ret[h] # "Unavailable"
=============================================================================
