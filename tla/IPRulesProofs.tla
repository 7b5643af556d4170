---------------------------- MODULE IPRulesProofs ----------------------------
(***************************************************************************)
(* Proofs about the white and the black list (IPRules), for every set of   *)
(* networks and any number of requests in progress, with either            *)
(* repository.                                                             *)
(***************************************************************************)
EXTENDS IPRules, TLAPS

-----------------------------------------------------------------------------
LEMMA InitInv ==
    ASSUME Init
    PROVE  TypeOK /\ IInv
BY DEF Init, TypeOK, IInv, OneRulePerHandler, AckedRuleStays, RequestInv,
       Request, Step, Answer

(* An answer that leaves the rules alone disturbs nothing.                 *)
LEMMA ReturnInv ==
    ASSUME TypeOK, IInv, NEW h \in Handler, NEW a \in Answer,
           Return(h, a), UNCHANGED <<rules, acked>>
    PROVE  (TypeOK /\ IInv)'
<1>1. TypeOK'
  BY DEF TypeOK, Return, Request, Step, IsRule
<1>2. OneRulePerHandler' /\ AckedRuleStays'
  BY DEF IInv, OneRulePerHandler, AckedRuleStays, RulesOf
<1>3. RequestInv'
  BY DEF TypeOK, Return, IInv, RequestInv, Mine, RulesOf
<1> QED BY <1>1, <1>2, <1>3 DEF IInv

(* A request that comes in, or is turned away, disturbs nothing.           *)
LEMMA ArrivalInv ==
    ASSUME TypeOK, IInv, NEW h \in Handler,
           \/ \E typ \in RuleType, n \in Net : AddTo(h, typ, n) \/ RemoveFrom(h, typ, n)
           \/ \E ip \in IP : Lookup(h, ip)
           \/ Malformed(h)
    PROVE  (TypeOK /\ IInv)'
<1>1. ASSUME NEW typ \in RuleType, NEW n \in Net, NEW op \in {"add", "remove"},
             NEW step \in {"validate", "find"}, Receive(h, op, typ, n, step)
      PROVE  (TypeOK /\ IInv)'
  <2>1. TypeOK'
    BY <1>1 DEF TypeOK, Receive, Goto, Request, Step, Answer, IsRule
  <2>2. OneRulePerHandler' /\ AckedRuleStays'
    BY <1>1 DEF Receive, IInv, OneRulePerHandler, AckedRuleStays, RulesOf
  <2>3. RequestInv'
    BY <1>1, StoreAssumption
       DEF TypeOK, Receive, Goto, IInv, RequestInv, Mine, RulesOf, NoReq
  <2> QED BY <2>1, <2>2, <2>3 DEF IInv
<1> QED BY <1>1, ReturnInv DEF AddTo, RemoveFrom, Lookup, Malformed, Status, Verdicts,
       Verdict, Answer

(* What a request in progress asks for. *)
LEMMA RequestFacts ==
    ASSUME TypeOK, RequestInv, NEW h \in Handler, pc[h] # "idle"
    PROVE  req[h].type \in RuleType /\ req[h].net \in Net /\ req[h].op \in {"add", "remove"}
BY DEF TypeOK, RequestInv, Request

(* The rule that a request adds is the only one of its slot in the network.*)
LEMMA InsertedInv ==
    ASSUME TypeOK, IInv, NEW h \in Handler, pc[h] = "insert", rules' = Inserted(h)
    PROVE  /\ \A r \in rules' : IsRule(r)
           /\ OneRulePerHandler'
           /\ \A r \in rules' : r.net = req[h].net /\ r.by = h => r.type = req[h].type
           /\ \E r \in rules' : r.net = req[h].net /\ r.type = req[h].type
           /\ \A g \in Handler \ {h} :
                 \A r \in rules' : r.by = g => r \in rules
           /\ rules \subseteq rules'
<1> DEFINE new == [type |-> req[h].type, net |-> req[h].net, by |-> h,
                   at |-> NextPlace(req[h].net)]
<1>1. rules' = rules \cup {new} /\ new.type = req[h].type
      /\ new.net = req[h].net /\ new.by = h
  BY DEF Inserted
<1> HIDE DEF new
<1>2. IsRule(new)
  BY <1>1, RequestFacts DEF IsRule, IInv
<1>3. \A r \in rules : ~(r.net = req[h].net /\ r.by = h)
  BY DEF IInv, RequestInv, Mine, RulesOf
<1>4. OneRulePerHandler'
  BY <1>1, <1>3 DEF IInv, OneRulePerHandler
<1> QED BY <1>1, <1>2, <1>3, <1>4 DEF TypeOK

(* A deletion leaves what it did not find, and an acknowledged rule of     *)
(* another network or type.                                                *)
LEMMA DeletedInv ==
    ASSUME TypeOK, IInv, NEW h \in Handler, NEW a \in Answer, pc[h] = "delete",
           rules' = rules \ Deleted(h),
           acked' = acked \ {Named(found[h], req[h].net)},
           Return(h, a)
    PROVE  (TypeOK /\ IInv)'
<1>1. TypeOK'
  BY DEF TypeOK, Return, Request, Step, IsRule
<1>2. OneRulePerHandler'
  BY DEF IInv, OneRulePerHandler
<1>3. AckedRuleStays'
  <2>1. SUFFICES ASSUME NEW c \in acked'
                 PROVE  \E r \in rules' : r.net = c.net /\ r.type = c.type
    BY DEF AckedRuleStays, RulesOf
  <2>2. PICK r \in rules : r.net = c.net /\ r.type = c.type
    BY <2>1 DEF IInv, AckedRuleStays, RulesOf
  <2>3. c # Named(found[h], req[h].net) /\ c = [type |-> c.type, net |-> c.net]
    BY <2>1 DEF TypeOK
  <2>4. r \notin Deleted(h)
    BY <2>2, <2>3 DEF Deleted, Named
  <2> QED BY <2>2, <2>4
<1>4. RequestInv'
  BY DEF TypeOK, Return, IInv, RequestInv, Mine, RulesOf
<1> QED BY <1>1, <1>2, <1>3, <1>4 DEF IInv

(* Nor does the end of the process: what is lost was not acknowledged, or  *)
(* everything is.                                                          *)
LEMMA ProcessEndsInv ==
    ASSUME TypeOK, IInv, ProcessEnds
    PROVE  (TypeOK /\ IInv)'
<1>1. UNCHANGED <<rules, acked>> \/ (rules' = {} /\ acked' = {})
  BY Zenon DEF ProcessEnds
<1>2. /\ pc' = [h \in Handler |-> "idle"]
      /\ req' = [h \in Handler |-> NoReq]
      /\ found' = [h \in Handler |-> "none"]
      /\ ret' = [h \in Handler |-> IF pc[h] = "idle" THEN ret[h] ELSE "Unavailable"]
  BY DEF ProcessEnds
<1>3. TypeOK'
  BY <1>1, <1>2 DEF TypeOK, Request, Step, Answer, IsRule
<1>4. OneRulePerHandler' /\ AckedRuleStays' /\ RequestInv'
  BY <1>1, <1>2 DEF IInv, OneRulePerHandler, AckedRuleStays, RulesOf, RequestInv
<1> QED BY <1>3, <1>4 DEF IInv

LEMMA ProgressInv ==
    ASSUME TypeOK, IInv, NEW h \in Handler, Progress(h)
    PROVE  (TypeOK /\ IInv)'
<1>0. OneRulePerHandler /\ AckedRuleStays /\ RequestInv
  BY DEF IInv
<1>1. CASE ValidateAdd(h)
  <2>1. CASE RulesOf(req[h].net) = {} /\ Goto(h, "insert") /\ UNCHANGED <<req, found, ret>>
    <3>1. UNCHANGED <<rules, acked>> /\ pc[h] = "validate"
      BY <1>1 DEF ValidateAdd
    <3>2. TypeOK'
      BY <2>1, <3>1 DEF TypeOK, Goto, Step, IsRule
    <3>3. OneRulePerHandler' /\ AckedRuleStays'
      BY <1>0, <3>1 DEF OneRulePerHandler, AckedRuleStays, RulesOf
    <3>4. RequestInv'
      BY <1>0, <2>1, <3>1 DEF TypeOK, Goto, RequestInv, Mine, RulesOf
    <3> QED BY <3>2, <3>3, <3>4 DEF IInv
  <2>2. CASE \E a \in Answer : Return(h, a)
    BY <1>1, <2>2, ReturnInv DEF ValidateAdd
  <2> QED BY <1>1, <2>1, <2>2 DEF ValidateAdd, Status, Answer
<1>2. CASE Insert(h)
  <2>1. pc[h] = "insert" /\ rules' = Inserted(h)
    BY <1>2 DEF Insert
  <2>2. CASE Store = "memory"
    <3>1. Return(h, "OK") /\ acked' = acked \cup {Named(req[h].type, req[h].net)}
      BY <1>2, <2>2 DEF Insert
    <3>2. TypeOK'
      BY <1>0, <2>1, <3>1, InsertedInv, RequestFacts
         DEF TypeOK, Return, Named, Request, Step, Answer
    <3>3. AckedRuleStays'
      BY <1>0, <2>1, <3>1, InsertedInv DEF AckedRuleStays, RulesOf, Named
    <3>4. RequestInv'
      BY <1>0, <2>1, <3>1, InsertedInv DEF TypeOK, Return, RequestInv, Mine, RulesOf
    <3> QED BY <2>1, <3>2, <3>3, <3>4, InsertedInv DEF IInv
  <2>3. CASE Store # "memory"
    <3>1. Goto(h, "readback") /\ UNCHANGED <<req, found, ret, acked>>
      BY <1>2, <2>3 DEF Insert
    <3>2. TypeOK'
      BY <2>1, <3>1, InsertedInv DEF TypeOK, Goto, Step
    <3>3. AckedRuleStays'
      BY <1>0, <2>1, <3>1, InsertedInv DEF AckedRuleStays, RulesOf
    <3>4. RequestInv'
      BY <1>0, <2>1, <3>1, InsertedInv DEF TypeOK, Goto, RequestInv, Mine, RulesOf
    <3> QED BY <2>1, <3>2, <3>3, <3>4, InsertedInv DEF IInv
  <2> QED BY <2>2, <2>3
<1>3. CASE InsertFails(h)
  <2>1. pc[h] = "insert" /\ acked' = acked /\ Return(h, "Internal") /\ "Internal" \in Answer
    BY <1>3 DEF InsertFails, Status, Answer
  <2>2. CASE rules' = rules
    BY <2>1, <2>2, ReturnInv
  <2>3. CASE rules' = Inserted(h)
    <3>1. TypeOK'
      BY <2>1, <2>3, InsertedInv DEF TypeOK, Return, Request, Step, Answer
    <3>2. AckedRuleStays'
      BY <1>0, <2>1, <2>3, InsertedInv DEF AckedRuleStays, RulesOf
    <3>3. RequestInv'
      BY <1>0, <2>1, <2>3, InsertedInv DEF TypeOK, Return, RequestInv, Mine, RulesOf
    <3> QED BY <2>1, <2>3, <3>1, <3>2, <3>3, InsertedInv DEF IInv
  <2> QED BY <1>3, <2>2, <2>3 DEF InsertFails
<1>4. CASE ReadBack(h)
  <2>1. CASE /\ Mine(h) # {} /\ Return(h, "OK")
             /\ acked' = acked \cup {Named(req[h].type, req[h].net)}
    <3>1. rules' = rules /\ pc[h] = "readback" /\ "OK" \in Answer
      BY <1>4 DEF ReadBack, Answer
    <3>2. TypeOK'
      BY <1>0, <2>1, <3>1, RequestFacts DEF TypeOK, Return, Named, Request, Step, IsRule
    <3>3. AckedRuleStays'
      BY <1>0, <2>1, <3>1 DEF AckedRuleStays, RequestInv, RulesOf, Mine, Named
    <3>4. OneRulePerHandler' /\ RequestInv'
      BY <1>0, <2>1, <3>1
         DEF TypeOK, Return, OneRulePerHandler, RequestInv, Mine, RulesOf
    <3> QED BY <3>2, <3>3, <3>4 DEF IInv
  <2>2. CASE Return(h, "Internal") /\ UNCHANGED acked
    BY <1>4, <2>2, ReturnInv DEF ReadBack, Answer
  <2> QED BY <1>4, <2>1, <2>2 DEF ReadBack, Status
<1>5. CASE Panic(h)
  BY <1>5, ProcessEndsInv DEF Panic
<1>6. CASE Find(h)
  <2>1. CASE \E r \in rules : /\ Goto(h, "delete")
                             /\ found' = [found EXCEPT ![h] = r.type]
                             /\ UNCHANGED <<req, ret>>
    <3>1. UNCHANGED <<rules, acked>> /\ pc[h] = "find"
      BY <1>6 DEF Find
    <3>0. found'[h] \in RuleType /\ UNCHANGED req
      BY <2>1 DEF TypeOK, IsRule
    <3>2. TypeOK'
      BY <2>1, <3>1 DEF TypeOK, Goto, Step, IsRule
    <3>3. OneRulePerHandler' /\ AckedRuleStays'
      BY <1>0, <3>1 DEF OneRulePerHandler, AckedRuleStays, RulesOf
    <3>4. RequestInv'
      <4>1. pc'[h] = "delete" /\ req[h] # NoReq
        BY <1>0, <2>1, <3>1 DEF TypeOK, Goto, RequestInv
      <4>2. \A g \in Handler \ {h} :
              pc'[g] = pc[g] /\ found'[g] = found[g] /\ Mine(g)' = Mine(g)
        BY <2>1, <3>0, <3>1 DEF TypeOK, Goto, Mine, RulesOf
      <4> QED BY <1>0, <3>0, <4>1, <4>2 DEF RequestInv
    <3> QED BY <3>2, <3>3, <3>4 DEF IInv
  <2>2. CASE \E a \in Answer : Return(h, a)
    BY <1>6, <2>2, ReturnInv DEF Find
  <2> QED BY <1>6, <2>1, <2>2 DEF Find, Status, Answer, RulesOf
<1>7. CASE Delete(h)
  BY <1>7, DeletedInv DEF Delete, Answer
<1>8. CASE DeleteFails(h)
  BY <1>8, DeletedInv, ReturnInv DEF DeleteFails, Status, Answer
<1> QED BY <1>1, <1>2, <1>3, <1>4, <1>5, <1>6, <1>7, <1>8 DEF Progress

(* A step of somebody else.                                                *)
LEMMA StutterRules ==
    ASSUME TypeOK, IInv, UNCHANGED vars
    PROVE  (TypeOK /\ IInv)'
BY DEF vars, TypeOK, IsRule, IInv, OneRulePerHandler, AckedRuleStays, RequestInv,
       RulesOf, Mine

LEMMA NextInv ==
    ASSUME TypeOK, IInv, [Next]_vars
    PROVE  (TypeOK /\ IInv)'
<1>1. CASE Next
  BY <1>1, ArrivalInv, ProgressInv DEF Next
<1> QED BY <1>1, StutterRules

-----------------------------------------------------------------------------
(* The inductive invariant holds in every state of every behaviour.        *)
THEOREM Invariance == Spec => [](TypeOK /\ IInv)
<1>1. Init => TypeOK /\ IInv
  BY InitInv
<1>2. (TypeOK /\ IInv) /\ [Next]_vars => (TypeOK /\ IInv)'
  BY NextInv
<1> QED BY <1>1, <1>2, PTL DEF Spec

(* However many requests race, a network never gets two rules from one     *)
(* request slot: there are at most as many duplicates of a rule as         *)
(* requests were in progress (ip_rule.go:35 and 42).                       *)
THEOREM DuplicatesBounded == Spec => []OneRulePerHandler
<1>1. IInv => OneRulePerHandler
  BY DEF IInv
<1> QED BY <1>1, Invariance, PTL

(* A rule whose addition was answered OK stays until a removal deletes it, *)
(* through failing statements and restarts of the process alike.           *)
THEOREM Durability == Spec => []AckedRuleStays
<1>1. IInv => AckedRuleStays
  BY DEF IInv
<1> QED BY <1>1, Invariance, PTL

(* Every variable has its type: no request is answered with a status that  *)
(* rqres.FromError does not know.                                          *)
THEOREM TypeCorrect == Spec => []TypeOK
BY Invariance, PTL

-----------------------------------------------------------------------------
(* The database applies a rule to the addresses of a network that is larger*)
(* than one address.                                                       *)
NoSingleHost ==
    Store = "pgsql" => \A n \in Net : \A ip \in Hosts[n] : Hosts[n] # {ip}

(* The database repository searches for IPv4 addresses only.               *)
NoIPv6Net ==
    Store = "pgsql" => \A n \in Net : Hosts[n] \cap IPv6 = {}

LEMMA ReadsOrdered ==
    ASSUME Store = "pgsql", NEW S, NEW r \in S, NEW list \in Reads(S),
           \A q \in S : q.type \in RuleType
    PROVE  /\ \E q \in list : q \in S
           /\ r.type = "allow" => \E q \in list : q.type = "allow"
<1>1. PICK q \in list : q \in S
  BY DEF Reads
<1>2. ASSUME r.type = "allow", q.type = "deny"
      PROVE  r \in list
  BY <1>1, <1>2 DEF Reads, Before
<1> QED BY <1>1, <1>2 DEF RuleType

(* A verdict on an address of an acknowledged rule is the right one.       *)
LEMMA VerdictsRight ==
    ASSUME NoSingleHost, TypeOK, IInv, NEW a \in acked, NEW ip \in Hosts[a.net],
           NEW v \in Verdicts(ip)
    PROVE  v = "allow" \/ (a.type = "deny" /\ v = "deny")
<1>1. PICK list \in Reads(Covering(ip)) : v = Verdict(list)
  BY DEF Verdicts
<1>2. PICK r \in rules : r.net = a.net /\ r.type = a.type
  BY DEF IInv, AckedRuleStays, RulesOf
<1>3. a.net \in Net /\ a.type \in RuleType
  BY DEF TypeOK
<1>4. r \in Covering(ip)
  BY <1>2, <1>3, StoreAssumption DEF NoSingleHost, Covering, Covers
<1>5. \A q \in Covering(ip) : q.type \in RuleType
  BY DEF Covering, TypeOK, IsRule
<1>6. CASE Store = "memory"
  BY <1>1, <1>2, <1>3, <1>4, <1>6 DEF Reads, Verdict, RuleType
<1>7. CASE Store = "pgsql"
  <2>1. /\ \E q \in list : q.type \in RuleType
        /\ r.type = "allow" => \E q \in list : q.type = "allow"
    BY <1>4, <1>5, <1>7, ReadsOrdered
  <2> QED BY <1>1, <1>2, <1>3, <2>1 DEF Verdict, RuleType
<1> QED BY <1>6, <1>7, StoreAssumption

(* An IPv4 address can be searched for.                                    *)
LEMMA VerdictsExist ==
    ASSUME NEW ip, ~SearchFails(ip)
    PROVE  Verdicts(ip) # {}
<1>1. Covering(ip) \in Reads(Covering(ip))
  BY DEF Reads
<1> QED BY <1>1 DEF Verdicts

(* Why NoIPv6Net is needed: a rule for an IPv6 network, once acknowledged, *)
(* is never in force in the database (service/ip_rule.go:62).              *)
LEMMA IPv6NeverInForce ==
    ASSUME Store = "pgsql", NEW a \in acked, NEW ip \in Hosts[a.net], ip \in IPv6
    PROVE  ~AckedIsEffective
BY DEF AckedIsEffective, Verdicts, SearchFails

LEMMA EffectiveState ==
    ASSUME NoSingleHost, NoIPv6Net, TypeOK, IInv
    PROVE  AckedIsEffective
<1>1. SUFFICES ASSUME NEW a \in acked, NEW ip \in Hosts[a.net]
               PROVE  /\ Verdicts(ip) # {}
                      /\ \A v \in Verdicts(ip) :
                            v = "allow" \/ (a.type = "deny" /\ v = "deny")
  BY DEF AckedIsEffective
<1>2. ~SearchFails(ip)
  BY DEF TypeOK, NoIPv6Net, SearchFails
<1> QED BY <1>2, VerdictsExist, VerdictsRight

(* An acknowledged rule is in force for every address of its network, also *)
(* when the connection breaks in the middle of the list                    *)
(* (pgsql/ip_rule.go:57-64).  In the database this is so for networks of   *)
(* more than one address and of IPv4 only: the rules of the others are     *)
(* never applied, as the run rules_single_host and IPv6NeverInForce show.  *)
THEOREM Effective ==
    ASSUME NoSingleHost, NoIPv6Net
    PROVE  Spec => []AckedIsEffective
<1>1. TypeOK /\ IInv => AckedIsEffective
  BY EffectiveState
<1> QED BY <1>1, Invariance, PTL

(* Only Find answers a removal that is looking for its rule NotFound.      *)
LEMMA NotFoundStep ==
    ASSUME TypeOK, IInv, Next, NEW h \in Handler,
           pc[h] = "find", pc'[h] = "idle", ret'[h] = "NotFound"
    PROVE  Named(req[h].type, req[h].net) \notin acked
<1>1. PICK g \in Handler :
         \/ \E typ \in RuleType, n \in Net : AddTo(g, typ, n) \/ RemoveFrom(g, typ, n)
         \/ \E ip \in IP : Lookup(g, ip)
         \/ Malformed(g)
         \/ Progress(g)
  BY DEF Next
<1>2. ~ProcessEnds
  BY DEF ProcessEnds
<1>3. ~Panic(g)
  BY <1>2 DEF Panic
<1>4. ASSUME NEW s, NEW x, pc[x] # "find", pc' = [pc EXCEPT ![x] = s]
      PROVE  FALSE
  BY <1>4 DEF TypeOK
<1>5. pc[g] = "find"
  BY <1>1, <1>3, <1>4
     DEF AddTo, RemoveFrom, Receive, Lookup, Malformed, Progress, ValidateAdd, Insert,
         InsertFails, ReadBack, Find, Delete, DeleteFails, Return, Goto
<1>6. Find(g)
  BY <1>1, <1>3, <1>5
     DEF AddTo, RemoveFrom, Receive, Lookup, Malformed, Progress, ValidateAdd, Insert,
         InsertFails, ReadBack, Delete, DeleteFails
<1>7. g = h
  <2>1. \E s : pc' = [pc EXCEPT ![g] = s]
    BY <1>6 DEF Find, Return, Goto
  <2> QED BY <2>1 DEF TypeOK
<1>8. RulesOf(req[h].net) = {}
  <2>1. \A a : Return(h, a) => a = "NotFound"
    BY DEF Return, TypeOK
  <2>2. ~\E r \in RulesOf(req[h].net) : Goto(h, "delete")
    BY DEF Goto, TypeOK
  <2> QED BY <1>6, <1>7, <2>1, <2>2 DEF Find, Status
<1> QED BY <1>8 DEF IInv, AckedRuleStays, Named

(* NotFound is said of a network that no acknowledged rule is for          *)
(* (ip_rule.go:61-70).                                                     *)
THEOREM NotFoundTrue == Spec => NotFoundIsTrue
<1>1. TypeOK /\ IInv /\ [Next]_vars
      => [\A h \in Handler :
            pc[h] = "find" /\ pc'[h] = "idle" /\ ret'[h] = "NotFound"
            => Named(req[h].type, req[h].net) \notin acked]_vars
  BY NotFoundStep
<1> QED BY <1>1, Invariance, PTL DEF Spec, NotFoundIsTrue

-----------------------------------------------------------------------------
(* The lists implement RuleBook.                                           *)

LEMMA BookInit ==
    ASSUME Init
    PROVE  Book!Init
BY DEF Init, Book!Init, InForce, PhaseOf, SubjectOf, Named, NoReq, Book!NoRule,
       Book!Rule

(* An answer of a request is its answer in the book.                       *)
LEMMA BookAnswer ==
    ASSUME TypeOK, NEW h \in Handler, NEW a, Return(h, a)
    PROVE  Book!Answer(h, a)
<1>1. [g \in Handler |-> PhaseOf(pc[g])]'
      = [[g \in Handler |-> PhaseOf(pc[g])] EXCEPT ![h] = "idle"]
  BY DEF TypeOK, Return, PhaseOf
<1>2. SubjectOf(h)' = Book!NoRule
  BY DEF TypeOK, Return, SubjectOf, Named, NoReq, Book!NoRule, Book!Rule
<1>3. \A g \in Handler \ {h} : SubjectOf(g)' = SubjectOf(g)
  BY DEF TypeOK, Return, SubjectOf, Named
<1>4. [g \in Handler |-> SubjectOf(g)]'
      = [[g \in Handler |-> SubjectOf(g)] EXCEPT ![h] = Book!NoRule]
  BY <1>2, <1>3
<1> QED BY <1>1, <1>4 DEF Return, Book!Answer

(* A request that goes on to another step, which the book knows as p.      *)
LEMMA BookGoto ==
    ASSUME TypeOK, NEW h \in Handler, NEW step, NEW p, Goto(h, step), PhaseOf(step) = p
    PROVE  [g \in Handler |-> PhaseOf(pc[g])]'
           = [[g \in Handler |-> PhaseOf(pc[g])] EXCEPT ![h] = p]
BY DEF TypeOK, Goto

LEMMA BookAsk ==
    ASSUME TypeOK, NEW h \in Handler, NEW typ \in RuleType, NEW n \in Net,
           AddTo(h, typ, n) \/ RemoveFrom(h, typ, n)
    PROVE  Book!Request(h)
<1>1. PICK op \in {"add", "remove"}, step \in {"validate", "find"} :
         Receive(h, op, typ, n, step)
  BY DEF AddTo, RemoveFrom
<1> DEFINE change == IF step = "validate" THEN "adding" ELSE "removing"
<1>2. [g \in Handler |-> PhaseOf(pc[g])]'
      = [[g \in Handler |-> PhaseOf(pc[g])] EXCEPT ![h] = change]
  BY <1>1, BookGoto DEF Receive, PhaseOf
<1>3. SubjectOf(h)' = Book!Rule(typ, n)
  BY <1>1 DEF TypeOK, Receive, Goto, SubjectOf, Named, Book!Rule
<1>4. \A g \in Handler \ {h} : SubjectOf(g)' = SubjectOf(g)
  BY <1>1 DEF TypeOK, Receive, Goto, SubjectOf, Named
<1>5. [g \in Handler |-> SubjectOf(g)]'
      = [[g \in Handler |-> SubjectOf(g)] EXCEPT ![h] = Book!Rule(typ, n)]
  BY <1>3, <1>4
<1>6. Book!Ask(h, change, Book!Rule(typ, n))
  BY <1>1, <1>2, <1>5 DEF Receive, Book!Ask, PhaseOf, InForce
<1>7. change \in {"adding", "removing"} /\ typ \in Book!RuleType
  BY DEF RuleType, Book!RuleType
<1> QED BY <1>6, <1>7 DEF Book!Request

-----------------------------------------------------------------------------
(* What the changes of the table are in the book                           *)

LEMMA BookWith ==
    ASSUME NEW h \in Handler, pc[h] = "insert", rules' = Inserted(h)
    PROVE  InForce' = Book!With(h)
<1> DEFINE new == [type |-> req[h].type, net |-> req[h].net, by |-> h,
                   at |-> NextPlace(req[h].net)]
<1>1. rules' = rules \cup {new} /\ Named(new.type, new.net) = SubjectOf(h)
  BY DEF Inserted, SubjectOf, Named
<1> HIDE DEF new
<1>2. InForce' = InForce \cup {SubjectOf(h)}
  BY <1>1 DEF InForce
<1> QED BY <1>2 DEF Book!With

LEMMA BookWithout ==
    ASSUME NEW h \in Handler, pc[h] = "delete", rules' = rules \ Deleted(h)
    PROVE  InForce' = Book!Without(h)
<1>1. SubjectOf(h) = Named(found[h], req[h].net)
  BY DEF SubjectOf
<1>2. \A r \in rules : r \in Deleted(h) <=> Named(r.type, r.net) = SubjectOf(h)
  BY <1>1 DEF Deleted, Named
<1>3. InForce' = InForce \ {SubjectOf(h)}
  BY <1>2 DEF InForce
<1> QED BY <1>3 DEF Book!Without

(* The network of a request that is not idle has a rule in the book        *)
(* exactly if it has one in the table.                                     *)
LEMMA BookHas ==
    ASSUME NEW h \in Handler
    PROVE  RulesOf(req[h].net) = {} <=> \A r \in InForce : r.net # SubjectOf(h).net
<1>1. SubjectOf(h).net = req[h].net
  BY DEF SubjectOf, Named
<1>2. \A r : Named(r.type, r.net).net = r.net
  BY DEF Named
<1> QED BY <1>1, <1>2 DEF RulesOf, InForce

LEMMA BookVerdict ==
    ASSUME NoSingleHost, TypeOK, NEW ip \in IP, NEW list \in Reads(Covering(ip))
    PROVE  Verdict(list) = Book!Verdict(ip)
<1>1. \A r \in rules : r.net \in Net /\ r.type \in RuleType
  BY DEF TypeOK, IsRule
<1>2. Covering(ip) = {r \in rules : ip \in Hosts[r.net]}
  BY <1>1, StoreAssumption DEF NoSingleHost, Covering, Covers
<1>3. \A typ : Book!Says(typ, ip) <=> \E r \in Covering(ip) : r.type = typ
  <2>1. \A r : Named(r.type, r.net).net = r.net /\ Named(r.type, r.net).type = r.type
    BY DEF Named
  <2> QED BY <1>2, <2>1 DEF Book!Says, InForce
<1>4. (\E r \in Covering(ip) : r.type = "allow") <=> \E r \in list : r.type = "allow"
  <2>1. CASE Store = "memory"
    BY <2>1 DEF Reads
  <2>2. CASE Store = "pgsql"
    BY <1>1, <1>2, <2>2, ReadsOrdered DEF Reads
  <2> QED BY <2>1, <2>2, StoreAssumption
<1>5. ASSUME ~\E r \in Covering(ip) : r.type = "allow"
      PROVE  (\E r \in Covering(ip) : r.type = "deny") <=> \E r \in list : r.type = "deny"
  <2>1. CASE Store = "memory"
    BY <2>1 DEF Reads
  <2>2. CASE Store = "pgsql"
    BY <1>1, <1>2, <1>5, <2>2 DEF Reads, RuleType
  <2> QED BY <2>1, <2>2, StoreAssumption
<1> QED BY <1>3, <1>4, <1>5 DEF Verdict, Book!Verdict

-----------------------------------------------------------------------------
(* The steps of a request                                                  *)

LEMMA BookAddition ==
    ASSUME TypeOK, IInv, NEW h \in Handler,
           ValidateAdd(h) \/ Insert(h) \/ InsertFails(h) \/ ReadBack(h)
    PROVE  Book!Change(h) \/ UNCHANGED Book!vars
<1> USE DEF PhaseOf
<1>1. CASE ValidateAdd(h)
  <2>1. InForce' = InForce /\ pc[h] = "validate"
    BY <1>1 DEF ValidateAdd, InForce
  <2>2. CASE Goto(h, "insert") /\ UNCHANGED <<req, found, ret>>
    <3>1. [g \in Handler |-> PhaseOf(pc[g])]' = [g \in Handler |-> PhaseOf(pc[g])]
      BY <2>1, <2>2 DEF TypeOK, Goto
    <3>2. \A g \in Handler : SubjectOf(g)' = SubjectOf(g)
      BY <2>1, <2>2 DEF TypeOK, Goto, SubjectOf, Named
    <3> QED BY <2>1, <2>2, <3>1, <3>2 DEF Book!vars
  <2>3. CASE RulesOf(req[h].net) # {} /\ Return(h, "InvalidArgument")
    <3>1. Book!Duplicate(h)
      BY <2>1, <2>3, BookHas, BookAnswer DEF Book!Duplicate
    <3> QED BY <3>1 DEF Book!Change
  <2>4. CASE MayFail /\ Return(h, "Internal")
    <3>1. Book!AddFails(h)
      BY <2>1, <2>4, BookAnswer DEF Book!AddFails, MayFail
    <3> QED BY <3>1 DEF Book!Change
  <2> QED BY <1>1, <2>2, <2>3, <2>4 DEF ValidateAdd, Status
<1>2. CASE Insert(h)
  <2>1. InForce' = Book!With(h) /\ pc[h] = "insert"
    BY <1>2, BookWith DEF Insert
  <2>2. CASE Return(h, "OK")
    <3>1. Book!Enter(h)
      BY <2>1, <2>2, BookAnswer DEF Book!Enter
    <3> QED BY <3>1 DEF Book!Change
  <2>3. CASE Goto(h, "readback") /\ UNCHANGED <<req, found, ret>>
    <3>1. \A g \in Handler : SubjectOf(g)' = SubjectOf(g)
      BY <2>1, <2>3 DEF TypeOK, Goto, SubjectOf, Named
    <3>2. Book!Write(h)
      BY <2>1, <2>3, <3>1, BookGoto DEF Book!Write
    <3> QED BY <3>2 DEF Book!Change
  <2> QED BY <1>2, <2>2, <2>3 DEF Insert
<1>3. CASE InsertFails(h)
  <2>1. InForce' \in {InForce, Book!With(h)} /\ pc[h] = "insert"
    BY <1>3, BookWith DEF InsertFails, InForce
  <2>2. Book!AddFails(h)
    BY <1>3, <2>1, BookAnswer DEF InsertFails, Status, Book!AddFails, MayFail
  <2> QED BY <2>2 DEF Book!Change
<1>4. CASE ReadBack(h)
  <2>1. InForce' = InForce /\ pc[h] = "readback"
    BY <1>4 DEF ReadBack, InForce
  <2>2. CASE Mine(h) # {} /\ Return(h, "OK")
    <3>1. PICK r \in rules : r.net = req[h].net /\ r.type = req[h].type
      BY <2>1, <2>2 DEF IInv, RequestInv, Mine, RulesOf
    <3>2. SubjectOf(h) \in InForce
      BY <2>1, <3>1 DEF SubjectOf, InForce
    <3>3. Book!Confirm(h)
      BY <2>1, <2>2, <3>2, BookAnswer DEF Book!Confirm
    <3> QED BY <3>3 DEF Book!Change
  <2>3. CASE MayFail /\ Return(h, "Internal")
    <3>1. Book!AddFails(h)
      BY <2>1, <2>3, BookAnswer DEF Book!AddFails, MayFail
    <3> QED BY <3>1 DEF Book!Change
  <2> QED BY <1>4, <2>2, <2>3 DEF ReadBack, Status
<1> QED BY <1>1, <1>2, <1>3, <1>4

LEMMA BookRemoval ==
    ASSUME TypeOK, IInv, NEW h \in Handler, Find(h) \/ Delete(h) \/ DeleteFails(h)
    PROVE  Book!Change(h)
<1> USE DEF PhaseOf
<1>1. CASE Find(h)
  <2>1. InForce' = InForce /\ pc[h] = "find"
    BY <1>1 DEF Find, InForce
  <2>2. ASSUME NEW r \in RulesOf(req[h].net), Goto(h, "delete"),
               found' = [found EXCEPT ![h] = r.type], UNCHANGED <<req, ret>>
        PROVE  Book!Find(h)
    <3>1. SubjectOf(h)' = Named(r.type, r.net)
      BY <2>2 DEF TypeOK, Goto, SubjectOf, RulesOf
    <3>2. \A g \in Handler \ {h} : SubjectOf(g)' = SubjectOf(g)
      BY <2>2 DEF TypeOK, Goto, SubjectOf
    <3>3. [g \in Handler |-> SubjectOf(g)]'
          = [[g \in Handler |-> SubjectOf(g)] EXCEPT ![h] = Named(r.type, r.net)]
      BY <3>1, <3>2
    <3>4. Named(r.type, r.net) \in InForce /\ Named(r.type, r.net).net = SubjectOf(h).net
      BY <2>2 DEF InForce, RulesOf, SubjectOf, Named
    <3> QED BY <2>1, <2>2, <3>3, <3>4, BookGoto DEF Book!Find
  <2>3. CASE RulesOf(req[h].net) = {} /\ Return(h, "NotFound")
    <3>1. Book!Missing(h)
      BY <2>1, <2>3, BookHas, BookAnswer DEF Book!Missing
    <3> QED BY <3>1 DEF Book!Change
  <2>4. CASE MayFail /\ Return(h, "InvalidArgument")
    <3>1. Book!FindFails(h)
      BY <2>1, <2>4, BookAnswer DEF Book!FindFails, MayFail
    <3> QED BY <3>1 DEF Book!Change
  <2> QED BY <1>1, <2>2, <2>3, <2>4 DEF Find, Status, Book!Change
<1>2. CASE Delete(h)
  <2>1. InForce' = Book!Without(h)
    BY <1>2, BookWithout DEF Delete
  <2>2. Book!Strike(h)
    BY <1>2, <2>1, BookAnswer DEF Delete, Book!Strike
  <2> QED BY <2>2 DEF Book!Change
<1>3. CASE DeleteFails(h)
  <2>1. InForce' \in {InForce, Book!Without(h)}
    BY <1>3, BookWithout DEF DeleteFails, InForce
  <2>2. Book!StrikeFails(h)
    BY <1>3, <2>1, BookAnswer DEF DeleteFails, Status, Book!StrikeFails, MayFail
  <2> QED BY <2>2 DEF Book!Change
<1> QED BY <1>1, <1>2, <1>3

LEMMA BookLookup ==
    ASSUME NoSingleHost, TypeOK, NEW h \in Handler, NEW ip \in IP, Lookup(h, ip)
    PROVE  Book!Search(h, ip)
<1>1. InForce' = InForce /\ pc[h] = "idle"
  BY DEF Lookup, InForce
<1>2. ASSUME NEW list \in Reads(Covering(ip)), Return(h, Verdict(list))
      PROVE  Book!Answer(h, Book!Verdict(ip))
  BY <1>2, BookVerdict, BookAnswer
<1>3. ASSUME MayFail \/ SearchFails(ip), Return(h, "Internal")
      PROVE  Store = "pgsql" /\ Book!Answer(h, "Internal")
  BY <1>3, BookAnswer DEF MayFail, SearchFails
<1> QED BY <1>1, <1>2, <1>3 DEF Lookup, Verdicts, Status, Book!Search, PhaseOf

LEMMA BookRestart ==
    ASSUME TypeOK, ProcessEnds
    PROVE  Book!Restart
<1>1. InForce' = IF Store = "pgsql" THEN InForce ELSE {}
  BY StoreAssumption DEF ProcessEnds, InForce
<1>2. [h \in Handler |-> PhaseOf(pc[h])]' = [h \in Handler |-> "idle"]
  BY DEF ProcessEnds, PhaseOf
<1>3. [h \in Handler |-> SubjectOf(h)]' = [h \in Handler |-> Book!NoRule]
  BY DEF ProcessEnds, SubjectOf, Named, NoReq, Book!NoRule, Book!Rule
<1>4. \A h \in Handler : PhaseOf(pc[h]) = "idle" <=> pc[h] = "idle"
  BY DEF TypeOK, Step, PhaseOf
<1> QED BY <1>1, <1>2, <1>3, <1>4 DEF ProcessEnds, Book!Restart

(* Every step over the lists, and the end of the process, is a step of the *)
(* book or is not seen in it.                                              *)
LEMMA BookStep ==
    ASSUME NoSingleHost, TypeOK, IInv, Next \/ ProcessEnds \/ UNCHANGED vars
    PROVE  [Book!Next]_(Book!vars)
<1>1. CASE UNCHANGED vars
  BY <1>1 DEF vars, Book!vars, InForce, PhaseOf, SubjectOf
<1>2. CASE ProcessEnds
  BY <1>2, BookRestart DEF Book!Next
<1>3. ASSUME NEW h \in Handler,
             \/ \E typ \in RuleType, n \in Net : AddTo(h, typ, n) \/ RemoveFrom(h, typ, n)
             \/ \E ip \in IP : Lookup(h, ip)
             \/ Malformed(h)
      PROVE  Book!Request(h)
  <2>1. CASE Malformed(h)
    BY <2>1, BookAnswer
       DEF Malformed, Status, InForce, PhaseOf, Book!Malformed, Book!Request
  <2> QED BY <1>3, <2>1, BookAsk, BookLookup DEF Book!Request
<1>4. ASSUME NEW h \in Handler, Progress(h)
      PROVE  Book!Restart \/ Book!Change(h) \/ UNCHANGED Book!vars
  BY <1>4, BookAddition, BookRemoval, BookRestart DEF Progress, Panic
<1> QED BY <1>1, <1>2, <1>3, <1>4 DEF Next, Book!Next

(* The lists keep the promise of RuleBook: whatever statements interleave, *)
(* fail or lose their answers, and wherever a list is cut short, a request *)
(* changes the book, or is answered from the whole of it, at one moment    *)
(* between its arrival and its answer (service/ip_rule.go:17-107).         *)
THEOREM KeepsTheBook ==
    ASSUME NoSingleHost
    PROVE  Spec => KeepsBook
<1>1. Init => Book!Init
  BY BookInit
<1>2. TypeOK /\ IInv /\ [Next]_vars => [Book!Next]_(Book!vars)
  BY BookStep
<1> QED BY <1>1, <1>2, Invariance, PTL DEF Spec, KeepsBook, Book!Spec
=============================================================================
