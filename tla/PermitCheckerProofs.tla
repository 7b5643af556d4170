------------------------- MODULE PermitCheckerProofs -------------------------
(***************************************************************************)
(* Proofs about the permit service (PermitChecker), for every set of       *)
(* networks, logins, passwords and spellings, any limits, any number of    *)
(* requests in progress and either repository.                             *)
(***************************************************************************)
EXTENDS PermitChecker, IPRulesProofs, FiniteSetTheorems

-----------------------------------------------------------------------------
(* The lists                                                               *)

(* A step that changes no more than an answer keeps what IPRules promises. *)
LEMMA AnswerOnly ==
    ASSUME TypeOK, IInv, UNCHANGED listVars, NEW h \in Handler, NEW a \in Answer,
           ret' = [ret EXCEPT ![h] = a] \/ UNCHANGED ret
    PROVE  (TypeOK /\ IInv)'
<1>1. TypeOK'
  BY DEF TypeOK, listVars, IsRule
<1>2. OneRulePerHandler' /\ AckedRuleStays' /\ RequestInv'
  BY DEF IInv, listVars, OneRulePerHandler, AckedRuleStays, RulesOf, RequestInv, Mine
<1> QED BY <1>1, <1>2 DEF IInv

(* Every step of the permit service keeps it.                              *)
LEMMA ListsInv ==
    ASSUME TypeOK, IInv, PermitNext
    PROVE  (TypeOK /\ IInv)'
<1> USE DEF Answer
<1>1. ASSUME NEW h \in Handler, PermitRequest(h)
      PROVE  (TypeOK /\ IInv)'
  <2>1. UNCHANGED listVars /\ \E a \in Answer : ret' = [ret EXCEPT ![h] = a]
    BY <1>1 DEF PermitRequest, CheckQuery, ResetLogin, ResetIP, Begin, BadAddress,
                Answers, Status
  <2> QED BY <2>1, AnswerOnly
<1>2. ASSUME NEW h \in Handler, AskRules(h)
      PROVE  (TypeOK /\ IInv)'
  <2>1. Lookup(h, Parse[query[h].ip])
    BY <1>2 DEF AskRules
  <2>2. \E a \in Answer : Return(h, a) /\ UNCHANGED <<rules, acked>>
    BY <2>1 DEF Lookup, Verdicts, Verdict, Status
  <2> QED BY <2>2, ReturnInv
<1>3. ASSUME NEW h \in Handler, AskLimit(h) \/ ResetBucket(h)
      PROVE  (TypeOK /\ IInv)'
  <2>1. UNCHANGED listVars
        /\ \E a \in Answer : ret' = [ret EXCEPT ![h] = a] \/ UNCHANGED ret
    BY <1>3 DEF AskLimit, Pass, Exceed, Settle, ResetBucket, Answers, Status, vars, listVars
  <2> QED BY <2>1, AnswerOnly
<1>4. ASSUME NEW h \in Handler, ListRequest(h) \/ ListStep(h)
      PROVE  (TypeOK /\ IInv)'
  BY <1>4, ArrivalInv, ProgressInv DEF ListRequest, ListStep, Progress
<1>5. ASSUME NEW b \in Bucket, Roll(b)
      PROVE  (TypeOK /\ IInv)'
  BY <1>5, NextInv DEF Roll
<1>6. CASE Crash
  BY <1>6, ProcessEndsInv DEF Crash
<1> QED BY <1>1, <1>2, <1>3, <1>4, <1>5, <1>6 DEF PermitNext, PermitStep

-----------------------------------------------------------------------------
(* The calls                                                               *)

LEMMA BucketFacts ==
    ASSUME NEW b \in Bucket
    PROVE  b[1] \in Param /\ LimitOf[b[1]] \in Int
BY PermitAssumption DEF Bucket, Param

(* The bucket that a check or a reset asks for.                            *)
LEMMA BucketOfCall ==
    ASSUME PermitTypeOK, CallInv, NEW h \in Handler
    PROVE  /\ step[h] \in Param => BucketOf(step[h], query[h]) \in Bucket
           /\ step[h] \in Resets => BucketOf(ResetOf(h), query[h]) \in Bucket
<1>1. ASSUME NEW t \in Text, Parse[t] # NoIP
      PROVE  Parse[t] \in IP
  BY <1>1, PermitAssumption
<1>2. ASSUME step[h] \in Param
      PROVE  BucketOf(step[h], query[h]) \in Bucket
  BY <1>1, <1>2 DEF CallInv, Checks, Param, Query, BucketOf, Bucket
<1>3. ASSUME step[h] \in Resets
      PROVE  BucketOf(ResetOf(h), query[h]) \in Bucket
  BY <1>1, <1>3 DEF CallInv, Resets, BucketOf, ResetOf, Bucket
<1> QED BY <1>2, <1>3

(* What the step of one request leaves of the others.                      *)
LEMMA OthersKeep ==
    ASSUME TypeOK, NEW h \in Handler,
           \/ ListRequest(h) \/ ListStep(h) \/ AskRules(h)
    PROVE  \A g \in Handler \ {h} : pc'[g] = pc[g] /\ ret'[g] = ret[g]
<1>1. ASSUME NEW a, Return(h, a)
      PROVE  \A g \in Handler \ {h} : pc'[g] = pc[g] /\ ret'[g] = ret[g]
  BY <1>1 DEF Return, TypeOK
<1>2. ASSUME NEW s, Goto(h, s), UNCHANGED ret
      PROVE  \A g \in Handler \ {h} : pc'[g] = pc[g] /\ ret'[g] = ret[g]
  BY <1>2 DEF Goto, TypeOK
<1>3. ASSUME NEW typ, NEW n, AddTo(h, typ, n) \/ RemoveFrom(h, typ, n)
      PROVE  \A g \in Handler \ {h} : pc'[g] = pc[g] /\ ret'[g] = ret[g]
  BY <1>3 DEF AddTo, RemoveFrom, Receive, Goto, TypeOK
<1>4. CASE ListRequest(h)
  BY <1>1, <1>3, <1>4 DEF ListRequest, Malformed
<1>5. CASE ListStep(h)
  BY <1>1, <1>2, <1>5 DEF ListStep, ValidateAdd, Insert, InsertFails, ReadBack, Find,
                          Delete, DeleteFails
<1>6. CASE AskRules(h)
  BY <1>1, <1>6 DEF AskRules, Lookup
<1> QED BY <1>4, <1>5, <1>6

(* A permit request asks for what its step says, and leaves the lists and  *)
(* the status alone until it is over.                                      *)
LEMMA CallStep ==
    ASSUME PermitTypeOK, CallInv, PermitNext
    PROVE  CallInv'
<1>0. TypeOK
  BY DEF PermitTypeOK
<1> DEFINE Kept(g) == /\ step'[g] = step[g] /\ query'[g] = query[g]
                      /\ pc'[g] = pc[g] /\ ret'[g] = ret[g]
           Fine(g) ==
              /\ step'[g] # "idle" => pc'[g] = "idle" /\ ret'[g] \in {"none", "norule"}
              /\ step'[g] \in Checks => query'[g] \in Query /\ Parse[query'[g].ip] # NoIP
              /\ step'[g] = "reset login" => query'[g] \in [login: Login]
              /\ step'[g] = "reset ip"
                 => query'[g] \in [ip: Text] /\ Parse[query'[g].ip] # NoIP
<1>1. ASSUME NEW g \in Handler, Kept(g)
      PROVE  Fine(g)
  BY <1>1 DEF CallInv
<1>2. ASSUME NEW g \in Handler, step'[g] = "idle"
      PROVE  Fine(g)
  BY <1>2 DEF Checks, Param
<1>3. ASSUME NEW h \in Handler, PermitRequest(h)
      PROVE  \A g \in Handler : Fine(g)
  <2>1. CASE BadAddress(h)
    <3>1. \A g \in Handler \ {h} : Kept(g)
      BY <2>1, <1>0 DEF BadAddress, Answers, End, PermitTypeOK, TypeOK, listVars
    <3>2. step'[h] = "idle"
      BY <2>1 DEF BadAddress, Answers, End, PermitTypeOK
    <3> QED BY <1>1, <1>2, <3>1, <3>2
  <2>2. ASSUME NEW s \in {"rules"} \cup Resets, NEW q, Begin(h, s, q),
               q \in Query \cup [login: Login] \cup [ip: Text]
        PROVE  /\ \A g \in Handler \ {h} : Kept(g)
               /\ step'[h] = s /\ query'[h] = q
               /\ pc'[h] = "idle" /\ ret'[h] = "none"
    BY <2>2, <1>0 DEF Begin, Free, PermitTypeOK, TypeOK, listVars
  <2>3. ASSUME NEW q \in Query, CheckQuery(h, q)
        PROVE  \A g \in Handler : Fine(g)
    <3>1. Parse[q.ip] # NoIP /\ Begin(h, "rules", q)
      BY <2>3 DEF CheckQuery
    <3>2. /\ \A g \in Handler \ {h} : Kept(g)
          /\ step'[h] = "rules" /\ query'[h] = q /\ pc'[h] = "idle" /\ ret'[h] = "none"
      BY <2>2, <3>1
    <3>3. Fine(h)
      BY <3>1, <3>2 DEF Checks, Param
    <3> QED BY <1>1, <3>2, <3>3
  <2>4. ASSUME NEW l \in Login, ResetLogin(h, l)
        PROVE  \A g \in Handler : Fine(g)
    <3>1. Begin(h, "reset login", [login |-> l])
      BY <2>4 DEF ResetLogin
    <3>2. /\ \A g \in Handler \ {h} : Kept(g)
          /\ step'[h] = "reset login" /\ query'[h] = [login |-> l]
          /\ pc'[h] = "idle" /\ ret'[h] = "none"
      BY <2>2, <3>1 DEF Resets
    <3>3. Fine(h)
      <4>1. [login |-> l] \in [login: Login]
        OBVIOUS
      <4> QED BY <3>2, <4>1 DEF Checks, Param
    <3> QED BY <1>1, <3>2, <3>3
  <2>5. ASSUME NEW t \in Text, ResetIP(h, t)
        PROVE  \A g \in Handler : Fine(g)
    <3>1. Parse[t] # NoIP /\ Begin(h, "reset ip", [ip |-> t])
      BY <2>5 DEF ResetIP
    <3>2. /\ \A g \in Handler \ {h} : Kept(g)
          /\ step'[h] = "reset ip" /\ query'[h] = [ip |-> t]
          /\ pc'[h] = "idle" /\ ret'[h] = "none"
      BY <2>2, <3>1 DEF Resets
    <3>3. Fine(h)
      <4>1. [ip |-> t] \in [ip: Text] /\ [ip |-> t].ip = t
        OBVIOUS
      <4> QED BY <3>1, <3>2, <4>1 DEF Checks, Param
    <3> QED BY <1>1, <3>2, <3>3
  <2> QED BY <1>3, <2>1, <2>3, <2>4, <2>5 DEF PermitRequest
<1>4. ASSUME NEW h \in Handler, AskRules(h)
      PROVE  \A g \in Handler : Fine(g)
  <2>1. \A g \in Handler \ {h} : Kept(g)
    BY <1>0, <1>4, OthersKeep DEF AskRules, End, PermitTypeOK
  <2>2. pc'[h] = "idle"
    BY <1>0, <1>4 DEF AskRules, Lookup, Return, TypeOK
  <2>3. CASE ret'[h] = "norule"
    <3>1. step'[h] = "login" /\ query'[h] = query[h] /\ step[h] = "rules"
      BY <1>4, <2>3 DEF AskRules, PermitTypeOK
    <3>2. Fine(h)
      BY <2>2, <2>3, <3>1 DEF CallInv, Checks, Param
    <3> QED BY <1>1, <2>1, <3>2
  <2>4. CASE ret'[h] # "norule"
    <3>1. step'[h] = "idle"
      BY <1>4, <2>4 DEF AskRules, End, PermitTypeOK
    <3> QED BY <1>1, <1>2, <2>1, <3>1
  <2> QED BY <2>3, <2>4
<1>5. ASSUME NEW h \in Handler, AskLimit(h) \/ ResetBucket(h)
      PROVE  \A g \in Handler : Fine(g)
  <2>1. CASE \E a : Answers(h, a)
    <3>1. step'[h] = "idle" /\ \A g \in Handler \ {h} : Kept(g)
      BY <1>0, <2>1 DEF Answers, End, PermitTypeOK, TypeOK, listVars
    <3> QED BY <1>1, <1>2, <3>1
  <2>2. CASE /\ step[h] \in Param /\ step' = [step EXCEPT ![h] = After(@)]
             /\ UNCHANGED <<vars, query>>
    <3>1. \A g \in Handler \ {h} : Kept(g)
      BY <2>2 DEF vars, PermitTypeOK
    <3>2. step'[h] \in Param /\ UNCHANGED <<pc, ret, query>>
      BY <2>2 DEF vars, PermitTypeOK, After, Param
    <3> QED BY <1>1, <2>2, <3>1, <3>2 DEF CallInv, Checks, Param
  <2> QED BY <1>5, <2>1, <2>2 DEF AskLimit, Pass, Exceed, Settle, ResetBucket
<1>6. ASSUME NEW h \in Handler, ListRequest(h) \/ ListStep(h)
      PROVE  \A g \in Handler : Fine(g)
  <2>1. \A g \in Handler \ {h} : Kept(g)
    BY <1>0, <1>6, OthersKeep DEF ListRequest, ListStep
  <2>2. step[h] = "idle"
    BY <1>6 DEF ListRequest, Free, ListStep, CallInv, ValidateAdd, Insert, InsertFails,
                ReadBack, Find, Delete, DeleteFails
  <2>3. step' = step
    BY <1>6 DEF ListRequest, ListStep
  <2> QED BY <1>1, <1>2, <2>1, <2>2, <2>3
<1>7. ASSUME NEW b \in Bucket, Roll(b)
      PROVE  \A g \in Handler : Fine(g)
  BY <1>1, <1>7 DEF Roll, vars
<1>8. ASSUME Crash
      PROVE  \A g \in Handler : Fine(g)
  <2>1. \A g \in Handler : step'[g] = "idle"
    BY <1>8 DEF Crash
  <2> QED BY <1>2, <2>1
<1>9. \A g \in Handler : Fine(g)
  <2> HIDE DEF Fine
  <2> QED BY <1>3, <1>4, <1>5, <1>6, <1>7, <1>8 DEF PermitNext, PermitStep
<1> QED BY <1>9 DEF CallInv

-----------------------------------------------------------------------------
(* The types                                                               *)

(* What a step does to the windows: nothing, it counts or denies a query,  *)
(* or it clears some.                                                      *)
LEMMA WindowStep ==
    ASSUME PermitTypeOK, CallInv, PermitNext
    PROVE  \/ UNCHANGED quotaVars
           \/ \E h \in Handler, b \in Bucket :
                 /\ Limits!Within(b)
                 /\ \/ /\ held' = [held EXCEPT ![h] = @ \cup {b}]
                       /\ UNCHANGED allowed
                    \/ \E a \in Answer : Settle(h, a, held[h] \cup {b})
           \/ \E h \in Handler : /\ UNCHANGED granted
                                 /\ held' = [held EXCEPT ![h] = {}]
                                 /\ UNCHANGED allowed
           \/ \E S \in SUBSET Bucket :
                 /\ Uncount(S)
                 /\ \A b \in S : granted'[b] = 0
                 /\ \A b \in Bucket \ S : granted'[b] = granted[b]
                 /\ granted' \in [Bucket -> Nat]
<1>1. ASSUME NEW h \in Handler,
             PermitRequest(h) \/ AskRules(h) \/ ListRequest(h) \/ ListStep(h)
      PROVE  UNCHANGED quotaVars
  BY <1>1 DEF PermitRequest, CheckQuery, ResetLogin, ResetIP, Begin, BadAddress,
              AskRules, ListRequest, ListStep
<1>2. ASSUME NEW h \in Handler, AskLimit(h)
      PROVE  \/ \E b \in Bucket :
                   /\ Limits!Within(b)
                   /\ \/ /\ held' = [held EXCEPT ![h] = @ \cup {b}]
                         /\ UNCHANGED allowed
                      \/ \E a \in Answer : Settle(h, a, held[h] \cup {b})
             \/ UNCHANGED granted /\ held' = [held EXCEPT ![h] = {}] /\ UNCHANGED allowed
  <2> DEFINE b == BucketOf(step[h], query[h])
  <2>1. step[h] \in Param /\ b \in Bucket
    BY <1>2, BucketOfCall DEF AskLimit
  <2>2. CASE Pass(h, b)
    BY <2>1, <2>2 DEF Pass, Answer
  <2>3. CASE Exceed(h, b) \/ (Limits!Invalid(b) /\ Settle(h, Status("fatal"), held[h]))
    <3>1. UNCHANGED granted
      BY <2>3 DEF Exceed, Limits!Over, Limits!Invalid
    <3>2. \E a : a # "allow" /\ Settle(h, a, held[h])
      BY <2>3 DEF Exceed, Status
    <3>3. held' = [held EXCEPT ![h] = {}] /\ allowed' = [x \in Bucket |-> allowed[x]]
      BY <3>2 DEF Settle
    <3>4. allowed' = allowed
      BY <3>3 DEF PermitTypeOK
    <3> QED BY <3>1, <3>3, <3>4
  <2> QED BY <1>2, <2>2, <2>3 DEF AskLimit
<1>3. ASSUME NEW S \in SUBSET Bucket, Uncount(S),
             \/ \E b \in Bucket : S = {b} /\ Limits!Cleared(b)
             \/ \E b \in Bucket : S = {b} /\ Limits!Absent(b)
             \/ S = Bucket /\ granted' = Limits!NoneGranted
      PROVE  /\ \A b \in S : granted'[b] = 0
             /\ \A b \in Bucket \ S : granted'[b] = granted[b]
             /\ granted' \in [Bucket -> Nat]
  BY <1>3 DEF PermitTypeOK, Limits!Cleared, Limits!Absent, Limits!NoneGranted
<1>4. ASSUME NEW h \in Handler, ResetBucket(h)
      PROVE  \E b \in Bucket : Uncount({b}) /\ (Limits!Cleared(b) \/ Limits!Absent(b))
  BY <1>4, BucketOfCall DEF ResetBucket
<1>5. ASSUME NEW b \in Bucket, Roll(b)
      PROVE  Uncount({b}) /\ Limits!Cleared(b)
  BY <1>5 DEF Roll
<1>6. ASSUME Crash
      PROVE  Uncount(Bucket) /\ granted' = Limits!NoneGranted
  BY <1>6 DEF Crash
<1>7. CASE \/ \E h \in Handler : ResetBucket(h)
           \/ \E b \in Bucket : Roll(b)
           \/ Crash
  <2>1. \E S \in SUBSET Bucket :
           /\ Uncount(S)
           /\ \/ \E b \in Bucket : S = {b} /\ Limits!Cleared(b)
              \/ \E b \in Bucket : S = {b} /\ Limits!Absent(b)
              \/ S = Bucket /\ granted' = Limits!NoneGranted
    BY <1>4, <1>5, <1>6, <1>7
  <2> QED BY <1>3, <2>1
<1> QED BY <1>1, <1>2, <1>7 DEF PermitNext, PermitStep

LEMMA ObserveType ==
    ASSUME Observe
    PROVE  sure' \in [Handler -> SUBSET {"black", "white"}]
BY DEF Observe, Said

LEMMA TypeStep ==
    ASSUME PermitTypeOK, IInv, CallInv, PermitNext
    PROVE  PermitTypeOK'
<1> DEFINE
      WindowTypes == /\ granted' \in [Bucket -> Nat]
                     /\ held' \in [Handler -> SUBSET Bucket]
                     /\ allowed' \in [Bucket -> Nat]
      CallTypes ==
         /\ step' \in [Handler -> {"idle"} \cup Checks \cup Resets]
         /\ query' \in [Handler -> Query \cup [login: Login] \cup [ip: Text] \cup {NoQuery}]
<1>1. TypeOK' /\ sure' \in [Handler -> SUBSET {"black", "white"}]
  BY ListsInv, ObserveType DEF PermitTypeOK, PermitNext
<1>2. WindowTypes
  <2>1. CASE UNCHANGED quotaVars
    BY <2>1 DEF quotaVars, PermitTypeOK
  <2>2. ASSUME NEW h \in Handler, NEW b \in Bucket, Limits!Within(b),
               \/ held' = [held EXCEPT ![h] = @ \cup {b}] /\ UNCHANGED allowed
               \/ \E a \in Answer : Settle(h, a, held[h] \cup {b})
        PROVE  WindowTypes
    BY <2>2 DEF PermitTypeOK, Limits!Within, Settle
  <2>3. ASSUME NEW h \in Handler, UNCHANGED <<granted, allowed>>,
               held' = [held EXCEPT ![h] = {}]
        PROVE  WindowTypes
    BY <2>3 DEF PermitTypeOK
  <2>4. ASSUME NEW S \in SUBSET Bucket, Uncount(S), granted' \in [Bucket -> Nat]
        PROVE  WindowTypes
    BY <2>4 DEF PermitTypeOK, Uncount
  <2> QED BY <2>1, <2>2, <2>3, <2>4, WindowStep
<1>3. CallTypes
  <2>1. ASSUME NEW h \in Handler, PermitRequest(h)
        PROVE  CallTypes
    <3>1. CASE BadAddress(h)
      BY <3>1 DEF BadAddress, Answers, End, PermitTypeOK
    <3>2. ASSUME NEW s \in {"rules"} \cup Resets,
                 NEW q \in Query \cup [login: Login] \cup [ip: Text], Begin(h, s, q)
          PROVE  CallTypes
      BY <3>2 DEF Begin, PermitTypeOK, Checks
    <3>3. CASE \E q \in Query : CheckQuery(h, q)
      BY <3>2, <3>3 DEF CheckQuery
    <3>4. CASE \E l \in Login : ResetLogin(h, l)
      BY <3>2, <3>4 DEF ResetLogin, Resets
    <3>5. CASE \E t \in Text : ResetIP(h, t)
      BY <3>2, <3>5 DEF ResetIP, Resets
    <3> QED BY <2>1, <3>1, <3>3, <3>4, <3>5 DEF PermitRequest
  <2>2. ASSUME NEW h \in Handler, AskRules(h)
        PROVE  CallTypes
    BY <2>2 DEF AskRules, End, PermitTypeOK, Checks, Param
  <2>3. ASSUME NEW h \in Handler, AskLimit(h) \/ ResetBucket(h)
        PROVE  CallTypes
    <3>1. CASE \E a : Answers(h, a)
      BY <3>1 DEF Answers, End, PermitTypeOK
    <3>2. CASE step' = [step EXCEPT ![h] = After(@)] /\ UNCHANGED query
      BY <3>2 DEF PermitTypeOK, After, Checks, Param
    <3> QED BY <2>3, <3>1, <3>2 DEF AskLimit, Pass, Exceed, Settle, ResetBucket
  <2>4. ASSUME \/ \E h \in Handler : ListRequest(h) \/ ListStep(h)
               \/ \E b \in Bucket : Roll(b)
        PROVE  CallTypes
    <3>1. UNCHANGED <<step, query>>
      BY <2>4 DEF ListRequest, ListStep, Roll
    <3> QED BY <3>1 DEF PermitTypeOK
  <2>5. ASSUME Crash
        PROVE  CallTypes
    BY <2>5 DEF Crash
  <2> QED BY <2>1, <2>2, <2>3, <2>4, <2>5 DEF PermitNext, PermitStep
<1> QED BY <1>1, <1>2, <1>3 DEF PermitTypeOK

-----------------------------------------------------------------------------
(* The quota                                                               *)

LEMMA HeldFinite ==
    \A b \in Bucket : /\ IsFiniteSet(HeldBy(b)) /\ Cardinality(HeldBy(b)) \in Nat
                      /\ IsFiniteSet(HeldBy(b)') /\ Cardinality(HeldBy(b)') \in Nat
BY PermitAssumption, FS_Subset, FS_CardinalityType DEF HeldBy

(* A count that loses members, or one, or that gains one.                  *)
LEMMA Shrinks ==
    ASSUME NEW S, NEW T, IsFiniteSet(S), T \subseteq S
    PROVE  Cardinality(T) <= Cardinality(S)
BY FS_Subset

LEMMA LosesOne ==
    ASSUME NEW S, IsFiniteSet(S), NEW h \in S
    PROVE  Cardinality(S \ {h}) = Cardinality(S) - 1
BY FS_RemoveElement

LEMMA GainsOne ==
    ASSUME NEW S, NEW T, NEW h, IsFiniteSet(S), T \subseteq S \cup {h}
    PROVE  Cardinality(T) <= Cardinality(S) + 1
<1>1. /\ IsFiniteSet(S \cup {h})
      /\ Cardinality(S \cup {h}) = Cardinality(S) \/ Cardinality(S \cup {h}) = Cardinality(S) + 1
  BY FS_AddElement
<1>2. Cardinality(T) <= Cardinality(S \cup {h})
  BY <1>1, FS_Subset
<1>3. Cardinality(T) \in Nat /\ Cardinality(S) \in Nat
  BY <1>1, FS_Subset, FS_CardinalityType
<1> QED BY <1>1, <1>2, <1>3

LEMMA QuotaStep ==
    ASSUME PermitTypeOK, QuotaInv, CallInv, PermitNext
    PROVE  QuotaInv'
<1> DEFINE Good(b) == /\ allowed'[b] + Cardinality(HeldBy(b)') <= granted'[b]
                      /\ granted'[b] > 0 => granted'[b] <= LimitOf[b[1]] + 1
<1>1. CASE UNCHANGED quotaVars
  BY <1>1 DEF quotaVars, QuotaInv, HeldBy
<1>2. ASSUME NEW h \in Handler, NEW c \in Bucket, NEW b \in Bucket, Limits!Within(c),
             \/ held' = [held EXCEPT ![h] = @ \cup {c}] /\ UNCHANGED allowed
             \/ \E a \in Answer : Settle(h, a, held[h] \cup {c})
      PROVE  Good(b)
  <2>1. /\ granted' = [granted EXCEPT ![c] = @ + 1]
        /\ granted[c] <= LimitOf[c[1]]
    BY <1>2 DEF Limits!Within
  <2>2. granted'[b] > 0 => granted'[b] <= LimitOf[b[1]] + 1
    BY <2>1, BucketFacts DEF QuotaInv, PermitTypeOK
  <2>3. allowed'[b] + Cardinality(HeldBy(b)') <= granted'[b]
    <3>1. /\ allowed[b] + Cardinality(HeldBy(b)) <= granted[b]
          /\ granted'[b] = IF b = c THEN granted[b] + 1 ELSE granted[b]
          /\ allowed[b] \in Nat /\ granted[b] \in Nat
      BY <2>1 DEF QuotaInv, PermitTypeOK
    <3>2. CASE held' = [held EXCEPT ![h] = @ \cup {c}] /\ UNCHANGED allowed
      <4>1. b # c => HeldBy(b)' = HeldBy(b)
        BY <3>2 DEF HeldBy, PermitTypeOK
      <4>2. HeldBy(b)' \subseteq HeldBy(b) \cup {h}
        BY <3>2 DEF HeldBy, PermitTypeOK
      <4>3. Cardinality(HeldBy(b)') <= Cardinality(HeldBy(b)) + 1
        BY <4>2, HeldFinite, GainsOne
      <4> QED BY <3>1, <3>2, <4>1, <4>3, HeldFinite
    <3>3. ASSUME NEW a \in Answer, Settle(h, a, held[h] \cup {c})
          PROVE  allowed'[b] + Cardinality(HeldBy(b)') <= granted'[b]
      <4>1. HeldBy(b)' = HeldBy(b) \ {h}
        BY <3>3 DEF Settle, HeldBy, PermitTypeOK
      <4>2. /\ allowed'[b] \in {allowed[b], allowed[b] + 1}
            /\ b # c /\ b \notin held[h] => allowed'[b] = allowed[b]
        BY <3>3 DEF Settle, PermitTypeOK
      <4>3. b \in held[h] => Cardinality(HeldBy(b)') = Cardinality(HeldBy(b)) - 1
        BY <4>1, HeldFinite, LosesOne DEF HeldBy
      <4>4. Cardinality(HeldBy(b)') <= Cardinality(HeldBy(b))
        BY <4>1, HeldFinite, Shrinks
      <4> QED BY <3>1, <4>2, <4>3, <4>4, HeldFinite
    <3> QED BY <1>2, <3>2, <3>3
  <2> QED BY <2>2, <2>3
<1>3. ASSUME NEW h \in Handler, NEW b \in Bucket, UNCHANGED <<granted, allowed>>,
             held' = [held EXCEPT ![h] = {}]
      PROVE  Good(b)
  <2>1. HeldBy(b)' \subseteq HeldBy(b)
    BY <1>3 DEF HeldBy, PermitTypeOK
  <2>2. Cardinality(HeldBy(b)') <= Cardinality(HeldBy(b))
    BY <2>1, HeldFinite, Shrinks
  <2>3. allowed[b] \in Nat /\ granted[b] \in Nat
    BY DEF PermitTypeOK
  <2> QED BY <1>3, <2>2, <2>3, HeldFinite DEF QuotaInv
<1>4. ASSUME NEW S \in SUBSET Bucket, Uncount(S), NEW b \in Bucket,
             \A c \in S : granted'[c] = 0,
             \A c \in Bucket \ S : granted'[c] = granted[c]
      PROVE  Good(b)
  <2>1. CASE b \in S
    <3>1. HeldBy(b)' = {} /\ allowed'[b] = 0 /\ granted'[b] = 0
      BY <1>4, <2>1 DEF Uncount, HeldBy
    <3> QED BY <3>1, FS_EmptySet
  <2>2. CASE b \notin S
    <3>1. HeldBy(b)' = HeldBy(b) /\ allowed'[b] = allowed[b] /\ granted'[b] = granted[b]
      BY <1>4, <2>2 DEF Uncount, HeldBy
    <3> QED BY <3>1 DEF QuotaInv
  <2> QED BY <2>1, <2>2
<1>5. CASE \A b \in Bucket : Good(b)
  BY <1>5 DEF QuotaInv
<1> HIDE DEF Good
<1> QED BY <1>1, <1>2, <1>3, <1>4, <1>5, WindowStep

-----------------------------------------------------------------------------
(* The invariant                                                           *)

LEMMA SureStep ==
    ASSUME SureInv, Observe
    PROVE  SureInv'
<1>1. \A h \in Handler : sure'[h] \subseteq Said(h)'
  BY DEF Observe
<1> QED BY <1>1 DEF SureInv

LEMMA PermitInitInv ==
    ASSUME PermitInit
    PROVE  PermitTypeOK /\ PermitInv
<1>1. TypeOK /\ IInv
  BY InitInv DEF PermitInit
<1>2. PermitTypeOK
  BY <1>1 DEF PermitInit, PermitTypeOK, Limits!NoneGranted
<1>3. QuotaInv
  <2>1. \A b \in Bucket : HeldBy(b) = {} /\ allowed[b] = 0 /\ granted[b] = 0
    BY DEF PermitInit, HeldBy, Limits!NoneGranted
  <2> QED BY <2>1, FS_EmptySet DEF QuotaInv
<1>4. CallInv /\ SureInv
  BY DEF PermitInit, CallInv, SureInv, Checks, Param
<1> QED BY <1>1, <1>2, <1>3, <1>4 DEF PermitInv

LEMMA PermitNextInv ==
    ASSUME PermitTypeOK, PermitInv, [PermitNext]_permitVars
    PROVE  (PermitTypeOK /\ PermitInv)'
<1>1. CASE PermitNext
  <2>1. TypeOK /\ IInv /\ QuotaInv /\ CallInv /\ SureInv
    BY DEF PermitTypeOK, PermitInv
  <2>2. Observe
    BY <1>1 DEF PermitNext
  <2> QED BY <1>1, <2>1, <2>2, ListsInv, TypeStep, QuotaStep, CallStep, SureStep
          DEF PermitInv
<1>2. CASE UNCHANGED permitVars
  <2>1. UNCHANGED vars
    BY <1>2 DEF permitVars
  <2>2. (TypeOK /\ IInv)'
    BY <2>1, NextInv DEF PermitTypeOK, PermitInv
  <2>3. PermitTypeOK'
    BY <1>2, <2>2 DEF permitVars, quotaVars, PermitTypeOK
  <2>4. QuotaInv' /\ CallInv'
    BY <1>2, <2>1 DEF permitVars, quotaVars, vars, PermitInv, QuotaInv, HeldBy, CallInv
  <2>5. SureInv'
    BY <1>2, <2>1 DEF permitVars, vars, PermitInv, SureInv, Said, Black, White
  <2> QED BY <2>2, <2>3, <2>4, <2>5 DEF PermitInv
<1> QED BY <1>1, <1>2

(* The inductive invariant holds in every state of every behaviour.        *)
THEOREM PermitInvariance == PermitSpec => [](PermitTypeOK /\ PermitInv)
<1>1. PermitInit => PermitTypeOK /\ PermitInv
  BY PermitInitInv
<1>2. (PermitTypeOK /\ PermitInv) /\ [PermitNext]_permitVars
      => (PermitTypeOK /\ PermitInv)'
  BY PermitNextInv
<1> QED BY <1>1, <1>2, PTL DEF PermitSpec

(* Every variable of the checker, and of the lists it asks, keeps its type *)
(* while windows roll and the server is restarted: permit_checker.go.      *)
THEOREM PermitTypes == PermitSpec => []PermitTypeOK
BY PermitInvariance, PTL

(* At most one query more than the limit is let through in a window,       *)
(* however many are in progress and whatever is reset, removed or          *)
(* restarted in between (permit_checker.go:49-75).                         *)
THEOREM QuotaIsHeld == PermitSpec => []QuotaHolds
<1>1. PermitTypeOK /\ PermitInv => QuotaHolds
  <2>1. SUFFICES ASSUME PermitTypeOK, QuotaInv, NEW b \in Bucket, allowed[b] > 0
                 PROVE  allowed[b] <= LimitOf[b[1]] + 1
    BY DEF PermitInv, QuotaHolds
  <2>2. allowed[b] + Cardinality(HeldBy(b)) <= granted[b]
        /\ (granted[b] > 0 => granted[b] <= LimitOf[b[1]] + 1)
    BY <2>1 DEF QuotaInv
  <2>3. IsFiniteSet(HeldBy(b))
    BY PermitAssumption, FS_Subset DEF HeldBy
  <2>4. Cardinality(HeldBy(b)) \in Nat
    BY <2>3, FS_CardinalityType
  <2> QED BY <2>1, <2>2, <2>4, BucketFacts DEF PermitTypeOK
<1> QED BY <1>1, PermitInvariance, PTL

-----------------------------------------------------------------------------
(* The lists and the limits                                                *)

(* What the rules answer to a query agrees with what the lists say.        *)
LEMMA RulesAgree ==
    ASSUME NoSingleHost, PermitTypeOK, PermitInv, NEW h \in Handler, AskRules(h)
    PROVE  /\ "black" \in Said(h) => ret'[h] \notin {"allow", "norule"}
           /\ "white" \in Said(h) => ret'[h] \notin {"deny", "norule"}
<1> DEFINE ip == Parse[query[h].ip]
<1>1. TypeOK /\ IInv /\ step[h] = "rules"
  BY DEF PermitTypeOK, PermitInv, AskRules
<1>2. /\ "black" \in Said(h) => Black(ip)
      /\ "white" \in Said(h) => White(ip)
  BY <1>1 DEF Said, Checks
<1>3. CASE ret'[h] = "Internal"
  BY <1>3
<1>4. ASSUME NEW v \in Verdicts(ip), ret'[h] = v
      PROVE  /\ "black" \in Said(h) => ret'[h] \notin {"allow", "norule"}
             /\ "white" \in Said(h) => ret'[h] \notin {"deny", "norule"}
  <2>1. Black(ip) => v \in {"allow", "deny"}
    BY <1>1, VerdictsRight DEF Black
  <2>2. Black(ip) => v # "allow"
    BY DEF Black, Verdicts, Verdict, Reads, Covering, Covers
  <2>3. White(ip) => v = "allow"
    BY <1>1, VerdictsRight DEF White
  <2> QED BY <1>2, <1>4, <2>1, <2>2, <2>3
<1>5. \/ ret'[h] = "Internal"
      \/ \E v \in Verdicts(ip) : ret'[h] = v
  BY <1>1 DEF AskRules, Lookup, Return, Status, TypeOK
<1> QED BY <1>3, <1>4, <1>5

LEMMA ListedStep ==
    ASSUME NoSingleHost, PermitTypeOK, PermitInv, ListedNotCounted,
           [PermitNext]_permitVars
    PROVE  ListedNotCounted'
<1>1. SUFFICES ASSUME NEW h \in Handler, step'[h] \in Param
               PROVE  sure'[h] = {}
  BY DEF ListedNotCounted
<1>2. CASE UNCHANGED permitVars
  BY <1>1, <1>2 DEF permitVars, ListedNotCounted
<1>3. CASE PermitNext /\ step[h] \in Param
  BY <1>3 DEF PermitNext, Observe, ListedNotCounted, Checks
<1>4. CASE PermitNext /\ step[h] \notin Param
  <2>1. AskRules(h) /\ ret'[h] = "norule"
    BY <1>1, <1>4
       DEF PermitNext, PermitRequest, CheckQuery, ResetLogin, ResetIP, Begin, BadAddress,
           Answers, End, PermitStep, AskRules, AskLimit, Pass, Exceed, Settle, ResetBucket,
           ListRequest, ListStep, Roll, Crash, PermitTypeOK, Param
  <2>2. Said(h) = {}
    BY <2>1, RulesAgree DEF Said
  <2>3. sure'[h] \subseteq sure[h]
    BY <1>4, <2>1 DEF PermitNext, Observe, AskRules, Checks
  <2> QED BY <2>2, <2>3 DEF PermitInv, SureInv
<1> QED BY <1>2, <1>3, <1>4

(* A query from an address that is in a list counts for no limit.          *)
THEOREM ListedNeverCounted ==
    ASSUME NoSingleHost
    PROVE  PermitSpec => []ListedNotCounted
<1>1. PermitInit => ListedNotCounted
  BY DEF PermitInit, ListedNotCounted
<1>2. (PermitTypeOK /\ PermitInv) /\ ListedNotCounted /\ [PermitNext]_permitVars
      => ListedNotCounted'
  BY ListedStep
<1> QED BY <1>1, <1>2, PermitInvariance, PTL DEF PermitSpec

(* The step that ends a check, or a reset, of a request.                   *)
LEMMA EndingStep ==
    ASSUME PermitTypeOK, PermitInv, PermitNext, NEW h \in Handler, step[h] # "idle",
           ret'[h] \notin {"none", "norule"}
    PROVE  \/ AskRules(h) /\ step[h] = "rules"
           \/ AskLimit(h) /\ step[h] \in Param
           \/ ResetBucket(h) /\ step[h] \in Resets
           \/ Crash /\ ret'[h] = "Unavailable"
<1>1. pc[h] = "idle" /\ ret[h] \in {"none", "norule"} /\ TypeOK
  BY DEF PermitInv, CallInv, PermitTypeOK
<1>2. CASE Crash
  BY <1>1, <1>2 DEF Crash, ProcessEnds
<1>3. ASSUME NEW g \in Handler,
             PermitRequest(g) \/ AskLimit(g) \/ ResetBucket(g), g # h
      PROVE  FALSE
  BY <1>1, <1>3
     DEF PermitRequest, CheckQuery, ResetLogin, ResetIP, Begin, BadAddress, Answers,
         AskLimit, Pass, Exceed, Settle, ResetBucket, vars, TypeOK
<1>4. ASSUME NEW g \in Handler, AskRules(g) \/ ListRequest(g) \/ ListStep(g), g # h
      PROVE  FALSE
  BY <1>1, <1>4, OthersKeep
<1>5. ~PermitRequest(h) /\ ~ListRequest(h)
  BY DEF PermitRequest, CheckQuery, ResetLogin, ResetIP, Begin, BadAddress, Free, ListRequest
<1>6. ~ListStep(h)
  BY <1>1 DEF ListStep, ValidateAdd, Insert, InsertFails, ReadBack, Find, Delete, DeleteFails
<1>7. ASSUME NEW b \in Bucket, Roll(b)
      PROVE  FALSE
  BY <1>1, <1>7 DEF Roll, vars
<1> QED BY <1>2, <1>3, <1>4, <1>5, <1>6, <1>7
        DEF PermitNext, PermitStep, AskRules, AskLimit, ResetBucket

(* While it is in the black list an address is not let through, and while  *)
(* it is in the white list it is not denied: the verdict of the rules that *)
(* permit_checker.go:28 has read does not get stale.                       *)
THEOREM ListsAreHeld ==
    ASSUME NoSingleHost
    PROVE  PermitSpec => ListsHold
<1>1. /\ PermitTypeOK /\ PermitInv /\ ListedNotCounted
      /\ [PermitNext]_permitVars
      => [\A h \in Handler :
            step[h] \in Checks /\ step'[h] = "idle" =>
               /\ "black" \in sure[h] => ret'[h] # "allow"
               /\ "white" \in sure[h] => ret'[h] # "deny"]_permitVars
  <2>1. SUFFICES ASSUME PermitTypeOK, PermitInv, ListedNotCounted, PermitNext,
                        NEW h \in Handler, step[h] \in Checks,
                        ret'[h] \in {"allow", "deny"}
                 PROVE  /\ "black" \in sure[h] => ret'[h] # "allow"
                        /\ "white" \in sure[h] => ret'[h] # "deny"
    OBVIOUS
  <2>2. CASE AskRules(h)
    <3>1. sure[h] \subseteq Said(h)
      BY <2>1 DEF PermitInv, SureInv
    <3>2. /\ "black" \in Said(h) => ret'[h] # "allow"
          /\ "white" \in Said(h) => ret'[h] # "deny"
      BY <2>1, <2>2, RulesAgree
    <3> QED BY <3>1, <3>2
  <2>3. CASE step[h] \in Param
    BY <2>1, <2>3 DEF ListedNotCounted
  <2> QED BY <2>1, <2>2, <2>3, EndingStep DEF Checks, Param, Resets
<1> QED BY <1>1, PermitInvariance, ListedNeverCounted, PTL DEF PermitSpec, ListsHold

(* A reset that is answered has emptied the bucket that the checks of that *)
(* login or address use (dto/permit.go:13-36).                             *)
THEOREM ResetIsDone == PermitSpec => ResetClears
<1>1. PermitTypeOK /\ PermitInv /\ [PermitNext]_permitVars
      => [\A h \in Handler :
            /\ step[h] = "reset ip" /\ ret'[h] = "OK"
               => granted'[<<"ip", Parse[query[h].ip]>>] = 0
            /\ step[h] = "reset login" /\ ret'[h] = "OK"
               => granted'[<<"login", query[h].login>>] = 0]_permitVars
  <2>1. SUFFICES ASSUME PermitTypeOK, PermitInv, PermitNext, NEW h \in Handler,
                        step[h] \in Resets, ret'[h] = "OK"
                 PROVE  granted'[BucketOf(ResetOf(h), query[h])] = 0
    BY DEF Resets, BucketOf, ResetOf
  <2>2. ResetBucket(h)
    BY <2>1, EndingStep DEF Resets, Param
  <2>3. BucketOf(ResetOf(h), query[h]) \in Bucket
    BY <2>1, BucketOfCall DEF PermitInv
  <2> DEFINE bucket == BucketOf(ResetOf(h), query[h])
  <2>4. Limits!Cleared(bucket) \/ Limits!Absent(bucket)
    BY <2>2 DEF ResetBucket
  <2> HIDE DEF bucket
  <2>5. bucket \in Bucket
    BY <2>3 DEF bucket
  <2>6. granted'[bucket] = 0
    BY <2>1, <2>4, <2>5 DEF Limits!Cleared, Limits!Absent, PermitTypeOK
  <2> QED BY <2>6 DEF bucket
<1> QED BY <1>1, PermitInvariance, PTL DEF PermitSpec, ResetClears
=============================================================================
