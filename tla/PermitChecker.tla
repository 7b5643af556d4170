---------------------------- MODULE PermitChecker ----------------------------
(***************************************************************************)
(* The permit service: CheckQuery, ResetLogin and ResetIP                  *)
(* (internal/handler/grpc/permit_impl.go, internal/service/                *)
(* permit_checker.go) over the rule lists (IPRules) and the promise of the *)
(* rate limiter (RateWindow).                                              *)
(*                                                                         *)
(* A check asks the rules, and when they do not decide it asks the limits  *)
(* of the login, of the password and of the address, in that order, and    *)
(* stops at the first that is exceeded.  It holds nothing between two      *)
(* questions: rules and windows change under it.  The slots of IPRules     *)
(* serve the permit requests too.                                          *)
(***************************************************************************)
EXTENDS IPRules

CONSTANTS
    Login, Password,
    Text,           \* what is sent as an address
    Parse,          \* net.ParseIP
    NoIP, NoQuery,
    LimitOf,        \* the limit of a parameter
    Period

Param == {"login", "password", "ip"}

ASSUME PermitAssumption ==
    /\ IsFiniteSet(Handler)
    /\ Parse \in [Text -> IP \cup {NoIP}]
    /\ NoIP \notin IP
    /\ LimitOf \in [Param -> Int]
    /\ Period \in Nat
    /\ NoQuery \notin [login: Login, password: Password, ip: Text]
                      \cup [login: Login] \cup [ip: Text]

(***************************************************************************)
(* LimitBucket.Name: parameter and value with an underscore between them.  *)
(* No parameter holds an underscore, so the pair and the text are one.     *)
(***************************************************************************)
Bucket == ({"login"} \X Login) \cup ({"password"} \X Password) \cup ({"ip"} \X IP)

VARIABLES
    step,       \* what the permit request of a slot does next
    query,      \* and what it asks
    granted,    \* the windows of the limiter, as Quota has them
    (* history *)
    sure,       \* what the lists have said for the whole of the call
    held,       \* the buckets that counted the call, not cleared since
    allowed     \* queries let through, by bucket, in its current window

Limits == INSTANCE Quota WITH
    Name <- Bucket, Limit <- [b \in Bucket |-> LimitOf[b[1]]]

listVars  == <<rules, pc, req, found, acked>>
quotaVars == <<granted, held, allowed>>

permitVars == <<vars, step, query, quotaVars, sure>>

Query  == [login: Login, password: Password, ip: Text]
Checks == {"rules"} \cup Param
Resets == {"reset login", "reset ip"}

PermitTypeOK ==
    /\ TypeOK
    /\ step \in [Handler -> {"idle"} \cup Checks \cup Resets]
    /\ query \in [Handler -> Query \cup [login: Login] \cup [ip: Text] \cup {NoQuery}]
    /\ granted \in [Bucket -> Nat]
    /\ sure \in [Handler -> SUBSET {"black", "white"}]
    /\ held \in [Handler -> SUBSET Bucket]
    /\ allowed \in [Bucket -> Nat]

PermitInit ==
    /\ Init
    /\ step = [h \in Handler |-> "idle"]
    /\ query = [h \in Handler |-> NoQuery]
    /\ granted = Limits!NoneGranted
    /\ sure = [h \in Handler |-> {}]
    /\ held = [h \in Handler |-> {}]
    /\ allowed = [b \in Bucket |-> 0]

-----------------------------------------------------------------------------
(* What the lists say of an address: it is in the black list (its addition *)
(* was acknowledged) and in no white one, or it is in the white list.      *)
Black(ip) ==
    /\ \E a \in acked : a.type = "deny" /\ ip \in Hosts[a.net]
    /\ ~\E r \in rules : r.type = "allow" /\ ip \in Hosts[r.net]

White(ip) == \E a \in acked : a.type = "allow" /\ ip \in Hosts[a.net]

Said(h) ==
    IF step[h] \notin Checks THEN {}
    ELSE {f \in {"black", "white"} :
             \/ f = "black" /\ Black(Parse[query[h].ip])
             \/ f = "white" /\ White(Parse[query[h].ip])}

(* A part of every step: what stays true from the start of a call.         *)
Observe ==
    sure' = [h \in Handler |->
               IF step[h] \in Checks THEN sure[h] \cap Said(h)' ELSE Said(h)']

-----------------------------------------------------------------------------
Free(h) == pc[h] = "idle" /\ step[h] = "idle"

Begin(h, first, q) ==
    /\ Free(h)
    /\ step' = [step EXCEPT ![h] = first]
    /\ query' = [query EXCEPT ![h] = q]
    /\ ret' = [ret EXCEPT ![h] = "none"]
    /\ UNCHANGED <<listVars, quotaVars>>

End(h) ==
    /\ step' = [step EXCEPT ![h] = "idle"]
    /\ query' = [query EXCEPT ![h] = NoQuery]

Answers(h, a) ==
    /\ End(h)
    /\ ret' = [ret EXCEPT ![h] = a]
    /\ UNCHANGED listVars

(* A limit ends the check; these buckets have counted it.                  *)
Settle(h, a, counted) ==
    /\ Answers(h, a)
    /\ held' = [held EXCEPT ![h] = {}]
    /\ allowed' = [b \in Bucket |->
                     IF a = "allow" /\ b \in counted THEN allowed[b] + 1 ELSE allowed[b]]

(* The address is written back from its bytes: one text for all spellings. *)
BucketOf(p, q) == <<p, IF p = "ip" THEN Parse[q.ip] ELSE q[p]>>

-----------------------------------------------------------------------------
(* CheckQuery                                                              *)

(* Mutant: the limits go first. *)
CheckLimitsFirst(h, q) == Parse[q.ip] # NoIP /\ Begin(h, "login", q)

CheckQuery(h, q) == Parse[q.ip] # NoIP /\ Begin(h, "rules", q)

(* PermitModel and ResetIPModel refuse what is no address.                 *)
BadAddress(h) ==
    /\ Free(h)
    /\ \E t \in Text : Parse[t] = NoIP
    /\ Answers(h, Status("plain"))
    /\ UNCHANGED quotaVars

AskRules(h) ==
    /\ step[h] = "rules"
    /\ Lookup(h, Parse[query[h].ip])
    /\ IF ret'[h] = "norule"
       THEN step' = [step EXCEPT ![h] = "login"] /\ UNCHANGED query
       ELSE End(h)
    /\ UNCHANGED quotaVars

AfterMisnamed(p) == IF p = "login" THEN "pasword" ELSE "ip"     \* mutant

After(p) == IF p = "login" THEN "password" ELSE "ip"

Pass(h, bucket) ==
    /\ Limits!Within(bucket)
    /\ IF step[h] = "ip"
       THEN Settle(h, "allow", held[h] \cup {bucket})
       ELSE /\ step' = [step EXCEPT ![h] = After(@)]
            /\ held' = [held EXCEPT ![h] = @ \cup {bucket}]
            /\ UNCHANGED <<vars, query, allowed>>

(* Mutant: the answer of the limiter is dropped. *)
ExceedAllowed(h, bucket) ==
    /\ Limits!Over(bucket)
    /\ Settle(h, "allow", held[h] \cup {bucket})

Exceed(h, bucket) == Limits!Over(bucket) /\ Settle(h, "deny", held[h])

AskLimit(h) ==
    LET bucket == BucketOf(step[h], query[h])
    IN  /\ step[h] \in Param
        /\ IF Limits!LimitsValid(bucket)
           THEN Pass(h, bucket) \/ Exceed(h, bucket)
           ELSE Limits!Invalid(bucket) /\ Settle(h, Status("fatal"), held[h])

-----------------------------------------------------------------------------
(* ResetLogin, ResetIP                                                     *)

ResetLogin(h, l) == Begin(h, "reset login", [login |-> l])

ResetIP(h, t) == Parse[t] # NoIP /\ Begin(h, "reset ip", [ip |-> t])

(* The window of these buckets is over, and with it what was counted in it.*)
Uncount(S) ==
    /\ held' = [h \in Handler |-> held[h] \ S]
    /\ allowed' = [b \in Bucket |-> IF b \in S THEN 0 ELSE allowed[b]]

ResetOf(h) == IF step[h] = "reset ip" THEN "ip" ELSE "login"

(* Mutant: the bucket is looked for under another name, and there is none. *)
ResetMisnamed(h) ==
    /\ step[h] \in Resets
    /\ Answers(h, "OK")
    /\ UNCHANGED quotaVars

(* Whether there was a bucket or not, the answer is OK.                    *)
ResetBucket(h) ==
    LET bucket == BucketOf(ResetOf(h), query[h])
    IN  /\ step[h] \in Resets
        /\ Limits!Cleared(bucket) \/ Limits!Absent(bucket)
        /\ Answers(h, "OK")
        /\ Uncount({bucket})

-----------------------------------------------------------------------------
(* What goes on beside the permit requests                                 *)

(* The period of a bucket is over, or an idle one is removed.              *)
Roll(b) ==
    /\ Limits!Cleared(b)
    /\ Uncount({b})
    /\ UNCHANGED <<vars, step, query>>

ListRequest(h) ==
    /\ Free(h)
    /\ \/ \E typ \in RuleType, n \in Net : AddTo(h, typ, n) \/ RemoveFrom(h, typ, n)
       \/ Malformed(h)
    /\ UNCHANGED <<step, query, quotaVars>>

ListStep(h) ==
    /\ \/ ValidateAdd(h) \/ Insert(h) \/ InsertFails(h) \/ ReadBack(h)
       \/ Find(h) \/ Delete(h) \/ DeleteFails(h)
    /\ UNCHANGED <<step, query, quotaVars>>

(* The process ends (a panic of a handler, a kill, a new deployment), and  *)
(* with it the windows: they are in memory.                                *)
Crash ==
    /\ ProcessEnds
    /\ step' = [h \in Handler |-> "idle"]
    /\ query' = [h \in Handler |-> NoQuery]
    /\ granted' = Limits!NoneGranted
    /\ Uncount(Bucket)

-----------------------------------------------------------------------------
PermitRequest(h) ==
    \/ \E q \in Query : CheckQuery(h, q)
    \/ \E l \in Login : ResetLogin(h, l)
    \/ \E t \in Text : ResetIP(h, t)
    \/ BadAddress(h)

PermitStep(h) == AskRules(h) \/ AskLimit(h) \/ ResetBucket(h)

PermitNext ==
    /\ \/ \E h \in Handler :
             PermitRequest(h) \/ PermitStep(h) \/ ListRequest(h) \/ ListStep(h)
       \/ \E b \in Bucket : Roll(b)
       \/ Crash
    /\ Observe

PermitSpec == PermitInit /\ [][PermitNext]_permitVars

-----------------------------------------------------------------------------
(* In one window at most one query more than the limit is let through for a*)
(* login, a password or an address, however the address is spelled and how *)
(* many queries are in progress: permit_checker.go:49-75.                  *)
QuotaHolds ==
    \A b \in Bucket : allowed[b] > 0 => allowed[b] <= LimitOf[b[1]] + 1

(* A query from an address that was in the black list, and in no white one,*)
(* for the whole of the call is not let through; one that was in the white *)
(* list is not denied, whatever the limits say.  (The verdict that         *)
(* permit_checker.go:28 read may be stale when the limits answer.)         *)
ListsHold ==
    [][\A h \in Handler :
          step[h] \in Checks /\ step'[h] = "idle" =>
             /\ "black" \in sure[h] => ret'[h] # "allow"
             /\ "white" \in sure[h] => ret'[h] # "deny"]_permitVars

(* Such a query uses up nobody's quota: who is in the black list cannot    *)
(* lock a login out.                                                       *)
ListedNotCounted == \A h \in Handler : step[h] \in Param => sure[h] = {}

(* When a reset is answered the bucket that the checks ask is empty,       *)
(* however the address is spelled: dto/permit.go:13-36.                    *)
ResetClears ==
    [][\A h \in Handler :
          /\ step[h] = "reset ip" /\ ret'[h] = "OK"
             => granted'[<<"ip", Parse[query[h].ip]>>] = 0
          /\ step[h] = "reset login" /\ ret'[h] = "OK"
             => granted'[<<"login", query[h].login>>] = 0]_permitVars

-----------------------------------------------------------------------------
(* The inductive invariant behind the four: a window counts every query    *)
(* that was let through in it and every one that has passed its limit and  *)
(* is still being checked.                                                 *)
HeldBy(b) == {h \in Handler : b \in held[h]}

QuotaInv ==
    \A b \in Bucket :
       /\ allowed[b] + Cardinality(HeldBy(b)) <= granted[b]
       /\ granted[b] > 0 => granted[b] <= LimitOf[b[1]] + 1

CallInv ==
    \A h \in Handler :
       /\ step[h] # "idle" => pc[h] = "idle" /\ ret[h] \in {"none", "norule"}
       /\ step[h] \in Checks => query[h] \in Query /\ Parse[query[h].ip] # NoIP
       /\ step[h] = "reset login" => query[h] \in [login: Login]
       /\ step[h] = "reset ip" => query[h] \in [ip: Text] /\ Parse[query[h].ip] # NoIP

SureInv == \A h \in Handler : sure[h] \subseteq Said(h)

PermitInv == IInv /\ QuotaInv /\ CallInv /\ SureInv
=============================================================================
