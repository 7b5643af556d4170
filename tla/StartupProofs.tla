---------------------------- MODULE StartupProofs ----------------------------
(***************************************************************************)
(* Proofs about the whole life of the process (Startup), for any set of    *)
(* configuration files and requests, any word and any units.               *)
(***************************************************************************)
EXTENDS Startup, ShutdownProofs

LEMMA BootInit ==
    ASSUME StartupInit
    PROVE  StartupTypeOK /\ BootInv
BY DEF StartupInit, StartupTypeOK, Steps, BootInv, TypeOK, Resource, InProgress, IInv,
       PanicNeedsTimeout, FailsOnlyWhileClosing

LEMMA FailsInv ==
    ASSUME StartupTypeOK, BootInv, Fails, boot # "up", UNCHANGED file
    PROVE  (StartupTypeOK /\ BootInv)'
<1>1. (TypeOK /\ IInv)'
  BY StutterInv DEF StartupTypeOK, BootInv, Fails
<1> QED
  BY <1>1 DEF StartupTypeOK, BootInv, Fails, vars

(* Up to Run, nothing but the signal touches what IInv speaks of; what is  *)
(* registered is never the server.                                         *)
LEMMA BootStepInv ==
    ASSUME StartupTypeOK, BootInv, BootStep, UNCHANGED file
    PROVE  (StartupTypeOK /\ BootInv)'
<1> USE DEF StartupTypeOK, BootInv, TypeOK, IInv, Resource, InProgress,
            PanicNeedsTimeout, FailsOnlyWhileClosing, Planned, Steps, vars, Fails, Proceeds,
            appVars, closerVars
<1>1. CASE ReadConfig
  BY <1>1 DEF ReadConfig
<1>2. CASE StartLogger
  BY <1>2 DEF StartLogger
<1>3. CASE Connect
  BY <1>3 DEF Connect
<1>4. CASE ConnectBadly /\ attempt # Attempts
  <2>1. attempt' \in Nat
    BY <1>4 DEF ConnectBadly
  <2> QED
    BY <1>4, <2>1 DEF ConnectBadly
<1>7. CASE (ConnectBadly /\ attempt = Attempts) \/ ConnectFails
  <2> QED
    BY <1>7, FailsInv DEF ConnectBadly, ConnectFails
<1>5. CASE MakeLimiter
  BY <1>5 DEF MakeLimiter
<1>6. CASE MakeRepos
  BY <1>6 DEF MakeRepos
<1> QED
  BY <1>1, <1>2, <1>3, <1>4, <1>5, <1>6, <1>7 DEF BootStep

LEMMA SignalInv ==
    ASSUME StartupTypeOK, BootInv, SignalTooEarly \/ SignalEarly, UNCHANGED file
    PROVE  (StartupTypeOK /\ BootInv)'
<1>1. CASE SignalTooEarly
  BY <1>1, FailsInv DEF SignalTooEarly
<1>2. CASE SignalEarly
  <2>1. (TypeOK /\ IInv)'
    BY <1>2, MainInv DEF SignalEarly, StartupTypeOK, BootInv, Steps
  <2> QED
    BY <1>2, <2>1 DEF StartupTypeOK, BootInv, SignalEarly, Signal, Steps, closerVars, Planned
<1> QED
  BY <1>1, <1>2

LEMMA LiveInv ==
    ASSUME StartupTypeOK, BootInv, Live, UNCHANGED file
    PROVE  (StartupTypeOK /\ BootInv)'
<1>1. (TypeOK /\ IInv)'
  BY MainInv, WorkerInv, RequestInv DEF StartupTypeOK, BootInv, Live, Next, Living
<1> QED
  BY <1>1 DEF StartupTypeOK, BootInv, Live, Next

(* The inductive invariant of the whole life of the process.               *)
THEOREM StartupInvariance == StartupSpec => [](StartupTypeOK /\ BootInv)
<1>1. StartupInit => StartupTypeOK /\ BootInv
  BY BootInit
<1>2. (StartupTypeOK /\ BootInv) /\ [StartupNext]_startVars => (StartupTypeOK /\ BootInv)'
  <2>1. ASSUME StartupTypeOK, BootInv, UNCHANGED startVars
        PROVE  (StartupTypeOK /\ BootInv)'
    <3>1. (TypeOK /\ IInv)'
      BY <2>1, StutterInv DEF StartupTypeOK, BootInv, startVars
    <3> QED
      BY <2>1, <3>1 DEF StartupTypeOK, BootInv, startVars, vars, Planned
  <2> QED
    BY <2>1, BootStepInv, SignalInv, LiveInv DEF StartupNext
<1> QED
  BY <1>1, <1>2, PTL DEF StartupSpec

(* Every variable keeps its type through the start, the life and the end   *)
(* of the process: internal/app/brutefp.go.                                *)
THEOREM StartupTypes == StartupSpec => []StartupTypeOK
BY StartupInvariance, PTL

(* The three properties of the end of the process hold of every life,      *)
(* whatever the file said and whenever the signals came.                   *)
THEOREM WholeLife == StartupSpec => [](CleanExit /\ PanicNeedsTimeout /\ FailsOnlyWhileClosing)
<1>1. StartupTypeOK /\ BootInv => CleanExit /\ PanicNeedsTimeout /\ FailsOnlyWhileClosing
  BY DEF StartupTypeOK, TypeOK, Resource, BootInv, IInv, CleanExit
<1> QED
  BY <1>1, StartupInvariance, PTL

-----------------------------------------------------------------------------
(* A product, whatever its size, wraps to some integer.                    *)
LEMMA WrappedType ==
    ASSUME NEW n \in Int
    PROVE  Wrapped(n) \in Int
BY StartupAssumption DEF Wrapped

LEMMA FirstType ==
    ASSUME NEW S, NEW s \in Seq(S), s # <<>>
    PROVE  s[1] \in S
<1>1. Len(s) # 0 /\ Len(s) \in Nat
  OBVIOUS
<1> QED
  BY <1>1

LEMMA DurationType ==
    ASSUME NEW d, d.value \in Int
    PROVE  AsDuration(d) \in Int
<1>1. CASE d.unit \in DOMAIN UnitOf
  <2>1. d.value * UnitOf[d.unit] \in Int
    BY <1>1, StartupAssumption DEF MaxInt
  <2> QED
    BY <1>1, <2>1, WrappedType DEF AsDuration
<1>2. CASE d.unit \notin DOMAIN UnitOf
  BY <1>2 DEF AsDuration
<1> QED
  BY <1>1, <1>2

(* The limits that a query is checked against are ones that the limiter    *)
(* accepts (rate_limit.go:23), for every file that the program reads.      *)
THEOREM LimitsValid == StartupSpec => []LimitsAreValid
<1>1. ASSUME StartupTypeOK, NEW p \in Param
      PROVE  Valid(LimitsOf(file, p))
  <2>1. file \in FileType
    BY <1>1, FileAssumption DEF StartupTypeOK
  <2>2. Given(file).value \in Int
    <3>1. CASE file.base = <<>>
      BY <3>1 DEF Given
    <3>2. CASE file.base # <<>>
      <4>1. file.base \in Seq([value: Int, unit: Seq(STRING)])
        BY <2>1 DEF FileType
      <4>2. file.base[1] \in [value: Int, unit: Seq(STRING)]
        BY <3>2, <4>1, FirstType
      <4> QED
        BY <3>2, <4>2 DEF Given, Parsed
    <3> QED
      BY <3>1, <3>2
  <2>3. AsDuration(BaseDuration(file)) \in Int
    BY <2>2, DurationType DEF BaseDuration, OneMinute
  <2>4. LimitOf(file, p) > 0
    BY <1>1, <2>1 DEF LimitOf, DefLimits, Param, FileType
  <2>5. UnitOf["m"] > 0
    BY StartupAssumption DEF MaxInt
  <2> QED
    BY <2>3, <2>4, <2>5 DEF LimitsOf, Valid
<1>2. StartupTypeOK => LimitsAreValid
  BY <1>1 DEF LimitsAreValid
<1> QED
  BY <1>2, StartupInvariance, PTL

-----------------------------------------------------------------------------
(* Once the process is up, its steps are those of Shutdown.                *)
LEMMA LiveStep ==
    ASSUME BootInv, Live, UNCHANGED file
    PROVE  Life!Next
<1> DEFINE Here == boot = "up" /\ boot' = "up" /\ store = file.storage
                   /\ store \in {"memory", "pgsql"} /\ file' = file /\ store' = store
<1>0. Here /\ process = "up" /\ Living
  BY DEF Live, BootInv, Next
<1>1. CASE Signal \/ Starting \/ Expire
  BY <1>0, <1>1 DEF Life!Next, Life!Living, Signal, Life!Signal, Starting, Life!Starting,
     Serve, Life!Serve, ServeFails, Life!ServeFails, Expire, Life!Expire, closerVars,
     Life!closerVars, appVars, Life!appVars
<1>2. CASE Worker
  BY <1>0, <1>2 DEF Life!Next, Life!Living, Worker, Life!Worker, NextCloser,
     Life!NextCloser, CloseDB, Life!CloseDB, CloseLimiter, Life!CloseLimiter, Drain,
     Life!Drain, Drained, Life!Drained, InProgress, Life!InProgress, Complete,
     Life!Complete, CloseComplete, Life!CloseComplete, closerVars, Life!closerVars,
     appVars, Life!appVars
<1>3. CASE Main
  BY <1>0, <1>3 DEF Life!Next, Life!Living, Main, Life!Main, Run, Life!Run, StartServing,
     Life!StartServing, StartClosing, Life!StartClosing, SelectComplete,
     Life!SelectComplete, SelectTimeout, Life!SelectTimeout, CloseComplete,
     Life!CloseComplete, Exit, Life!Exit, closerVars, Life!closerVars, appVars,
     Life!appVars
<1>4. ASSUME NEW r \in Request, Serving(r)
      PROVE  Life!Next
  BY <1>0, <1>4 DEF Life!Next, Life!Living, Serving, Life!Serving, Arrive, Life!Arrive,
     LookupRule, Life!LookupRule, CheckLimits, Life!CheckLimits, closerVars,
     Life!closerVars, appVars, Life!appVars
<1> QED
  BY <1>0, <1>1, <1>2, <1>3, <1>4 DEF Living

(* The steps of the start are none of the life it prepares; only an early  *)
(* signal is one.                                                          *)
LEMMA StartStep ==
    ASSUME BootInv, BootStep \/ SignalTooEarly, UNCHANGED file
    PROVE  UNCHANGED Life!vars
<1> USE DEF BootInv, Life!vars, vars, Planned, Fails, Proceeds
<1>1. CASE ReadConfig \/ StartLogger \/ ConnectBadly \/ ConnectFails \/ SignalTooEarly
  BY <1>1 DEF ReadConfig, StartLogger, ConnectBadly, ConnectFails, SignalTooEarly
<1>2. CASE Connect \/ MakeLimiter
  BY <1>2 DEF Connect, MakeLimiter, closerVars
<1>3. CASE MakeRepos
  BY <1>3 DEF MakeRepos, appVars, closerVars
<1> QED
  BY <1>1, <1>2, <1>3 DEF BootStep

LEMMA EarlySignal ==
    ASSUME BootInv, SignalEarly, UNCHANGED file
    PROVE  Life!Next
BY DEF BootInv, SignalEarly, Steps, Signal, Life!Next, Life!Living, Life!Signal, closerVars,
       Life!closerVars, Planned

(* The start, when it succeeds, hands over what Shutdown begins with, and  *)
(* what follows is a life of Shutdown (brutefp.go:41-74).                  *)
THEOREM StartsLife == StartupSpec => LivesAsPlanned
<1>1. StartupInit => Life!Init
  BY DEF StartupInit, Life!Init, Planned
<1>2. BootInv /\ [StartupNext]_startVars => [Life!Next]_(Life!vars)
  <2>1. BootInv /\ StartupNext => [Life!Next]_(Life!vars)
    BY LiveStep, StartStep, EarlySignal DEF StartupNext
  <2>2. BootInv /\ UNCHANGED startVars => UNCHANGED Life!vars
    BY DEF startVars, vars, Life!vars, Planned
  <2> QED
    BY <2>1, <2>2
<1> QED
  BY <1>1, <1>2, StartupInvariance, PTL DEF StartupSpec, LivesAsPlanned, Life!Spec
=============================================================================
