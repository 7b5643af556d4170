------------------------------- MODULE Startup -------------------------------
(***************************************************************************)
(* The start of the brutefp process, up to the life that Shutdown models:  *)
(* main (cmd/brutefp/main.go) reads the configuration (internal/app/config,*)
(* pkg/utils/jsonx/duration.go), and NewBruteFP (internal/app/brutefp.go)  *)
(* makes the logger, the connection pool (pkg/utils/pgconn/conn.go), the   *)
(* rate limiter and the repositories (internal/app/deps/brutefp/deps.go),  *)
(* registering what is to be closed.  Any of these steps may fail, and a   *)
(* signal may arrive between two of them.                                  *)
(***************************************************************************)
EXTENDS Shutdown, Integers, Sequences

CONSTANTS
    File,       \* what the configuration file may say
    Word,       \* the values that a machine integer has
    UnitOf      \* a unit of time, in nanoseconds (both scaled down)

MaxInt == Word \div 2 - 1

ASSUME StartupAssumption ==
    /\ Word \in Nat /\ Word > 3
    /\ UnitOf \in [DOMAIN UnitOf -> 1 .. MaxInt]
    /\ {"s", "m"} \subseteq DOMAIN UnitOf
    /\ "none" \notin DOMAIN UnitOf

Param == {"login", "password", "ip"}

(* Base durations are optional texts: a value and what follows it. *)
FileType ==
    [readable: BOOLEAN, base: Seq([value: Int, unit: Seq(STRING)]),
     limits: [Param -> Int], level: STRING, logFile: BOOLEAN,
     storage: STRING, method: STRING, attempts: Int]

ASSUME FileAssumption == File \subseteq FileType

VARIABLES
    file,       \* the configuration file
    boot,       \* what the start does next
    attempt     \* of the loop of NewPgConn

startVars == <<vars, file, boot, attempt>>

-----------------------------------------------------------------------------
(* Durations (jsonx)                                                       *)

NoValue == -1       \* a text that starts with no digit

(* ParseDuration: digits, then one letter or none. *)
Parses(text) ==
    /\ text.value \in 0 .. MaxInt
    /\ Len(text.unit) <= 1
    /\ \A i \in DOMAIN text.unit : text.unit[i] \in DOMAIN UnitOf

Parsed(text) ==
    [value |-> text.value, unit |-> IF text.unit = <<>> THEN "s" ELSE text.unit[1]]

(* What the machine makes of a product. *)
Wrapped(n) == LET r == n % Word IN IF r > MaxInt THEN r - Word ELSE r

(* AsDuration; both its callers treat its error as they treat a zero. *)
AsDuration(d) ==
    IF d.unit \in DOMAIN UnitOf THEN Wrapped(d.value * UnitOf[d.unit]) ELSE 0

-----------------------------------------------------------------------------
(* The configuration that config.New makes of a file                       *)

DefLimits == [login |-> 10, password |-> 100, ip |-> 1000]

(* A file that does not give the base duration leaves it zero. *)
Given(f) == IF f.base = <<>> THEN [value |-> 0, unit |-> "none"] ELSE Parsed(f.base[1])

Readable(f) == f.readable /\ \A i \in DOMAIN f.base : Parses(f.base[i])

OneMinute == [value |-> 1, unit |-> "m"]

BaseDuration(f) == IF AsDuration(Given(f)) <= 0 THEN OneMinute ELSE Given(f)

LimitUnlessNegative(f, p) ==                            \* mutant
    IF f.limits[p] < 0 THEN DefLimits[p] ELSE f.limits[p]

LimitOf(f, p) == IF f.limits[p] <= 0 THEN DefLimits[p] ELSE f.limits[p]

(* PermitCheckerSrv.Check makes its limits of it for every query. *)
LimitsOf(f, p) ==
    LET period == AsDuration(BaseDuration(f))
    IN  [period |-> IF period <= 0 THEN UnitOf["m"] ELSE period, limit |-> LimitOf(f, p)]

Valid(limits) == limits.period > 0 /\ limits.limit > 0

-----------------------------------------------------------------------------
Steps == {"config", "logger", "connect", "limiter", "repos"}

StartupTypeOK ==
    /\ TypeOK
    /\ file \in File
    /\ boot \in Steps \cup {"up", "failed"}
    /\ attempt \in Nat

StartupInit ==
    /\ store = "none" /\ registered = {}
    /\ main = "run" /\ cancelled = FALSE /\ starter = "none" /\ server = "new"
    /\ db = "open" /\ worker = "none" /\ left = {} /\ complete = "open"
    /\ expired = FALSE /\ process = "up"
    /\ req = [r \in Request |-> "idle"]
    /\ file \in File
    /\ boot = "config"
    /\ attempt = 1

(* The process is over: main returns, or log.Fatal ends it.  What is       *)
(* registered is not closed.                                               *)
Fails == boot' = "failed" /\ UNCHANGED <<vars, attempt>>

Proceeds(next) == boot' = next /\ UNCHANGED <<vars, attempt>>

ReadConfig ==
    /\ boot = "config"
    /\ IF Readable(file) THEN Proceeds("logger") ELSE Fails

(* NotifyContext is called after config.New: a signal ends the process.    *)
SignalTooEarly == boot = "config" /\ Fails

Levels == {"info", "warn", "error", "fatal", "debug"}

StartLogger ==
    /\ boot = "logger"
    /\ IF file.level \notin Levels \/ ~file.logFile THEN Fails
       ELSE Proceeds(IF file.storage = "pgsql" THEN "connect" ELSE "limiter")

Attempts == IF file.attempts <= 0 THEN 1 ELSE file.attempts

Connect ==
    /\ boot = "connect"
    /\ boot' = "limiter"
    /\ registered' = registered \cup {"db"}
    /\ UNCHANGED <<store, main, cancelled, starter, server, db, closerVars, process, req,
                   attempt>>

(* sql.Open answers ErrBadConn: try again, as often as the file says. *)
ConnectBadly ==
    /\ boot = "connect"
    /\ IF attempt = Attempts THEN Fails
       ELSE attempt' = attempt + 1 /\ UNCHANGED <<vars, boot>>

(* Any other error is final. *)
ConnectFails == boot = "connect" /\ Fails

(* Mutant: the limiter is not registered. *)
MakeLimiterOnly ==
    /\ boot = "limiter"
    /\ Proceeds("repos")

MakeLimiter ==
    /\ boot = "limiter"
    /\ IF file.method # "fixed_memory" THEN Fails
       ELSE /\ boot' = "repos"
            /\ registered' = registered \cup {"limiter"}
            /\ UNCHANGED <<store, main, cancelled, starter, server, db, closerVars,
                           process, req, attempt>>

MakeRepos ==
    /\ boot = "repos"
    /\ IF file.storage \notin {"memory", "pgsql"} THEN Fails
       ELSE /\ boot' = "up"
            /\ store' = file.storage
            /\ UNCHANGED <<appVars, closerVars, process, req, attempt>>

BootStep ==
    \/ ReadConfig \/ StartLogger \/ Connect \/ ConnectBadly \/ ConnectFails
    \/ MakeLimiter \/ MakeRepos

(* The context is done; nothing looks at it before Run. *)
SignalEarly ==
    /\ boot \in Steps \ {"config"}
    /\ Signal
    /\ UNCHANGED <<store, boot, attempt>>

Live == boot = "up" /\ Next /\ UNCHANGED <<boot, attempt>>

StartupNext ==
    /\ BootStep \/ SignalTooEarly \/ SignalEarly \/ Live
    /\ UNCHANGED file

StartupSpec == StartupInit /\ [][StartupNext]_startVars

(***************************************************************************)
(* Fairness: the main goroutine runs and the ten seconds pass.  A request  *)
(* may take as long as it wants (the database need not answer), so none is *)
(* assumed to go on, and neither is the worker that may wait for it.       *)
(***************************************************************************)
StartupFairSpec ==
    /\ StartupSpec
    /\ WF_startVars(BootStep /\ UNCHANGED file)
    /\ WF_startVars(boot = "up" /\ process = "up" /\ Main /\ UNCHANGED <<store, file, boot, attempt>>)
    /\ WF_startVars(boot = "up" /\ process = "up" /\ Expire /\ UNCHANGED <<store, file, boot, attempt>>)

-----------------------------------------------------------------------------
(* What is registered before Run. *)
Planned == {"limiter"} \cup (IF file.storage = "pgsql" THEN {"db"} ELSE {})

(* The inductive invariant.  The start leaves the life of the process as   *)
(* it begins, and registers one resource after the other.                  *)
BootInv ==
    /\ IInv
    /\ boot = "up" => store \in {"memory", "pgsql"} /\ store = file.storage
    /\ boot # "up" =>
          /\ store = "none" /\ main = "run" /\ starter = "none" /\ server = "new"
          /\ db = "open" /\ worker = "none" /\ left = {} /\ complete = "open"
          /\ ~expired /\ process = "up" /\ req = [r \in Request |-> "idle"]
    /\ boot \in {"config", "logger"} => registered = {}
    /\ boot = "connect" => registered = {} /\ file.storage = "pgsql"
    /\ boot = "limiter" => registered = Planned \ {"limiter"}
    /\ boot = "repos" => registered = Planned

(* Whatever the file says - nothing, a zero, a duration that overflows -   *)
(* the limiter is asked with limits that it accepts: config.go:41-58 and   *)
(* permit_checker.go:44-47, for Limits.Valid of rate_limit.go:23.          *)
LimitsAreValid == boot = "up" => \A p \in Param : Valid(LimitsOf(file, p))

(* A process that was told to end does end, whenever it was told: while it *)
(* starts (conn.go:46 retries and does not look at the context), or while  *)
(* it serves (closer.go:50 does not wait for ever).                        *)
Ends == cancelled ~> process # "up" \/ boot = "failed"

Life == INSTANCE Shutdown WITH
    store      <- IF file.storage = "pgsql" THEN "pgsql" ELSE "memory",
    registered <- IF boot = "up" THEN registered ELSE Planned

(* A start that succeeds hands over what Shutdown starts from: everything  *)
(* that NewBruteFP made is registered to be closed (brutefp.go:41-74), and *)
(* a signal that came early is not lost.                                   *)
LivesAsPlanned == Life!Spec
=============================================================================
