------------------------------ MODULE Shutdown ------------------------------
(***************************************************************************)
(* The life of the brutefp process: Execute (internal/app/app.go), Run and *)
(* Close of the application (internal/app/brutefp.go), the Closer          *)
(* (pkg/utils/closer/closer.go) and the gRPC server it stops               *)
(* (pkg/servers/grpc/server.go), while requests are being served.          *)
(*                                                                         *)
(* Close runs the registered close functions in a goroutine, in the order  *)
(* of a map, and waits for the goroutine or for ten seconds, whichever     *)
(* comes first.  Both sides close the channel `complete`.                  *)
(***************************************************************************)
EXTENDS FiniteSets

CONSTANT
    Request     \* requests

VARIABLES
    store,      \* the rule repository
    main,       \* where the main goroutine is
    cancelled,  \* whether the context of the program is done
    starter,    \* the goroutine that starts the server
    server,     \* the gRPC server
    db,         \* the connection pool
    registered, \* Closer.closeFunc
    worker,     \* the goroutine of Closer.Close: the function it is in
    left,       \* the functions it has not called yet
    complete,   \* the channel that the goroutine closes
    expired,    \* whether the ten seconds are over
    process,    \* the process
    req         \* the requests

vars == <<store, main, cancelled, starter, server, db, registered, worker, left,
          complete, expired, process, req>>

appVars    == <<main, cancelled, starter, server, db, registered>>
closerVars == <<worker, left, complete, expired>>

Resource == {"db", "limiter", "server"}
InProgress == {"lookup", "limits"}

TypeOK ==
    /\ store \in {"none", "memory", "pgsql"}
    /\ main \in {"run", "wait", "select", "closed"}
    /\ cancelled \in BOOLEAN
    /\ starter \in {"none", "starting", "over"}
    /\ server \in {"new", "serving", "draining", "stopped"}
    /\ db \in {"open", "closed"}
    /\ registered \subseteq Resource
    /\ worker \in {"none", "next", "over"} \cup Resource
    /\ left \subseteq Resource
    /\ complete \in {"open", "closed"}
    /\ expired \in BOOLEAN
    /\ process \in {"up", "exited", "panicked"}
    /\ req \in [Request -> {"idle", "answered", "failed"} \cup InProgress]

(* What NewBruteFP has registered. *)
Init ==
    /\ store \in {"memory", "pgsql"}
    /\ main = "run"
    /\ cancelled = FALSE
    /\ starter = "none"
    /\ server = "new"
    /\ db = "open"
    /\ registered = {"limiter"} \cup (IF store = "pgsql" THEN {"db"} ELSE {})
    /\ worker = "none"
    /\ left = {}
    /\ complete = "open"
    /\ expired = FALSE
    /\ process = "up"
    /\ req = [r \in Request |-> "idle"]

-----------------------------------------------------------------------------
(* Run                                                                     *)

(* Mutant: what is told to stop closes the pool itself. *)
SignalClosesPool ==
    /\ ~cancelled
    /\ cancelled' = TRUE
    /\ db' = "closed"
    /\ UNCHANGED <<main, starter, server, registered, closerVars, process, req>>

(* SIGINT, SIGTERM or SIGHUP. *)
Signal ==
    /\ ~cancelled
    /\ cancelled' = TRUE
    /\ UNCHANGED <<main, starter, server, db, registered, closerVars, process, req>>

StartServing(closers) ==
    /\ main = "run"
    /\ main' = "wait"
    /\ starter' = "starting"
    /\ registered' = registered \cup closers
    /\ UNCHANGED <<cancelled, server, db, closerVars, process, req>>

RunForgetful == StartServing({})                        \* mutant

RunMisnamed == StartServing({"server", "another"})      \* mutant

Run == StartServing({"server"})

(* A server that was stopped before it was started does not serve. *)
Serve ==
    /\ starter = "starting"
    /\ IF server = "new"
       THEN server' = "serving" /\ UNCHANGED starter
       ELSE starter' = "over" /\ UNCHANGED server
    /\ UNCHANGED <<main, cancelled, db, registered, closerVars, process, req>>

(* The address is in use, or the listener breaks. *)
ServeFails ==
    /\ starter = "starting"
    /\ starter' = "over"
    /\ cancelled' = TRUE
    /\ UNCHANGED <<main, server, db, registered, closerVars, process, req>>

-----------------------------------------------------------------------------
(* Requests                                                                *)

Arrive(r) ==
    /\ server = "serving"
    /\ req[r] = "idle"
    /\ req' = [req EXCEPT ![r] = "lookup"]
    /\ UNCHANGED <<appVars, closerVars, process>>

(* A rule decides, or the limits do; a pool that is closed answers no query.*)
LookupRule(r) ==
    /\ req[r] = "lookup"
    /\ \E next \in IF store = "pgsql" /\ db = "closed"
                   THEN {"failed"} ELSE {"answered", "limits"} :
          req' = [req EXCEPT ![r] = next]
    /\ UNCHANGED <<appVars, closerVars, process>>

(* After Destroy, ExceedLimit makes its buckets anew. *)
CheckLimits(r) ==
    /\ req[r] = "limits"
    /\ req' = [req EXCEPT ![r] = "answered"]
    /\ UNCHANGED <<appVars, closerVars, process>>

-----------------------------------------------------------------------------
(* Close: the goroutine that calls the functions                           *)

StartClosing ==
    /\ main = "wait"
    /\ cancelled
    /\ main' = "select"
    /\ worker' = "next"
    /\ left' = registered
    /\ UNCHANGED <<cancelled, starter, server, db, registered, complete, expired,
                   process, req>>

NextCloser ==
    /\ worker = "next"
    /\ \E c \in left : worker' = c /\ left' = left \ {c}
    /\ UNCHANGED <<appVars, complete, expired, process, req>>

(* sql.DB.Close; a query is one step here, so none is running. *)
CloseDB ==
    /\ worker = "db"
    /\ db' = "closed"
    /\ worker' = "next"
    /\ UNCHANGED <<main, cancelled, starter, server, registered, left, complete,
                   expired, process, req>>

(* Destroy of the rate limiter, which the module FixedMemory details. *)
CloseLimiter ==
    /\ worker = "limiter"
    /\ worker' = "next"
    /\ UNCHANGED <<appVars, left, complete, expired, process, req>>

(* GracefulStop takes no more requests ...                                 *)
Drain ==
    /\ worker = "server"
    /\ server \in {"new", "serving"}
    /\ server' = "draining"
    /\ UNCHANGED <<main, cancelled, starter, db, registered, closerVars, process, req>>

(* Mutant: Stop instead of GracefulStop. *)
StopAtOnce ==
    /\ worker = "server"
    /\ server = "draining"
    /\ server' = "stopped"
    /\ worker' = "next"
    /\ UNCHANGED <<main, cancelled, starter, db, registered, left, complete, expired,
                   process, req>>

(* ... and waits for those in progress.                                    *)
Drained ==
    /\ worker = "server"
    /\ server = "draining"
    /\ \A r \in Request : req[r] \notin InProgress
    /\ server' = "stopped"
    /\ worker' = "next"
    /\ UNCHANGED <<main, cancelled, starter, db, registered, left, complete, expired,
                   process, req>>

(* Closing a closed channel ends the process, from whatever goroutine.     *)
CloseComplete ==
    IF complete = "closed"
    THEN process' = "panicked" /\ UNCHANGED complete
    ELSE complete' = "closed" /\ UNCHANGED process

(* The deferred close of the goroutine. *)
Complete ==
    /\ worker = "next"
    /\ left = {}
    /\ worker' = "over"
    /\ CloseComplete
    /\ UNCHANGED <<appVars, left, expired, req>>

-----------------------------------------------------------------------------
(* Close: the select                                                       *)

Expire ==
    /\ main = "select"
    /\ ~expired
    /\ expired' = TRUE
    /\ UNCHANGED <<appVars, worker, left, complete, process, req>>

(* Mutant: Close closes the channel in any case. *)
SelectCompleteAndClose ==
    /\ main = "select"
    /\ complete = "closed"
    /\ main' = "closed"
    /\ CloseComplete
    /\ UNCHANGED <<cancelled, starter, server, db, registered, worker, left, expired,
                   req>>

SelectComplete ==
    /\ main = "select"
    /\ complete = "closed"
    /\ main' = "closed"
    /\ UNCHANGED <<cancelled, starter, server, db, registered, closerVars, process, req>>

SelectTimeoutPatient == expired /\ SelectComplete      \* mutant

(* select takes either case when both are ready. *)
SelectTimeout ==
    /\ main = "select"
    /\ expired
    /\ main' = "closed"
    /\ CloseComplete
    /\ UNCHANGED <<cancelled, starter, server, db, registered, worker, left, expired,
                   req>>

(* main returns, and every other goroutine is gone. *)
Exit ==
    /\ main = "closed"
    /\ process' = "exited"
    /\ UNCHANGED <<appVars, closerVars, req>>

-----------------------------------------------------------------------------
Starting == Serve \/ ServeFails
Worker   == NextCloser \/ CloseDB \/ CloseLimiter \/ Drain \/ Drained \/ Complete
Main     == Run \/ StartClosing \/ SelectComplete \/ SelectTimeout \/ Exit
Serving(r) == Arrive(r) \/ LookupRule(r) \/ CheckLimits(r)

Living == Signal \/ Starting \/ Worker \/ Main \/ Expire \/ \E r \in Request : Serving(r)

Next == process = "up" /\ Living /\ UNCHANGED store

Spec == Init /\ [][Next]_vars

-----------------------------------------------------------------------------
(* A process that ends before the ten seconds are over has stopped its     *)
(* server, cut no request off and closed its pool: closer.go:51.           *)
CleanExit ==
    process = "exited" /\ ~expired
    => /\ server = "stopped"
       /\ \A r \in Request : req[r] \notin InProgress
       /\ store = "pgsql" => db = "closed"

(* The two sides of Close are in each other's way only when time runs out: *)
(* closer.go:40 and 54.                                                    *)
PanicNeedsTimeout == process = "panicked" => expired

(* No request finds the pool closed but while the program is closing, when *)
(* it may be closed before the server (closer.go:41 walks a map).          *)
FailsOnlyWhileClosing ==
    \A r \in Request : req[r] = "failed" => worker # "none"

(* The inductive invariant behind the three.                               *)
IInv ==
    /\ main = "run" <=> "server" \notin registered
    /\ store = "pgsql" => "db" \in registered
    /\ main \in {"run", "wait"}
       => worker = "none" /\ complete = "open" /\ ~expired
    /\ worker = "none" => db = "open" /\ main \in {"run", "wait"}
    /\ worker # "none" =>
          /\ "server" \in left \/ worker = "server" \/ server = "stopped"
          /\ store = "pgsql" => "db" \in left \/ worker = "db" \/ db = "closed"
    /\ worker = "over" => left = {}
    /\ complete = "closed" => worker = "over" \/ expired
    /\ main = "closed" => complete = "closed"
    /\ worker = "over" => complete = "closed"
    /\ server = "stopped" => \A r \in Request : req[r] \notin InProgress
    /\ process = "exited" => main = "closed"
    /\ PanicNeedsTimeout
    /\ FailsOnlyWhileClosing

-----------------------------------------------------------------------------
(* "closer exited by timeout" (closer.go:55): when the ten seconds are     *)
(* over Close gives up and returns; it does not bring the process down.    *)
TimeoutReturns == process # "panicked"
=============================================================================
