# TLA+ models of the anti-brute-force service

The repository is `brutefp`, a gRPC service that answers whether a login attempt
(login, password, address) may go on. White and black lists of networks decide first;
then three rate limits do, one for each of the values. The models here are written from
the Go sources under `src/`; the comments of the modules name the files and lines, and
`PROJECT.json` maps every definition to the lines it stands for.

    tlc -workers 2 -config limiter.cfg MCFixedMemory.tla      # a run
    tlapm FixedMemoryProofs.tla                               # the proofs of a module

## 1. The system

| Component | Source | State | Operations |
|---|---|---|---|
| rate limiter | `internal/ratelimit/` | the map of buckets and its mutex; per bucket a counter, the time of the last touch, a ticker, two channels and a goroutine | `ExceedLimit`, `ResetBucket`, `Destroy`; the goroutine clears the counter at every tick and asks for the removal of an idle bucket |
| white and black list | `internal/handler/grpc/ip_rule_impl.go`, `internal/service/ip_rule.go`, `internal/repository/{memory,pgsql}/ip_rule.go` | the rules, in a slice under a mutex or in a table | add to and delete from either list, find the verdict for an address |
| permit checker | `internal/service/permit_checker.go`, `internal/handler/grpc/permit_impl.go`, `internal/handler/grpc/dto/permit.go` | none of its own | `CheckQuery`: the lists, then login, password and address limits in that order; `ResetLogin`, `ResetIP` |
| command line client | `internal/app/brutefp-cli.go`, `internal/app/deps/brutecli/` | its context, the goroutine that reads commands | one command at a time, until `quit`, the end of the input or a signal |
| configuration | `internal/app/config/`, `pkg/utils/jsonx/duration.go` | none after the start | reading, defaults of the limits, durations |
| life of the process | `cmd/brutefp/`, `internal/app/`, `pkg/utils/closer/`, `pkg/servers/grpc/server.go` | the context, the closers that are registered, the server, the pool | `NewBruteFP`, `Run`, `Close` with ten seconds |
| database connection | `pkg/utils/pgconn/conn.go` | the pool | the loop that opens it at the start, `Close` |
| status of an error | `pkg/servers/grpc/rqres/status.go`, `pkg/utils/errx/` | none | error to gRPC status |
| generated gRPC code | `internal/handler/grpc/pb/` | none | stubs and dispatch |
| logger | `pkg/logger/` | the log file | output |
| authentication | `pkg/servers/grpc/auth_interceptor.go` | none | commented out where the server is made |

How they interact. gRPC runs every request in a goroutine of its own. A check calls
`GetRuleTypeForIP` and, when no rule decides, `ExceedLimit` up to three times; nothing is
held between the calls, so other requests go on in between. An addition to a list is a
search and an insertion (and, in the database, a reading back), a deletion is a search and
a deletion: again nothing is held between them. The limiter's mutex serialises its public
operations; the goroutine of a bucket does not take it and shares the counter and the time
of the last touch through atomics, `killCh` and `doneCh` through channels. The client sends
one request at a time and may give up waiting for it while the server goes on. When the
program is told to stop, the goroutine of `Closer.Close` stops the server, destroys the
limiter and closes the pool, in the order of a Go map, against a deadline of ten seconds.

What is hard, and where it bites, is in `PROJECT.json` under "hazards", each with the
properties that watch it. In short:

- an increment and its check are two atomics, with a tick possible in between;
- the mutex of all buckets is held while one bucket's goroutine is asked to end;
- a bucket is found idle in one goroutine and removed, by name, in another;
- `killCh` is closed by its reader: a second kill would panic;
- a check holds nothing between its four questions, while rules, windows and buckets change;
- one address has several spellings, and a reset must find the bucket the checks use;
- a duplicate is looked for and a rule inserted in separate steps, as is reading it back;
- a statement may have run although its answer was lost, a list may be cut short, and the
  process may end at any request in progress;
- a duration of the configuration may overflow, and a ticker of no period panics;
- a signal may come while the program still starts;
- `Close` and its goroutine both close one channel, and the order of the closers is random.

What makes each component correct:

- limiter: no window lets through more than its limit and the one request that may be in
  flight; nobody is refused before the limit is used up; no deadlock, no second kill, no
  goroutine without its bucket; an exhausted limit recovers; idle buckets go away;
- permit checker: the same bound over a whole check; who is on a list for the whole of a
  call is answered by the list and uses up nobody's quota; a reset empties what checks ask;
- lists: what was acknowledged stays and is in force until it is deleted, through failing
  statements and restarts; a NotFound is true; every request is answered;
- client: what it prints is true of the request it sent; the prompt comes back; it ends;
- process: it asks the limiter for valid limits only; told to stop, it ends, whenever that
  was; in time, it ends with its requests answered, its server stopped and its pool closed.

## 2. The modules

| Module | Stands for | Proofs |
|---|---|---|
| `Quota` | the windows of the limiter as its callers may count on them: what a window may let through, refuse and forget | |
| `RateWindow` | the calls of the limiter over `Quota`: no buckets, locks or clock | |
| `FixedMemory` | `fixed_memory.go`: every access to shared state is a step | `FixedMemoryProofs`, `FixedMemoryRefinement` |
| `BurstWindow` | `FixedMemory` where every step is quick, with a history of the last period | `PromptProofs` |
| `RuleBook` | the lists as those who use them may count on: one book of rules | |
| `IPRules` | the handlers, the service and both repositories of the lists | `IPRulesProofs` |
| `PermitChecker` | checks and resets over `IPRules` and `Quota` | `PermitCheckerProofs` |
| `Cli` | the client over `IPRules`, with restarts of client and server | `CliProofs` |
| `Shutdown` | `Run`, `Close`, the `Closer` and the server, with requests in progress | `ShutdownProofs` |
| `Startup` | the configuration and `NewBruteFP`, and then `Shutdown` | `StartupProofs` |
| `MCFixedMemory`, `MCBurstWindow`, `MCIPRules`, `MCPermitChecker`, `MCCli`, `MCStartup` | limits, networks, spellings, commands, files and symmetries for TLC | |

Three abstractions carry the rest. `FixedMemory` implements `RateWindow`, whose windows are
`Quota`; `PermitChecker` uses `Quota` in the place of the limiter, so what it shows is of
the limiter as it is written. `IPRules` implements `RuleBook`. `Startup` implements
`Shutdown`: a start that succeeds hands over exactly what `Shutdown` begins with.

### FixedMemory

Threads are request handlers (`Caller`), the closer of the program (`Closer`, which calls
`Destroy` once) and the goroutines that remove idle buckets. The last are all alike until
one holds the mutex, so `due[n]` counts those that wait to remove `n`, and `Reaper` is the
one that holds the mutex. `pc` says between which two accesses to shared state a thread is:

| Code | Actions |
|---|---|
| `ExceedLimit`, lines 32-42; `getBucket`, 105-115 | `RejectLimits`, `LookupBucket`, `NewBucket` (the Lock and what is done to the map under it) |
| `takeCount`, 147-152 | `Count` (AddInt64), `Touch` (StoreInt64), `Pass` / `Exceeded` (LoadInt64, Unlock) |
| `ResetBucket`, 45-58 | `ResetMissing`, `ResetFound`, `Kill` (the send), `Removed` (doneCh is closed, the entry goes, Unlock) |
| `Destroy`, 61-84 | `DestroyEmpty`, `DestroyStart`, `NextToKill`, `KillOne`, `AllDone` |
| `makeCounting`, 160-186 | `Start`, `Tick` (the counter is cleared), `Keep` / `Reap` (the idle test), `Exit` |
| time and `time.Ticker` | `Advance`: ages and phases move, a full `ticker.C` drops the tick |

A send on the unbuffered `killCh` and its receipt in the `select` are one step. A struct
that has left the map and whose goroutine is over is collected and its address may be used
again. A new bucket has the age `AgeCap`, since `touched` is zero, the year 1970, until the
first request stores the time. `granted` is history: the requests let through since the
counter was last cleared.

`PromptSpec` is the same system on a machine where every step is quick: the clock moves
only when nothing else is left to do but receive requests. `BurstWindow` adds to it a
history of the requests let through in the last period, whatever windows counted them: a
set of tokens, each with its age and its number among those of one instant. A reset by a
caller forgets them, for the caller asked for that.

### IPRules

One slot of `Handler` per request in progress. A call of a repository is one step: a
critical section in memory, a statement in the database. `Store` selects the repository; in
the database every statement may fail, before or after it took effect (`InsertFails`,
`DeleteFails`), and a list may be cut short without an error (`Reads`: `GetList` does not
ask `rows.Err`). `ProcessEnds` is the end of the process, after which docker restarts it
with the table as it was; `Panic`, `rules[0]` of an empty list, is one way there, for no
interceptor recovers. UUIDs are the slot and the network of an addition, and
`OneRulePerHandler` shows that this identifies a rule. Networks are model values with the
addresses they contain; `Covers` is `Contains` in memory and `<<` in the database. `acked`
is history: the rules whose addition was answered OK, until a removal deletes them.

`RuleBook` is what is left for those who ask: a book of rules without duplicates, which a
request changes, or is answered from, at one moment between its arrival and its answer. An
addition writes its rule and is confirmed (`Write`, `Confirm`, or both at once: `Enter`); it
is refused only because of a rule of its network (`Duplicate`). A removal finds a rule of the
network (`Find`) and strikes that one (`Strike`). A search gets the verdict of the whole
book. The mapping in `IPRules` forgets who added a row and what was read (`InForce`,
`PhaseOf`, `SubjectOf`). What `RuleBook` does not promise is what the code does not do: an
addition may be entered beside a rule of its network, and a removal may find a rule at one
moment and strike it at another.

### PermitChecker

A slot of `Handler` serves a permit request or a request of the lists. `step` is the next
question of a check: the rules (`AskRules`, the `Lookup` of `IPRules`), then the limits of
login, password and address (`AskLimit`), each over the bucket `BucketOf`. What a text is as
an address is `Parse`; the bucket has the parsed address, since the code writes it back from
its bytes (`dto/permit.go`). `Roll` is a tick or the removal of an idle bucket, at any
moment; `Crash` empties the windows and, in memory, the lists. History: `sure` is what the
lists have said for the whole of a call so far, `held` the buckets that have counted it,
`allowed` the queries let through per bucket and window.

### Cli

A client has the slot of the request it sends. `reader` is its goroutine: `Type` parses a
line and sends a request or not, `ShowAnswer` and `ShowReset` print what came back,
`LoseAnswer` gives up (the connection breaks, or the context is done) while the server goes
on with the request. `Quit` and `SignalClient` end its context, `EndClient` is the main
goroutine that returns, in whatever the reader is. `ServerEnds` is the server's process.
History: `shown` and `effect`, whether the request of the command has changed the rules.

### Startup and Shutdown

`Startup` begins with any `file` of `File` and follows `main` and `NewBruteFP` step by step
(`ReadConfig`, `StartLogger`, `Connect` and its failures, `MakeLimiter`, `MakeRepos`); each
may fail, and what is to be closed is registered on the way. `AsDuration` multiplies in a
machine word of `Word` values. A signal before `NotifyContext` ends the process
(`SignalTooEarly`); later it only cancels the context, which nothing looks at before `Run`
(`SignalEarly`). Then `Live` is the next-state relation of `Shutdown`.

`Shutdown` has the main goroutine (`Run`, `StartClosing`, `SelectComplete`, `SelectTimeout`,
`Exit`), the goroutine that starts the server (`Serve`, `ServeFails`), the goroutine of
`Close` (`NextCloser`, `CloseDB`, `CloseLimiter`, `Drain`, `Drained`, `Complete`), signals,
the deadline (`Expire`) and requests (`Arrive`, `LookupRule`, `CheckLimits`). `Destroy` is
one step here and detailed in `FixedMemory`; a query of the database is one step.

## 3. The runs

| Run | Instance | Shows |
|---|---|---|
| `limiter` | a name with limit 1, one with limit 0, 2 callers, closer, reaper, 2 structs, period 2 (297,441 states) | `NoSendOnClosed`, `NoOrphan`, `GrantBound`, `DenyJustified`, the inductive invariant with `MutualExclusion`, and that the limiter implements `RateWindow` (`KeepsPromise`) |
| `limiter_prompt` | two names with limit 1, a caller, closer, reaper, 2 structs, period 2, `BurstSpec` (849,627) | `RemovedInTime`: an idle bucket is gone before three periods are over; `BurstBound`: no stretch of one period lets through more than twice the limit and one; `ResetHitsItsName`: a removal never takes another name's bucket; `WaitsEnd`: nobody waits in vain with the mutex held, also where `Destroy` kills two buckets |
| `limiter_live` | one name, one caller, one struct, fairness (21,281) | `CallsReturn`, `Recovery`, `IdleRemoved` |
| `permit` | 2 slots, memory, a network, a login, a password, two spellings of an address and a text that is none, limits 1 (288,177) | `QuotaHolds`, `ListsHold`, `ListedNotCounted`, `ResetClears`, the inductive invariant |
| `cli` | a client and another slot, the database, a network, an IPv6 address, nine lines to type, fairness (83,604) | `AckedRuleStays`, `AckedIsEffective`, `NotFoundIsTrue`, `OneRulePerHandler` through failures and restarts; `KeepsBook`: the lists implement `RuleBook`; `AddedMeansAdded`, `RefusedIsHarmless`; `Answered`, `PromptComesBack`, `ClientEnds` |
| `shutdown` | 24 files, 3 requests, 6-bit integers, fairness (225,042) | `LimitsAreValid`, `CleanExit`, `PanicNeedsTimeout`, `FailsOnlyWhileClosing`, `Ends`, and that `Startup` implements `Shutdown` (`LivesAsPlanned`) |

The runs that end in a violation are disagreements between the code and its own text
("findings" in `PROJECT.json` quotes both):

| Run | Property that fails | Why |
|---|---|---|
| `limiter_stale_reaper` | `ReapsOnlyIdle` | the goroutine that removes an idle bucket does not look again whether it is idle, nor whether it is the same bucket |
| `rules_duplicate` | `OneRulePerNet` | two additions look for a duplicate before either inserts |
| `rules_wrong_list` | `RemovesFromItsList` | the search of a removal ignores the list it was asked for |
| `rules_panic` | `NeverUnavailable` | a removal between an insertion and its reading back |
| `rules_single_host` | `AckedIsEffective` | `<<` is strict: a rule for a single address never applies |
| `shutdown_timeout` | `TimeoutReturns` | `complete` is closed twice |

Disagreements and oddities met on the way that no run is about:

- The search puts an IPv4 mask on every address (`service/ip_rule.go:62`), and an IPv6
  address with such a mask has no text that is an `inet`. In the database a rule for an IPv6
  network is therefore accepted, acknowledged and never applied: every search for such an
  address is answered Internal. `AckedIsEffective` fails of every such rule, which is the
  lemma `IPv6NeverInForce`.
- A request whose increment went past the limit is let through when a tick clears the
  counter before it is read back (`fixed_memory.go:148-151`). `GrantBound` shows that this
  adds one request to a window at most, and it is the one in the `2 * Limit + 1` of
  `BurstBound`: the doubling that `fixed_memory.go:14` speaks of is reached, and exceeded by
  one.
- A failure of the database while a removal looks for its rule is answered InvalidArgument,
  since `getOne` (`service/ip_rule.go:99-106`) passes it on without `errx.FatalNew`.
- `GetList` (`pgsql/ip_rule.go:57`) does not ask `rows.Err`. The order of the list (white
  before black) and the driver, which reads the first row before the query returns, are
  what keeps the verdict right: `AckedIsEffective` holds with lists that are cut short.
  It asks that a search for every address of an acknowledged rule can come to a verdict
  (`Verdicts`) and that each it can come to is right; in the database this is so of IPv4
  networks of more than one address, as in `cli`, and of no other.
- A base duration whose product overflows to a small positive number is accepted
  (`duration.go:66`), and the windows are shorter than the file says. One that overflows to
  zero or less falls back to a minute.
- A start that fails, and a server that cannot listen, end the process with the exit code 0,
  so `restart: on-failure` (`docker-compose.yaml:36`) does not restart it. A start that
  fails does not close the pool or the log file it has opened.
- `sql.Open` of the driver in use does not connect, so the loop of `NewPgConn` ends at its
  first turn; the model has its retries and failures all the same, as the code has.

### Bounds

- `AgeCap` is three periods. The code compares ages with two; `RemovedInTime` needs to tell
  an age below three from one that is not.
- A counter stops at `Limit + 1`: the code compares it with `Limit` only. The proofs use the
  same definition, and the real counter is above the limit exactly when this one is.
- `MaxDue` is 1 in the runs: the clock waits while a removal of a name is due. The removal
  may still come arbitrarily late with respect to requests, resets and `Destroy`; it is the
  ticks that cannot pile up more removals of one name meanwhile. The proofs need no bound.
- Two structs are enough for a bucket and its successor, and for two names at a time. Where
  every struct is in use, a new bucket waits; with two names and two structs that never
  happens, and with one struct the old bucket is collected in the step that removes it.
- A limit of 1 makes the second request exceed it, so a window can hold the limit, the one
  request above it that `GrantBound` allows, and a refusal. A limit of 0 is not valid.
- The period is two clock units, so that a step can fall within a period.
- One caller in `limiter_prompt`: between two advances of the clock it may call any number
  of times, and calls are serialised by the mutex, so a second caller adds no order of
  counts. The bound of `BurstBound` is reached: a run with `2 * Limit` in its place fails.
- Two requests in progress are enough for every race of the lists, since each of them is
  about one request between two steps of another; the proofs have no bound. `permit` has
  two slots of any kind, so a check races a check, a reset, an addition or a removal.
- The network of `cli` has two IPv4 addresses, and the IPv6 address there, whose searches
  fail, is in no network: with an IPv6 network, or with one of a single address,
  `AckedIsEffective` fails (`IPv6NeverInForce`, `rules_single_host`).
- A statement of the database whose answer was lost has taken effect or not by the time the
  request is answered Internal (`InsertFails`, `DeleteFails`). One that the database commits
  later still, after the context is done or the connection has gone, is not modelled, and
  `OneRulePerHandler`, `AckedRuleStays`, `NotFoundIsTrue` and `KeepsBook` say nothing about
  it.
- `Cli`: the next request of a client to the lists waits until the one it has given up
  waiting for is over. Requests that overtake one another are those of the other slot.
- `shutdown` has 64 values for 2^64 and a day of 16 units, so that four days wrap to zero
  and two to less than zero, as longer ones do in the code. Each file has one thing that is
  unusual: nothing in the code reads two settings together but a value and its unit.
- `FixedMemory`, `IPRules` and `Cli` never stop. `Shutdown` and `Startup` do when the process
  is over, so their runs do not look for deadlocks: `Ends` does.

### Fairness

- `FixedMemory`: goroutines run and time passes (weak). `sync.Mutex` hands the lock to a
  waiter that has waited for a millisecond, and `select` takes a ready case at random, so a
  thread that again and again could take the lock, or have its kill received, does (strong).
  Each removal of an idle bucket waits in a goroutine of its own. No caller has to call.
- `Cli`: a request that the server has got goes on, for the database answers or fails; its
  answer arrives; the main goroutine of the client gets its turn (weak). Nobody has to type,
  to answer a client that has gone, or to end.
- `Startup`: the main goroutine runs, through the start and after, and ten seconds pass
  (weak). Nothing is assumed of requests, nor of the goroutine that may wait for them: that
  is what the deadline is for.

## 4. The proofs

For every number of names, buckets, callers, networks, logins, clients and requests, every
limit, period, configuration file and word size. The assumptions on the constants are those
named in the modules: threads are distinct, the null values are not members, the limits are
integers, `Store` is one of the two, `Handler` is finite where it is counted
(`PermitChecker`), a file is of `FileType` and a unit is positive. Two hypotheses are
assumed by the theorems they are named with below and by nothing else; both are about the
database repository only. `NoSingleHost` (no network is one address) is needed because such
a rule never matches (`rules_single_host`), `NoIPv6Net` (no network has an IPv6 address)
because every search for such an address fails (`IPv6NeverInForce`). The theorems that have only
the first are about the verdicts that are given, and allow a search to fail.

| Theorem | Says |
|---|---|
| `FixedMemoryProofs!TypeCorrect`, `Invariance` | `TypeOK` and the inductive invariant |
| `Mutex`, `NoPanic`, `NoWaitInVain`, `NoLeak`, `AtMostOneOver` | `MutualExclusion`, `NoSendOnClosed`, `WaitsEnd`, `NoOrphan`, `GrantBound` |
| `NoFalseDenial`, `ResetsByName` | the action properties `DenyJustified`, `ResetHitsItsName` |
| `FixedMemoryRefinement!Refinement` | `Spec => RateWindow!Spec` under the mapping of `FixedMemory` |
| `PromptProofs!IdleGoesInTime`, `BurstIsPrompt` | `RemovedInTime` of `PromptSpec`; `BurstSpec => PromptSpec` |
| `BurstIsBounded` | `BurstBound` |
| `IPRulesProofs!Invariance`, `DuplicatesBounded`, `Durability`, `NotFoundTrue` | the invariant, `OneRulePerHandler`, `AckedRuleStays`, `NotFoundIsTrue` |
| `Effective` (`NoSingleHost`, `NoIPv6Net`) | `AckedIsEffective` |
| `KeepsTheBook` (`NoSingleHost`) | `Spec => RuleBook!Spec` under the mapping `Book` |
| `PermitCheckerProofs!PermitInvariance`, `PermitTypes`, `QuotaIsHeld`, `ResetIsDone` | the invariant, `PermitTypeOK`, `QuotaHolds`, `ResetClears` |
| `ListedNeverCounted`, `ListsAreHeld` (`NoSingleHost`) | `ListedNotCounted`, `ListsHold` |
| `CliProofs!ClientInvariance`, `ClientTypes`, `RefusalIsHarmless`, `OKIsTrue`, `NotFoundToClients` | the invariant, `CliTypeOK`, `RefusedIsHarmless`, `AddedMeansAdded`, `NotFoundIsTrue` with restarts |
| `DurableAndEffective` (`NoSingleHost`, `NoIPv6Net`) | `AckedRuleStays` and `AckedIsEffective`, with clients and restarts |
| `BookOfClients` (`NoSingleHost`) | the refinement of `RuleBook`, with clients and restarts |
| `ShutdownProofs!Invariance`, `ExitIsClean`, `PanicOnlyAfterDeadline`, `ServesUntilClosing` | the invariant and the three safety properties |
| `StartupProofs!StartupInvariance`, `StartupTypes`, `WholeLife`, `LimitsValid` | the invariant, `StartupTypeOK`, the same three over the whole life, `LimitsAreValid` |
| `StartsLife` | `StartupSpec => Shutdown!Spec` under the mapping `Life` |

The argument for the limiter. `MutualExclusion` alone is inductive. `MapInv` says that the
map and the buckets point at each other, `ItemInv` what a thread in the middle of an
operation knows of its bucket; both hold since only the holder of the mutex changes the map.
`DyingInv` says that a goroutine that is ending was killed by the thread that holds the
mutex now: hence no bucket is killed twice, and none outlives its entry. `GrantBound` is not
inductive. A tick may clear the counter between the two atomics of a request, so that the
counter is 0 and the request is let through: from then on `granted` is one ahead of
the counter. `QuotaInv` says that it never is more than one ahead, and that the
counter runs ahead of `granted` only while a request is in flight or once the limit is
used up. At most one request is in flight per bucket, by the mutex, and the tick clears
both. `WaitsEnd` is the part of freedom from deadlock that is a state: `KillingInv` says
that `Destroy` has killed each bucket of the map that is no longer on its list, so whoever
waits for `doneCh` waits for a goroutine that has taken its kill, and that goroutine needs
no mutex to end. For the refinement, the steps of `ExceedLimit`, `ResetBucket` and `Destroy` that
return map to the steps of `RateWindow`, `Tick` to `Roll`, and a removal carried out by the
reaper to `Roll` too: no client asked for it. Everything else stutters.

For the time an idle bucket stays (`PromptProofs`), `RemovedInTime` speaks of quiet states
only. The strengthening `FreshInv` speaks of all: either a bucket was touched less than two
periods before its last tick (`age < 2 * Period + phase`), or something is about to attend
to it: a tick that waits, a goroutine that judges it, a removal that is due, a thread that
touches or kills it, or `Destroy`. Each of these hands over to the next or ends with a
touch, a judgement of less than two periods, or the removal, and the clock waits for all of
them. With `phase < Period` a quiet bucket is younger than three periods.

`BurstBound` counts the requests of a stretch of a period, which no window of the code
knows. `SpentInv` keeps an account of them for each bucket that is in use: the requests of
the last period (`Spent`) and those its counter has still room for before it is cleared
(`Left`) are together at most twice the limit and one. A request moves one from `Left` to
`Spent`. The tick that clears the counter gives the whole limit back, and is taken when a
full period is over since the last: then `Spent` is within what the window has counted, and
within the limit, since those let through before the last tick are forgotten and those
after it (`Young`) were all counted in this window. What could still break it is a bucket
that goes away and comes back with a counter of 0 while its requests are recent. `TouchInv`
says that a bucket was touched after every recent request for its name, so one that is
found idle has none; a request may still come before the removal, in the same instant, and
while a removal is due (`Reaping`) the account is of one limit and one only, which is what
the new bucket starts with (`GoneInv`). `TokenInv` says that tokens of one instant are
numbered without gaps, so that a request adds one; with it the bounds on numbers are bounds
on the cardinality of `recent` (`FiniteSetTheorems`). `OnceInv` says that a tick is taken and
judged in the instant it fires, and that no second removal is ordered while one is due.

For the lists, `RequestInv` says that a request about to insert has no rule of that network
under its slot, and that one that reads back finds at most its own; then an insertion never
makes two rules of one slot, and only `Delete` removes a rule, with its acknowledgement. For
a list that is cut short, `ReadsOrdered` says that it is not empty and has a white rule if
the whole has one. For the client, `WaitInv` relates where its request is to what it has
done: nothing before the insertion or the deletion, the rule once it is to be read back or
was answered OK; so it holds of whatever is printed, and the end of the server's process
leaves only answers that say nothing. The client and the restarts take no other steps over
the lists than their own (`ClientOfLists`).

For the refinement of `RuleBook`, an insertion maps to `Write`, or to `Enter` in memory, its
reading back to `Confirm`, the two statements of a removal to `Find` and `Strike`, each
failure to one of the book, a look for a duplicate that finds none to a stutter, and the end
of the process, `Panic` included, to `Restart`. `RequestInv` gives that a row that is read
back is of the type that was asked for, so that `Confirm` is said of a rule in the book; `ReadsOrdered` and
`NoSingleHost` give that the verdict of a list that is cut short is that of the whole
(`BookVerdict`); a deletion takes all duplicates of the rule it found (`BookWithout`), for
otherwise a rule that was struck would still be in the book.

For the permits, `QuotaInv` says that a window has counted every query let through in it
and every one that has passed its limit and is still being checked:
`allowed[b] + Cardinality(HeldBy(b)) <= granted[b]`. A clearing of the window forgets both
sides. `SureInv` says that what is sure of a call is still so; then the rules decide when
they are asked, and a call that goes on to the limits has nothing that is sure.

For the process, the invariant says for every registered resource that it is still to be
closed, being closed, or closed: at the end of the goroutine nothing is left, so all are
closed. `BootInv` adds what is registered at each step of the start, and that nothing of
the life has begun yet; hence the last step of a start maps to a stutter of `Shutdown`.

Model-checked only:

- liveness, which is out of the prover's reach: `CallsReturn`, `Recovery`, `IdleRemoved`,
  `Answered`, `PromptComesBack`, `ClientEnds`, `Ends`.

Every safety invariant and every action property of a run that passes is a theorem.

## 5. What is not modelled

- Authentication: the interceptor is commented out where the server is made.
- What the logger writes, the command `version`, the texts a client prints beyond OK and
  error, the SQL text and the scanning of rows, the syntax of JSON (a file is readable or
  not), the encoding of messages, which protoc generates: none of it keeps state.
- The goroutine that clears the cache of the query builder: it touches nothing modelled.
- `PermissionDenied` and the errors of a validation, which `rqres.FromError` knows and no
  handler here produces.
- The exit code of the process and what docker makes of it.
- Several server processes over one table: the deployment starts one.
