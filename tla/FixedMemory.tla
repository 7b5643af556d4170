----------------------------- MODULE FixedMemory -----------------------------
(***************************************************************************)
(* The rate limiter of internal/ratelimit/fixed_memory.go.                 *)
(*                                                                         *)
(* A bucket is a counter with a goroutine of its own: the goroutine clears *)
(* the counter at every tick, and when the bucket was not touched for two  *)
(* periods it spawns a goroutine that resets (removes) the bucket by name. *)
(* The map of buckets is guarded by one mutex, held for the whole of each  *)
(* public operation; the goroutine of a bucket does not take it, and the   *)
(* counter and the time of the last touch are shared through atomics only. *)
(*                                                                         *)
(* Threads: request handlers (Caller), the closer of the program (Closer,  *)
(* which calls Destroy once) and the goroutines spawned to remove an idle  *)
(* bucket.  Those are alike: due[n] counts the ones that wait for the      *)
(* mutex to remove n, and Reaper stands for the one that holds it.         *)
(*                                                                         *)
(* A step of a thread is one access to shared state: the mutex, an atomic, *)
(* a channel.  What is done under the mutex to the map alone is one step   *)
(* with the Lock that precedes it.                                         *)
(***************************************************************************)
EXTENDS Integers, FiniteSets

CONSTANTS
    Name,       \* bucket names
    Bucket,     \* addresses of bucket structs; one is reused when collected
    Caller,     \* request handlers
    Closer,     \* the thread of the program's shutdown
    Reaper,     \* the spawned goroutine that holds the mutex
    Limit,      \* Limits.Limit that the callers pass for a name
    Period,     \* Limits.Period, in units of the clock
    MaxDue,     \* BOUND: the clock waits while this many removals are due
    NoName, NoBucket, NoThread

Thread == Caller \cup {Closer, Reaper}

ASSUME ThreadAssumption ==
    /\ Closer \notin Caller
    /\ Reaper \notin Caller \cup {Closer}
    /\ NoThread \notin Thread

ASSUME NameAssumption == NoName \notin Name /\ NoBucket \notin Bucket

ASSUME LimitAssumption ==
    /\ Limit \in [Name -> Int]
    /\ Period \in Nat
    /\ MaxDue \in Nat \ {0}

VARIABLES
    (* the limiter *)
    mu,         \* the holder of FixedMemory.mu
    buckets,    \* FixedMemory.buckets
    (* the buckets *)
    nameOf,     \* bucket.name
    counter,    \* bucket.counter, which stops at Limit + 1
    age,        \* time since bucket.touched, which stops at AgeCap
    gor,        \* where the goroutine of the bucket is
    phase,      \* time since the last tick of its ticker
    pending,    \* whether a tick waits in ticker.C
    (* the threads *)
    pc, arg, item, ret,
    todo,       \* the buckets Destroy has still to kill
    due,        \* goroutines spawned to remove a name, not yet running
    (* history *)
    granted     \* requests let through since the counter was last cleared

vars == <<mu, buckets, nameOf, counter, age, gor, phase, pending,
          pc, arg, item, ret, todo, due, granted>>

(***************************************************************************)
(* BOUND: ages are told apart up to three periods; the code compares with  *)
(* two.                                                                    *)
(***************************************************************************)
AgeCap == 3 * Period

Goroutine == {"unborn", "born", "select", "judge", "dying", "done"}

Step == {"idle",
         "exceed", "count", "touch", "verdict",
         "reset", "kill", "wait",
         "destroy", "killall", "waitall"}

Holding == {"count", "touch", "verdict", "kill", "wait", "killall", "waitall"}

Answer == {"none", "pass", "exceeded", "invalid", "found", "missing", "ok"}

TypeOK ==
    /\ mu \in Thread \cup {NoThread}
    /\ buckets \in [Name -> Bucket \cup {NoBucket}]
    /\ nameOf \in [Bucket -> Name \cup {NoName}]
    /\ counter \in [Bucket -> Nat]
    /\ age \in [Bucket -> Nat]
    /\ gor \in [Bucket -> Goroutine]
    /\ phase \in [Bucket -> Nat]
    /\ pending \in [Bucket -> BOOLEAN]
    /\ pc \in [Thread -> Step]
    /\ arg \in [Thread -> Name \cup {NoName}]
    /\ item \in [Thread -> Bucket \cup {NoBucket}]
    /\ ret \in [Thread -> Answer]
    /\ todo \subseteq Bucket
    /\ due \in [Name -> Nat]
    /\ granted \in [Bucket -> Nat]

Init ==
    /\ mu = NoThread
    /\ buckets = [n \in Name |-> NoBucket]
    /\ nameOf = [b \in Bucket |-> NoName]
    /\ counter = [b \in Bucket |-> 0]
    /\ age = [b \in Bucket |-> 0]
    /\ gor = [b \in Bucket |-> "unborn"]
    /\ phase = [b \in Bucket |-> 0]
    /\ pending = [b \in Bucket |-> FALSE]
    /\ pc = [t \in Thread |-> "idle"]
    /\ arg = [t \in Thread |-> NoName]
    /\ item = [t \in Thread |-> NoBucket]
    /\ ret = [t \in Thread |-> "none"]
    /\ todo = {}
    /\ due = [n \in Name |-> 0]
    /\ granted = [b \in Bucket |-> 0]

-----------------------------------------------------------------------------
(* Calls and returns                                                       *)

Call(t, op, n) ==
    /\ pc[t] = "idle"
    /\ pc' = [pc EXCEPT ![t] = op]
    /\ arg' = [arg EXCEPT ![t] = n]
    /\ ret' = [ret EXCEPT ![t] = "none"]
    /\ UNCHANGED <<mu, buckets, nameOf, counter, age, gor, phase, pending,
                   item, todo, due, granted>>

(* The closers of the program run once. *)
CallDestroy == ret[Closer] = "none" /\ Call(Closer, "destroy", NoName)

(* Back to the caller: the deferred Unlock, and the locals are gone.       *)
(* Nobody looks at the answer a spawned goroutine gets.                    *)
Return(t, a) ==
    /\ mu' = NoThread
    /\ pc' = [pc EXCEPT ![t] = "idle"]
    /\ arg' = [arg EXCEPT ![t] = NoName]
    /\ item' = [item EXCEPT ![t] = NoBucket]
    /\ ret' = IF t = Reaper THEN ret ELSE [ret EXCEPT ![t] = a]

Acquire(t, step, b) ==
    /\ mu = NoThread
    /\ mu' = t
    /\ pc' = [pc EXCEPT ![t] = step]
    /\ item' = [item EXCEPT ![t] = b]

-----------------------------------------------------------------------------
(* ExceedLimit                                                             *)

LimitsValid(n) == Period > 0 /\ Limit[n] > 0

RejectLimits(t) ==
    /\ pc[t] = "exceed"
    /\ mu = NoThread
    /\ ~LimitsValid(arg[t])
    /\ Return(t, "invalid")
    /\ UNCHANGED <<buckets, nameOf, counter, age, gor, phase, pending,
                   todo, due, granted>>

LookupBucket(t) ==
    /\ pc[t] = "exceed"
    /\ LimitsValid(arg[t])
    /\ buckets[arg[t]] # NoBucket
    /\ Acquire(t, "count", buckets[arg[t]])
    /\ UNCHANGED <<buckets, nameOf, counter, age, gor, phase, pending,
                   arg, ret, todo, due, granted>>

(* The zero value of bucket.touched is the year 1970. *)
NewBucket(t) ==
    /\ pc[t] = "exceed"
    /\ LimitsValid(arg[t])
    /\ buckets[arg[t]] = NoBucket
    /\ \E b \in Bucket :
          /\ gor[b] = "unborn"
          /\ Acquire(t, "count", b)
          /\ buckets' = [buckets EXCEPT ![arg[t]] = b]
          /\ nameOf' = [nameOf EXCEPT ![b] = arg[t]]
          /\ age' = [age EXCEPT ![b] = AgeCap]
          /\ gor' = [gor EXCEPT ![b] = "born"]
    /\ UNCHANGED <<counter, phase, pending, arg, ret, todo, due,
                   granted>>

(* BOUND: the counter stops at Limit + 1; the code only compares it with   *)
(* Limit.                                                                  *)
Incremented(b) ==
    IF counter[b] <= Limit[nameOf[b]] THEN counter[b] + 1 ELSE counter[b]

Count(t) ==
    /\ pc[t] = "count"
    /\ counter' = [counter EXCEPT ![item[t]] = Incremented(item[t])]
    /\ pc' = [pc EXCEPT ![t] = "touch"]
    /\ UNCHANGED <<mu, buckets, nameOf, age, gor, phase, pending,
                   arg, item, ret, todo, due, granted>>

Touch(t) ==
    /\ pc[t] = "touch"
    /\ age' = [age EXCEPT ![item[t]] = 0]
    /\ pc' = [pc EXCEPT ![t] = "verdict"]
    /\ UNCHANGED <<mu, buckets, nameOf, counter, gor, phase, pending,
                   arg, item, ret, todo, due, granted>>

WithinLimitStrictly(b) == counter[b] < Limit[nameOf[b]]         \* mutant

WithinLimitAndOne(b) == counter[b] <= Limit[nameOf[b]] + 1      \* mutant

WithinLimit(b) == counter[b] <= Limit[nameOf[b]]

Pass(t) ==
    /\ pc[t] = "verdict"
    /\ WithinLimit(item[t])
    /\ granted' = [granted EXCEPT ![item[t]] = @ + 1]
    /\ Return(t, "pass")
    /\ UNCHANGED <<buckets, nameOf, counter, age, gor, phase, pending,
                   todo, due>>

Exceeded(t) ==
    /\ pc[t] = "verdict"
    /\ ~WithinLimit(item[t])
    /\ Return(t, "exceeded")
    /\ UNCHANGED <<buckets, nameOf, counter, age, gor, phase, pending,
                   todo, due, granted>>

-----------------------------------------------------------------------------
(* ResetBucket, called by a handler or by a goroutine spawned to remove an *)
(* idle bucket                                                             *)

(* Mutant: a removal that no goroutine was spawned for. *)
ResetRequestUnasked(t, n) ==
    \/ t # Reaper /\ pc[t] = "reset" /\ arg[t] = n
    \/ t = Reaper /\ pc[t] = "idle"

ResetRequest(t, n) ==
    \/ t # Reaper /\ pc[t] = "reset" /\ arg[t] = n
    \/ t = Reaper /\ pc[t] = "idle" /\ due[n] > 0

Taken(t, n) == IF t = Reaper THEN [due EXCEPT ![n] = @ - 1] ELSE due

ResetMissing(t, n) ==
    /\ ResetRequest(t, n)
    /\ mu = NoThread
    /\ buckets[n] = NoBucket
    /\ Return(t, "missing")
    /\ due' = Taken(t, n)
    /\ UNCHANGED <<buckets, nameOf, counter, age, gor, phase, pending,
                   todo, granted>>

ResetFound(t, n) ==
    /\ ResetRequest(t, n)
    /\ buckets[n] # NoBucket
    /\ Acquire(t, "kill", buckets[n])
    /\ arg' = [arg EXCEPT ![t] = n]
    /\ due' = Taken(t, n)
    /\ UNCHANGED <<buckets, nameOf, counter, age, gor, phase, pending,
                   ret, todo, granted>>

(* killCh has no buffer: the send and the receive in the goroutine's       *)
(* select are one step.                                                    *)
Receive(b) ==
    /\ gor[b] = "select"
    /\ gor' = [gor EXCEPT ![b] = "dying"]

(* Mutant: the mutex is released before the wait for doneCh. *)
KillAndUnlock(t) ==
    /\ pc[t] = "kill"
    /\ Receive(item[t])
    /\ pc' = [pc EXCEPT ![t] = "wait"]
    /\ mu' = NoThread
    /\ UNCHANGED <<buckets, nameOf, counter, age, phase, pending,
                   arg, item, ret, todo, due, granted>>

Kill(t) ==
    /\ pc[t] = "kill"
    /\ Receive(item[t])
    /\ pc' = [pc EXCEPT ![t] = "wait"]
    /\ UNCHANGED <<mu, buckets, nameOf, counter, age, phase, pending,
                   arg, item, ret, todo, due, granted>>

(* The structs of B left the map and their goroutines are over: collected. *)
Collect(B) ==
    /\ nameOf' = [b \in Bucket |-> IF b \in B THEN NoName ELSE nameOf[b]]
    /\ counter' = [b \in Bucket |-> IF b \in B THEN 0 ELSE counter[b]]
    /\ age' = [b \in Bucket |-> IF b \in B THEN 0 ELSE age[b]]
    /\ gor' = [b \in Bucket |-> IF b \in B THEN "unborn" ELSE gor[b]]
    /\ phase' = [b \in Bucket |-> IF b \in B THEN 0 ELSE phase[b]]
    /\ pending' = [b \in Bucket |-> IF b \in B THEN FALSE ELSE pending[b]]
    /\ granted' = [b \in Bucket |-> IF b \in B THEN 0 ELSE granted[b]]

(* Mutant: ResetBucket empties the map, as Destroy does. *)
RemovedWithAll(t) ==
    /\ pc[t] = "wait"
    /\ gor[item[t]] = "done"
    /\ buckets' = [n \in Name |-> NoBucket]
    /\ Collect({item[t]})
    /\ Return(t, "found")
    /\ UNCHANGED <<todo, due>>

Removed(t) ==
    /\ pc[t] = "wait"
    /\ gor[item[t]] = "done"
    /\ buckets' = [buckets EXCEPT ![arg[t]] = NoBucket]
    /\ Collect({item[t]})
    /\ Return(t, "found")
    /\ UNCHANGED <<todo, due>>

-----------------------------------------------------------------------------
(* Destroy: the goroutines that wait for each bucket's doneCh are the test *)
(* in AllDone that every bucket is done.                                   *)

InMap == {b \in Bucket : \E n \in Name : buckets[n] = b}

DestroyEmpty(t) ==
    /\ pc[t] = "destroy"
    /\ mu = NoThread
    /\ InMap = {}
    /\ Return(t, "ok")
    /\ UNCHANGED <<buckets, nameOf, counter, age, gor, phase, pending,
                   todo, due, granted>>

DestroyStart(t) ==
    /\ pc[t] = "destroy"
    /\ InMap # {}
    /\ Acquire(t, "killall", NoBucket)
    /\ todo' = InMap
    /\ UNCHANGED <<buckets, nameOf, counter, age, gor, phase, pending,
                   arg, ret, due, granted>>

(* The map is walked in any order; the send waits for the bucket chosen.   *)
NextToKill(t) ==
    /\ pc[t] = "killall"
    /\ item[t] = NoBucket
    /\ \E b \in todo :
          /\ item' = [item EXCEPT ![t] = b]
          /\ todo' = todo \ {b}
    /\ UNCHANGED <<mu, buckets, nameOf, counter, age, gor, phase, pending,
                   pc, arg, ret, due, granted>>

(* Mutant: Destroy waits when the first bucket is killed.                  *)
KillFirst(t) ==
    /\ pc[t] = "killall"
    /\ item[t] # NoBucket
    /\ Receive(item[t])
    /\ item' = [item EXCEPT ![t] = NoBucket]
    /\ pc' = [pc EXCEPT ![t] = "waitall"]
    /\ UNCHANGED <<mu, buckets, nameOf, counter, age, phase, pending,
                   arg, ret, todo, due, granted>>

KillOne(t) ==
    /\ pc[t] = "killall"
    /\ item[t] # NoBucket
    /\ Receive(item[t])
    /\ item' = [item EXCEPT ![t] = NoBucket]
    /\ pc' = [pc EXCEPT ![t] = IF todo = {} THEN "waitall" ELSE @]
    /\ UNCHANGED <<mu, buckets, nameOf, counter, age, phase, pending,
                   arg, ret, todo, due, granted>>

(* Mutant: the map is dropped before the goroutines are over. *)
AllDropped(t) ==
    /\ pc[t] = "waitall"
    /\ buckets' = [n \in Name |-> NoBucket]
    /\ Return(t, "ok")
    /\ UNCHANGED <<nameOf, counter, age, gor, phase, pending, granted, todo, due>>

AllDone(t) ==
    /\ pc[t] = "waitall"
    /\ \A b \in InMap : gor[b] = "done"
    /\ buckets' = [n \in Name |-> NoBucket]
    /\ Collect(InMap)
    /\ Return(t, "ok")
    /\ UNCHANGED <<todo, due>>

-----------------------------------------------------------------------------
(* The goroutine of a bucket (makeCounting)                                *)

Start(b) ==
    /\ gor[b] = "born"
    /\ gor' = [gor EXCEPT ![b] = "select"]
    /\ UNCHANGED <<mu, buckets, nameOf, counter, age, phase, pending,
                   pc, arg, item, ret, todo, due, granted>>

Tick(b) ==
    /\ gor[b] = "select"
    /\ pending[b]
    /\ pending' = [pending EXCEPT ![b] = FALSE]
    /\ counter' = [counter EXCEPT ![b] = 0]
    /\ granted' = [granted EXCEPT ![b] = 0]
    /\ gor' = [gor EXCEPT ![b] = "judge"]
    /\ UNCHANGED <<mu, buckets, nameOf, age, phase,
                   pc, arg, item, ret, todo, due>>

NeedKillLate(b) == age[b] >= 3 * Period                         \* mutant

NeedKillOtherUnit(b) == age[b] >= 2 * Period * Period           \* mutant

NeedKill(b) == age[b] >= 2 * Period

(* Mutant: the goroutine does not go back to its select. *)
KeepAndEnd(b) ==
    /\ gor[b] = "judge"
    /\ ~NeedKill(b)
    /\ gor' = [gor EXCEPT ![b] = "done"]
    /\ UNCHANGED <<mu, buckets, nameOf, counter, age, phase, pending,
                   pc, arg, item, ret, todo, due, granted>>

Keep(b) ==
    /\ gor[b] = "judge"
    /\ ~NeedKill(b)
    /\ gor' = [gor EXCEPT ![b] = "select"]
    /\ UNCHANGED <<mu, buckets, nameOf, counter, age, phase, pending,
                   pc, arg, item, ret, todo, due, granted>>

(* Mutant: the goroutine calls ResetBucket itself, and waits for itself.   *)
ReapInline(b) ==
    /\ gor[b] = "judge"
    /\ NeedKill(b)
    /\ due[nameOf[b]] = 0
    /\ due' = [due EXCEPT ![nameOf[b]] = 1]
    /\ UNCHANGED <<mu, buckets, nameOf, counter, age, gor, phase, pending,
                   pc, arg, item, ret, todo, granted>>

Reap(b) ==
    /\ gor[b] = "judge"
    /\ NeedKill(b)
    /\ due' = [due EXCEPT ![nameOf[b]] = @ + 1]
    /\ gor' = [gor EXCEPT ![b] = "select"]
    /\ UNCHANGED <<mu, buckets, nameOf, counter, age, phase, pending,
                   pc, arg, item, ret, todo, granted>>

(* The deferred Stop and the two closes. *)
Exit(b) ==
    /\ gor[b] = "dying"
    /\ gor' = [gor EXCEPT ![b] = "done"]
    /\ UNCHANGED <<mu, buckets, nameOf, counter, age, phase, pending,
                   pc, arg, item, ret, todo, due, granted>>

-----------------------------------------------------------------------------
(* The clock and the tickers it drives.  A ticker that finds its channel   *)
(* full drops the tick.                                                    *)

Ticking(b) == gor[b] \in {"select", "judge"}

TickerFiresTooOften(b) == Ticking(b)        \* mutant: a tick per clock unit

TickerFires(b) == Ticking(b) /\ phase[b] + 1 >= Period

Advance ==
    /\ \A n \in Name : due[n] < MaxDue
    /\ age' = [b \in Bucket |->
                 IF gor[b] # "unborn" /\ age[b] < AgeCap
                 THEN age[b] + 1 ELSE age[b]]
    /\ phase' = [b \in Bucket |->
                   IF ~Ticking(b) THEN phase[b]
                   ELSE IF TickerFires(b) THEN 0 ELSE phase[b] + 1]
    /\ pending' = [b \in Bucket |-> pending[b] \/ TickerFires(b)]
    /\ UNCHANGED <<mu, buckets, nameOf, counter, gor,
                   pc, arg, item, ret, todo, due, granted>>

-----------------------------------------------------------------------------
Request ==
    \/ \E t \in Caller, n \in Name : Call(t, "exceed", n) \/ Call(t, "reset", n)
    \/ CallDestroy

Exceeding(t) ==
    \/ RejectLimits(t) \/ LookupBucket(t) \/ NewBucket(t)
    \/ Count(t) \/ Touch(t) \/ Pass(t) \/ Exceeded(t)

Resetting(t) ==
    \/ \E n \in Name : ResetMissing(t, n) \/ ResetFound(t, n)
    \/ Kill(t) \/ Removed(t)

Destroying(t) ==
    \/ DestroyEmpty(t) \/ DestroyStart(t)
    \/ NextToKill(t) \/ KillOne(t) \/ AllDone(t)

ThreadStep(t) == Exceeding(t) \/ Resetting(t) \/ Destroying(t)

BucketStep(b) == Start(b) \/ Tick(b) \/ Keep(b) \/ Reap(b) \/ Exit(b)

Work == (\E t \in Thread : ThreadStep(t)) \/ (\E b \in Bucket : BucketStep(b))

Next == Request \/ Work \/ Advance

Spec == Init /\ [][Next]_vars

(***************************************************************************)
(* Fairness.  Goroutines run and the clock goes on.  sync.Mutex hands the  *)
(* lock to a waiter that has waited for 1ms, and select takes a ready case *)
(* at random: a thread that again and again could take the mutex, or have  *)
(* its send received, does.  Every goroutine spawned to remove a name is a *)
(* waiter of its own.  No caller has to call.                              *)
(***************************************************************************)
Fairness ==
    /\ WF_vars(Advance)
    /\ \A b \in Bucket : WF_vars(BucketStep(b))
    /\ \A t \in Thread : SF_vars(ThreadStep(t))
    /\ \A n \in Name : SF_vars(\/ ResetMissing(Reaper, n)
                               \/ ResetFound(Reaper, n))

FairSpec == Spec /\ Fairness

(***************************************************************************)
(* A machine on which every step is quick: the clock moves only when       *)
(* nothing else is left to do.                                             *)
(***************************************************************************)
Quiet ==
    /\ \A t \in Thread : pc[t] = "idle"
    /\ \A n \in Name : due[n] = 0
    /\ \A b \in Bucket : gor[b] \in {"unborn", "select"} /\ ~pending[b]

PromptNext == Request \/ Work \/ (Quiet /\ Advance)

PromptSpec == Init /\ [][PromptNext]_vars

-----------------------------------------------------------------------------
(* Safety                                                                  *)

(* One thread at a time is between Lock and Unlock of FixedMemory.mu, and  *)
(* mu names it: fixed_memory.go:33, 46, 62.                                *)
MutualExclusion ==
    \A t \in Thread : pc[t] \in Holding <=> mu = t

(* kill() never sends on a killCh that its goroutine has closed, which     *)
(* would panic (fixed_memory.go:156 and 165): nobody else may have killed  *)
(* the bucket a thread is about to kill, nor has its goroutine ended.      *)
NoSendOnClosed ==
    \A t \in Thread :
       /\ pc[t] = "kill" \/ (pc[t] = "killall" /\ item[t] # NoBucket)
       => gor[item[t]] \in {"born", "select", "judge"}

(* No wait under the mutex is in vain: who waits for doneCh has had the    *)
(* kill of each bucket it waits for received, and Destroy does not begin   *)
(* to wait, or stop to kill, before: fixed_memory.go:51-52 and 70-80.      *)
(* With NoSendOnClosed, the holder of the mutex can go on or the goroutine *)
(* it waits for can; that they do is CallsReturn.                          *)
WaitsEnd ==
    \A t \in Thread :
       /\ pc[t] = "wait" => gor[item[t]] \in {"dying", "done"}
       /\ pc[t] = "killall" /\ item[t] = NoBucket => todo # {}
       /\ pc[t] = "waitall" => \A b \in InMap : gor[b] \in {"dying", "done"}

(* A bucket that has left the map has no goroutine left (nobody could stop *)
(* it any more: a leak), and one that is in the map has a goroutine that   *)
(* will clear its counter, but while a thread is removing it.              *)
NoOrphan ==
    \A b \in Bucket :
       /\ gor[b] # "unborn" => buckets[nameOf[b]] = b
       /\ b \in InMap /\ mu = NoThread => gor[b] \in {"born", "select", "judge"}

(* Whatever the interleaving of requests with the goroutine that clears    *)
(* the counter, a window lets through at most one request more than the    *)
(* limit.  fixed_memory.go:147-152 counts and compares in two steps.       *)
GrantBound ==
    \A n \in Name :
       buckets[n] # NoBucket => granted[buckets[n]] <= Limit[n] + 1

(* A request is dropped only when the whole of the limit was used in the   *)
(* current window.                                                         *)
DenyJustified ==
    [][\A t \in Caller :
          pc[t] = "verdict" /\ pc'[t] = "idle" /\ ret'[t] = "exceeded"
          => granted[item[t]] >= Limit[arg[t]]]_vars

(* Only the goroutine of a name, or a reset of it, clears its count: a     *)
(* thread resets the bucket it looked up, under the name it was asked for. *)
ResetHitsItsName ==
    [][\A n \in Name :
          buckets[n] # NoBucket /\ buckets'[n] = NoBucket
          => \E t \in Thread :
                \/ pc[t] = "wait" /\ arg[t] = n /\ item[t] = buckets[n]
                \/ pc[t] = "waitall"]_vars

(* What callers are promised. *)
Promised(step) ==
    CASE step = "idle" -> "idle"
      [] step \in {"exceed", "count", "touch", "verdict"} -> "exceed"
      [] step \in {"reset", "kill", "wait"} -> "reset"
      [] OTHER -> "destroy"

Client == Caller \cup {Closer}

InWindow(n) == IF buckets[n] = NoBucket THEN 0 ELSE granted[buckets[n]]

Window == INSTANCE RateWindow WITH
    op <- [t \in Client |-> Promised(pc[t])],
    arg <- [t \in Client |-> arg[t]],
    ret <- [t \in Client |-> ret[t]],
    granted <- [n \in Name |-> InWindow(n)]

(* The limiter keeps the promise of RateWindow. *)
KeepsPromise == Window!Spec

(* On a machine where every step is quick, a bucket is removed before      *)
(* three periods have passed since it was last touched.                    *)
RemovedInTime ==
    Quiet => \A n \in Name : buckets[n] # NoBucket => age[buckets[n]] < AgeCap

-----------------------------------------------------------------------------
(* The inductive invariant behind the safety properties                    *)

(* The map and the buckets point at each other, and only valid limits ever *)
(* made a bucket.                                                          *)
MapInv ==
    /\ \A n \in Name :
          buckets[n] # NoBucket
          => nameOf[buckets[n]] = n /\ gor[buckets[n]] # "unborn" /\ LimitsValid(n)
    /\ \A b \in Bucket :
          gor[b] # "unborn" => nameOf[b] \in Name /\ buckets[nameOf[b]] = b

(* What a thread in the middle of an operation knows of its bucket.        *)
ItemInv ==
    /\ pc[Reaper] \in {"idle", "kill", "wait"}
    /\ \A t \in Thread :
          /\ pc[t] \in {"exceed", "reset"} => arg[t] \in Name
          /\ pc[t] \in {"count", "touch", "verdict", "kill", "wait"}
             => arg[t] \in Name /\ buckets[arg[t]] = item[t] /\ item[t] # NoBucket
          /\ pc[t] = "killall" =>
                /\ \A b \in todo : gor[b] # "unborn"
                /\ item[t] # NoBucket
                   => item[t] \notin todo /\ gor[item[t]] # "unborn"

(* A goroutine ends only because the thread that removes its bucket, and   *)
(* that still holds the mutex, killed it.                                  *)
Killed(t, b) ==
    \/ pc[t] = "wait" /\ item[t] = b
    \/ pc[t] = "killall" /\ b \notin todo /\ item[t] # b
    \/ pc[t] = "waitall"

DyingInv ==
    \A b \in Bucket :
       gor[b] \in {"dying", "done"} => \E t \in Thread : Killed(t, b)

(* How the count and the number of requests let through drift apart: by at *)
(* most one, while the limit is not reached.  A request is in flight       *)
(* between its AddInt64 and its LoadInt64.                                 *)
InFlight(b) == \E t \in Thread : pc[t] \in {"touch", "verdict"} /\ item[t] = b

Quota(b, limit) ==
    /\ counter[b] <= limit + 1
    /\ granted[b] <= limit + 1
    /\ IF InFlight(b)
       THEN /\ granted[b] <= counter[b]
            /\ counter[b] <= granted[b] + 1 \/ granted[b] >= limit
       ELSE /\ granted[b] <= counter[b] + 1
            /\ counter[b] <= granted[b] \/ granted[b] >= limit

QuotaInv ==
    \A b \in Bucket :
       IF gor[b] = "unborn" THEN counter[b] = 0 /\ granted[b] = 0
       ELSE Quota(b, Limit[nameOf[b]])

IInv == MutualExclusion /\ MapInv /\ ItemInv /\ DyingInv /\ QuotaInv

-----------------------------------------------------------------------------
(* Liveness                                                                *)

(* Every call returns: no caller waits for ever for the mutex, for a       *)
(* goroutine to take its kill or for it to be done.                        *)
CallsReturn == \A t \in Client : pc[t] # "idle" ~> pc[t] = "idle"

(* The limit does not last for ever: an exhausted counter is cleared.      *)
Exhausted(n) == buckets[n] # NoBucket /\ counter[buckets[n]] > Limit[n]

Recovery == \A n \in Name : Exhausted(n) ~> ~Exhausted(n)

(* A bucket does not stay for ever after the last request for its name.    *)
Asked(n) == \E t \in Caller : arg[t] = n /\ Promised(pc[t]) = "exceed"

IdleRemoved ==
    \A n \in Name : buckets[n] # NoBucket ~> buckets[n] = NoBucket \/ Asked(n)

-----------------------------------------------------------------------------
(* What the comments say and the code does not do                          *)

(* "If there were no new signals in the bucket for two periods, we delete  *)
(* it" (fixed_memory.go:175): the removal that the goroutine of a bucket   *)
(* asks for removes only a bucket that is idle.                            *)
ReapsOnlyIdle ==
    [][\A n \in Name :
          mu = Reaper /\ buckets[n] # NoBucket /\ buckets'[n] = NoBucket
          => NeedKill(buckets[n])]_vars
=============================================================================
