---------------------------- MODULE PromptProofs ----------------------------
(***************************************************************************)
(* Proofs about the limiter on a machine where every step is quick         *)
(* (PromptSpec of FixedMemory), for every set of names, buckets and        *)
(* callers, every limit and every period: how long an idle bucket stays,   *)
(* and how many requests are let through around the boundary of a window.  *)
(***************************************************************************)
EXTENDS FixedMemoryProofs, BurstWindow, FiniteSetTheorems

(* A ticker fires before a whole period has gone by since it last did.     *)
PhaseInv == \A b \in Bucket : phase[b] = 0 \/ phase[b] < Period

(* Something that is about to happen will clear, judge, touch or remove it.*)
Attended(b) ==
    \/ pending[b] \/ gor[b] = "judge"
    \/ due[nameOf[b]] > 0
    \/ \E t \in Thread :
          \/ pc[t] \in {"count", "touch", "kill", "wait"} /\ item[t] = b
          \/ pc[t] \in {"killall", "waitall"}

(* A bucket that nothing is about to happen to was touched less than two   *)
(* periods before the last tick of its ticker.                             *)
FreshInv ==
    \A b \in Bucket :
       gor[b] # "unborn" => age[b] < 2 * Period + phase[b] \/ Attended(b)

-----------------------------------------------------------------------------
LEMMA InitFresh ==
    ASSUME Init
    PROVE  PhaseInv /\ FreshInv
BY DEF Init, PhaseInv, FreshInv

(* A ticker moves with the clock, and is made and collected at zero.       *)
LEMMA PhaseStep ==
    ASSUME TypeOK, PhaseInv, [Next]_vars
    PROVE  PhaseInv'
<1>1. CASE Advance
  BY <1>1, LimitAssumption DEF Advance, TypeOK, PhaseInv, TickerFires, Ticking
<1>2. CASE phase' = phase
  BY <1>2 DEF PhaseInv
<1>3. CASE \E B \in SUBSET Bucket : Collect(B)
  BY <1>3 DEF PhaseInv, Collect
<1>4. ASSUME NEW t \in Thread, ThreadStep(t)
      PROVE  phase' = phase \/ \E B \in SUBSET Bucket : Collect(B)
  <2>1. CASE Removed(t)
    <3>1. Collect({item[t]} \cap Bucket)
      BY <2>1 DEF Removed, Collect
    <3> QED BY <3>1
  <2>2. CASE AllDone(t)
    BY <2>2 DEF AllDone, InMap
  <2> QED
    BY <1>4, <2>1, <2>2
       DEF ThreadStep, Exceeding, Resetting, Destroying, RejectLimits, LookupBucket,
           NewBucket, Count, Touch, Pass, Exceeded, ResetMissing, ResetFound, Kill,
           DestroyEmpty, DestroyStart, NextToKill, KillOne
<1>5. ASSUME Request \/ (\E b \in Bucket : BucketStep(b)) \/ UNCHANGED vars
      PROVE  phase' = phase
  BY <1>5 DEF Request, CallDestroy, Call, BucketStep, Start, Tick, Keep, Reap, Exit, vars
<1> QED BY <1>1, <1>2, <1>3, <1>4, <1>5 DEF Next, Work

(* A step that touches no bucket, lets no time pass and takes nobody's     *)
(* attention from a bucket leaves it fresh.                                *)
LEMMA FreshFrame ==
    ASSUME FreshInv, age' = age, phase' = phase,
           \A b \in Bucket : gor'[b] # "unborn" => gor[b] # "unborn",
           \A b \in Bucket : gor[b] # "unborn" /\ Attended(b) => Attended(b)'
    PROVE  FreshInv'
BY DEF FreshInv

LEMMA RequestFresh ==
    ASSUME TypeOK, FreshInv, Request
    PROVE  FreshInv'
<1>1. PICK t \in Thread, op \in {"exceed", "reset", "destroy"}, n \in Name \cup {NoName} :
         Call(t, op, n)
  BY DEF Request, CallDestroy, Thread
<1>2. \A b \in Bucket : Attended(b) => Attended(b)'
  BY <1>1 DEF TypeOK, Call, Attended
<1> QED BY <1>1, <1>2, FreshFrame DEF Call

(* Time passes only when no bucket is attended to.                         *)
LEMMA AdvanceFresh ==
    ASSUME TypeOK, MapInv, PhaseInv, FreshInv, Quiet, Advance
    PROVE  FreshInv'
<1>1. SUFFICES ASSUME NEW b \in Bucket, gor'[b] # "unborn"
               PROVE  age'[b] < 2 * Period + phase'[b] \/ Attended(b)'
  BY DEF FreshInv
<1>2. gor' = gor /\ gor[b] = "select" /\ ~pending[b]
  BY <1>1 DEF Advance, Quiet
<1>3. ~Attended(b)
  <2>1. due[nameOf[b]] = 0
    BY <1>1, <1>2 DEF MapInv, Quiet
  <2> QED BY <1>2, <2>1 DEF Attended, Quiet
<1>4. age[b] < 2 * Period + phase[b]
  BY <1>2, <1>3 DEF FreshInv
<1>5. CASE TickerFires(b)
  BY <1>5 DEF Advance, Attended
<1>6. CASE ~TickerFires(b)
  <2>1. phase'[b] = phase[b] + 1 /\ age'[b] <= age[b] + 1
    BY <1>2, <1>6 DEF TypeOK, Advance, Ticking
  <2>2. age[b] \in Nat /\ phase[b] \in Nat /\ Period \in Nat /\ age'[b] \in Nat
    BY <1>2, LimitAssumption DEF TypeOK, Advance
  <2> QED BY <1>4, <2>1, <2>2
<1> QED BY <1>5, <1>6

(* A tick is followed by a judgement, and a judgement by a removal unless  *)
(* the bucket was touched less than two periods ago.                       *)
LEMMA BucketFresh ==
    ASSUME TypeOK, MapInv, FreshInv, NEW b \in Bucket, BucketStep(b)
    PROVE  FreshInv'
<1>1. CASE Start(b) \/ Exit(b)
  <2>1. \A c \in Bucket : Attended(c) => Attended(c)'
    BY <1>1 DEF TypeOK, Start, Exit, Attended
  <2> QED BY <1>1, <2>1, FreshFrame DEF TypeOK, Start, Exit
<1>2. CASE Tick(b)
  <2>1. \A c \in Bucket : Attended(c) => Attended(c)'
    BY <1>2 DEF TypeOK, Tick, Attended
  <2> QED BY <1>2, <2>1, FreshFrame DEF TypeOK, Tick
<1>3. CASE Keep(b)
  <2>1. age[b] < 2 * Period /\ age' = age /\ phase' = phase /\ phase[b] \in Nat
    BY <1>3, LimitAssumption DEF TypeOK, Keep, NeedKill
  <2>2. age'[b] < 2 * Period + phase'[b]
    BY <2>1, LimitAssumption DEF TypeOK
  <2>3. \A c \in Bucket \ {b} : Attended(c) => Attended(c)'
    BY <1>3 DEF TypeOK, Keep, Attended
  <2> QED BY <1>3, <2>1, <2>2, <2>3 DEF TypeOK, Keep, FreshInv
<1>4. CASE Reap(b)
  <2>1. nameOf[b] \in Name
    BY <1>4 DEF Reap, MapInv
  <2>2. due'[nameOf[b]] > 0 /\ \A n \in Name : due[n] > 0 => due'[n] > 0
    BY <1>4, <2>1 DEF TypeOK, Reap
  <2>3. Attended(b)'
    BY <1>4, <2>2 DEF Reap, Attended
  <2>4. \A c \in Bucket : gor[c] # "unborn" /\ c # b /\ Attended(c) => Attended(c)'
    BY <1>4, <2>2 DEF TypeOK, Reap, MapInv, Attended
  <2> QED BY <1>4, <2>3, <2>4, FreshFrame DEF TypeOK, Reap
<1> QED BY <1>1, <1>2, <1>3, <1>4 DEF BucketStep

(* A request makes a bucket or finds it, and touches it.                   *)
LEMMA ExceedingFresh ==
    ASSUME TypeOK, MutualExclusion, MapInv, ItemInv, FreshInv,
           NEW t \in Thread, Exceeding(t)
    PROVE  FreshInv'
<1>1. CASE RejectLimits(t) \/ Pass(t) \/ Exceeded(t)
  <2>1. pc[t] \in {"exceed", "verdict"}
    BY <1>1 DEF RejectLimits, Pass, Exceeded
  <2>2. \A c \in Bucket : Attended(c) => Attended(c)'
    BY <1>1, <2>1 DEF TypeOK, RejectLimits, Pass, Exceeded, Return, Attended
  <2> QED BY <1>1, <2>2, FreshFrame DEF RejectLimits, Pass, Exceeded
<1>2. CASE LookupBucket(t)
  <2>1. \A c \in Bucket : Attended(c) => Attended(c)'
    BY <1>2 DEF TypeOK, LookupBucket, Acquire, Attended
  <2> QED BY <1>2, <2>1, FreshFrame DEF LookupBucket
<1>3. CASE NewBucket(t)
  <2>1. PICK b \in Bucket :
          /\ gor[b] = "unborn" /\ gor' = [gor EXCEPT ![b] = "born"]
          /\ Acquire(t, "count", b)
          /\ nameOf' = [nameOf EXCEPT ![b] = arg[t]]
          /\ age' = [age EXCEPT ![b] = AgeCap]
    BY <1>3 DEF NewBucket
  <2>2. Attended(b)'
    BY <2>1 DEF TypeOK, Acquire, Attended
  <2>3. \A c \in Bucket \ {b} : Attended(c) => Attended(c)'
    BY <1>3, <2>1 DEF TypeOK, NewBucket, Acquire, Attended
  <2> QED BY <1>3, <2>1, <2>2, <2>3 DEF TypeOK, NewBucket, FreshInv
<1>4. CASE Count(t)
  <2>1. \A c \in Bucket : Attended(c) => Attended(c)'
    BY <1>4 DEF TypeOK, Count, Attended
  <2> QED BY <1>4, <2>1, FreshFrame DEF Count
<1>5. CASE Touch(t)
  <2>1. item[t] \in Bucket /\ Period > 0
    BY <1>5, ItemFacts DEF Touch, LimitsValid
  <2>2. age'[item[t]] < 2 * Period + phase'[item[t]]
    BY <1>5, <2>1, LimitAssumption DEF TypeOK, Touch
  <2>3. \A c \in Bucket \ {item[t]} : age'[c] = age[c] /\ (Attended(c) => Attended(c)')
    BY <1>5 DEF TypeOK, Touch, Attended
  <2> QED BY <1>5, <2>2, <2>3 DEF Touch, FreshInv
<1> QED BY <1>1, <1>2, <1>3, <1>4, <1>5 DEF Exceeding

(* Whoever takes the removal of a name to carry out holds its bucket.      *)
LEMMA ResettingFresh ==
    ASSUME TypeOK, MutualExclusion, MapInv, ItemInv, FreshInv,
           NEW t \in Thread, Resetting(t)
    PROVE  FreshInv'
<1>1. ASSUME NEW n \in Name, ResetMissing(t, n)
      PROVE  FreshInv'
  <2>1. \A c \in Bucket : gor[c] # "unborn" => nameOf[c] \in Name \ {n}
    BY <1>1, NameAssumption DEF ResetMissing, MapInv, TypeOK
  <2>2. \A m \in Name \ {n} : due'[m] = due[m]
    BY <1>1 DEF TypeOK, ResetMissing, Taken
  <2>3. pc[t] \in {"reset", "idle"}
    BY <1>1 DEF ResetMissing, ResetRequest
  <2>4. \A c \in Bucket : gor[c] # "unborn" /\ Attended(c) => Attended(c)'
    BY <1>1, <2>1, <2>2, <2>3 DEF TypeOK, ResetMissing, Return, Attended
  <2> QED BY <1>1, <2>4, FreshFrame DEF ResetMissing
<1>2. ASSUME NEW n \in Name, ResetFound(t, n)
      PROVE  FreshInv'
  <2>1. Attended(buckets[n])'
    BY <1>2 DEF TypeOK, ResetFound, Acquire, Attended
  <2>2. \A c \in Bucket : gor[c] # "unborn" /\ c # buckets[n] => nameOf[c] \in Name \ {n}
    BY DEF MapInv
  <2>3. \A m \in Name \ {n} : due'[m] = due[m]
    BY <1>2 DEF TypeOK, ResetFound, Taken
  <2>4. pc[t] \in {"reset", "idle"}
    BY <1>2 DEF ResetFound, ResetRequest
  <2>5. \A c \in Bucket :
           gor[c] # "unborn" /\ c # buckets[n] /\ Attended(c) => Attended(c)'
    BY <1>2, <2>2, <2>3, <2>4 DEF TypeOK, ResetFound, Acquire, Attended
  <2> QED BY <1>2, <2>1, <2>5, FreshFrame DEF ResetFound
<1>3. CASE Kill(t)
  <2>1. \A c \in Bucket : Attended(c) => Attended(c)'
    BY <1>3 DEF TypeOK, Kill, Receive, Attended
  <2> QED BY <1>3, <2>1, FreshFrame DEF TypeOK, Kill, Receive
<1>4. CASE Removed(t)
  <2>1. /\ gor'[item[t]] = "unborn"
        /\ \A c \in Bucket \ {item[t]} :
              /\ age'[c] = age[c] /\ phase'[c] = phase[c] /\ gor'[c] = gor[c]
              /\ nameOf'[c] = nameOf[c] /\ pending'[c] = pending[c]
    BY <1>4, ItemFacts DEF TypeOK, Removed, Collect
  <2>2. \A c \in Bucket \ {item[t]} : Attended(c) => Attended(c)'
    BY <1>4, <2>1 DEF TypeOK, Removed, Return, Attended
  <2> QED BY <2>1, <2>2 DEF FreshInv
<1> QED BY <1>1, <1>2, <1>3, <1>4 DEF Resetting

(* Destroy attends to all buckets.                                         *)
LEMMA DestroyingFresh ==
    ASSUME TypeOK, MutualExclusion, MapInv, ItemInv, FreshInv,
           NEW t \in Thread, Destroying(t)
    PROVE  FreshInv'
<1>1. CASE DestroyEmpty(t)
  <2>1. \A c \in Bucket : Attended(c) => Attended(c)'
    BY <1>1 DEF TypeOK, DestroyEmpty, Return, Attended
  <2> QED BY <1>1, <2>1, FreshFrame DEF DestroyEmpty
<1>2. CASE DestroyStart(t) \/ NextToKill(t) \/ KillOne(t)
  <2>1. pc'[t] \in {"killall", "waitall"}
    BY <1>2 DEF TypeOK, DestroyStart, Acquire, NextToKill, KillOne
  <2>2. \A c \in Bucket : Attended(c)'
    BY <2>1 DEF Attended
  <2> QED BY <2>2 DEF FreshInv
<1>3. CASE AllDone(t)
  <2>1. \A c \in Bucket : gor[c] # "unborn" => c \in InMap
    BY DEF MapInv, InMap
  <2> QED BY <1>3, <2>1 DEF AllDone, Collect, FreshInv, TypeOK
<1> QED BY <1>1, <1>2, <1>3 DEF Destroying

PromptInv == TypeOK /\ IInv /\ PhaseInv /\ FreshInv

LEMMA PromptStep ==
    ASSUME PromptInv, [PromptNext]_vars
    PROVE  PromptInv'
<1>1. TypeOK /\ MutualExclusion /\ MapInv /\ ItemInv /\ PhaseInv /\ FreshInv
  BY DEF PromptInv, IInv
<1>2. [Next]_vars
  BY DEF PromptNext, Next
<1>3. (TypeOK /\ IInv)' /\ PhaseInv'
  BY <1>1, <1>2, NextInv, PhaseStep DEF PromptInv
<1>4. FreshInv'
  <2>1. ASSUME UNCHANGED vars
        PROVE  FreshInv'
    BY <1>1, <2>1 DEF vars, FreshInv, Attended
  <2> QED
    BY <1>1, <2>1, RequestFresh, ExceedingFresh, ResettingFresh, DestroyingFresh,
       BucketFresh, AdvanceFresh DEF PromptNext, Work, ThreadStep
<1> QED BY <1>3, <1>4 DEF PromptInv

-----------------------------------------------------------------------------
(* On a machine where every step is quick a bucket is gone before it was   *)
(* idle for three periods, whatever requests for other names do            *)
(* (fixed_memory.go:172-180, with the comment of line 175).                *)
THEOREM IdleGoesInTime == PromptSpec => []RemovedInTime
<1>1. Init => PromptInv
  BY InitInv, InitFresh DEF PromptInv
<1>2. PromptInv /\ [PromptNext]_vars => PromptInv'
  BY PromptStep
<1>3. ASSUME PromptInv
      PROVE  RemovedInTime
  <2>1. SUFFICES ASSUME Quiet, NEW n \in Name, buckets[n] # NoBucket
                 PROVE  age[buckets[n]] < AgeCap
    BY DEF RemovedInTime
  <2> DEFINE b == buckets[n]
  <2>2. b \in Bucket /\ nameOf[b] = n /\ gor[b] # "unborn" /\ Period > 0
    BY <1>3, <2>1 DEF PromptInv, TypeOK, IInv, MapInv, LimitsValid
  <2>3. ~Attended(b)
    BY <2>1, <2>2 DEF Attended, Quiet
  <2>4. age[b] < 2 * Period + phase[b] /\ (phase[b] = 0 \/ phase[b] < Period)
    BY <1>3, <2>2, <2>3 DEF PromptInv, FreshInv, PhaseInv
  <2>5. age[b] \in Nat /\ phase[b] \in Nat /\ Period \in Nat
    BY <1>3, <2>2, LimitAssumption DEF PromptInv, TypeOK
  <2> QED BY <2>2, <2>4, <2>5 DEF AgeCap
<1> QED BY <1>1, <1>2, <1>3, PTL DEF PromptSpec

(* The history of BurstWindow takes nothing from the limiter: what holds   *)
(* of it on a quick machine holds there.                                   *)
THEOREM BurstIsPrompt == BurstSpec => PromptSpec
<1>1. BurstInit => Init
  BY DEF BurstInit
<1>2. [BurstNext]_burstVars => [PromptNext]_vars
  BY DEF BurstNext, PromptNext, burstVars
<1> QED BY <1>1, <1>2, PTL DEF BurstSpec, PromptSpec

-----------------------------------------------------------------------------
(***************************************************************************)
(* The inductive invariant behind BurstBound.                              *)
(*                                                                         *)
(* The requests of the last period were let through by at most two         *)
(* windows: when a ticker fires, the ones that remain are those of the     *)
(* window that ends, at most the limit; the window that begins adds what   *)
(* its counter has left.  A bucket that is removed when idle has no recent *)
(* request, but some may come between the order to remove it and its       *)
(* removal, and the bucket made after that counts from zero: that is why   *)
(* an order that is due, or being carried out, has an account of its own.  *)
(***************************************************************************)

Spent(n) == Cardinality(recent[n])

(* What the bucket lets through before it is cleared again.  A request in  *)
(* flight is counted but not yet compared.                                 *)
Left(b) ==
    LET top == Limit[nameOf[b]] IN
    IF counter[b] > top THEN 0
    ELSE IF InFlight(b) THEN top - counter[b] + 1
    ELSE top - counter[b]

Counted(b) == IF InFlight(b) THEN counter[b] - 1 ELSE counter[b]

(* The requests let through after the instant of the ticker's last tick.   *)
Young(b) == {r \in recent[nameOf[b]] : r.age < phase[b]}

(* The removal of an idle bucket was ordered, or is being carried out.     *)
Removing(n) == pc[Reaper] \in {"kill", "wait"} /\ arg[Reaper] = n

Reaping(n) == due[n] > 0 \/ Removing(n)

(* Tokens are told apart, and only valid limits let a request through.     *)
TokenInv ==
    \A n \in Name :
       /\ recent[n] \subseteq Token /\ IsFiniteSet(recent[n])
       /\ \A r \in Now(n) : r.nth < Cardinality(Now(n))
       /\ ~LimitsValid(n) => recent[n] = {}

(* A tick is taken and judged in the instant it fires, and no second       *)
(* removal of a name is ordered while one is on its way.                   *)
OnceInv ==
    /\ \A b \in Bucket :
          /\ gor[b] = "unborn" => phase[b] = 0 /\ ~pending[b]
          /\ pending[b] => phase[b] = 0 /\ gor[b] # "judge"
          /\ pending[b] \/ gor[b] = "judge" => ~Reaping(nameOf[b])
    /\ \A n \in Name :
          /\ due[n] <= 1
          /\ Removing(n) => due[n] = 0

(* A bucket was touched after every recent request for its name, but while *)
(* a request has still to touch the bucket it has just made.               *)
Touched(b) == \A r \in recent[nameOf[b]] : age[b] <= r.age

Touching(b) == \E t \in Thread : pc[t] \in {"count", "touch"} /\ item[t] = b

TouchInv ==
    /\ \A t \in Thread : pc[t] = "verdict" => age[item[t]] = 0
    /\ \A b \in Bucket :
          gor[b] # "unborn" =>
             Touched(b) \/ (Touching(b) /\ ~pending[b] /\ gor[b] # "judge")

(* The account of a bucket: a tick about to be taken, the window it is in, *)
(* the two windows together, and a removal that is due.                    *)
Account(b, n) ==
    /\ pending[b] => Spent(n) <= Limit[n] /\ Spent(n) <= Counted(b)
    /\ Cardinality(Young(b)) <= Limit[n]
    /\ phase[b] > 0 => Cardinality(Young(b)) <= Counted(b)
    /\ Spent(n) + Left(b) <= 2 * Limit[n] + 1
    /\ Reaping(n) => Spent(n) + Left(b) <= Limit[n] + 1

SpentInv == \A b \in Bucket : gor[b] # "unborn" => Account(b, nameOf[b])

(* The account of a name without a bucket.                                 *)
GoneInv ==
    \A n \in Name :
       buckets[n] = NoBucket =>
          /\ LimitsValid(n) => Spent(n) <= Limit[n] + 1
          /\ Reaping(n) => recent[n] = {}

BurstInv ==
    /\ PromptInv /\ TokenInv /\ OnceInv
    /\ TouchInv /\ SpentInv /\ GoneInv

-----------------------------------------------------------------------------
(* Nobody but a reset by the reaper changes what is being removed.         *)
LEMMA OnceStep ==
    ASSUME TypeOK, MapInv, ItemInv, OnceInv, PromptNext
    PROVE  OnceInv'
<1>1. CASE Request
  <2>1. PICK t \in Client, op \in Step, n \in Name \cup {NoName} : Call(t, op, n)
    BY <1>1 DEF Request, CallDestroy, Client, Step
  <2>2. t # Reaper /\ Reaper \in Thread
    BY ThreadAssumption DEF Client, Thread
  <2> QED BY <2>1, <2>2 DEF TypeOK, Call, OnceInv, Reaping, Removing
<1>2. CASE Quiet /\ Advance
  <2>1. \A n \in Name : due'[n] = 0 /\ ~Removing(n)'
    BY <1>2 DEF Quiet, Advance, Removing, Thread
  <2>2. ASSUME NEW b \in Bucket
        PROVE  /\ gor'[b] = "unborn" => phase'[b] = 0 /\ ~pending'[b]
               /\ pending'[b] => phase'[b] = 0 /\ gor'[b] # "judge"
               /\ gor'[b] # "judge"
    BY <1>2 DEF TypeOK, Quiet, Advance, OnceInv, TickerFires, Ticking
  <2>3. \A b \in Bucket : pending'[b] => nameOf'[b] \in Name
    BY <1>2 DEF Quiet, Advance, MapInv, TickerFires, Ticking
  <2> QED BY <2>1, <2>2, <2>3 DEF OnceInv, Reaping
<1>3. ASSUME NEW b \in Bucket, BucketStep(b)
      PROVE  OnceInv'
  <2>1. CASE Start(b) \/ Keep(b) \/ Exit(b)
    BY <2>1 DEF TypeOK, Start, Keep, Exit, OnceInv, Reaping, Removing
  <2>2. CASE Tick(b)
    BY <2>2 DEF TypeOK, Tick, OnceInv, Reaping, Removing
  <2>3. CASE Reap(b)
    <3> DEFINE n == nameOf[b]
    <3>1. n \in Name /\ due[n] = 0 /\ ~Removing(n) /\ ~pending[b]
      BY <2>3 DEF TypeOK, Reap, MapInv, OnceInv, Reaping
    <3>2. due' = [due EXCEPT ![n] = 1] /\ \A m \in Name : Removing(m)' <=> Removing(m)
      BY <2>3, <3>1 DEF TypeOK, Reap, Removing
    <3>3. \A c \in Bucket : c # b /\ gor[c] # "unborn" => nameOf[c] \in Name \ {n}
      BY <2>3 DEF MapInv, Reap
    <3>4. ASSUME NEW c \in Bucket, c # b, pending[c] \/ gor[c] = "judge"
          PROVE  ~Reaping(nameOf[c])'
      BY <2>3, <3>2, <3>3, <3>4 DEF TypeOK, Reap, OnceInv, Reaping
    <3> QED BY <2>3, <3>1, <3>2, <3>4 DEF TypeOK, Reap, OnceInv
  <2> QED BY <1>3, <2>1, <2>2, <2>3 DEF BucketStep
<1>4. ASSUME NEW t \in Thread, Exceeding(t) \/ Destroying(t)
      PROVE  OnceInv'
  <2>1. t # Reaper /\ Reaper \in Thread
    BY <1>4 DEF ItemInv, Thread, Exceeding, Destroying, RejectLimits, LookupBucket, NewBucket,
          Count, Touch, Pass, Exceeded, DestroyEmpty, DestroyStart, NextToKill, KillOne, AllDone
  <2>2. pc'[Reaper] = pc[Reaper] /\ arg'[Reaper] = arg[Reaper] /\ due' = due
    BY <1>4, <2>1
       DEF TypeOK, Exceeding, Destroying, RejectLimits, LookupBucket, NewBucket, Count,
           Touch, Pass, Exceeded, DestroyEmpty, DestroyStart, NextToKill, KillOne, AllDone,
           Return, Acquire, Collect
  <2>3. \A n : Reaping(n)' <=> Reaping(n)
    BY <2>2 DEF Reaping, Removing
  <2>4. CASE NewBucket(t)
    <3>1. PICK b \in Bucket :
            /\ gor[b] = "unborn" /\ gor' = [gor EXCEPT ![b] = "born"]
            /\ nameOf' = [nameOf EXCEPT ![b] = arg[t]]
      BY <2>4 DEF NewBucket
    <3>2. phase' = phase /\ pending' = pending
      BY <2>4 DEF NewBucket
    <3> QED BY <2>2, <2>3, <3>1, <3>2 DEF TypeOK, OnceInv, Removing
  <2>5. CASE KillOne(t)
    BY <2>2, <2>3, <2>5 DEF TypeOK, KillOne, Receive, OnceInv, Removing
  <2>6. CASE AllDone(t)
    BY <2>2, <2>3, <2>6 DEF TypeOK, AllDone, Collect, OnceInv, Removing
  <2>7. CASE UNCHANGED <<gor, phase, pending, nameOf>>
    BY <2>2, <2>3, <2>7 DEF OnceInv, Removing
  <2> QED
    BY <1>4, <2>4, <2>5, <2>6, <2>7
       DEF Exceeding, Destroying, RejectLimits, LookupBucket, Count, Touch, Pass, Exceeded,
           DestroyEmpty, DestroyStart, NextToKill
<1>5. ASSUME NEW t \in Thread, Resetting(t)
      PROVE  OnceInv'
  <2>1. Reaper \in Thread
    BY DEF Thread
  <2>2. ASSUME NEW n \in Name, ResetMissing(t, n)
        PROVE  OnceInv'
    <3>1. \A m \in Name : due'[m] <= due[m] /\ due'[m] \in Nat
      BY <2>2 DEF TypeOK, ResetMissing, ResetRequest, Taken
    <3>2. \A m : Removing(m)' => Removing(m)
      BY <2>1, <2>2 DEF TypeOK, ResetMissing, Return, Removing
    <3>3. \A m \in Name : Reaping(m)' => Reaping(m)
      BY <3>1, <3>2 DEF TypeOK, Reaping
    <3>4. \A b \in Bucket : pending[b] \/ gor[b] = "judge" => nameOf[b] \in Name
      BY DEF OnceInv, MapInv
    <3> QED BY <2>2, <3>1, <3>2, <3>3, <3>4 DEF TypeOK, ResetMissing, OnceInv
  <2>3. ASSUME NEW n \in Name, ResetFound(t, n)
        PROVE  OnceInv'
    <3>1. \A m \in Name : due'[m] <= due[m] /\ due'[m] \in Nat
      BY <2>3 DEF TypeOK, ResetFound, ResetRequest, Taken
    <3>2. \A m \in Name : Removing(m)' => Removing(m) \/ (due[m] > 0 /\ due'[m] = 0)
      BY <2>1, <2>3 DEF TypeOK, ResetFound, ResetRequest, Taken, Acquire, Removing, OnceInv
    <3>3. \A m \in Name : Reaping(m)' => Reaping(m)
      BY <3>1, <3>2 DEF TypeOK, Reaping
    <3>4. \A b \in Bucket : pending[b] \/ gor[b] = "judge" => nameOf[b] \in Name
      BY DEF OnceInv, MapInv
    <3> QED BY <2>3, <3>1, <3>2, <3>3, <3>4 DEF TypeOK, ResetFound, OnceInv
  <2>4. CASE Kill(t)
    <3>1. \A m : Removing(m)' <=> Removing(m)
      BY <2>1, <2>4 DEF TypeOK, Kill, Removing
    <3>2. \A m : Reaping(m)' <=> Reaping(m)
      BY <2>4, <3>1 DEF Kill, Reaping
    <3> QED BY <2>4, <3>1, <3>2 DEF TypeOK, Kill, Receive, OnceInv
  <2>5. CASE Removed(t)
    <3>1. \A m : Removing(m)' => Removing(m)
      BY <2>1, <2>5 DEF TypeOK, Removed, Return, Removing
    <3>2. due' = due /\ \A m : Reaping(m)' => Reaping(m)
      BY <2>5, <3>1 DEF Removed, Reaping
    <3> QED BY <2>5, <3>1, <3>2 DEF TypeOK, Removed, Collect, OnceInv
  <2> QED BY <1>5, <2>2, <2>3, <2>4, <2>5 DEF Resetting
<1> QED BY <1>1, <1>2, <1>3, <1>4, <1>5 DEF PromptNext, Work, ThreadStep

-----------------------------------------------------------------------------
(* The history                                                             *)

LEMMA TokenFacts ==
    ASSUME TokenInv, NEW n \in Name, NEW S, S \subseteq recent[n]
    PROVE  /\ IsFiniteSet(S) /\ Cardinality(S) \in Nat
           /\ Spent(n) \in Nat /\ Cardinality(S) <= Spent(n)
<1>1. IsFiniteSet(recent[n])
  BY DEF TokenInv
<1> QED BY <1>1, FS_Subset, FS_CardinalityType DEF Spent

(* Time makes tokens older and forgets some.                               *)
LEMMA Aging ==
    ASSUME TokenInv, NEW n \in Name, NEW S, S \subseteq recent[n],
           NEW T, T \subseteq {Older(r) : r \in S}
    PROVE  IsFiniteSet(T) /\ Cardinality(T) \in Nat /\ Cardinality(T) <= Cardinality(S)
<1> DEFINE A == {Older(r) : r \in S}
           f == [r \in S |-> Older(r)]
<1>1. IsFiniteSet(S) /\ Cardinality(S) \in Nat
  BY TokenFacts
<1>2. f \in Surjection(S, A)
  BY DEF Surjection
<1>3. IsFiniteSet(A) /\ Cardinality(A) <= Cardinality(S)
  <2> HIDE DEF A, f
  <2> QED BY <1>1, <1>2, FS_Surjection
<1>4. IsFiniteSet(T) /\ Cardinality(T) <= Cardinality(A)
  BY <1>3, FS_Subset
<1>5. Cardinality(A) \in Nat /\ Cardinality(T) \in Nat
  BY <1>3, <1>4, FS_CardinalityType
<1> QED BY <1>1, <1>3, <1>4, <1>5

(* The request of thread t for n is let through and remembered as r.       *)
LetIn(t, n, r) ==
    /\ Pass(t) /\ arg[t] = n /\ LimitsValid(n)
    /\ r \in Token /\ r.age = 0 /\ r.nth = Cardinality(Now(n))
    /\ r \notin recent[n] /\ recent'[n] = recent[n] \cup {r}

LEMMA HistoryStep ==
    ASSUME TypeOK, MutualExclusion, MapInv, ItemInv, TokenInv,
           Request \/ Work, Remember, NEW n \in Name
    PROVE  \/ recent'[n] = recent[n]
           \/ recent'[n] = {}
           \/ \E t \in Thread, r \in Token : LetIn(t, n, r)
<1>1. SUFFICES ASSUME LetThrough(n)
               PROVE  \E t \in Thread, r \in Token : LetIn(t, n, r)
  BY DEF Remember
<1>2. PICK t \in Thread :
         pc[t] = "verdict" /\ arg[t] = n /\ pc'[t] = "idle" /\ ret'[t] = "pass" /\ t # Reaper
  BY <1>1, ThreadAssumption DEF LetThrough, Thread
<1>3. Pass(t)
  <2>1. [Next]_vars
    BY DEF Next
  <2>2. Pass(t) \/ Exceeded(t)
    BY <1>2, <2>1, VerdictStep
  <2> QED BY <1>2, <2>2 DEF TypeOK, Exceeded, Return
<1>4. LimitsValid(n)
  BY <1>2, ItemFacts
<1> DEFINE k == Cardinality(Now(n))
           r == [age |-> 0, nth |-> k]
<1>5. k \in Nat /\ Period \in Nat /\ Period > 0
  BY <1>4, TokenFacts, LimitAssumption DEF Now, LimitsValid
<1>6. r \in Token
  BY <1>5 DEF Token, Ages
<1>7. r \notin recent[n]
  BY <1>5 DEF TokenInv, Now
<1>8. recent'[n] = recent[n] \cup {r}
  BY <1>1 DEF Remember
<1> QED BY <1>2, <1>3, <1>4, <1>6, <1>7, <1>8 DEF LetIn

(* A token more is one more.                                               *)
LEMMA OneMore ==
    ASSUME TokenInv, NEW n \in Name, NEW S, S \subseteq recent[n], NEW r, r \notin S
    PROVE  /\ IsFiniteSet(S \cup {r})
           /\ Cardinality(S \cup {r}) = Cardinality(S) + 1
BY TokenFacts, FS_AddElement

LEMMA TokenStep ==
    ASSUME TypeOK, MutualExclusion, MapInv, ItemInv, TokenInv, BurstNext
    PROVE  TokenInv'
<1>1. SUFFICES ASSUME NEW n \in Name
               PROVE  /\ recent'[n] \subseteq Token /\ IsFiniteSet(recent'[n])
                      /\ \A r \in Now(n)' : r.nth < Cardinality(Now(n)')
                      /\ ~LimitsValid(n) => recent'[n] = {}
  BY DEF TokenInv, LimitsValid
<1>2. recent[n] \subseteq Token
  BY DEF TokenInv
<1>3. CASE recent'[n] = recent[n]
  BY <1>3 DEF TokenInv, Now
<1>4. CASE recent'[n] = {}
  BY <1>4, FS_EmptySet DEF Now
<1>5. ASSUME NEW t \in Thread, NEW r \in Token, LetIn(t, n, r)
      PROVE  /\ recent'[n] \subseteq Token /\ IsFiniteSet(recent'[n])
             /\ \A q \in Now(n)' : q.nth < Cardinality(Now(n)')
             /\ ~LimitsValid(n) => recent'[n] = {}
  <2>1. Now(n)' = Now(n) \cup {r} /\ r \notin Now(n) /\ Now(n) \subseteq recent[n]
    BY <1>5 DEF LetIn, Now
  <2>2. Cardinality(Now(n)') = Cardinality(Now(n)) + 1 /\ IsFiniteSet(recent'[n])
    <3>1. Cardinality(Now(n) \cup {r}) = Cardinality(Now(n)) + 1
      BY <2>1, OneMore
    <3>2. r \notin recent[n] /\ recent'[n] = recent[n] \cup {r}
      BY <1>5 DEF LetIn
    <3>3. IsFiniteSet(recent[n] \cup {r})
      BY <3>2, OneMore
    <3> QED BY <2>1, <3>1, <3>2, <3>3
  <2>3. \A q \in Now(n) : q.nth < Cardinality(Now(n)) /\ q.nth \in Nat
    BY <1>2 DEF TokenInv, Now, Token
  <2>4. Cardinality(Now(n)) \in Nat
    BY <2>1, TokenFacts
  <2>5. \A q \in Now(n)' : q.nth < Cardinality(Now(n)')
    BY <1>5, <2>1, <2>2, <2>3, <2>4 DEF LetIn
  <2> QED BY <1>2, <1>5, <2>2, <2>5 DEF LetIn
<1>6. CASE Quiet /\ Advance /\ GrowOlder
  <2>1. recent'[n] = {Older(r) : r \in {q \in recent[n] : q.age + 1 \in Ages}}
    BY <1>6 DEF GrowOlder
  <2>2. recent'[n] \subseteq {Older(r) : r \in recent[n]}
    BY <2>1
  <2>3. IsFiniteSet(recent'[n])
    BY <2>2, Aging
  <2>4. recent'[n] \subseteq Token /\ Now(n)' = {}
    BY <1>2, <2>1, LimitAssumption DEF Token, Ages, Older, Now
  <2>5. ~LimitsValid(n) => recent'[n] = {}
    BY <2>1 DEF TokenInv
  <2> QED BY <2>3, <2>4, <2>5
<1> QED BY <1>3, <1>4, <1>5, <1>6, HistoryStep DEF BurstNext

-----------------------------------------------------------------------------
(* What a step changes of a bucket                                         *)

(* Nothing that its account, or the time of its last touch, depends on.    *)
Unaffected(b) ==
    /\ gor[b] # "unborn" /\ (gor'[b] = "judge" => gor[b] = "judge")
    /\ nameOf'[b] = nameOf[b] /\ counter'[b] = counter[b] /\ age'[b] = age[b]
    /\ phase'[b] = phase[b] /\ pending'[b] = pending[b]
    /\ InFlight(b)' <=> InFlight(b)
    /\ Touching(b) => Touching(b)'
    /\ Reaping(nameOf[b])' => Reaping(nameOf[b])

Born(b) ==
    \E t \in Thread :
       /\ NewBucket(t) /\ gor[b] = "unborn" /\ gor'[b] = "born"
       /\ pc'[t] = "count" /\ item'[t] = b /\ nameOf'[b] = arg[t]

Asking(b) ==
    \E t \in Thread :
       item[t] = b /\ (Count(t) \/ Touch(t) \/ Pass(t) \/ Exceeded(t))

LEMMA RequestEffect ==
    ASSUME TypeOK, ItemInv, Request, NEW b \in Bucket, gor'[b] # "unborn"
    PROVE  Unaffected(b)
<1>1. PICK t \in Client, op \in {"exceed", "reset", "destroy"}, n \in Name \cup {NoName} :
         Call(t, op, n)
  BY DEF Request, CallDestroy, Client
<1>2. t \in Thread /\ t # Reaper /\ Reaper \in Thread
  BY ThreadAssumption DEF Client, Thread
<1> QED
  BY <1>1, <1>2 DEF TypeOK, Call, Unaffected, InFlight, Touching, Reaping, Removing

LEMMA BucketEffect ==
    ASSUME TypeOK, MapInv, NEW c \in Bucket, BucketStep(c),
           NEW b \in Bucket, gor'[b] # "unborn"
    PROVE  Unaffected(b) \/ (b = c /\ (Tick(b) \/ Reap(b)))
<1>1. CASE Start(c) \/ Keep(c) \/ Exit(c)
  BY <1>1 DEF TypeOK, Start, Keep, Exit, Unaffected, InFlight, Touching, Reaping, Removing
<1>2. CASE Tick(c)
  BY <1>2 DEF TypeOK, Tick, Unaffected, InFlight, Touching, Reaping, Removing
<1>3. CASE Reap(c) /\ b # c
  <2>1. gor[b] # "unborn" /\ gor[c] # "unborn"
    BY <1>3 DEF TypeOK, Reap
  <2>2. nameOf[b] # nameOf[c] /\ nameOf[b] \in Name
    BY <1>3, <2>1 DEF MapInv
  <2> QED
    BY <1>3, <2>1, <2>2 DEF TypeOK, Reap, Unaffected, InFlight, Touching, Reaping, Removing
<1> QED BY <1>1, <1>2, <1>3 DEF BucketStep

LEMMA ExceedingEffect ==
    ASSUME TypeOK, MutualExclusion, MapInv, ItemInv, NEW t \in Thread, Exceeding(t),
           NEW b \in Bucket, gor'[b] # "unborn"
    PROVE  Unaffected(b) \/ Born(b) \/ Asking(b)
<1>1. t # Reaper /\ Reaper \in Thread
  BY DEF ItemInv, Thread, Exceeding, RejectLimits, LookupBucket, NewBucket,
         Count, Touch, Pass, Exceeded
<1>2. \A n : Reaping(n)' <=> Reaping(n)
  BY <1>1 DEF TypeOK, Exceeding, RejectLimits, LookupBucket, NewBucket, Count, Touch,
         Pass, Exceeded, Return, Acquire, Reaping, Removing
<1>3. CASE RejectLimits(t)
  BY <1>2, <1>3 DEF TypeOK, RejectLimits, Return, Unaffected, InFlight, Touching
<1>4. CASE LookupBucket(t)
  BY <1>2, <1>4 DEF TypeOK, LookupBucket, Acquire, Unaffected, InFlight, Touching
<1>5. CASE NewBucket(t)
  <2>1. PICK c \in Bucket :
          /\ gor[c] = "unborn" /\ gor' = [gor EXCEPT ![c] = "born"]
          /\ Acquire(t, "count", c)
          /\ nameOf' = [nameOf EXCEPT ![c] = arg[t]]
          /\ age' = [age EXCEPT ![c] = AgeCap]
    BY <1>5 DEF NewBucket
  <2>2. CASE b = c
    BY <1>5, <2>1, <2>2 DEF TypeOK, Acquire, Born
  <2>3. CASE b # c
    <3>1. nameOf'[b] = nameOf[b] /\ age'[b] = age[b] /\ gor'[b] = gor[b]
      BY <2>1, <2>3 DEF TypeOK
    <3>2. InFlight(b)' <=> InFlight(b)
      BY <1>5, <2>1, <2>3 DEF TypeOK, NewBucket, Acquire, InFlight
    <3>3. Touching(b) => Touching(b)'
      BY <1>5, <2>1, <2>3 DEF TypeOK, NewBucket, Acquire, Touching
    <3> QED BY <1>2, <1>5, <3>1, <3>2, <3>3 DEF NewBucket, Unaffected
  <2> QED BY <2>2, <2>3
<1>6. CASE (Count(t) \/ Touch(t) \/ Pass(t) \/ Exceeded(t)) /\ item[t] # b
  <2>1. pc[t] \in {"count", "touch", "verdict"} /\ item[t] \in Bucket
    BY <1>6, ItemFacts DEF Count, Touch, Pass, Exceeded
  <2>2. \A u \in Thread \ {t} : pc'[u] = pc[u] /\ item'[u] = item[u]
    BY <1>6 DEF TypeOK, Count, Touch, Pass, Exceeded, Return
  <2>3. item'[t] \in {item[t], NoBucket} /\ NoBucket # b
    BY <1>6, NameAssumption DEF TypeOK, Count, Touch, Pass, Exceeded, Return
  <2>4. InFlight(b)' <=> InFlight(b)
    BY <1>6, <2>2, <2>3 DEF InFlight
  <2>5. Touching(b) => Touching(b)'
    BY <1>6, <2>2 DEF Touching
  <2>6. /\ gor' = gor /\ nameOf' = nameOf /\ phase' = phase /\ pending' = pending
        /\ counter'[b] = counter[b] /\ age'[b] = age[b]
    BY <1>6, <2>1 DEF TypeOK, Count, Touch, Pass, Exceeded
  <2> QED BY <1>2, <2>4, <2>5, <2>6 DEF Unaffected
<1> QED
  BY <1>3, <1>4, <1>5, <1>6 DEF Exceeding, Asking

LEMMA ResettingEffect ==
    ASSUME TypeOK, MapInv, ItemInv, OnceInv, NEW t \in Thread, Resetting(t),
           NEW b \in Bucket, gor'[b] # "unborn"
    PROVE  Unaffected(b)
<1>1. Reaper \in Thread
  BY DEF Thread
<1>2. gor[b] # "unborn" /\ nameOf[b] \in Name
  <2>1. CASE Kill(t)
    BY <2>1 DEF TypeOK, Kill, Receive, MapInv
  <2>2. CASE Removed(t)
    BY <2>2 DEF Removed, Collect, MapInv
  <2> QED BY <2>1, <2>2 DEF Resetting, ResetMissing, ResetFound, MapInv
<1>3. ASSUME NEW n \in Name, ResetMissing(t, n)
      PROVE  Unaffected(b)
  <2>1. Reaping(nameOf[b])' => Reaping(nameOf[b])
    BY <1>1, <1>2, <1>3
       DEF TypeOK, ResetMissing, ResetRequest, Taken, Return, Reaping, Removing
  <2> QED
    BY <1>2, <1>3, <2>1
       DEF TypeOK, ResetMissing, ResetRequest, Return, Unaffected, InFlight, Touching
<1>4. ASSUME NEW n \in Name, ResetFound(t, n)
      PROVE  Unaffected(b)
  <2>1. Reaping(nameOf[b])' => Reaping(nameOf[b])
    BY <1>1, <1>2, <1>4
       DEF TypeOK, ResetFound, ResetRequest, Taken, Acquire, Reaping, Removing
  <2> QED
    BY <1>2, <1>4, <2>1
       DEF TypeOK, ResetFound, ResetRequest, Acquire, Unaffected, InFlight, Touching
<1>5. CASE Kill(t)
  BY <1>1, <1>2, <1>5
     DEF TypeOK, Kill, Receive, Unaffected, InFlight, Touching, Reaping, Removing
<1>6. CASE Removed(t)
  <2>1. b # item[t]
    BY <1>6 DEF Removed, Collect
  <2>2. /\ gor'[b] = gor[b] /\ nameOf'[b] = nameOf[b] /\ phase'[b] = phase[b]
        /\ pending'[b] = pending[b] /\ counter'[b] = counter[b] /\ age'[b] = age[b]
    BY <1>6, <2>1 DEF Removed, Collect
  <2>3. Reaping(nameOf[b])' => Reaping(nameOf[b])
    BY <1>1, <1>6, <2>2 DEF TypeOK, Removed, Return, Reaping, Removing
  <2> QED
    BY <1>2, <1>6, <2>2, <2>3 DEF TypeOK, Removed, Return, Unaffected, InFlight, Touching
<1> QED BY <1>3, <1>4, <1>5, <1>6 DEF Resetting

LEMMA DestroyingEffect ==
    ASSUME TypeOK, MapInv, ItemInv, NEW t \in Thread, Destroying(t),
           NEW b \in Bucket, gor'[b] # "unborn"
    PROVE  Unaffected(b)
<1>1. t # Reaper /\ Reaper \in Thread
  BY DEF ItemInv, Thread, Destroying, DestroyEmpty, DestroyStart, NextToKill, KillOne, AllDone
<1>2. Reaping(nameOf[b])' => Reaping(nameOf[b])
  BY <1>1 DEF TypeOK, Destroying, DestroyEmpty, DestroyStart, NextToKill, KillOne, AllDone,
         Return, Acquire, Collect, Reaping, Removing
<1>3. CASE DestroyEmpty(t)
  BY <1>2, <1>3 DEF TypeOK, DestroyEmpty, Return, Unaffected, InFlight, Touching
<1>4. CASE DestroyStart(t)
  BY <1>2, <1>4 DEF TypeOK, DestroyStart, Acquire, Unaffected, InFlight, Touching
<1>5. CASE NextToKill(t)
  BY <1>2, <1>5 DEF TypeOK, NextToKill, Unaffected, InFlight, Touching
<1>6. CASE KillOne(t)
  <2>1. pc[t] = "killall" /\ pc'[t] \in {"killall", "waitall"}
    BY <1>6 DEF TypeOK, KillOne
  <2>2. \A u \in Thread \ {t} : pc'[u] = pc[u] /\ item'[u] = item[u]
    BY <1>6 DEF TypeOK, KillOne
  <2>3. (InFlight(b)' <=> InFlight(b)) /\ (Touching(b) => Touching(b)')
    BY <2>1, <2>2 DEF InFlight, Touching
  <2> QED BY <1>2, <1>6, <2>3 DEF TypeOK, KillOne, Receive, Unaffected
<1>7. CASE AllDone(t)
  <2>1. \A c \in Bucket : gor[c] # "unborn" => c \in InMap
    BY DEF MapInv, InMap
  <2> QED BY <1>7, <2>1 DEF AllDone, Collect
<1> QED BY <1>3, <1>4, <1>5, <1>6, <1>7 DEF Destroying

(* A bucket that a step leaves in use is unaffected, is made by the step,  *)
(* is the one of the request that takes the step, or takes it itself.      *)
LEMMA Effect ==
    ASSUME TypeOK, MutualExclusion, MapInv, ItemInv, OnceInv, Request \/ Work,
           NEW b \in Bucket, gor'[b] # "unborn"
    PROVE  Unaffected(b) \/ Born(b) \/ Asking(b) \/ Tick(b) \/ Reap(b)
BY RequestEffect, BucketEffect, ExceedingEffect, ResettingEffect, DestroyingEffect
   DEF Work, ThreadStep

-----------------------------------------------------------------------------
(* How old the bucket of a recent request can be                           *)

(* Only a request for the name of a bucket is let through by it.           *)
LEMMA LetInFacts ==
    ASSUME TypeOK, MapInv, ItemInv, NEW t \in Thread, NEW n \in Name, NEW r, LetIn(t, n, r)
    PROVE  /\ pc[t] = "verdict" /\ pc'[t] = "idle"
           /\ item[t] = buckets[n] /\ item[t] \in Bucket
           /\ InFlight(item[t])
<1>1. pc[t] = "verdict" /\ pc'[t] = "idle" /\ arg[t] = n
  BY DEF TypeOK, LetIn, Pass, Return
<1> QED BY <1>1, ItemFacts DEF InFlight

LEMMA TouchedStep ==
    ASSUME TypeOK, MutualExclusion, MapInv, ItemInv, TokenInv, TokenInv', TouchInv,
           Request \/ Work, Remember,
           NEW b \in Bucket, gor[b] # "unborn", nameOf'[b] = nameOf[b],
           age'[b] = 0 \/ (Touched(b) /\ age'[b] = age[b])
    PROVE  Touched(b)'
<1>1. nameOf[b] \in Name /\ buckets[nameOf[b]] = b
  BY BucketFacts
<1> DEFINE n == nameOf[b]
<1>2. CASE age'[b] = 0
  BY <1>1, <1>2 DEF TokenInv, Token, Ages, Touched
<1>3. CASE recent'[n] = recent[n] \/ recent'[n] = {}
  BY <1>2, <1>3 DEF Touched
<1>4. ASSUME NEW t \in Thread, NEW r \in Token, LetIn(t, n, r)
      PROVE  Touched(b)'
  <2>1. age[b] = 0
    BY <1>1, <1>4, LetInFacts DEF TouchInv
  <2> QED BY <1>2, <2>1
<1> QED BY <1>1, <1>3, <1>4, HistoryStep

LEMMA TouchStep ==
    ASSUME TypeOK, MutualExclusion, MapInv, ItemInv, OnceInv, TokenInv, TouchInv,
           TypeOK', MapInv', ItemInv', TokenInv', BurstNext
    PROVE  TouchInv'
<1>1. CASE Quiet /\ Advance /\ GrowOlder
  <2>1. \A t \in Thread : pc'[t] = "idle"
    BY <1>1 DEF Quiet, Advance
  <2>2. ASSUME NEW b \in Bucket, gor'[b] # "unborn"
        PROVE  Touched(b)'
    <3>1. gor[b] # "unborn" /\ nameOf'[b] = nameOf[b]
      BY <1>1, <2>2 DEF Advance
    <3>2. nameOf[b] \in Name /\ age[b] \in Nat /\ age'[b] <= age[b] + 1 /\ age'[b] \in Nat
      BY <1>1, <2>2, <3>1, BucketFacts DEF TypeOK, Advance
    <3>3. \A r \in recent[nameOf[b]] : age[b] <= r.age /\ r.age \in Nat
      BY <1>1, <3>1, <3>2, LimitAssumption
         DEF TouchInv, Touched, Touching, Quiet, TokenInv, Token, Ages
    <3>4. \A r \in recent'[nameOf[b]] : \E q \in recent[nameOf[b]] : r.age = q.age + 1
      BY <1>1, <3>2 DEF GrowOlder, Older
    <3> QED BY <3>1, <3>2, <3>3, <3>4 DEF Touched
  <2> QED BY <2>1, <2>2 DEF TouchInv
<1>2. CASE (Request \/ Work) /\ Remember
  <2>1. ASSUME NEW b \in Bucket, gor'[b] # "unborn"
        PROVE  Touched(b)' \/ (Touching(b) /\ ~pending[b] /\ gor[b] # "judge")'
    <3>1. CASE Unaffected(b)
      BY <1>2, <3>1, TouchedStep DEF Unaffected, TouchInv
    <3>2. CASE Born(b)
      BY <3>2 DEF Born, NewBucket, OnceInv, Touching
    <3>3. ASSUME NEW t \in Thread, item[t] = b, Count(t)
          PROVE  Touched(b)' \/ (Touching(b) /\ ~pending[b] /\ gor[b] # "judge")'
      <4>1. gor[b] # "unborn" /\ b \in Bucket
        BY <3>3, ItemFacts DEF Count
      <4>2. pc'[t] = "touch" /\ item'[t] = b /\ UNCHANGED <<gor, pending, age, nameOf>>
        BY <3>3 DEF TypeOK, Count
      <4> QED BY <1>2, <4>1, <4>2, TouchedStep DEF TouchInv, Touching
    <3>4. ASSUME NEW t \in Thread, item[t] = b, Touch(t) \/ Pass(t) \/ Exceeded(t)
          PROVE  Touched(b)'
      <4>1. gor[b] # "unborn"
        BY <3>4, ItemFacts DEF Touch, Pass, Exceeded
      <4>2. age'[b] = 0 /\ nameOf' = nameOf
        BY <3>4 DEF TypeOK, Touch, Pass, Exceeded, TouchInv
      <4> QED BY <1>2, <4>1, <4>2, TouchedStep
    <3>5. CASE Tick(b) \/ Reap(b)
      <4>1. gor[b] # "unborn" /\ Touched(b) /\ UNCHANGED <<age, nameOf>>
        BY <3>5 DEF Tick, Reap, TouchInv
      <4> QED BY <1>2, <4>1, TouchedStep
    <3> QED BY <1>2, <2>1, <3>1, <3>2, <3>3, <3>4, <3>5, Effect DEF Asking
  <2>2. ASSUME NEW t \in Thread, pc'[t] = "verdict"
        PROVE  age'[item'[t]] = 0
    <3>1. CASE Touch(t)
      <4>1. item[t] \in Bucket /\ item'[t] = item[t]
        BY <3>1, ItemFacts DEF Touch
      <4> QED BY <3>1, <4>1 DEF TypeOK, Touch
    <3>2. CASE ~Touch(t)
      <4>1. pc[t] = "verdict" /\ item'[t] = item[t]
        <5>1. ASSUME NEW u \in Thread, ThreadStep(u), u # t
              PROVE  pc'[t] = pc[t] /\ item'[t] = item[t]
          BY <5>1
             DEF TypeOK, ThreadStep, Exceeding, Resetting, Destroying, RejectLimits,
                 LookupBucket, NewBucket, Acquire, Count, Touch, Pass, Exceeded, ResetMissing,
                 ResetFound, Kill, Removed, DestroyEmpty, DestroyStart, NextToKill, KillOne,
                 AllDone, Return
        <5>2. ~ThreadStep(t)
          BY <2>2, <3>2
             DEF TypeOK, ThreadStep, Exceeding, Resetting, Destroying, RejectLimits,
                 LookupBucket, NewBucket, Acquire, Count, Pass, Exceeded, ResetMissing,
                 ResetFound, Kill, Removed, DestroyEmpty, DestroyStart, NextToKill, KillOne,
                 AllDone, Return
        <5>3. CASE Request
          BY <2>2, <5>3 DEF TypeOK, Request, CallDestroy, Call
        <5>4. CASE \E b \in Bucket : BucketStep(b)
          BY <2>2, <5>4 DEF BucketStep, Start, Tick, Keep, Reap, Exit
        <5> QED BY <1>2, <2>2, <5>1, <5>2, <5>3, <5>4 DEF Work
      <4> DEFINE b == item[t]
      <4>2. b \in Bucket /\ gor[b] # "unborn" /\ age[b] = 0
        BY <4>1, ItemFacts DEF TouchInv
      <4>3. gor'[b] # "unborn"
        BY <2>2, <4>1 DEF ItemInv, MapInv
      <4>4. Unaffected(b) \/ Asking(b) \/ Tick(b) \/ Reap(b)
        BY <1>2, <4>2, <4>3, Effect DEF Born
      <4> QED
        BY <4>1, <4>2, <4>4
           DEF TypeOK, Unaffected, Asking, Count, Touch, Pass, Exceeded, Tick, Reap
    <3> QED BY <3>1, <3>2
  <2> QED BY <2>1, <2>2 DEF TouchInv
<1> QED BY <1>1, <1>2 DEF BurstNext

-----------------------------------------------------------------------------
(* The accounts                                                            *)

LEMMA Numbers ==
    ASSUME TypeOK, MapInv, QuotaInv, TokenInv, NEW b \in Bucket, gor[b] # "unborn"
    PROVE  /\ nameOf[b] \in Name /\ buckets[nameOf[b]] = b
           /\ Limit[nameOf[b]] \in Nat /\ Limit[nameOf[b]] > 0
           /\ counter[b] \in Nat /\ counter[b] <= Limit[nameOf[b]] + 1
           /\ Left(b) \in Nat /\ Left(b) <= Limit[nameOf[b]] + 1
           /\ Counted(b) \in Int
           /\ Spent(nameOf[b]) \in Nat
           /\ Cardinality(Young(b)) \in Nat
           /\ Cardinality(Young(b)) <= Spent(nameOf[b])
<1>1. /\ nameOf[b] \in Name /\ buckets[nameOf[b]] = b
      /\ Limit[nameOf[b]] \in Nat /\ Limit[nameOf[b]] > 0
  BY BucketFacts
<1>2. counter[b] \in Nat /\ counter[b] <= Limit[nameOf[b]] + 1
  BY DEF TypeOK, QuotaInv, Quota
<1>3. Young(b) \subseteq recent[nameOf[b]]
  BY DEF Young
<1>4. /\ Cardinality(Young(b)) \in Nat /\ Spent(nameOf[b]) \in Nat
      /\ Cardinality(Young(b)) <= Spent(nameOf[b])
  BY <1>1, <1>3, TokenFacts
<1> QED BY <1>1, <1>2, <1>4 DEF Left, Counted

(* A history without a new token costs no account anything.                *)
LEMMA FewerTokens ==
    ASSUME TokenInv, NEW n \in Name, recent'[n] \subseteq recent[n],
           NEW b \in Bucket, nameOf[b] = n, nameOf'[b] = n, phase'[b] = phase[b]
    PROVE  /\ Spent(n)' \in Nat /\ Spent(n)' <= Spent(n)
           /\ Cardinality(Young(b)') \in Nat
           /\ Cardinality(Young(b)') <= Cardinality(Young(b))
<1>1. Spent(n)' \in Nat /\ Spent(n)' <= Spent(n)
  BY TokenFacts DEF Spent
<1>2. Young(b) \subseteq recent[n] /\ Young(b)' \subseteq Young(b)
  BY DEF Young
<1>3. IsFiniteSet(Young(b))
  BY <1>2, TokenFacts
<1>4. Cardinality(Young(b)') <= Cardinality(Young(b)) /\ IsFiniteSet(Young(b)')
  BY <1>2, <1>3, FS_Subset
<1> QED BY <1>1, <1>4, FS_CardinalityType

LEMMA NothingNew ==
    ASSUME TypeOK, MutualExclusion, MapInv, ItemInv, TokenInv, Request \/ Work, Remember,
           NEW n \in Name, \A t \in Thread : Pass(t) => arg[t] # n
    PROVE  recent'[n] \subseteq recent[n]
BY HistoryStep DEF LetIn

(* The last period, when time passes.                                      *)
LEMMA AdvanceAccount ==
    ASSUME TypeOK, MapInv, QuotaInv, PhaseInv, OnceInv, TokenInv, TokenInv', SpentInv,
           Quiet, Advance, GrowOlder, NEW b \in Bucket, gor'[b] # "unborn"
    PROVE  Account(b, nameOf[b])'
<1> DEFINE n == nameOf[b]
<1>1. /\ gor[b] = "select" /\ ~pending[b] /\ nameOf'[b] = n /\ counter'[b] = counter[b]
      /\ phase[b] \in Nat /\ Period \in Nat
  BY LimitAssumption DEF TypeOK, Quiet, Advance
<1>2. /\ n \in Name /\ Limit[n] \in Nat /\ counter[b] \in Nat
      /\ Left(b) \in Nat /\ Counted(b) \in Int
      /\ Spent(n) \in Nat /\ Cardinality(Young(b)) \in Nat
  BY <1>1, Numbers
<1>3. ~InFlight(b) /\ ~InFlight(b)' /\ Left(b)' = Left(b)
      /\ Counted(b) = counter[b] /\ Counted(b)' = counter[b]
  BY <1>1 DEF Quiet, Advance, InFlight, Left, Counted
<1>4. ~Reaping(n)'
  BY <1>1, <1>2 DEF Quiet, Advance, Reaping, Removing, Thread
<1>5. Account(b, n)
  BY <1>1 DEF SpentInv
<1>6. recent'[n] = {Older(r) : r \in {q \in recent[n] : q.age + 1 \in Ages}}
  BY <1>2 DEF GrowOlder
<1>7. \A r \in recent[n] : r.age \in Nat
  BY <1>2, LimitAssumption DEF TokenInv, Token, Ages
<1>8. Young(b) \subseteq recent[n]
  BY DEF Young
<1>9. Spent(n)' \in Nat /\ Spent(n)' <= Spent(n)
  <2>1. recent'[n] \subseteq {Older(r) : r \in recent[n]}
    BY <1>6
  <2>2. Cardinality(recent'[n]) \in Nat /\ Cardinality(recent'[n]) <= Cardinality(recent[n])
    BY <1>2, <2>1, Aging
  <2> QED BY <1>1, <2>2 DEF Spent
<1>10. CASE TickerFires(b)
  <2>1. phase'[b] = 0 /\ pending'[b] /\ phase[b] + 1 >= Period
    BY <1>1, <1>10 DEF Advance, TickerFires, Ticking
  <2>2. recent'[n] \subseteq {Older(r) : r \in Young(b)}
    BY <1>1, <1>6, <1>7, <2>1 DEF Young, Ages
  <2>3. Spent(n)' <= Cardinality(Young(b))
    <3>1. Cardinality(recent'[n]) <= Cardinality(Young(b))
      BY <1>2, <1>8, <2>2, Aging
    <3> QED BY <1>1, <3>1 DEF Spent
  <2>4. Spent(n)' <= Limit[n]
    BY <1>2, <1>5, <1>9, <2>3 DEF Account
  <2>5. Spent(n)' <= counter[b]
    <3>1. CASE phase[b] > 0
      BY <1>2, <1>3, <1>5, <1>9, <2>3, <3>1 DEF Account
    <3>2. CASE phase[b] = 0
      <4>1. Young(b) = {}
        BY <1>7, <3>2 DEF Young
      <4> QED BY <1>2, <1>9, <2>3, <4>1, FS_EmptySet
    <3> QED BY <1>1, <3>1, <3>2
  <2>6. Young(b)' = {}
    <3>1. \A r \in recent'[n] : r.age \in Nat
      BY <1>2, LimitAssumption DEF TokenInv, Token, Ages
    <3> QED BY <1>1, <2>1, <3>1 DEF Young
  <2>7. Cardinality(Young(b)') = 0
    BY <2>6, FS_EmptySet
  <2> QED
    BY <1>1, <1>2, <1>3, <1>4, <1>5, <1>9, <2>1, <2>4, <2>5, <2>7 DEF Account
<1>11. CASE ~TickerFires(b)
  <2>1. phase'[b] = phase[b] + 1 /\ ~pending'[b]
    BY <1>1, <1>11 DEF TypeOK, Advance, TickerFires, Ticking
  <2>2. Young(b)' \subseteq {Older(r) : r \in Young(b)}
    BY <1>1, <1>6, <1>7, <2>1 DEF Young, Older
  <2>3. Cardinality(Young(b)') <= Cardinality(Young(b)) /\ Cardinality(Young(b)') \in Nat
    BY <1>2, <1>8, <2>2, Aging
  <2>4. Cardinality(Young(b)') <= counter[b]
    <3>1. CASE phase[b] > 0
      BY <1>2, <1>3, <1>5, <2>3, <3>1 DEF Account
    <3>2. CASE phase[b] = 0
      <4>1. Young(b) = {}
        BY <1>7, <3>2 DEF Young
      <4> QED BY <1>2, <2>3, <4>1, FS_EmptySet
    <3> QED BY <1>1, <3>1, <3>2
  <2> QED
    BY <1>1, <1>2, <1>3, <1>4, <1>5, <1>9, <2>1, <2>3, <2>4 DEF Account
<1> QED BY <1>10, <1>11

(* A request for the bucket is counted and let through: what the one adds  *)
(* to the account, the other takes.                                        *)
LEMMA AskingAccount ==
    ASSUME TypeOK, MutualExclusion, MapInv, ItemInv, QuotaInv, OnceInv, TokenInv, SpentInv,
           Request \/ Work, Remember, NEW b \in Bucket, Asking(b)
    PROVE  Account(b, nameOf[b])'
<1>1. PICK t \in Thread : item[t] = b /\ (Count(t) \/ Touch(t) \/ Pass(t) \/ Exceeded(t))
  BY DEF Asking
<1> DEFINE n == nameOf[b]
<1>2. /\ pc[t] \in {"count", "touch", "verdict"}
      /\ gor[b] # "unborn" /\ arg[t] = n /\ n \in Name
  BY <1>1, ItemFacts DEF Count, Touch, Pass, Exceeded
<1>3. \A u \in Thread \ {t} : pc[u] \notin Holding
  BY <1>2, HolderFacts DEF Holding
<1>4. /\ Limit[n] \in Nat /\ counter[b] \in Nat /\ counter[b] <= Limit[n] + 1
      /\ Left(b) \in Nat /\ Counted(b) \in Int
      /\ Spent(n) \in Nat /\ Cardinality(Young(b)) \in Nat
      /\ Account(b, n) /\ phase[b] \in Nat
  BY <1>2, Numbers DEF SpentInv, TypeOK
<1>5. t # Reaper /\ Reaper \in Thread
  BY <1>2 DEF ItemInv, Thread
<1>6. /\ nameOf' = nameOf /\ phase' = phase /\ pending' = pending
      /\ Reaping(n)' => Reaping(n)
  BY <1>1, <1>5
     DEF TypeOK, Count, Touch, Pass, Exceeded, Return, Reaping, Removing
<1>7. CASE Pass(t)
  <2>1. InFlight(b) /\ ~InFlight(b)' /\ counter' = counter /\ counter[b] <= Limit[n]
    BY <1>1, <1>3, <1>7, NameAssumption
       DEF TypeOK, Pass, WithinLimit, Return, InFlight, Holding
  <2>2. Left(b) = Left(b)' + 1 /\ Left(b)' \in Nat
        /\ Counted(b) = counter[b] - 1 /\ Counted(b)' = counter[b]
    BY <1>4, <1>6, <2>1 DEF Left, Counted
  <2>3. /\ Spent(n)' \in Nat /\ Spent(n)' <= Spent(n) + 1
        /\ Cardinality(Young(b)') \in Nat /\ Cardinality(Young(b)') <= Cardinality(Young(b)) + 1
        /\ phase[b] = 0 => Cardinality(Young(b)') <= Cardinality(Young(b))
    <3>1. CASE recent'[n] = recent[n] \/ recent'[n] = {}
      <4>1. recent'[n] \subseteq recent[n] /\ nameOf'[b] = n
        BY <1>6, <3>1
      <4> QED BY <1>2, <1>4, <1>6, <4>1, FewerTokens
    <3>2. ASSUME NEW u \in Thread, NEW r \in Token, LetIn(u, n, r)
          PROVE  /\ Spent(n)' = Spent(n) + 1
                 /\ Cardinality(Young(b)') \in {Cardinality(Young(b)), Cardinality(Young(b)) + 1}
                 /\ phase[b] = 0 => Cardinality(Young(b)') = Cardinality(Young(b))
      <4>1. r \notin recent[n] /\ recent'[n] = recent[n] \cup {r} /\ r.age = 0
        BY <3>2 DEF LetIn
      <4>2. Spent(n)' = Spent(n) + 1
        <5>1. Cardinality(recent[n] \cup {r}) = Cardinality(recent[n]) + 1
          BY <1>2, <4>1, OneMore
        <5> QED BY <1>6, <4>1, <5>1 DEF Spent
      <4>3. Young(b) \subseteq recent[n] /\ r \notin Young(b)
        BY <4>1 DEF Young
      <4>4. Young(b)' = IF phase[b] > 0 THEN Young(b) \cup {r} ELSE Young(b)
        BY <1>4, <1>6, <4>1 DEF Young
      <4>5. Cardinality(Young(b) \cup {r}) = Cardinality(Young(b)) + 1
        BY <1>2, <4>3, OneMore
      <4> QED BY <1>4, <4>2, <4>4, <4>5
    <3> QED BY <1>2, <1>4, <3>1, <3>2, HistoryStep
  <2>4. phase[b] = 0 => Cardinality(Young(b)') <= Limit[n]
    BY <1>4, <2>3 DEF Account
  <2>5. phase[b] > 0 => Cardinality(Young(b)') <= counter[b]
    BY <1>4, <2>2, <2>3 DEF Account
  <2> QED
    BY <1>2, <1>4, <1>6, <2>1, <2>2, <2>3, <2>4, <2>5 DEF Account
<1>8. CASE Count(t) \/ Touch(t) \/ Exceeded(t)
  <2>1. \A u \in Thread : ~Pass(u)
    <3>1. \A u \in Thread \ {t} : ~Pass(u)
      BY <1>3 DEF Pass, Holding
    <3>2. ~Pass(t)
      BY <1>8 DEF Pass, Exceeded, Count, Touch
    <3> QED BY <3>1, <3>2
  <2>2. recent'[n] \subseteq recent[n] /\ nameOf'[b] = n
    BY <1>2, <1>6, <2>1, NothingNew
  <2>3. /\ Spent(n)' \in Nat /\ Spent(n)' <= Spent(n)
        /\ Cardinality(Young(b)') \in Nat /\ Cardinality(Young(b)') <= Cardinality(Young(b))
    BY <1>2, <1>6, <2>2, FewerTokens
  <2>4. /\ Left(b)' \in Nat /\ Left(b)' <= Left(b) /\ Counted(b)' \in Int
        /\ Counted(b)' >= Counted(b) \/ Counted(b)' >= Limit[n]
    <3>1. CASE Count(t)
      <4>1. ~InFlight(b) /\ InFlight(b)' /\ counter'[b] = Incremented(b)
        BY <1>1, <1>3, <3>1 DEF TypeOK, Count, InFlight, Holding
      <4> QED BY <1>4, <1>6, <4>1 DEF Left, Counted, Incremented
    <3>2. CASE Touch(t)
      <4>1. InFlight(b) /\ InFlight(b)' /\ counter' = counter
        BY <1>1, <3>2 DEF TypeOK, Touch, InFlight
      <4> QED BY <1>4, <1>6, <4>1 DEF Left, Counted
    <3>3. CASE Exceeded(t)
      <4>1. /\ InFlight(b) /\ ~InFlight(b)' /\ counter' = counter /\ counter[b] > Limit[n]
        BY <1>1, <1>3, <1>4, <3>3, NameAssumption
           DEF TypeOK, Exceeded, WithinLimit, Return, InFlight, Holding
      <4> QED BY <1>4, <1>6, <4>1 DEF Left, Counted
    <3> QED BY <1>8, <3>1, <3>2, <3>3
  <2> QED BY <1>2, <1>4, <1>6, <2>3, <2>4 DEF Account
<1> QED BY <1>1, <1>7, <1>8

LEMMA SpentStep ==
    ASSUME TypeOK, IInv, PhaseInv, OnceInv, TokenInv, TokenInv', TouchInv, SpentInv, GoneInv,
           BurstNext
    PROVE  SpentInv'
<1> USE DEF IInv
<1>1. SUFFICES ASSUME NEW b \in Bucket, gor'[b] # "unborn"
               PROVE  Account(b, nameOf[b])'
  BY DEF SpentInv
<1>2. CASE Quiet /\ Advance /\ GrowOlder
  BY <1>1, <1>2, AdvanceAccount
<1>3. CASE (Request \/ Work) /\ Remember
  <2>1. CASE Asking(b)
    BY <1>3, <2>1, AskingAccount
  <2>2. CASE Unaffected(b) \/ Tick(b) \/ Reap(b)
    <3> DEFINE n == nameOf[b]
    <3>1. /\ gor[b] # "unborn" /\ nameOf'[b] = n /\ phase'[b] = phase[b]
          /\ InFlight(b)' <=> InFlight(b)
      BY <2>2 DEF Unaffected, Tick, Reap, InFlight
    <3>2. /\ n \in Name /\ buckets[n] = b /\ Limit[n] \in Nat /\ Limit[n] > 0
          /\ Left(b) \in Nat /\ Left(b) <= Limit[n] + 1 /\ Counted(b) \in Int
          /\ Spent(n) \in Nat /\ Cardinality(Young(b)) \in Nat
          /\ Cardinality(Young(b)) <= Spent(n)
          /\ Account(b, n) /\ counter[b] \in Nat
      BY <3>1, Numbers DEF SpentInv
    <3>3. recent'[n] \subseteq recent[n]
      <4>1. CASE recent'[n] = recent[n] \/ recent'[n] = {}
        BY <4>1
      <4>2. ASSUME NEW t \in Thread, NEW r \in Token, LetIn(t, n, r)
            PROVE  FALSE
        <5>1. pc[t] = "verdict" /\ pc'[t] = "idle" /\ item[t] = b /\ InFlight(b)
          BY <3>2, <4>2, LetInFacts
        <5>2. \A u \in Thread : pc[u] \in {"touch", "verdict"} => u = t
          BY <5>1, HolderFacts DEF Holding
        <5>3. \A u \in Thread \ {t} : pc'[u] = pc[u]
          BY <4>2 DEF TypeOK, LetIn, Pass, Return
        <5>4. ~InFlight(b)'
          BY <5>1, <5>2, <5>3 DEF InFlight
        <5> QED BY <3>1, <5>1, <5>4
      <4> QED BY <1>3, <3>2, <4>1, <4>2, HistoryStep
    <3>4. /\ Spent(n)' \in Nat /\ Spent(n)' <= Spent(n)
          /\ Cardinality(Young(b)') \in Nat /\ Cardinality(Young(b)') <= Cardinality(Young(b))
      BY <3>1, <3>2, <3>3, FewerTokens
    <3>5. CASE Unaffected(b)
      <4>1. Left(b)' = Left(b) /\ Counted(b)' = Counted(b) /\ pending'[b] = pending[b]
        BY <3>1, <3>5 DEF Unaffected, Left, Counted
      <4>2. Reaping(n)' => Reaping(n)
        BY <3>1, <3>5 DEF Unaffected
      <4> QED BY <3>1, <3>2, <3>4, <4>1, <4>2 DEF Account
    <3>6. CASE Tick(b)
      <4>1. pending[b] /\ ~pending'[b] /\ phase[b] = 0 /\ counter'[b] = 0
        BY <3>6 DEF TypeOK, Tick, OnceInv
      <4>2. Spent(n) <= Limit[n]
        BY <3>2, <4>1 DEF Account
      <4>3. Left(b)' \in Nat /\ Left(b)' <= Limit[n] + 1
        BY <3>1, <3>2, <4>1 DEF Left
      <4>4. ~Reaping(n)'
        BY <3>2, <3>6, <4>1 DEF Tick, OnceInv, Reaping, Removing
      <4> QED BY <3>1, <3>2, <3>4, <4>1, <4>2, <4>3, <4>4 DEF Account
    <3>7. CASE Reap(b)
      <4>1. ~pending[b] /\ pending' = pending /\ counter' = counter
        BY <3>7 DEF Reap, OnceInv
      <4>2. recent[n] = {}
        <5>1. Touched(b) /\ age[b] >= 2 * Period
          BY <3>1, <3>7 DEF Reap, NeedKill, TouchInv
        <5>2. \A r \in recent[n] : r.age \in Nat /\ r.age < Period
          BY <3>2, LimitAssumption DEF TokenInv, Token, Ages
        <5>3. age[b] \in Nat /\ Period \in Nat
          BY LimitAssumption DEF TypeOK
        <5> QED BY <5>1, <5>2, <5>3 DEF Touched
      <4>3. Spent(n) = 0
        BY <4>2, FS_EmptySet DEF Spent
      <4>4. Left(b)' = Left(b) /\ Counted(b)' = Counted(b)
        BY <3>1, <4>1 DEF Left, Counted
      <4> QED BY <3>1, <3>2, <3>4, <4>1, <4>3, <4>4 DEF Account
    <3> QED BY <2>2, <3>5, <3>6, <3>7
  <2>3. CASE Born(b)
    <3>1. PICK t \in Thread :
            /\ NewBucket(t) /\ gor[b] = "unborn"
            /\ pc'[t] = "count" /\ item'[t] = b /\ nameOf'[b] = arg[t]
      BY <2>3 DEF Born
    <3> DEFINE n == arg[t]
    <3>2. /\ n \in Name /\ buckets[n] = NoBucket /\ LimitsValid(n)
          /\ Limit[n] \in Nat /\ Limit[n] > 0
      BY <3>1, LimitAssumption DEF NewBucket, ItemInv, LimitsValid
    <3>3. /\ \A u \in Thread : pc[u] \notin Holding
          /\ \A u \in Thread \ {t} : pc'[u] = pc[u]
          /\ t # Reaper /\ Reaper \in Thread /\ due' = due /\ arg' = arg
      BY <3>1, FreeFacts DEF TypeOK, NewBucket, Acquire, ItemInv, Thread
    <3>4. recent'[n] \subseteq recent[n]
      BY <1>3, <3>2, <3>3, NothingNew DEF Pass, Holding
    <3>5. Spent(n)' \in Nat /\ Spent(n)' <= Spent(n) /\ Spent(n) \in Nat
      <4>1. Cardinality(recent'[n]) \in Nat /\ Cardinality(recent'[n]) <= Spent(n) /\ Spent(n) \in Nat
        BY <3>2, <3>4, TokenFacts
      <4> QED BY <3>3, <4>1 DEF Spent
    <3>6. phase'[b] = 0 /\ ~pending'[b] /\ counter'[b] = 0
      BY <3>1 DEF NewBucket, OnceInv, QuotaInv
    <3>7. Young(b)' = {}
      BY <3>1, <3>2, <3>6, LimitAssumption DEF Young, TokenInv, Token, Ages
    <3>8. Cardinality(Young(b)') = 0
      BY <3>7, FS_EmptySet
    <3>9. ~InFlight(b)'
      BY <3>1, <3>3 DEF InFlight, Holding
    <3>10. Left(b)' = Limit[n] /\ Counted(b)' = 0
      BY <3>1, <3>2, <3>6, <3>9 DEF Left, Counted
    <3>11. Reaping(n)' => Reaping(n)
      BY <3>3 DEF Reaping, Removing, Holding
    <3>12. Spent(n) <= Limit[n] + 1 /\ (Reaping(n) => Spent(n) = 0)
      BY <3>2, FS_EmptySet DEF GoneInv, Spent
    <3> QED
      BY <3>1, <3>2, <3>3, <3>5, <3>6, <3>8, <3>10, <3>11, <3>12 DEF Account
  <2> QED BY <1>1, <1>3, <2>1, <2>2, <2>3, Effect
<1> QED BY <1>2, <1>3 DEF BurstNext

(* A bucket is removed by its reaper, that was ordered when it had no      *)
(* recent request, or by a caller that asked for it to be forgotten.       *)
LEMMA GoneStep ==
    ASSUME TypeOK, IInv, OnceInv, TokenInv, SpentInv, GoneInv, BurstNext
    PROVE  GoneInv'
<1> USE DEF IInv
<1>1. SUFFICES ASSUME NEW n \in Name, buckets'[n] = NoBucket
               PROVE  /\ LimitsValid(n) => Spent(n)' <= Limit[n] + 1
                      /\ Reaping(n)' => recent'[n] = {}
  BY DEF GoneInv, LimitsValid
<1>2. CASE Quiet /\ Advance /\ GrowOlder
  <2>1. buckets[n] = NoBucket /\ ~Reaping(n)'
    BY <1>1, <1>2 DEF Quiet, Advance, Reaping, Removing, Thread
  <2>2. recent'[n] \subseteq {Older(r) : r \in recent[n]}
    BY <1>2 DEF GrowOlder
  <2>3. Cardinality(recent'[n]) \in Nat /\ Cardinality(recent'[n]) <= Cardinality(recent[n])
    BY <2>2, Aging
  <2>4. Cardinality(recent[n]) \in Nat
    BY TokenFacts
  <2> QED BY <2>1, <2>3, <2>4, LimitAssumption DEF GoneInv, Spent, LimitsValid
<1>3. CASE (Request \/ Work) /\ Remember /\ buckets[n] = NoBucket
  <2>1. recent'[n] \subseteq recent[n]
    <3>1. ASSUME NEW t \in Thread, NEW r \in Token, LetIn(t, n, r)
          PROVE  FALSE
      BY <1>3, <3>1, LetInFacts, NameAssumption
    <3> QED BY <1>3, <3>1, HistoryStep
  <2>2. Cardinality(recent'[n]) \in Nat /\ Cardinality(recent'[n]) <= Spent(n) /\ Spent(n) \in Nat
    BY <2>1, TokenFacts
  <2>3. Reaping(n)' => Reaping(n)
    <3>1. CASE Request
      <4>1. PICK t \in Client, op \in {"exceed", "reset", "destroy"}, m \in Name \cup {NoName} :
               Call(t, op, m)
        BY <3>1 DEF Request, CallDestroy, Client
      <4>2. t # Reaper /\ Reaper \in Thread
        BY ThreadAssumption DEF Client, Thread
      <4> QED BY <4>1, <4>2 DEF TypeOK, Call, Reaping, Removing
    <3>2. ASSUME NEW b \in Bucket, BucketStep(b)
          PROVE  Reaping(n)' => Reaping(n)
      <4>1. due'[n] = due[n]
        BY <1>3, <3>2, NameAssumption
           DEF TypeOK, MapInv, BucketStep, Start, Tick, Keep, Reap, Exit
      <4>2. pc' = pc /\ arg' = arg
        BY <3>2 DEF BucketStep, Start, Tick, Keep, Reap, Exit
      <4> QED BY <4>1, <4>2 DEF Reaping, Removing
    <3>3. ASSUME NEW t \in Thread, Exceeding(t) \/ Destroying(t)
          PROVE  Reaping(n)' => Reaping(n)
      <4>1. t # Reaper /\ Reaper \in Thread
        BY <3>3 DEF ItemInv, Thread, Exceeding, Destroying, RejectLimits, LookupBucket,
              NewBucket, Count, Touch, Pass, Exceeded, DestroyEmpty, DestroyStart,
              NextToKill, KillOne, AllDone
      <4> QED
        BY <3>3, <4>1
           DEF TypeOK, Exceeding, Destroying, RejectLimits, LookupBucket, NewBucket, Count,
               Touch, Pass, Exceeded, DestroyEmpty, DestroyStart, NextToKill, KillOne,
               AllDone, Return, Acquire, Reaping, Removing
    <3>4. ASSUME NEW t \in Thread, Resetting(t)
          PROVE  Reaping(n)' => Reaping(n)
      <4>1. Reaper \in Thread
        BY DEF Thread
      <4>2. ASSUME NEW m \in Name, ResetMissing(t, m) \/ ResetFound(t, m)
            PROVE  Reaping(n)' => Reaping(n)
        <5>1. due'[n] > 0 => due[n] > 0
          BY <4>2 DEF TypeOK, ResetMissing, ResetFound, ResetRequest, Taken
        <5>2. Removing(n)' => Removing(n)
          BY <1>3, <4>1, <4>2
             DEF TypeOK, ResetMissing, ResetFound, ResetRequest, Return, Acquire, Removing
        <5> QED BY <5>1, <5>2 DEF Reaping
      <4>3. CASE Kill(t) \/ Removed(t)
        BY <4>1, <4>3 DEF TypeOK, Kill, Removed, Return, Reaping, Removing
      <4> QED BY <3>4, <4>2, <4>3 DEF Resetting
    <3> QED BY <1>3, <3>1, <3>2, <3>3, <3>4 DEF Work, ThreadStep
  <2> QED BY <1>3, <2>1, <2>2, <2>3, LimitAssumption DEF GoneInv, Spent, LimitsValid
<1>4. CASE (Request \/ Work) /\ Remember /\ buckets[n] # NoBucket
  <2>1. [Next]_vars
    BY <1>4 DEF Next
  <2>2. PICK t \in Thread :
           \/ Removed(t) /\ arg[t] = n /\ item[t] = buckets[n]
           \/ AllDone(t)
    BY <1>1, <1>4, <2>1, EmptiedStep
  <2>3. pc'[t] = "idle" /\ \A u \in Thread \ {t} : pc'[u] = pc[u]
    BY <2>2 DEF TypeOK, Removed, AllDone, Return
  <2>4. ~LetThrough(n)
    BY <2>2, <2>3 DEF LetThrough, Thread, Removed, AllDone
  <2>5. CASE t = Reaper
    <3>1. Removed(t) /\ pc[t] = "wait" /\ arg[t] = n
      BY <2>2, <2>5 DEF Removed, AllDone, ItemInv
    <3>2. Removing(n) /\ ~Removing(n)' /\ due'[n] = 0
      BY <2>3, <2>5, <3>1 DEF Removed, Removing, OnceInv
    <3>3. recent'[n] \subseteq recent[n]
      BY <1>4, <2>4 DEF Remember
    <3>4. Cardinality(recent'[n]) \in Nat /\ Cardinality(recent'[n]) <= Spent(n)
      BY <3>3, TokenFacts
    <3>5. Account(buckets[n], n) /\ Left(buckets[n]) \in Nat /\ Spent(n) \in Nat
          /\ Limit[n] \in Nat
      <4>1. buckets[n] \in Bucket /\ gor[buckets[n]] # "unborn" /\ nameOf[buckets[n]] = n
        BY <1>4 DEF TypeOK, MapInv
      <4>2. Account(buckets[n], n)
        BY <4>1 DEF SpentInv
      <4>3. Left(buckets[n]) \in Nat /\ Spent(n) \in Nat /\ Limit[n] \in Nat
        <5> DEFINE b == buckets[n]
        <5>1. b \in Bucket /\ gor[b] # "unborn" /\ nameOf[b] = n
          BY <4>1
        <5> HIDE DEF b
        <5>2. Left(b) \in Nat /\ Spent(n) \in Nat /\ Limit[n] \in Nat
          BY <5>1, Numbers
        <5> QED BY <5>2 DEF b
      <4> QED BY <4>2, <4>3
    <3>6. Spent(n) <= Limit[n] + 1
      BY <3>2, <3>5 DEF Account, Reaping
    <3> QED BY <3>2, <3>4, <3>5, <3>6 DEF Spent, Reaping
  <2>6. CASE t # Reaper
    <3>1. t \in Client
      BY <2>6 DEF Thread, Client
    <3>2. Forgotten(n)
      BY <2>2, <2>3, <3>1 DEF Forgotten, Removed, AllDone
    <3>3. recent'[n] = {}
      BY <1>4, <2>4, <3>2 DEF Remember
    <3>4. Spent(n)' = 0
      BY <3>3, FS_EmptySet DEF Spent
    <3> QED BY <3>3, <3>4, LimitAssumption DEF LimitsValid
  <2> QED BY <2>5, <2>6
<1> QED BY <1>1, <1>2, <1>3, <1>4 DEF BurstNext

-----------------------------------------------------------------------------
LEMMA InitBurst ==
    ASSUME BurstInit
    PROVE  BurstInv
<1>1. Init /\ \A n \in Name : recent[n] = {}
  BY DEF BurstInit
<1>2. PromptInv
  BY <1>1, InitInv, InitFresh DEF PromptInv
<1>3. TokenInv
  BY <1>1, FS_EmptySet DEF TokenInv, Now
<1>4. OnceInv
  BY <1>1 DEF Init, OnceInv, Reaping, Removing, Thread
<1>5. TouchInv /\ SpentInv
  BY <1>1 DEF Init, TouchInv, SpentInv
<1>6. GoneInv
  BY <1>1, FS_EmptySet, LimitAssumption DEF GoneInv, Spent, LimitsValid
<1> QED BY <1>2, <1>3, <1>4, <1>5, <1>6 DEF BurstInv

LEMMA BurstStep ==
    ASSUME BurstInv, [BurstNext]_burstVars
    PROVE  BurstInv'
<1>1. /\ PromptInv /\ TokenInv /\ OnceInv /\ TouchInv /\ SpentInv /\ GoneInv
      /\ TypeOK /\ IInv /\ PhaseInv
  BY DEF BurstInv, PromptInv
<1>2. CASE BurstNext
  <2>1. PromptNext
    BY <1>2 DEF BurstNext, PromptNext
  <2>2. PromptInv'
    BY <1>1, <2>1, PromptStep
  <2>3. TokenInv' /\ OnceInv'
    BY <1>1, <1>2, <2>1, TokenStep, OnceStep DEF IInv
  <2>4. TouchInv'
    BY <1>1, <1>2, <2>2, <2>3, TouchStep DEF IInv, PromptInv
  <2>5. SpentInv' /\ GoneInv'
    BY <1>1, <1>2, <2>3, SpentStep, GoneStep
  <2> QED BY <2>2, <2>3, <2>4, <2>5 DEF BurstInv
<1>3. CASE UNCHANGED burstVars
  <2>1. UNCHANGED vars /\ recent' = recent
    BY <1>3 DEF burstVars
  <2>2. PromptInv'
    BY <1>1, <2>1, PromptStep
  <2>3. TokenInv' /\ OnceInv' /\ TouchInv'
    BY <1>1, <2>1
       DEF vars, TokenInv, Now, OnceInv, Reaping, Removing, TouchInv, Touched, Touching
  <2>4. SpentInv' /\ GoneInv'
    BY <1>1, <2>1
       DEF vars, SpentInv, GoneInv, Account, Spent, Left, Counted, Young, InFlight,
           Reaping, Removing
  <2> QED BY <2>2, <2>3, <2>4 DEF BurstInv
<1> QED BY <1>2, <1>3

(* On a machine where every step is quick, no period lets more requests    *)
(* for a name through than twice the limit and one, however windows begin  *)
(* and end in it, buckets are removed and made anew, and requests for      *)
(* other names come (fixed_memory.go:9-16).                                *)
THEOREM BurstIsBounded == BurstSpec => []BurstBound
<1>1. ASSUME BurstInv
      PROVE  BurstBound
  <2>1. SUFFICES ASSUME NEW n \in Name
                 PROVE  Cardinality(recent[n])
                          <= 2 * (IF Limit[n] > 0 THEN Limit[n] ELSE 0) + 1
    BY DEF BurstBound
  <2>2. TypeOK /\ MapInv /\ QuotaInv /\ TokenInv /\ SpentInv /\ GoneInv /\ Limit[n] \in Int
    BY <1>1, LimitAssumption DEF BurstInv, PromptInv, IInv
  <2>3. CASE ~LimitsValid(n)
    <3>1. Cardinality(recent[n]) = 0
      BY <2>2, <2>3, FS_EmptySet DEF TokenInv
    <3> QED BY <2>2, <3>1
  <2>4. CASE LimitsValid(n) /\ buckets[n] = NoBucket
    <3>1. Spent(n) \in Nat /\ Spent(n) <= Limit[n] + 1 /\ Limit[n] > 0
      BY <2>2, <2>4, TokenFacts DEF GoneInv, LimitsValid
    <3> QED BY <2>2, <3>1 DEF Spent
  <2>5. ASSUME NEW b \in Bucket, buckets[n] = b
        PROVE  Cardinality(recent[n])
                 <= 2 * (IF Limit[n] > 0 THEN Limit[n] ELSE 0) + 1
    <3>1. gor[b] # "unborn" /\ nameOf[b] = n
      BY <2>2, <2>5, NameAssumption DEF MapInv
    <3>2. Spent(n) \in Nat /\ Left(b) \in Nat /\ Limit[n] \in Nat /\ Limit[n] > 0
      BY <2>2, <3>1, Numbers
    <3>3. Spent(n) + Left(b) <= 2 * Limit[n] + 1
      BY <2>2, <3>1 DEF SpentInv, Account
    <3> QED BY <3>2, <3>3 DEF Spent
  <2> QED BY <2>2, <2>3, <2>4, <2>5 DEF TypeOK
<1> QED BY <1>1, InitBurst, BurstStep, PTL DEF BurstSpec
=============================================================================
