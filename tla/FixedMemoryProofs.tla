-------------------------- MODULE FixedMemoryProofs --------------------------
(***************************************************************************)
(* Proofs about the limiter (FixedMemory) for every set of names, buckets  *)
(* and callers, every limit and every period.                              *)
(*                                                                         *)
(* All of them rest on one inductive invariant, TypeOK /\ IInv.            *)
(***************************************************************************)
EXTENDS FixedMemory, TLAPS

-----------------------------------------------------------------------------
(* A step that changes no count, makes and collects no bucket and leaves   *)
(* the same requests between their two atomics keeps the quota.            *)
LEMMA QuotaFrame ==
    ASSUME QuotaInv,
           counter' = counter, granted' = granted, nameOf' = nameOf,
           \A b \in Bucket : gor'[b] = "unborn" <=> gor[b] = "unborn",
           \A b \in Bucket : InFlight(b)' <=> InFlight(b)
    PROVE  QuotaInv'
BY DEF QuotaInv, Quota

(* A bucket that exists is the one of its name, whose limit is positive.   *)
LEMMA BucketFacts ==
    ASSUME TypeOK, MapInv, NEW b \in Bucket, gor[b] # "unborn"
    PROVE  /\ nameOf[b] \in Name /\ buckets[nameOf[b]] = b
           /\ LimitsValid(nameOf[b])
           /\ Limit[nameOf[b]] \in Nat /\ Limit[nameOf[b]] > 0
<1>1. nameOf[b] \in Name /\ buckets[nameOf[b]] = b
  BY DEF MapInv
<1>2. LimitsValid(nameOf[b])
  BY <1>1, NameAssumption DEF MapInv
<1> QED BY <1>1, <1>2, LimitAssumption DEF LimitsValid

(* A thread that works on a bucket works on a live one, of the name it was *)
(* asked for and of a positive limit.                                      *)
LEMMA ItemFacts ==
    ASSUME TypeOK, MapInv, ItemInv, NEW t \in Thread,
           pc[t] \in {"count", "touch", "verdict", "kill", "wait"}
    PROVE  /\ item[t] \in Bucket /\ arg[t] \in Name
           /\ buckets[arg[t]] = item[t]
           /\ nameOf[item[t]] = arg[t]
           /\ gor[item[t]] # "unborn"
           /\ LimitsValid(arg[t])
           /\ Limit[arg[t]] \in Nat
BY LimitAssumption DEF TypeOK, MapInv, ItemInv, LimitsValid

(* With the mutex free, no goroutine of a bucket has ended and no request  *)
(* is between its two atomics.                                             *)
LEMMA FreeFacts ==
    ASSUME TypeOK, MutualExclusion, DyingInv, mu = NoThread
    PROVE  /\ \A t \in Thread : pc[t] \notin Holding
           /\ \A b \in Bucket : gor[b] \notin {"dying", "done"}
           /\ \A b \in Bucket : ~InFlight(b)
BY ThreadAssumption DEF TypeOK, MutualExclusion, DyingInv, Killed, InFlight, Holding

(* Nobody else is in the critical section.                                 *)
LEMMA HolderFacts ==
    ASSUME TypeOK, MutualExclusion, NEW t \in Thread, pc[t] \in Holding
    PROVE  /\ mu = t
           /\ \A u \in Thread \ {t} : pc[u] \notin Holding
BY DEF TypeOK, MutualExclusion

(* The goroutine of a bucket keeps the invariant. *)
LEMMA BucketStepInv ==
    ASSUME TypeOK, IInv, NEW b \in Bucket, BucketStep(b)
    PROVE  (TypeOK /\ IInv)'
<1>0. TypeOK /\ MutualExclusion /\ MapInv /\ ItemInv /\ DyingInv /\ QuotaInv
  BY DEF IInv
<1>1. CASE Start(b)
  <2>1. TypeOK'
    BY <1>1 DEF TypeOK, Start, Goroutine
  <2>2. MutualExclusion'
    BY <1>0, <1>1 DEF TypeOK, Start, MutualExclusion
  <2>3. MapInv'
    BY <1>0, <1>1 DEF TypeOK, Start, MapInv
  <2>4. ItemInv'
    BY <1>0, <1>1 DEF TypeOK, Start, ItemInv
  <2>5. DyingInv'
    BY <1>0, <1>1 DEF TypeOK, Start, DyingInv, Killed
  <2>6. QuotaInv'
    <3>1. \A x \in Bucket : InFlight(x)' <=> InFlight(x)
      BY <1>1 DEF TypeOK, Start, InFlight
    <3> QED BY <1>0, <1>1, <3>1, QuotaFrame DEF Start
  <2> QED BY <2>1, <2>2, <2>3, <2>4, <2>5, <2>6 DEF IInv
<1>2. CASE Tick(b)
  <2>1. TypeOK'
    BY <1>2 DEF TypeOK, Tick, Goroutine
  <2>2. MutualExclusion'
    BY <1>0, <1>2 DEF TypeOK, Tick, MutualExclusion
  <2>3. MapInv'
    BY <1>0, <1>2 DEF TypeOK, Tick, MapInv
  <2>4. ItemInv'
    BY <1>0, <1>2 DEF TypeOK, Tick, ItemInv
  <2>5. DyingInv'
    BY <1>0, <1>2 DEF TypeOK, Tick, DyingInv, Killed
  <2>6. QuotaInv'
    <3>1. \A c \in Bucket : InFlight(c)' <=> InFlight(c)
      BY <1>2 DEF TypeOK, Tick, InFlight
    <3>2. ASSUME NEW c \in Bucket, gor'[c] # "unborn"
          PROVE  Quota(c, Limit[nameOf[c]])'
      <4>1. gor[c] # "unborn" /\ nameOf[c] \in Name /\ Limit[nameOf[c]] \in Nat
        BY <1>0, <1>2, <3>2, BucketFacts DEF Tick, TypeOK
      <4>2. Quota(c, Limit[nameOf[c]])
        BY <1>0, <1>2, <4>1 DEF QuotaInv
      <4> QED BY <1>2, <3>1, <4>1, <4>2 DEF TypeOK, Tick, Quota
    <3>3. ASSUME NEW c \in Bucket, gor'[c] = "unborn"
          PROVE  counter'[c] = 0 /\ granted'[c] = 0
      BY <1>0, <1>2, <3>3 DEF TypeOK, Tick, QuotaInv
    <3> QED BY <3>2, <3>3 DEF QuotaInv
  <2> QED BY <2>1, <2>2, <2>3, <2>4, <2>5, <2>6 DEF IInv
<1>3. CASE Keep(b)
  <2>1. TypeOK'
    BY <1>3 DEF TypeOK, Keep, Goroutine
  <2>2. MutualExclusion'
    BY <1>0, <1>3 DEF TypeOK, Keep, MutualExclusion
  <2>3. MapInv'
    BY <1>0, <1>3 DEF TypeOK, Keep, MapInv
  <2>4. ItemInv'
    BY <1>0, <1>3 DEF TypeOK, Keep, ItemInv
  <2>5. DyingInv'
    BY <1>0, <1>3 DEF TypeOK, Keep, DyingInv, Killed
  <2>6. QuotaInv'
    <3>1. \A x \in Bucket : InFlight(x)' <=> InFlight(x)
      BY <1>3 DEF TypeOK, Keep, InFlight
    <3> QED BY <1>0, <1>3, <3>1, QuotaFrame DEF Keep
  <2> QED BY <2>1, <2>2, <2>3, <2>4, <2>5, <2>6 DEF IInv
<1>4. CASE Reap(b)
  <2>1. TypeOK'
    BY <1>0, <1>4, BucketFacts DEF TypeOK, Reap, Goroutine
  <2>2. MutualExclusion'
    BY <1>0, <1>4 DEF TypeOK, Reap, MutualExclusion
  <2>3. MapInv'
    BY <1>0, <1>4 DEF TypeOK, Reap, MapInv
  <2>4. ItemInv'
    BY <1>0, <1>4 DEF TypeOK, Reap, ItemInv
  <2>5. DyingInv'
    BY <1>0, <1>4 DEF TypeOK, Reap, DyingInv, Killed
  <2>6. QuotaInv'
    <3>1. \A x \in Bucket : InFlight(x)' <=> InFlight(x)
      BY <1>4 DEF TypeOK, Reap, InFlight
    <3> QED BY <1>0, <1>4, <3>1, QuotaFrame DEF Reap
  <2> QED BY <2>1, <2>2, <2>3, <2>4, <2>5, <2>6 DEF IInv
<1>5. CASE Exit(b)
  <2>1. TypeOK'
    BY <1>5 DEF TypeOK, Exit, Goroutine
  <2>2. MutualExclusion'
    BY <1>0, <1>5 DEF TypeOK, Exit, MutualExclusion
  <2>3. MapInv'
    BY <1>0, <1>5 DEF TypeOK, Exit, MapInv
  <2>4. ItemInv'
    BY <1>0, <1>5 DEF TypeOK, Exit, ItemInv
  <2>5. DyingInv'
    BY <1>0, <1>5 DEF TypeOK, Exit, DyingInv, Killed
  <2>6. QuotaInv'
    <3>1. \A x \in Bucket : InFlight(x)' <=> InFlight(x)
      BY <1>5 DEF TypeOK, Exit, InFlight
    <3> QED BY <1>0, <1>5, <3>1, QuotaFrame DEF Exit
  <2> QED BY <2>1, <2>2, <2>3, <2>4, <2>5, <2>6 DEF IInv
<1> QED BY <1>1, <1>2, <1>3, <1>4, <1>5 DEF BucketStep

(* ExceedLimit keeps the invariant. *)
LEMMA ExceedingInv ==
    ASSUME TypeOK, IInv, NEW t \in Thread, Exceeding(t)
    PROVE  (TypeOK /\ IInv)'
<1>0. TypeOK /\ MutualExclusion /\ MapInv /\ ItemInv /\ DyingInv /\ QuotaInv
  BY DEF IInv
<1>1. CASE RejectLimits(t)
  <2>1. TypeOK'
    BY <1>1 DEF TypeOK, RejectLimits, Return, Step, Answer
  <2>2. MutualExclusion'
    BY <1>0, <1>1 DEF TypeOK, RejectLimits, Return, MutualExclusion, Holding
  <2>3. MapInv'
    BY <1>0, <1>1 DEF TypeOK, RejectLimits, Return, MapInv
  <2>4. ItemInv'
    BY <1>0, <1>1 DEF TypeOK, RejectLimits, Return, ItemInv
  <2>5. DyingInv'
    BY <1>0, <1>1 DEF TypeOK, RejectLimits, Return, DyingInv, Killed
  <2>6. QuotaInv'
    <3>1. \A b \in Bucket : InFlight(b)' <=> InFlight(b)
      BY <1>1 DEF TypeOK, RejectLimits, Return, InFlight
    <3> QED BY <1>0, <1>1, <3>1, QuotaFrame DEF RejectLimits, Return
  <2> QED BY <2>1, <2>2, <2>3, <2>4, <2>5, <2>6 DEF IInv
<1>2. CASE LookupBucket(t)
  <2>1. TypeOK'
    BY <1>0, <1>2 DEF TypeOK, LookupBucket, Acquire, ItemInv, Step
  <2>2. MutualExclusion'
    BY <1>0, <1>2, ThreadAssumption DEF TypeOK, LookupBucket, Acquire, MutualExclusion, Holding
  <2>3. MapInv'
    BY <1>0, <1>2 DEF TypeOK, LookupBucket, Acquire, MapInv
  <2>4. ItemInv'
    BY <1>0, <1>2 DEF TypeOK, LookupBucket, Acquire, ItemInv
  <2>5. DyingInv'
    BY <1>0, <1>2 DEF TypeOK, LookupBucket, Acquire, DyingInv, Killed
  <2>6. QuotaInv'
    <3>1. \A b \in Bucket : InFlight(b)' <=> InFlight(b)
      BY <1>2 DEF TypeOK, LookupBucket, Acquire, InFlight
    <3> QED BY <1>0, <1>2, <3>1, QuotaFrame DEF LookupBucket, Acquire
  <2> QED BY <2>1, <2>2, <2>3, <2>4, <2>5, <2>6 DEF IInv
<1>3. CASE NewBucket(t)
  <2>0. PICK b \in Bucket :
          /\ gor[b] = "unborn"
          /\ Acquire(t, "count", b)
          /\ buckets' = [buckets EXCEPT ![arg[t]] = b]
          /\ nameOf' = [nameOf EXCEPT ![b] = arg[t]]
          /\ age' = [age EXCEPT ![b] = AgeCap]
          /\ gor' = [gor EXCEPT ![b] = "born"]
    BY <1>3 DEF NewBucket
  <2>a. /\ arg[t] \in Name /\ LimitsValid(arg[t]) /\ buckets[arg[t]] = NoBucket
        /\ b # NoBucket /\ mu = NoThread /\ pc[t] = "exceed"
    BY <1>0, <1>3, <2>0, NameAssumption DEF NewBucket, Acquire, ItemInv
  <2>1. TypeOK'
    BY <1>3, <2>0, <2>a, LimitAssumption DEF TypeOK, NewBucket, Acquire, Step, Goroutine, AgeCap
  <2>2. MutualExclusion'
    BY <1>0, <1>3, ThreadAssumption DEF TypeOK, NewBucket, Acquire, MutualExclusion, Holding
  <2>3. MapInv'
    <3>1. ASSUME NEW n \in Name, buckets'[n] # NoBucket
          PROVE  nameOf'[buckets'[n]] = n /\ gor'[buckets'[n]] # "unborn" /\ LimitsValid(n)
      <4>1. CASE n = arg[t]
        BY <2>0, <2>a, <4>1 DEF TypeOK
      <4>2. CASE n # arg[t]
        <5>1. buckets'[n] = buckets[n] /\ buckets[n] \in Bucket /\ buckets[n] # b
          BY <1>0, <2>0, <3>1, <4>2 DEF TypeOK, MapInv
        <5> QED BY <1>0, <2>0, <3>1, <5>1 DEF TypeOK, MapInv
      <4> QED BY <4>1, <4>2
    <3>2. ASSUME NEW c \in Bucket, gor'[c] # "unborn"
          PROVE  nameOf'[c] \in Name /\ buckets'[nameOf'[c]] = c
      <4>1. CASE c = b
        BY <2>0, <2>a, <4>1 DEF TypeOK
      <4>2. CASE c # b
        BY <1>0, <2>0, <2>a, <3>2, <4>2, NameAssumption DEF TypeOK, MapInv
      <4> QED BY <4>1, <4>2
    <3> QED BY <3>1, <3>2 DEF MapInv, LimitsValid
  <2>4. ItemInv'
    <3>0. t # Reaper
      BY <1>0, <2>a DEF ItemInv
    <3>1. \A u \in Thread \ {t} : pc'[u] = pc[u] /\ item'[u] = item[u] /\ pc[u] \notin Holding
      BY <1>0, <2>0, <2>a, FreeFacts DEF TypeOK, Acquire
    <3>2. arg' = arg /\ pc'[t] = "count" /\ item'[t] = b /\ buckets'[arg[t]] = b
      BY <1>3, <2>0, <2>a DEF TypeOK, NewBucket, Acquire
    <3> QED BY <1>0, <2>a, <3>0, <3>1, <3>2 DEF ItemInv, Holding, Thread
  <2>5. DyingInv'
    BY <1>0, <1>3 DEF TypeOK, NewBucket, Acquire, DyingInv, Killed
  <2>6. QuotaInv'
    <3>1. \A c \in Bucket : ~InFlight(c) /\ ~InFlight(c)'
      BY <1>0, <2>0, <2>a, FreeFacts DEF TypeOK, Acquire, InFlight
    <3>2. counter' = counter /\ granted' = granted
      BY <1>3 DEF NewBucket
    <3>3. ASSUME NEW c \in Bucket, c # b
          PROVE  gor'[c] = gor[c] /\ nameOf'[c] = nameOf[c]
      BY <2>0, <3>3 DEF TypeOK
    <3>4. counter[b] = 0 /\ granted[b] = 0 /\ gor'[b] # "unborn" /\ nameOf'[b] = arg[t]
      BY <1>0, <2>0, <2>a DEF TypeOK, QuotaInv
    <3>5. Limit[arg[t]] > 0 /\ Limit[arg[t]] \in Int
      BY <2>a, LimitAssumption DEF LimitsValid
    <3> QED BY <1>0, <3>1, <3>2, <3>3, <3>4, <3>5 DEF QuotaInv, Quota
  <2> QED BY <2>1, <2>2, <2>3, <2>4, <2>5, <2>6 DEF IInv
<1>4. CASE Count(t)
  <2>1. TypeOK'
    BY <1>0, <1>4, ItemFacts DEF TypeOK, Count, Incremented, Step
  <2>2. MutualExclusion'
    BY <1>0, <1>4 DEF TypeOK, Count, Incremented, MutualExclusion, Holding
  <2>3. MapInv'
    BY <1>0, <1>4 DEF TypeOK, Count, Incremented, MapInv
  <2>4. ItemInv'
    BY <1>0, <1>4 DEF TypeOK, Count, Incremented, ItemInv
  <2>5. DyingInv'
    BY <1>0, <1>4 DEF TypeOK, Count, Incremented, DyingInv, Killed
  <2>6. QuotaInv'
    <3>1. \A b \in Bucket : ~InFlight(b)
      BY <1>0, <1>4, HolderFacts DEF Count, Holding, InFlight
    <3>2. \A b \in Bucket : InFlight(b)' <=> b = item[t]
      BY <1>4, <3>1 DEF TypeOK, Count, InFlight
    <3>3. ASSUME NEW b \in Bucket, gor[b] # "unborn", b = item[t]
          PROVE  Quota(b, Limit[nameOf[b]])'
      BY <1>0, <1>4, <3>1, <3>2, <3>3, BucketFacts
         DEF TypeOK, Count, QuotaInv, Quota, Incremented
    <3>4. ASSUME NEW b \in Bucket, gor[b] # "unborn", b # item[t]
          PROVE  Quota(b, Limit[nameOf[b]])'
      BY <1>0, <1>4, <3>1, <3>2, <3>4 DEF TypeOK, Count, QuotaInv, Quota
    <3>5. gor[item[t]] # "unborn"
      BY <1>0, <1>4, ItemFacts DEF Count
    <3> QED BY <1>0, <1>4, <3>3, <3>4, <3>5 DEF TypeOK, Count, QuotaInv
  <2> QED BY <2>1, <2>2, <2>3, <2>4, <2>5, <2>6 DEF IInv
<1>5. CASE Touch(t)
  <2>1. TypeOK'
    BY <1>5 DEF TypeOK, Touch, Step
  <2>2. MutualExclusion'
    BY <1>0, <1>5 DEF TypeOK, Touch, MutualExclusion, Holding
  <2>3. MapInv'
    BY <1>0, <1>5 DEF TypeOK, Touch, MapInv
  <2>4. ItemInv'
    BY <1>0, <1>5 DEF TypeOK, Touch, ItemInv
  <2>5. DyingInv'
    BY <1>0, <1>5 DEF TypeOK, Touch, DyingInv, Killed
  <2>6. QuotaInv'
    <3>1. \A b \in Bucket : InFlight(b)' <=> InFlight(b)
      BY <1>5 DEF TypeOK, Touch, InFlight
    <3> QED BY <1>0, <1>5, <3>1, QuotaFrame DEF Touch
  <2> QED BY <2>1, <2>2, <2>3, <2>4, <2>5, <2>6 DEF IInv
<1>6. CASE Pass(t)
  <2>1. TypeOK'
    BY <1>0, <1>6, ItemFacts DEF TypeOK, Pass, WithinLimit, Return, Step, Answer
  <2>2. MutualExclusion'
    BY <1>0, <1>6, ThreadAssumption DEF TypeOK, Pass, WithinLimit, Return, MutualExclusion, Holding
  <2>3. MapInv'
    BY <1>0, <1>6 DEF TypeOK, Pass, WithinLimit, Return, MapInv
  <2>4. ItemInv'
    BY <1>0, <1>6 DEF TypeOK, Pass, WithinLimit, Return, ItemInv
  <2>5. DyingInv'
    BY <1>0, <1>6 DEF TypeOK, Pass, WithinLimit, Return, DyingInv, Killed
  <2>6. QuotaInv'
    <3>1. pc[t] = "verdict" /\ item[t] \in Bucket /\ gor[item[t]] # "unborn"
      BY <1>0, <1>6, ItemFacts DEF Pass, WithinLimit
    <3>2. \A b \in Bucket : ~InFlight(b)' /\ (InFlight(b) <=> b = item[t])
      BY <1>0, <1>6, <3>1, HolderFacts DEF TypeOK, Pass, WithinLimit, Return, InFlight, Holding
    <3>3. ASSUME NEW b \in Bucket, gor[b] # "unborn", b = item[t]
          PROVE  Quota(b, Limit[nameOf[b]])'
      BY <1>0, <1>6, <3>2, <3>3, BucketFacts DEF TypeOK, Pass, WithinLimit, QuotaInv, Quota
    <3>4. ASSUME NEW b \in Bucket, gor[b] # "unborn", b # item[t]
          PROVE  Quota(b, Limit[nameOf[b]])'
      BY <1>0, <1>6, <3>2, <3>4 DEF TypeOK, Pass, WithinLimit, QuotaInv, Quota
    <3> QED BY <1>0, <1>6, <3>1, <3>3, <3>4 DEF TypeOK, Pass, WithinLimit, QuotaInv
  <2> QED BY <2>1, <2>2, <2>3, <2>4, <2>5, <2>6 DEF IInv
<1>7. CASE Exceeded(t)
  <2>1. TypeOK'
    BY <1>7 DEF TypeOK, Exceeded, WithinLimit, Return, Step, Answer
  <2>2. MutualExclusion'
    BY <1>0, <1>7, ThreadAssumption DEF TypeOK, Exceeded, WithinLimit, Return, MutualExclusion, Holding
  <2>3. MapInv'
    BY <1>0, <1>7 DEF TypeOK, Exceeded, WithinLimit, Return, MapInv
  <2>4. ItemInv'
    BY <1>0, <1>7 DEF TypeOK, Exceeded, WithinLimit, Return, ItemInv
  <2>5. DyingInv'
    BY <1>0, <1>7 DEF TypeOK, Exceeded, WithinLimit, Return, DyingInv, Killed
  <2>6. QuotaInv'
    <3>1. pc[t] = "verdict" /\ item[t] \in Bucket /\ gor[item[t]] # "unborn"
      BY <1>0, <1>7, ItemFacts DEF Exceeded, WithinLimit
    <3>2. \A b \in Bucket : ~InFlight(b)' /\ (InFlight(b) <=> b = item[t])
      BY <1>0, <1>7, <3>1, HolderFacts DEF TypeOK, Exceeded, WithinLimit, Return, InFlight, Holding
    <3>3. ASSUME NEW b \in Bucket, gor[b] # "unborn", b = item[t]
          PROVE  Quota(b, Limit[nameOf[b]])'
      BY <1>0, <1>7, <3>2, <3>3, BucketFacts DEF TypeOK, Exceeded, WithinLimit, QuotaInv, Quota
    <3>4. ASSUME NEW b \in Bucket, gor[b] # "unborn", b # item[t]
          PROVE  Quota(b, Limit[nameOf[b]])'
      BY <1>0, <1>7, <3>2, <3>4 DEF TypeOK, Exceeded, WithinLimit, QuotaInv, Quota
    <3> QED BY <1>0, <1>7, <3>1, <3>3, <3>4 DEF TypeOK, Exceeded, WithinLimit, QuotaInv
  <2> QED BY <2>1, <2>2, <2>3, <2>4, <2>5, <2>6 DEF IInv
<1> QED BY <1>1, <1>2, <1>3, <1>4, <1>5, <1>6, <1>7 DEF Exceeding

(* ResetBucket keeps the invariant. *)
LEMMA ResettingInv ==
    ASSUME TypeOK, IInv, NEW t \in Thread, Resetting(t)
    PROVE  (TypeOK /\ IInv)'
<1>0. TypeOK /\ MutualExclusion /\ MapInv /\ ItemInv /\ DyingInv /\ QuotaInv
  BY DEF IInv
<1>1. CASE \E n \in Name : ResetMissing(t, n)
  <2>1. TypeOK'
    BY <1>1 DEF TypeOK, ResetMissing, Return, ResetRequest, Taken, Step, Answer
  <2>2. MutualExclusion'
    BY <1>0, <1>1 DEF TypeOK, ResetMissing, Return, ResetRequest, Taken, MutualExclusion, Holding
  <2>3. MapInv'
    BY <1>0, <1>1 DEF TypeOK, ResetMissing, Return, ResetRequest, Taken, MapInv
  <2>4. ItemInv'
    BY <1>0, <1>1 DEF TypeOK, ResetMissing, Return, ResetRequest, Taken, ItemInv
  <2>5. DyingInv'
    BY <1>0, <1>1 DEF TypeOK, ResetMissing, Return, ResetRequest, Taken, DyingInv, Killed
  <2>6. QuotaInv'
    <3>1. \A b \in Bucket : InFlight(b)' <=> InFlight(b)
      BY <1>1 DEF TypeOK, ResetMissing, Return, ResetRequest, Taken, InFlight
    <3> QED BY <1>0, <1>1, <3>1, QuotaFrame DEF ResetMissing, Return, ResetRequest, Taken
  <2> QED BY <2>1, <2>2, <2>3, <2>4, <2>5, <2>6 DEF IInv
<1>2. CASE \E n \in Name : ResetFound(t, n)
  <2>1. TypeOK'
    BY <1>2 DEF TypeOK, ResetFound, Acquire, ResetRequest, Taken, Step
  <2>2. MutualExclusion'
    BY <1>0, <1>2, ThreadAssumption DEF TypeOK, ResetFound, Acquire, ResetRequest, Taken, MutualExclusion, Holding
  <2>3. MapInv'
    BY <1>0, <1>2 DEF TypeOK, ResetFound, Acquire, ResetRequest, Taken, MapInv
  <2>4. ItemInv'
    BY <1>0, <1>2 DEF TypeOK, ResetFound, Acquire, ResetRequest, Taken, ItemInv
  <2>5. DyingInv'
    BY <1>0, <1>2 DEF TypeOK, ResetFound, Acquire, ResetRequest, Taken, DyingInv, Killed
  <2>6. QuotaInv'
    <3>1. \A b \in Bucket : InFlight(b)' <=> InFlight(b)
      BY <1>2 DEF TypeOK, ResetFound, Acquire, ResetRequest, Taken, InFlight
    <3> QED BY <1>0, <1>2, <3>1, QuotaFrame DEF ResetFound, Acquire, ResetRequest, Taken
  <2> QED BY <2>1, <2>2, <2>3, <2>4, <2>5, <2>6 DEF IInv
<1>3. CASE Kill(t)
  <2>1. TypeOK'
    BY <1>3 DEF TypeOK, Kill, Receive, Step, Goroutine
  <2>2. MutualExclusion'
    BY <1>0, <1>3 DEF TypeOK, Kill, Receive, MutualExclusion, Holding
  <2>3. MapInv'
    BY <1>0, <1>3 DEF TypeOK, Kill, Receive, MapInv
  <2>4. ItemInv'
    BY <1>0, <1>3 DEF TypeOK, Kill, Receive, ItemInv
  <2>5. DyingInv'
    BY <1>0, <1>3 DEF TypeOK, Kill, Receive, DyingInv, Killed
  <2>6. QuotaInv'
    <3>1. \A b \in Bucket : InFlight(b)' <=> InFlight(b)
      BY <1>3 DEF TypeOK, Kill, Receive, InFlight
    <3> QED BY <1>0, <1>3, <3>1, QuotaFrame DEF Kill, Receive
  <2> QED BY <2>1, <2>2, <2>3, <2>4, <2>5, <2>6 DEF IInv
<1>4. CASE Removed(t)
  <2>0. /\ item[t] \in Bucket /\ arg[t] \in Name /\ buckets[arg[t]] = item[t]
        /\ nameOf[item[t]] = arg[t]
    BY <1>0, <1>4, ItemFacts DEF Removed
  <2>1. TypeOK'
    BY <1>4 DEF TypeOK, Removed, Collect, Return, Step, Goroutine, Answer
  <2>2. MutualExclusion'
    BY <1>0, <1>4, ThreadAssumption DEF TypeOK, Removed, Collect, Return, MutualExclusion, Holding
  <2>3. MapInv'
    <3>1. ASSUME NEW n \in Name, buckets'[n] # NoBucket
          PROVE  /\ n # arg[t] /\ buckets'[n] = buckets[n] /\ buckets[n] # item[t]
                 /\ buckets[n] \in Bucket /\ nameOf[buckets[n]] = n
      BY <1>0, <1>4, <2>0, <3>1 DEF TypeOK, Removed, MapInv
    <3>2. ASSUME NEW n \in Name, buckets'[n] # NoBucket
          PROVE  nameOf'[buckets'[n]] = n /\ gor'[buckets'[n]] # "unborn" /\ LimitsValid(n)
      BY <1>0, <1>4, <3>1, <3>2 DEF Removed, Collect, MapInv
    <3>3. ASSUME NEW b \in Bucket, gor'[b] # "unborn"
          PROVE  nameOf'[b] \in Name /\ buckets'[nameOf'[b]] = b
      BY <1>0, <1>4, <2>0, <3>3 DEF TypeOK, Removed, Collect, MapInv
    <3> QED BY <3>2, <3>3 DEF MapInv, LimitsValid
  <2>4. ItemInv'
    BY <1>0, <1>4 DEF TypeOK, Removed, Collect, Return, ItemInv, MutualExclusion, Holding
  <2>5. DyingInv'
    BY <1>0, <1>4 DEF TypeOK, Removed, Collect, Return, DyingInv, Killed
  <2>6. QuotaInv'
    <3>1. \A b \in Bucket : ~InFlight(b) /\ ~InFlight(b)'
      BY <1>0, <1>4, HolderFacts DEF TypeOK, Removed, Return, InFlight, Holding
    <3> QED BY <1>0, <1>4, <3>1 DEF Removed, Collect, QuotaInv, Quota
  <2> QED BY <2>1, <2>2, <2>3, <2>4, <2>5, <2>6 DEF IInv
<1> QED BY <1>1, <1>2, <1>3, <1>4 DEF Resetting

(* Destroy keeps the invariant. *)
LEMMA DestroyingInv ==
    ASSUME TypeOK, IInv, NEW t \in Thread, Destroying(t)
    PROVE  (TypeOK /\ IInv)'
<1>0. TypeOK /\ MutualExclusion /\ MapInv /\ ItemInv /\ DyingInv /\ QuotaInv
  BY DEF IInv
<1>1. CASE DestroyEmpty(t)
  <2>1. TypeOK'
    BY <1>1 DEF TypeOK, DestroyEmpty, Return, Step, Answer
  <2>2. MutualExclusion'
    BY <1>0, <1>1 DEF TypeOK, DestroyEmpty, Return, MutualExclusion, Holding
  <2>3. MapInv'
    BY <1>0, <1>1 DEF TypeOK, DestroyEmpty, Return, MapInv
  <2>4. ItemInv'
    BY <1>0, <1>1 DEF TypeOK, DestroyEmpty, Return, ItemInv
  <2>5. DyingInv'
    BY <1>0, <1>1 DEF TypeOK, DestroyEmpty, Return, DyingInv, Killed
  <2>6. QuotaInv'
    <3>1. \A b \in Bucket : InFlight(b)' <=> InFlight(b)
      BY <1>1 DEF TypeOK, DestroyEmpty, Return, InFlight
    <3> QED BY <1>0, <1>1, <3>1, QuotaFrame DEF DestroyEmpty, Return
  <2> QED BY <2>1, <2>2, <2>3, <2>4, <2>5, <2>6 DEF IInv
<1>2. CASE DestroyStart(t)
  <2>1. TypeOK'
    BY <1>2 DEF TypeOK, DestroyStart, Acquire, InMap, Step
  <2>2. MutualExclusion'
    BY <1>0, <1>2, ThreadAssumption DEF TypeOK, DestroyStart, Acquire, InMap, MutualExclusion, Holding
  <2>3. MapInv'
    BY <1>0, <1>2 DEF TypeOK, DestroyStart, Acquire, InMap, MapInv
  <2>4. ItemInv'
    <3>1. \A b \in InMap : b \in Bucket /\ gor[b] # "unborn"
      BY <1>0, NameAssumption DEF InMap, MapInv
    <3>2. \A u \in Thread \ {t} : pc'[u] = pc[u] /\ pc[u] \notin Holding
      BY <1>0, <1>2, FreeFacts DEF TypeOK, DestroyStart, Acquire
    <3> QED BY <1>0, <1>2, <3>1, <3>2 DEF TypeOK, DestroyStart, Acquire, ItemInv, Holding
  <2>5. DyingInv'
    BY <1>0, <1>2, FreeFacts DEF DestroyStart, Acquire, DyingInv
  <2>6. QuotaInv'
    <3>1. \A b \in Bucket : InFlight(b)' <=> InFlight(b)
      BY <1>2 DEF TypeOK, DestroyStart, Acquire, InMap, InFlight
    <3> QED BY <1>0, <1>2, <3>1, QuotaFrame DEF DestroyStart, Acquire, InMap
  <2> QED BY <2>1, <2>2, <2>3, <2>4, <2>5, <2>6 DEF IInv
<1>3. CASE NextToKill(t)
  <2>1. TypeOK'
    BY <1>3 DEF TypeOK, NextToKill
  <2>2. MutualExclusion'
    BY <1>0, <1>3 DEF TypeOK, NextToKill, MutualExclusion
  <2>3. MapInv'
    BY <1>0, <1>3 DEF TypeOK, NextToKill, MapInv
  <2>4. ItemInv'
    BY <1>0, <1>3 DEF TypeOK, NextToKill, ItemInv
  <2>5. DyingInv'
    BY <1>0, <1>3 DEF TypeOK, NextToKill, DyingInv, Killed
  <2>6. QuotaInv'
    <3>1. \A b \in Bucket : InFlight(b)' <=> InFlight(b)
      BY <1>3 DEF TypeOK, NextToKill, InFlight
    <3> QED BY <1>0, <1>3, <3>1, QuotaFrame DEF NextToKill
  <2> QED BY <2>1, <2>2, <2>3, <2>4, <2>5, <2>6 DEF IInv
<1>4. CASE KillOne(t)
  <2>1. TypeOK'
    BY <1>4 DEF TypeOK, KillOne, Receive, Step, Goroutine
  <2>2. MutualExclusion'
    BY <1>0, <1>4 DEF TypeOK, KillOne, Receive, MutualExclusion, Holding
  <2>3. MapInv'
    BY <1>0, <1>4 DEF TypeOK, KillOne, Receive, MapInv
  <2>4. ItemInv'
    BY <1>0, <1>4 DEF TypeOK, KillOne, Receive, ItemInv
  <2>5. DyingInv'
    <3>1. item[t] \notin todo /\ pc[t] = "killall"
      BY <1>0, <1>4 DEF KillOne, ItemInv
    <3>2. ASSUME NEW b \in Bucket, gor'[b] \in {"dying", "done"}
          PROVE  b \notin todo
      <4>1. CASE b = item[t]
        BY <3>1, <4>1
      <4>2. CASE b # item[t]
        <5>1. PICK u \in Thread : Killed(u, b)
          BY <1>0, <1>4, <3>2, <4>2 DEF TypeOK, KillOne, Receive, DyingInv
        <5>2. u = t
          BY <1>0, <3>1, <5>1, HolderFacts DEF Killed, Holding
        <5> QED BY <3>1, <5>1, <5>2 DEF Killed
      <4> QED BY <4>1, <4>2
    <3>3. item'[t] = NoBucket /\ pc'[t] \in {"killall", "waitall"} /\ todo' = todo
      BY <1>4, <3>1 DEF TypeOK, KillOne
    <3> QED BY <3>2, <3>3, NameAssumption DEF DyingInv, Killed
  <2>6. QuotaInv'
    <3>1. \A b \in Bucket : InFlight(b)' <=> InFlight(b)
      BY <1>4 DEF TypeOK, KillOne, Receive, InFlight
    <3> QED BY <1>0, <1>4, <3>1, QuotaFrame DEF KillOne, Receive
  <2> QED BY <2>1, <2>2, <2>3, <2>4, <2>5, <2>6 DEF IInv
<1>5. CASE AllDone(t)
  <2>1. TypeOK'
    BY <1>5 DEF TypeOK, AllDone, Collect, Return, InMap, Step, Goroutine, Answer
  <2>2. MutualExclusion'
    BY <1>0, <1>5, ThreadAssumption DEF TypeOK, AllDone, Collect, Return, InMap, MutualExclusion, Holding
  <2>3. MapInv'
    BY <1>0, <1>5 DEF TypeOK, AllDone, Collect, Return, InMap, MapInv
  <2>4. ItemInv'
    BY <1>0, <1>5 DEF TypeOK, AllDone, Collect, Return, InMap, ItemInv, MutualExclusion, Holding
  <2>5. DyingInv'
    BY <1>0, <1>5, NameAssumption DEF AllDone, Collect, InMap, MapInv, DyingInv
  <2>6. QuotaInv'
    <3>1. \A b \in Bucket : ~InFlight(b) /\ ~InFlight(b)'
      BY <1>0, <1>5, HolderFacts DEF TypeOK, AllDone, Return, InFlight, Holding
    <3> QED BY <1>0, <1>5, <3>1 DEF AllDone, Collect, QuotaInv, Quota
  <2> QED BY <2>1, <2>2, <2>3, <2>4, <2>5, <2>6 DEF IInv
<1> QED BY <1>1, <1>2, <1>3, <1>4, <1>5 DEF Destroying

(* A call keeps the invariant. *)
LEMMA RequestInv ==
    ASSUME TypeOK, IInv, Request
    PROVE  (TypeOK /\ IInv)'
<1>0. TypeOK /\ MutualExclusion /\ MapInv /\ ItemInv /\ DyingInv /\ QuotaInv
  BY DEF IInv
<1>1. CASE \E t \in Caller, n \in Name : Call(t, "exceed", n) \/ Call(t, "reset", n)
  <2>1. TypeOK'
    BY <1>1 DEF TypeOK, Call, Step, Answer
  <2>2. MutualExclusion'
    BY <1>0, <1>1 DEF TypeOK, Call, MutualExclusion, Holding
  <2>3. MapInv'
    BY <1>0, <1>1 DEF TypeOK, Call, Thread, MapInv
  <2>4. ItemInv'
    BY <1>0, <1>1, ThreadAssumption DEF TypeOK, Call, Thread, ItemInv
  <2>5. DyingInv'
    BY <1>0, <1>1 DEF TypeOK, Call, DyingInv, Killed
  <2>6. QuotaInv'
    <3>1. \A b \in Bucket : InFlight(b)' <=> InFlight(b)
      BY <1>1 DEF TypeOK, Call, InFlight
    <3> QED BY <1>0, <1>1, <3>1, QuotaFrame DEF Call
  <2> QED BY <2>1, <2>2, <2>3, <2>4, <2>5, <2>6 DEF IInv
<1>2. CASE CallDestroy
  <2>1. TypeOK'
    BY <1>2 DEF TypeOK, CallDestroy, Call, Step
  <2>2. MutualExclusion'
    BY <1>0, <1>2 DEF TypeOK, CallDestroy, Call, MutualExclusion, Holding
  <2>3. MapInv'
    BY <1>0, <1>2 DEF TypeOK, CallDestroy, Call, Thread, MapInv
  <2>4. ItemInv'
    BY <1>0, <1>2, ThreadAssumption DEF TypeOK, CallDestroy, Call, ItemInv
  <2>5. DyingInv'
    BY <1>0, <1>2 DEF TypeOK, CallDestroy, Call, DyingInv, Killed
  <2>6. QuotaInv'
    <3>1. \A b \in Bucket : InFlight(b)' <=> InFlight(b)
      BY <1>2 DEF TypeOK, CallDestroy, Call, InFlight
    <3> QED BY <1>0, <1>2, <3>1, QuotaFrame DEF CallDestroy, Call
  <2> QED BY <2>1, <2>2, <2>3, <2>4, <2>5, <2>6 DEF IInv
<1> QED BY <1>1, <1>2 DEF Request

(* The clock keeps the invariant. *)
LEMMA AdvanceInv ==
    ASSUME TypeOK, IInv, Advance
    PROVE  (TypeOK /\ IInv)'
<1>0. TypeOK /\ MutualExclusion /\ MapInv /\ ItemInv /\ DyingInv /\ QuotaInv
  BY DEF IInv
<1>1. CASE Advance
  <2>1. TypeOK'
    BY <1>1 DEF TypeOK, Advance, Ticking, TickerFires
  <2>2. MutualExclusion'
    BY <1>0, <1>1 DEF TypeOK, Advance, Ticking, TickerFires, MutualExclusion
  <2>3. MapInv'
    BY <1>0, <1>1 DEF TypeOK, Advance, Ticking, TickerFires, MapInv
  <2>4. ItemInv'
    BY <1>0, <1>1 DEF TypeOK, Advance, Ticking, TickerFires, ItemInv
  <2>5. DyingInv'
    BY <1>0, <1>1 DEF TypeOK, Advance, Ticking, TickerFires, DyingInv, Killed
  <2>6. QuotaInv'
    <3>1. \A b \in Bucket : InFlight(b)' <=> InFlight(b)
      BY <1>1 DEF TypeOK, Advance, Ticking, TickerFires, InFlight
    <3> QED BY <1>0, <1>1, <3>1, QuotaFrame DEF Advance, Ticking, TickerFires
  <2> QED BY <2>1, <2>2, <2>3, <2>4, <2>5, <2>6 DEF IInv
<1> QED BY <1>1 DEF Request

(* A step that changes nothing keeps the invariant.                        *)
LEMMA StutterInv ==
    ASSUME TypeOK, IInv, UNCHANGED vars
    PROVE  (TypeOK /\ IInv)'
BY DEF vars, TypeOK, IInv, MutualExclusion, MapInv, ItemInv, DyingInv, Killed,
       QuotaInv, Quota, InFlight, LimitsValid

LEMMA InitInv ==
    ASSUME Init
    PROVE  TypeOK /\ IInv
<1>1. TypeOK
  BY DEF Init, TypeOK, Step, Goroutine, Answer
<1>2. MutualExclusion
  BY ThreadAssumption DEF Init, MutualExclusion, Holding
<1>3. MapInv /\ ItemInv /\ DyingInv /\ QuotaInv
  BY DEF Init, MapInv, ItemInv, DyingInv, QuotaInv, Thread
<1> QED BY <1>1, <1>2, <1>3 DEF IInv

LEMMA NextInv ==
    ASSUME TypeOK, IInv, [Next]_vars
    PROVE  (TypeOK /\ IInv)'
<1>1. CASE Request
  BY <1>1, RequestInv
<1>2. ASSUME NEW t \in Thread, ThreadStep(t)
      PROVE  (TypeOK /\ IInv)'
  BY <1>2, ExceedingInv, ResettingInv, DestroyingInv DEF ThreadStep
<1>3. ASSUME NEW b \in Bucket, BucketStep(b)
      PROVE  (TypeOK /\ IInv)'
  BY <1>3, BucketStepInv
<1>4. CASE Advance
  BY <1>4, AdvanceInv
<1>5. CASE UNCHANGED vars
  BY <1>5, StutterInv
<1> QED BY <1>1, <1>2, <1>3, <1>4, <1>5 DEF Next, Work

-----------------------------------------------------------------------------
(* The inductive invariant holds in every state of every behaviour.        *)
THEOREM Invariance == Spec => [](TypeOK /\ IInv)
<1>1. Init => TypeOK /\ IInv
  BY InitInv
<1>2. (TypeOK /\ IInv) /\ [Next]_vars => (TypeOK /\ IInv)'
  BY NextInv
<1> QED BY <1>1, <1>2, PTL DEF Spec

(* Every variable keeps its type: in particular no thread ever works on a  *)
(* bucket that does not exist.                                             *)
THEOREM TypeCorrect == Spec => []TypeOK
BY Invariance, PTL

(* One thread at a time is between Lock and Unlock of FixedMemory.mu.      *)
THEOREM Mutex == Spec => []MutualExclusion
<1>1. TypeOK /\ IInv => MutualExclusion
  BY DEF IInv
<1> QED BY <1>1, Invariance, PTL

(* kill() (fixed_memory.go:156) never meets a channel that its goroutine   *)
(* has closed.                                                             *)
THEOREM NoPanic == Spec => []NoSendOnClosed
<1>1. ASSUME TypeOK, IInv
      PROVE  NoSendOnClosed
  <2>1. TypeOK /\ MutualExclusion /\ MapInv /\ ItemInv /\ DyingInv
    BY <1>1 DEF IInv
  <2>2. SUFFICES ASSUME NEW t \in Thread,
                        pc[t] = "kill" \/ (pc[t] = "killall" /\ item[t] # NoBucket)
                 PROVE  gor[item[t]] \in {"born", "select", "judge"}
    BY DEF NoSendOnClosed
  <2>3. item[t] \in Bucket /\ gor[item[t]] # "unborn"
    BY <2>1, <2>2, ItemFacts DEF ItemInv, TypeOK
  <2>4. \A u \in Thread : ~Killed(u, item[t])
    <3>1. \A u \in Thread \ {t} : pc[u] \notin Holding
      BY <2>1, <2>2, HolderFacts DEF Holding
    <3> QED BY <2>2, <3>1 DEF Killed, Holding
  <2>5. gor[item[t]] \notin {"dying", "done"}
    BY <2>1, <2>3, <2>4 DEF DyingInv
  <2> QED BY <2>1, <2>3, <2>5 DEF TypeOK, Goroutine
<1> QED BY <1>1, Invariance, PTL

(* Destroy has killed every bucket of the map but those it still has to,   *)
(* and the one it is about to.                                             *)
KillingInv ==
    \A t \in Thread :
       pc[t] = "killall" =>
          \A b \in InMap \ todo : b = item[t] \/ gor[b] \in {"dying", "done"}

LEMMA WaitsStep ==
    ASSUME TypeOK, IInv, WaitsEnd, KillingInv, [Next]_vars
    PROVE  WaitsEnd' /\ KillingInv'
<1>0. TypeOK /\ MutualExclusion /\ ItemInv
  BY DEF IInv
<1>1. CASE Request
  <2>1. PICK u \in Thread, op \in {"exceed", "reset", "destroy"}, n \in Name \cup {NoName} :
           Call(u, op, n)
    BY <1>1 DEF Request, CallDestroy, Thread
  <2> QED BY <2>1 DEF TypeOK, Call, InMap, WaitsEnd, KillingInv
<1>2. CASE Advance \/ UNCHANGED vars
  BY <1>2 DEF Advance, vars, InMap, WaitsEnd, KillingInv
<1>3. ASSUME NEW c \in Bucket, BucketStep(c)
      PROVE  WaitsEnd' /\ KillingInv'
  <2>1. UNCHANGED <<pc, item, todo, buckets>>
    BY <1>3 DEF BucketStep, Start, Tick, Keep, Reap, Exit
  <2>2. \A b \in Bucket : gor[b] \in {"dying", "done"} => gor'[b] \in {"dying", "done"}
    BY <1>3 DEF TypeOK, BucketStep, Start, Tick, Keep, Reap, Exit
  <2>3. \A t \in Thread : pc[t] = "wait" => item[t] \in Bucket
    BY ItemFacts DEF IInv
  <2> QED BY <2>1, <2>2, <2>3 DEF InMap, WaitsEnd, KillingInv
<1>4. ASSUME NEW u \in Thread, ThreadStep(u)
      PROVE  WaitsEnd' /\ KillingInv'
  <2>1. mu = NoThread \/ mu = u
    BY <1>0, <1>4, HolderFacts
       DEF Holding, ThreadStep, Exceeding, Resetting, Destroying, RejectLimits, LookupBucket,
           NewBucket, Acquire, Count, Touch, Pass, Exceeded, ResetMissing, ResetFound, Kill,
           Removed, DestroyEmpty, DestroyStart, NextToKill, KillOne, AllDone
  <2>2. \A t \in Thread \ {u} : pc'[t] = pc[t] /\ pc[t] \notin Holding
    <3>1. \A t \in Thread \ {u} : pc'[t] = pc[t]
      BY <1>4
         DEF TypeOK, ThreadStep, Exceeding, Resetting, Destroying, RejectLimits,
             LookupBucket, NewBucket, Acquire, Count, Touch, Pass, Exceeded, ResetMissing,
             ResetFound, Kill, Removed, DestroyEmpty, DestroyStart, NextToKill, KillOne,
             AllDone, Return
    <3> QED BY <1>0, <2>1, <3>1, ThreadAssumption DEF MutualExclusion
  <2>3. CASE Kill(u)
    <3>1. item[u] \in Bucket
      BY <1>0, <2>3, ItemFacts DEF Kill, IInv
    <3>2. pc'[u] = "wait" /\ item' = item /\ gor'[item[u]] = "dying"
      BY <2>3, <3>1 DEF TypeOK, Kill, Receive
    <3> QED BY <2>2, <3>2 DEF Holding, WaitsEnd, KillingInv
  <2>4. CASE DestroyStart(u)
    <3>1. /\ pc'[u] = "killall" /\ item'[u] = NoBucket
          /\ todo' = InMap /\ InMap # {} /\ InMap' = InMap
      BY <2>4 DEF TypeOK, DestroyStart, Acquire, InMap
    <3> QED BY <2>2, <3>1 DEF Holding, WaitsEnd, KillingInv
  <2>5. CASE NextToKill(u)
    <3>1. PICK b \in todo : item' = [item EXCEPT ![u] = b] /\ todo' = todo \ {b}
      BY <2>5 DEF NextToKill
    <3>2. /\ b # NoBucket /\ item'[u] = b /\ item[u] = NoBucket
          /\ pc'[u] = "killall" /\ pc[u] = "killall" /\ gor' = gor /\ InMap' = InMap
      BY <2>5, <3>1, NameAssumption DEF TypeOK, NextToKill, InMap
    <3>3. \A c \in InMap : c # NoBucket
      BY NameAssumption DEF InMap
    <3> QED BY <2>2, <3>1, <3>2, <3>3 DEF Holding, WaitsEnd, KillingInv
  <2>6. CASE KillOne(u)
    <3>1. item[u] \in Bucket /\ gor' = [gor EXCEPT ![item[u]] = "dying"]
      BY <2>6 DEF TypeOK, KillOne, Receive
    <3>2. /\ item'[u] = NoBucket /\ pc[u] = "killall" /\ todo' = todo /\ InMap' = InMap
          /\ pc'[u] = IF todo = {} THEN "waitall" ELSE "killall"
      BY <2>6 DEF TypeOK, KillOne, InMap
    <3>3. \A b \in InMap \ todo : gor'[b] \in {"dying", "done"}
      BY <1>0, <3>1, <3>2 DEF TypeOK, KillingInv, InMap
    <3> QED BY <2>2, <3>2, <3>3 DEF Holding, WaitsEnd, KillingInv
  <2>7. CASE pc'[u] \notin {"wait", "killall", "waitall"}
    BY <2>2, <2>7 DEF Holding, WaitsEnd, KillingInv
  <2> QED
    BY <1>4, <2>3, <2>4, <2>5, <2>6, <2>7
       DEF TypeOK, ThreadStep, Exceeding, Resetting, Destroying, RejectLimits, LookupBucket,
           NewBucket, Acquire, Count, Touch, Pass, Exceeded, ResetMissing, ResetFound,
           Removed, DestroyEmpty, AllDone, Return
<1> QED BY <1>1, <1>2, <1>3, <1>4 DEF Next, Work

(* Whoever waits for a goroutine under the mutex waits for one that was    *)
(* told to end: the removal of a bucket and Destroy never block everybody  *)
(* (fixed_memory.go:49-53, 60-80).                                         *)
THEOREM NoWaitInVain == Spec => []WaitsEnd
<1>1. Init => WaitsEnd /\ KillingInv
  BY DEF Init, WaitsEnd, KillingInv
<1>2. TypeOK /\ IInv /\ WaitsEnd /\ KillingInv /\ [Next]_vars => WaitsEnd' /\ KillingInv'
  BY WaitsStep
<1> QED BY <1>1, <1>2, Invariance, PTL DEF Spec

(* No goroutine outlives the map entry of its bucket, and with the mutex   *)
(* free every bucket of the map has its goroutine.                         *)
THEOREM NoLeak == Spec => []NoOrphan
<1>1. ASSUME TypeOK, IInv
      PROVE  NoOrphan
  <2>1. TypeOK /\ MutualExclusion /\ MapInv /\ DyingInv
    BY <1>1 DEF IInv
  <2>2. ASSUME NEW b \in Bucket, b \in InMap, mu = NoThread
        PROVE  gor[b] \in {"born", "select", "judge"}
    <3>1. gor[b] # "unborn"
      BY <2>1, <2>2, NameAssumption DEF InMap, MapInv
    <3> QED BY <2>1, <2>2, <3>1, FreeFacts DEF TypeOK, Goroutine
  <2> QED BY <2>1, <2>2 DEF NoOrphan, MapInv
<1> QED BY <1>1, Invariance, PTL

(* However requests and ticks interleave, a window lets through at most    *)
(* one request more than the limit.                                        *)
THEOREM AtMostOneOver == Spec => []GrantBound
<1>1. ASSUME TypeOK, IInv
      PROVE  GrantBound
  <2>1. SUFFICES ASSUME NEW n \in Name, buckets[n] # NoBucket
                 PROVE  granted[buckets[n]] <= Limit[n] + 1
    BY DEF GrantBound
  <2>2. /\ buckets[n] \in Bucket /\ nameOf[buckets[n]] = n
        /\ gor[buckets[n]] # "unborn"
    BY <1>1, <2>1 DEF TypeOK, IInv, MapInv
  <2> QED BY <1>1, <2>2 DEF IInv, QuotaInv, Quota
<1> QED BY <1>1, Invariance, PTL

(* A verdict is given by Pass or Exceeded of the thread that asked.        *)
LEMMA VerdictStep ==
    ASSUME TypeOK, MutualExclusion, [Next]_vars, NEW t \in Thread,
           pc[t] = "verdict", pc'[t] # "verdict"
    PROVE  Pass(t) \/ Exceeded(t)
<1>1. mu = t /\ mu # NoThread /\ \A u \in Thread \ {t} : pc[u] \notin Holding
  BY HolderFacts, ThreadAssumption DEF Holding
<1>2. ~Request /\ ~Advance
  BY DEF TypeOK, Request, CallDestroy, Call, Advance
<1>3. ASSUME NEW b \in Bucket, BucketStep(b)
      PROVE  FALSE
  BY <1>3 DEF BucketStep, Start, Tick, Keep, Reap, Exit
<1>4. ASSUME NEW u \in Thread, ThreadStep(u)
      PROVE  Pass(t) \/ Exceeded(t)
  <2>1. CASE u = t
    BY <1>1, <1>4, <2>1
       DEF ThreadStep, Exceeding, Resetting, Destroying, RejectLimits,
           LookupBucket, NewBucket, Acquire, Count, Touch, ResetMissing,
           ResetFound, ResetRequest, Kill, Removed, DestroyEmpty,
           DestroyStart, NextToKill, KillOne, AllDone
  <2>2. CASE u # t
    BY <1>1, <1>4, <2>2
       DEF TypeOK, Holding, ThreadStep, Exceeding, Resetting, Destroying, RejectLimits,
           LookupBucket, NewBucket, Acquire, Count, Touch, Pass, WithinLimit, Exceeded, ResetMissing,
           ResetFound, ResetRequest, Kill, Removed, DestroyEmpty,
           DestroyStart, NextToKill, KillOne, AllDone, Return
  <2> QED BY <2>1, <2>2
<1>5. CASE UNCHANGED vars
  BY <1>5 DEF vars
<1> QED BY <1>2, <1>3, <1>4, <1>5 DEF Next, Work

(* No request is dropped while part of the limit is left in the window.    *)
THEOREM NoFalseDenial == Spec => DenyJustified
<1>1. ASSUME TypeOK, IInv, [Next]_vars
      PROVE  \A t \in Caller :
                pc[t] = "verdict" /\ pc'[t] = "idle" /\ ret'[t] = "exceeded"
                => granted[item[t]] >= Limit[arg[t]]
  <2>1. SUFFICES ASSUME NEW t \in Caller, pc[t] = "verdict", pc'[t] = "idle",
                        ret'[t] = "exceeded"
                 PROVE  granted[item[t]] >= Limit[arg[t]]
    OBVIOUS
  <2>2. TypeOK /\ MutualExclusion /\ MapInv /\ ItemInv /\ QuotaInv /\ t \in Thread
    BY <1>1 DEF IInv, Thread
  <2>3. t # Reaper
    BY ThreadAssumption
  <2>4. Exceeded(t)
    BY <1>1, <2>1, <2>2, <2>3, VerdictStep DEF TypeOK, Pass, WithinLimit, Return
  <2>5. /\ item[t] \in Bucket /\ nameOf[item[t]] = arg[t]
        /\ gor[item[t]] # "unborn" /\ Limit[arg[t]] \in Nat
    BY <2>1, <2>2, ItemFacts
  <2>6. InFlight(item[t])
    BY <2>1, <2>2 DEF InFlight
  <2> QED BY <2>2, <2>4, <2>5, <2>6 DEF TypeOK, Exceeded, WithinLimit, QuotaInv, Quota
<1> QED BY <1>1, Invariance, PTL DEF Spec, DenyJustified

(* An entry of the map is emptied by the thread that was asked for its     *)
(* name, or by Destroy.                                                    *)
LEMMA EmptiedStep ==
    ASSUME TypeOK, ItemInv, [Next]_vars,
           NEW n \in Name, buckets[n] # NoBucket, buckets'[n] = NoBucket
    PROVE  \E t \in Thread :
              \/ Removed(t) /\ arg[t] = n /\ item[t] = buckets[n]
              \/ AllDone(t)
<1>1. buckets' # buckets
  OBVIOUS
<1>2. ~Request /\ ~Advance /\ ~UNCHANGED vars
  BY <1>1 DEF Request, CallDestroy, Call, Advance, vars
<1>3. ASSUME NEW b \in Bucket, BucketStep(b)
      PROVE  FALSE
  BY <1>1, <1>3 DEF BucketStep, Start, Tick, Keep, Reap, Exit
<1>4. PICK t \in Thread : ThreadStep(t)
  BY <1>2, <1>3 DEF Next, Work
<1>5. NewBucket(t) \/ Removed(t) \/ AllDone(t)
  BY <1>1, <1>4
     DEF ThreadStep, Exceeding, Resetting, Destroying, RejectLimits, LookupBucket,
         Count, Touch, Pass, Exceeded, ResetMissing, ResetFound, Kill, DestroyEmpty,
         DestroyStart, NextToKill, KillOne
<1>6. CASE NewBucket(t)
  BY <1>6, NameAssumption DEF TypeOK, NewBucket
<1>7. CASE Removed(t)
  <2>1. pc[t] = "wait" /\ arg[t] = n
    BY <1>7 DEF TypeOK, Removed
  <2> QED BY <1>7, <2>1 DEF ItemInv
<1>8. CASE AllDone(t)
  BY <1>8
<1> QED BY <1>5, <1>6, <1>7, <1>8

(* A reset of one name never takes the bucket, and with it the count, of   *)
(* another (fixed_memory.go:45-58).                                        *)
THEOREM ResetsByName == Spec => ResetHitsItsName
<1>1. TypeOK /\ IInv /\ [Next]_vars
      => [\A n \in Name :
            buckets[n] # NoBucket /\ buckets'[n] = NoBucket
            => \E t \in Thread :
                  \/ pc[t] = "wait" /\ arg[t] = n /\ item[t] = buckets[n]
                  \/ pc[t] = "waitall"]_vars
  BY EmptiedStep DEF IInv, Removed, AllDone
<1> QED BY <1>1, Invariance, PTL DEF Spec, ResetHitsItsName
=============================================================================
