------------------------ MODULE FixedMemoryRefinement ------------------------
(***************************************************************************)
(* The limiter (FixedMemory) keeps the promise of RateWindow, whatever the *)
(* names, callers, limits and period: every step of it is a step of        *)
(* RateWindow or leaves what a caller can see as it was.                   *)
(***************************************************************************)
EXTENDS FixedMemoryProofs

-----------------------------------------------------------------------------
(* A step that leaves every caller in its call and every window with what  *)
(* it let through is not seen by the callers.                              *)
LEMMA Silent ==
    ASSUME \A t \in Client : /\ Promised(pc'[t]) = Promised(pc[t])
                             /\ arg'[t] = arg[t] /\ ret'[t] = ret[t],
           \A n \in Name : InWindow(n)' = InWindow(n)
    PROVE  UNCHANGED Window!vars
<1>1. [t \in Client |-> Promised(pc[t])]' = [t \in Client |-> Promised(pc[t])]
  OBVIOUS
<1>2. [t \in Client |-> arg[t]]' = [t \in Client |-> arg[t]]
  OBVIOUS
<1>3. [t \in Client |-> ret[t]]' = [t \in Client |-> ret[t]]
  OBVIOUS
<1>4. [n \in Name |-> InWindow(n)]' = [n \in Name |-> InWindow(n)]
  OBVIOUS
<1> QED BY <1>1, <1>2, <1>3, <1>4 DEF Window!vars

(* An answer of the limiter is an answer of RateWindow.                    *)
LEMMA Answers ==
    ASSUME TypeOK, NEW t \in Client, NEW a \in Answer, NEW o,
           Return(t, a), Promised(pc[t]) = o
    PROVE  Window!Return(t, o, a)
<1>1. t \in Thread /\ t # Reaper
  BY ThreadAssumption DEF Client, Thread
<1>2. [u \in Client |-> Promised(pc[u])]'
      = [[u \in Client |-> Promised(pc[u])] EXCEPT ![t] = "idle"]
  BY <1>1 DEF Return, TypeOK, Promised, Client, Thread
<1>3. [u \in Client |-> arg[u]]' = [[u \in Client |-> arg[u]] EXCEPT ![t] = NoName]
  BY <1>1 DEF Return, TypeOK, Client, Thread
<1>4. [u \in Client |-> ret[u]]' = [[u \in Client |-> ret[u]] EXCEPT ![t] = a]
  BY <1>1 DEF Return, TypeOK, Client, Thread
<1> QED BY <1>2, <1>3, <1>4 DEF Window!Return

LEMMA Calls ==
    ASSUME TypeOK, NEW t \in Client, NEW n, NEW o \in {"exceed", "reset", "destroy"},
           Call(t, o, n)
    PROVE  Window!Call(t, o, n)
<1>1. t \in Thread /\ t # Reaper
  BY ThreadAssumption DEF Client, Thread
<1>2. [u \in Client |-> Promised(pc[u])]'
      = [[u \in Client |-> Promised(pc[u])] EXCEPT ![t] = o]
  BY <1>1 DEF Call, TypeOK, Promised, Client, Thread
<1>3. [u \in Client |-> arg[u]]' = [[u \in Client |-> arg[u]] EXCEPT ![t] = n]
  BY <1>1 DEF Call, TypeOK, Client, Thread
<1>4. [u \in Client |-> ret[u]]' = [[u \in Client |-> ret[u]] EXCEPT ![t] = "none"]
  BY <1>1 DEF Call, TypeOK, Client, Thread
<1>5. UNCHANGED [n_1 \in Name |-> InWindow(n_1)]
  BY DEF Call, InWindow
<1>6. Promised(pc[t]) = "idle"
  BY DEF Call, Promised
<1> QED BY <1>2, <1>3, <1>4, <1>5, <1>6 DEF Window!Call

-----------------------------------------------------------------------------
(* ExceedLimit: a refusal, a grant, a denial, or a step nobody sees.       *)
LEMMA ExceedingRefines ==
    ASSUME TypeOK, IInv, NEW t \in Thread, Exceeding(t)
    PROVE  [Window!Next]_(Window!vars)
<1>0. TypeOK /\ MutualExclusion /\ MapInv /\ ItemInv /\ QuotaInv
  BY DEF IInv
<1>1. pc[t] \in {"exceed", "count", "touch", "verdict"}
  BY DEF Exceeding, RejectLimits, LookupBucket, NewBucket, Count, Touch, Pass, WithinLimit, Exceeded
<1>2. t # Reaper /\ t \in Client /\ Promised(pc[t]) = "exceed" /\ arg[t] \in Name
  BY <1>0, <1>1 DEF ItemInv, Client, Thread, Promised
<1>3. CASE RejectLimits(t)
  <2>1. Window!Return(t, "exceed", "invalid")
    BY <1>2, <1>3, Answers DEF RejectLimits, Answer
  <2>2. UNCHANGED [n \in Name |-> InWindow(n)]
    BY <1>3 DEF RejectLimits, InWindow
  <2>3. Window!Refuse(t)
    BY <1>2, <1>3, <2>1, <2>2 DEF RejectLimits, Window!Refuse, Window!Invalid, Window!LimitsValid, LimitsValid
  <2> QED BY <1>2, <2>3 DEF Window!Next
<1>4. CASE LookupBucket(t) \/ Count(t) \/ Touch(t)
  <2>1. \A u \in Client : Promised(pc'[u]) = Promised(pc[u])
    BY <1>0, <1>2, <1>4
       DEF TypeOK, LookupBucket, Acquire, Count, Touch, Promised, Client, Thread
  <2>2. UNCHANGED <<arg, ret, buckets, granted>>
    BY <1>4 DEF LookupBucket, Count, Touch
  <2> QED BY <2>1, <2>2, Silent DEF InWindow
<1>5. CASE NewBucket(t)
  <2>1. PICK b \in Bucket :
          /\ gor[b] = "unborn"
          /\ Acquire(t, "count", b)
          /\ buckets' = [buckets EXCEPT ![arg[t]] = b]
          /\ UNCHANGED <<arg, ret, granted>> /\ buckets[arg[t]] = NoBucket
    BY <1>5 DEF NewBucket
  <2>2. \A u \in Client : Promised(pc'[u]) = Promised(pc[u])
    BY <1>0, <1>2, <1>5, <2>1 DEF TypeOK, NewBucket, Acquire, Promised, Client, Thread
  <2>3. granted[b] = 0
    BY <1>0, <2>1 DEF QuotaInv
  <2>4. \A n \in Name : InWindow(n)' = InWindow(n)
    BY <1>0, <1>2, <2>1, <2>3 DEF TypeOK, InWindow
  <2> QED BY <2>1, <2>2, <2>4, Silent
<1>6. ASSUME Pass(t) \/ Exceeded(t)
      PROVE  /\ item[t] \in Bucket /\ buckets[arg[t]] = item[t] /\ item[t] # NoBucket
             /\ nameOf[item[t]] = arg[t]
             /\ Limit[arg[t]] \in Nat /\ LimitsValid(arg[t])
             /\ Quota(item[t], Limit[arg[t]]) /\ InFlight(item[t])
  BY <1>0, <1>6, ItemFacts, NameAssumption DEF Pass, WithinLimit, Exceeded, QuotaInv, InFlight
<1>7. CASE Pass(t)
  <2>1. Window!Return(t, "exceed", "pass")
    BY <1>2, <1>7, Answers DEF Pass, WithinLimit, Answer
  <2>2. InWindow(arg[t]) <= Limit[arg[t]]
    BY <1>0, <1>6, <1>7 DEF TypeOK, Pass, WithinLimit, Quota, InWindow
  <2>3. \A n \in Name : n # arg[t] => InWindow(n)' = InWindow(n)
    BY <1>0, <1>6, <1>7 DEF TypeOK, MapInv, Pass, WithinLimit, InWindow
  <2>4. \A n \in Name : n = arg[t] => InWindow(n)' = InWindow(n) + 1
    BY <1>0, <1>6, <1>7 DEF TypeOK, Pass, WithinLimit, InWindow
  <2>5. [n \in Name |-> InWindow(n)]'
        = [[n \in Name |-> InWindow(n)] EXCEPT ![arg[t]] = @ + 1]
    BY <1>2, <2>3, <2>4
  <2>6. Window!Grant(t)
    BY <1>2, <1>6, <1>7, <2>1, <2>2, <2>5 DEF Window!Grant, Window!Within, Window!LimitsValid, LimitsValid
  <2> QED BY <1>2, <2>6 DEF Window!Next
<1>8. CASE Exceeded(t)
  <2>1. Window!Return(t, "exceed", "exceeded")
    BY <1>2, <1>8, Answers DEF Exceeded, WithinLimit, Answer
  <2>2. InWindow(arg[t]) >= Limit[arg[t]]
    BY <1>0, <1>6, <1>8 DEF TypeOK, Exceeded, WithinLimit, Quota, InWindow
  <2>3. UNCHANGED [n \in Name |-> InWindow(n)]
    BY <1>8 DEF Exceeded, WithinLimit, InWindow
  <2>4. Window!Deny(t)
    BY <1>2, <1>6, <1>8, <2>1, <2>2, <2>3 DEF Window!Deny, Window!Over, Window!LimitsValid, LimitsValid
  <2> QED BY <1>2, <2>4 DEF Window!Next
<1> QED BY <1>3, <1>4, <1>5, <1>7, <1>8 DEF Exceeding

(* ResetBucket: a caller's reset, or a window that ends by itself.         *)
LEMMA ResettingRefines ==
    ASSUME TypeOK, IInv, NEW t \in Thread, Resetting(t)
    PROVE  [Window!Next]_(Window!vars)
<1>0. TypeOK /\ MutualExclusion /\ MapInv /\ ItemInv /\ QuotaInv
  BY DEF IInv
<1>1. t # Reaper => t \in Client
  BY DEF Thread, Client
<1>2. ASSUME NEW n \in Name, ResetMissing(t, n)
      PROVE  [Window!Next]_(Window!vars)
  <2>1. UNCHANGED <<buckets, granted>> /\ InWindow(n) = 0
    BY <1>2 DEF ResetMissing, InWindow
  <2>2. CASE t = Reaper
    <3>1. \A u \in Client : Promised(pc'[u]) = Promised(pc[u]) /\ arg'[u] = arg[u]
      BY <1>0, <1>2, <2>2, ThreadAssumption
         DEF TypeOK, ResetMissing, Return, Promised, Client, Thread
    <3>2. ret' = ret
      BY <1>2, <2>2 DEF ResetMissing, Return
    <3> QED BY <2>1, <3>1, <3>2, Silent DEF InWindow
  <2>3. CASE t # Reaper
    <3>1. arg[t] = n /\ Promised(pc[t]) = "reset"
      BY <1>2, <2>3 DEF ResetMissing, ResetRequest, Promised
    <3>2. Window!Return(t, "reset", "missing")
      BY <1>1, <1>2, <2>3, <3>1, Answers DEF ResetMissing, Answer
    <3>3. UNCHANGED [m \in Name |-> InWindow(m)]
      BY <2>1 DEF InWindow
    <3>4. Window!Missing(t)
      BY <1>1, <2>1, <2>3, <3>1, <3>2, <3>3 DEF Window!Missing, Window!Absent
    <3> QED BY <1>1, <2>3, <3>4 DEF Window!Next
  <2> QED BY <2>2, <2>3
<1>3. ASSUME NEW n \in Name, ResetFound(t, n)
      PROVE  [Window!Next]_(Window!vars)
  <2>1. \A u \in Client : Promised(pc'[u]) = Promised(pc[u]) /\ arg'[u] = arg[u]
    BY <1>0, <1>3, ThreadAssumption
       DEF TypeOK, ResetFound, ResetRequest, Acquire, Promised, Client, Thread
  <2>2. UNCHANGED <<ret, buckets, granted>>
    BY <1>3 DEF ResetFound
  <2> QED BY <2>1, <2>2, Silent DEF InWindow
<1>4. CASE Kill(t)
  <2>1. \A u \in Client : Promised(pc'[u]) = Promised(pc[u])
    BY <1>0, <1>4 DEF TypeOK, Kill, Promised, Client, Thread
  <2>2. UNCHANGED <<arg, ret, buckets, granted>>
    BY <1>4 DEF Kill
  <2> QED BY <2>1, <2>2, Silent DEF InWindow
<1>5. CASE Removed(t)
  <2>1. /\ arg[t] \in Name /\ item[t] \in Bucket /\ buckets[arg[t]] = item[t]
        /\ nameOf[item[t]] = arg[t]
    BY <1>0, <1>5, ItemFacts DEF Removed
  <2>2. \A n \in Name : n = arg[t] => InWindow(n)' = 0
    BY <1>0, <1>5, <2>1 DEF TypeOK, Removed, InWindow
  <2>3. \A n \in Name : n # arg[t] => InWindow(n)' = InWindow(n)
    BY <1>0, <1>5, <2>1 DEF TypeOK, MapInv, Removed, Collect, InWindow
  <2>4. [n \in Name |-> InWindow(n)]' = [[n \in Name |-> InWindow(n)] EXCEPT ![arg[t]] = 0]
    BY <2>1, <2>2, <2>3
  <2>5. CASE t = Reaper
    <3>1. UNCHANGED [u \in Client |-> Promised(pc[u])]
      BY <1>0, <1>5, <2>5, ThreadAssumption DEF TypeOK, Removed, Return, Client, Thread
    <3>2. UNCHANGED [u \in Client |-> arg[u]]
      BY <1>0, <1>5, <2>5, ThreadAssumption DEF TypeOK, Removed, Return, Client, Thread
    <3>3. UNCHANGED [u \in Client |-> ret[u]]
      BY <1>5, <2>5 DEF Removed, Return
    <3>4. Window!Roll(arg[t])
      BY <2>4, <3>1, <3>2, <3>3 DEF Window!Roll, Window!Cleared
    <3> QED BY <2>1, <3>4 DEF Window!Next
  <2>6. CASE t # Reaper
    <3>1. Window!Return(t, "reset", "found")
      BY <1>1, <1>5, <2>6, Answers DEF Removed, Answer, Promised
    <3>2. Window!Forget(t)
      BY <1>1, <2>1, <2>4, <2>6, <3>1 DEF Window!Forget, Window!Cleared
    <3> QED BY <1>1, <2>6, <3>2 DEF Window!Next
  <2> QED BY <2>5, <2>6
<1> QED BY <1>2, <1>3, <1>4, <1>5 DEF Resetting

(* Destroy: every window ends in its last step.                            *)
LEMMA DestroyingRefines ==
    ASSUME TypeOK, IInv, NEW t \in Thread, Destroying(t)
    PROVE  [Window!Next]_(Window!vars)
<1>0. TypeOK /\ ItemInv
  BY DEF IInv
<1>1. t # Reaper /\ t \in Client /\ Promised(pc[t]) = "destroy"
  BY <1>0 DEF Destroying, DestroyEmpty, DestroyStart, NextToKill, KillOne, AllDone,
              ItemInv, Client, Thread, Promised
<1>2. CASE DestroyEmpty(t) \/ AllDone(t)
  <2>1. Window!Return(t, "destroy", "ok")
    BY <1>1, <1>2, Answers DEF DestroyEmpty, AllDone, Answer
  <2>2. \A n \in Name : InWindow(n)' = 0
    BY <1>0, <1>2 DEF TypeOK, DestroyEmpty, AllDone, InMap, InWindow
  <2>3. [n \in Name |-> InWindow(n)]' = [n \in Name |-> 0]
    BY <2>2
  <2>4. Window!Destroy(t)
    BY <2>1, <2>3 DEF Window!Destroy, Window!NoneGranted
  <2> QED BY <1>1, <2>4 DEF Window!Next
<1>3. CASE DestroyStart(t) \/ NextToKill(t) \/ KillOne(t)
  <2>1. \A u \in Client : Promised(pc'[u]) = Promised(pc[u])
    BY <1>0, <1>1, <1>3
       DEF TypeOK, DestroyStart, Acquire, NextToKill, KillOne, Promised, Client, Thread
  <2>2. UNCHANGED <<arg, ret, buckets, granted>>
    BY <1>3 DEF DestroyStart, NextToKill, KillOne
  <2> QED BY <2>1, <2>2, Silent DEF InWindow
<1> QED BY <1>2, <1>3 DEF Destroying

(* The goroutine of a bucket: a tick ends the window of its name.          *)
LEMMA BucketStepRefines ==
    ASSUME TypeOK, IInv, NEW b \in Bucket, BucketStep(b)
    PROVE  [Window!Next]_(Window!vars)
<1>0. TypeOK /\ MapInv
  BY DEF IInv
<1>1. CASE Start(b) \/ Keep(b) \/ Reap(b) \/ Exit(b)
  <2>1. UNCHANGED <<pc, arg, ret, buckets, granted>>
    BY <1>1 DEF Start, Keep, Reap, Exit
  <2> QED BY <2>1, Silent DEF InWindow
<1>2. CASE Tick(b)
  <2>1. nameOf[b] \in Name /\ buckets[nameOf[b]] = b
    BY <1>0, <1>2, BucketFacts DEF Tick
  <2>2. UNCHANGED <<pc, arg, ret, buckets>> /\ granted' = [granted EXCEPT ![b] = 0]
    BY <1>2 DEF Tick
  <2>3. \A n \in Name : n # nameOf[b] => InWindow(n)' = InWindow(n)
    BY <1>0, <2>1, <2>2 DEF TypeOK, MapInv, InWindow
  <2>4. \A n \in Name : n = nameOf[b] => InWindow(n)' = 0
    BY <1>0, <2>1, <2>2 DEF TypeOK, InWindow
  <2>5. [n \in Name |-> InWindow(n)]'
        = [[n \in Name |-> InWindow(n)] EXCEPT ![nameOf[b]] = 0]
    BY <2>1, <2>3, <2>4
  <2>6. Window!Roll(nameOf[b])
    BY <2>2, <2>5 DEF Window!Roll, Window!Cleared
  <2> QED BY <2>1, <2>6 DEF Window!Next
<1> QED BY <1>1, <1>2 DEF BucketStep

LEMMA NextRefines ==
    ASSUME TypeOK, IInv, [Next]_vars
    PROVE  [Window!Next]_(Window!vars)
<1>1. ASSUME NEW t \in Caller, NEW n \in Name, NEW o \in {"exceed", "reset"}, Call(t, o, n)
      PROVE  [Window!Next]_(Window!vars)
  <2>1. t \in Client /\ Window!Call(t, o, n)
    BY <1>1, Calls DEF Client
  <2> QED BY <2>1 DEF Window!Next
<1>2. CASE CallDestroy
  <2>1. Closer \in Client /\ Window!Call(Closer, "destroy", NoName)
    BY <1>2, Calls DEF Client, CallDestroy
  <2> QED BY <2>1 DEF Window!Next
<1>3. ASSUME NEW t \in Thread, ThreadStep(t)
      PROVE  [Window!Next]_(Window!vars)
  BY <1>3, ExceedingRefines, ResettingRefines, DestroyingRefines DEF ThreadStep
<1>4. ASSUME NEW b \in Bucket, BucketStep(b)
      PROVE  [Window!Next]_(Window!vars)
  BY <1>4, BucketStepRefines
<1>5. CASE Advance \/ UNCHANGED vars
  <2>1. UNCHANGED <<pc, arg, ret, buckets, granted>>
    BY <1>5 DEF Advance, vars
  <2> QED BY <2>1, Silent DEF InWindow
<1> QED BY <1>1, <1>2, <1>3, <1>4, <1>5 DEF Next, Request, Work

LEMMA InitRefines ==
    ASSUME Init
    PROVE  Window!Init
BY DEF Init, Window!Init, Window!NoneGranted, InWindow, Promised, Client, Thread

-----------------------------------------------------------------------------
(* The limiter implements its promise: a request is let through while at   *)
(* most the limit was let through in the window, and dropped only when the *)
(* limit was used up.                                                      *)
THEOREM Refinement == Spec => KeepsPromise
<1>1. Init => Window!Init
  BY InitRefines
<1>2. TypeOK /\ IInv /\ [Next]_vars => [Window!Next]_(Window!vars)
  BY NextRefines
<1> QED BY <1>1, <1>2, Invariance, PTL DEF Spec, KeepsPromise, Window!Spec
=============================================================================
