--------------------------- MODULE ShutdownProofs ---------------------------
(***************************************************************************)
(* Proofs about the end of the process (Shutdown), for any set of requests *)
(* and either repository.                                                  *)
(***************************************************************************)
EXTENDS Shutdown, TLAPS

LEMMA InitInv ==
    ASSUME Init
    PROVE  TypeOK /\ IInv
BY DEF Init, TypeOK, Resource, InProgress, IInv,
                       PanicNeedsTimeout, FailsOnlyWhileClosing

(* The main goroutine and the starter of the server.                       *)
LEMMA MainInv ==
    ASSUME TypeOK, IInv, process = "up", UNCHANGED store, Signal \/ Starting \/ Main \/ Expire
    PROVE  (TypeOK /\ IInv)'
<1> USE DEF TypeOK, IInv, Resource, InProgress, PanicNeedsTimeout,
            FailsOnlyWhileClosing, closerVars, appVars
<1>1. CASE Signal
  BY <1>1 DEF Signal
<1>2. CASE Serve
  BY <1>2 DEF Serve
<1>3. CASE ServeFails
  BY <1>3 DEF ServeFails
<1>4. CASE Run
  BY <1>4 DEF Run, StartServing
<1>5. CASE StartClosing
  BY <1>5 DEF StartClosing
<1>6. CASE SelectComplete
  BY <1>6 DEF SelectComplete
<1>7. CASE SelectTimeout
  BY <1>7 DEF SelectTimeout, CloseComplete
<1>8. CASE Exit
  BY <1>8 DEF Exit
<1>9. CASE Expire
  BY <1>9 DEF Expire
<1> QED
  BY <1>1, <1>2, <1>3, <1>4, <1>5, <1>6, <1>7, <1>8, <1>9 DEF Starting, Main

(* The goroutine that calls the close functions.                           *)
LEMMA WorkerInv ==
    ASSUME TypeOK, IInv, process = "up", UNCHANGED store, Worker
    PROVE  (TypeOK /\ IInv)'
<1> USE DEF TypeOK, IInv, Resource, InProgress, PanicNeedsTimeout,
            FailsOnlyWhileClosing, closerVars, appVars
<1>1. CASE NextCloser
  BY <1>1 DEF NextCloser
<1>2. CASE CloseDB
  BY <1>2 DEF CloseDB
<1>3. CASE CloseLimiter
  BY <1>3 DEF CloseLimiter
<1>4. CASE Drain
  BY <1>4 DEF Drain
<1>5. CASE Drained
  BY <1>5 DEF Drained
<1>6. CASE Complete
  BY <1>6 DEF Complete, CloseComplete
<1> QED
  BY <1>1, <1>2, <1>3, <1>4, <1>5, <1>6 DEF Worker

LEMMA RequestInv ==
    ASSUME TypeOK, IInv, process = "up", UNCHANGED store, NEW r \in Request, Serving(r)
    PROVE  (TypeOK /\ IInv)'
<1> USE DEF TypeOK, IInv, Resource, InProgress, PanicNeedsTimeout,
            FailsOnlyWhileClosing, closerVars, appVars
<1>1. CASE Arrive(r)
  BY <1>1 DEF Arrive
<1>2. CASE LookupRule(r)
  BY <1>2 DEF LookupRule
<1>3. CASE CheckLimits(r)
  BY <1>3 DEF CheckLimits
<1> QED
  BY <1>1, <1>2, <1>3 DEF Serving

LEMMA StutterInv ==
    ASSUME TypeOK, IInv, UNCHANGED vars
    PROVE  (TypeOK /\ IInv)'
BY DEF vars, TypeOK, IInv, PanicNeedsTimeout, FailsOnlyWhileClosing

-----------------------------------------------------------------------------
(* The inductive invariant holds in every state of every behaviour.        *)
THEOREM Invariance == Spec => [](TypeOK /\ IInv)
<1>1. Init => TypeOK /\ IInv
  BY InitInv
<1>2. (TypeOK /\ IInv) /\ [Next]_vars => (TypeOK /\ IInv)'
  BY MainInv, WorkerInv, RequestInv, StutterInv DEF Next, Living
<1> QED
  BY <1>1, <1>2, PTL DEF Spec

(* A process that ends before the ten seconds are over has stopped its     *)
(* server, cut no request off and closed its pool (closer.go:51).          *)
THEOREM ExitIsClean == Spec => []CleanExit
<1>1. TypeOK /\ IInv => CleanExit
  BY DEF TypeOK, Resource, IInv, CleanExit
<1> QED
  BY <1>1, Invariance, PTL

(* The second close of `complete` needs the deadline (closer.go:40, 54).   *)
THEOREM PanicOnlyAfterDeadline == Spec => []PanicNeedsTimeout
<1>1. IInv => PanicNeedsTimeout
  BY DEF IInv
<1> QED
  BY <1>1, Invariance, PTL

(* While the program is not closing, no request fails for a closed pool.   *)
THEOREM ServesUntilClosing == Spec => []FailsOnlyWhileClosing
<1>1. IInv => FailsOnlyWhileClosing
  BY DEF IInv
<1> QED
  BY <1>1, Invariance, PTL
=============================================================================
