------------------------- MODULE BackgroundJobProofs -------------------------
(***************************************************************************)
(* What BackgroundJob guarantees for every set of errors: the caller gets  *)
(* the first error reported, or nil from a worker that ended and reported  *)
(* none; and the two channels together implement JobOutcome.               *)
(***************************************************************************)
EXTENDS BackgroundJob, TLAPS

\* The inductive invariant.  NothingMissed is what makes ResultIsFirstError
\* inductive: until the caller returns, a reported error has nowhere to be but
\* in the send the worker is parked in.
IInv == /\ TypeOK
        /\ NothingMissed
        /\ ResultIsFirstError

\* The starting state has no send under way and no result.
LEMMA InitEstablishes == Init => IInv
  BY ErrorAssumption DEF Init, IInv, TypeOK, NothingMissed, ResultIsFirstError

\* Every call of the worker and every step of the caller's loop keeps IInv.
LEMMA NextPreserves == IInv /\ [Next]_vars => IInv'
<1> SUFFICES ASSUME IInv, [Next]_vars PROVE IInv'
  OBVIOUS
<1> USE ErrorAssumption DEF IInv, TypeOK, NothingMissed, ResultIsFirstError
<1>1. ASSUME NEW b \in BOOLEAN, CallActive(b) PROVE IInv'
  BY <1>1 DEF CallActive
<1>2. ASSUME NEW e \in Error, CallError(e) PROVE IInv'
  BY <1>2 DEF CallError
<1>3. CASE CallClose
  BY <1>3 DEF CallClose
<1>4. CASE StartWait
  BY <1>4 DEF StartWait
<1>5. CASE ReceiveProgress
  BY <1>5 DEF ReceiveProgress
<1>6. CASE ReceiveError
  BY <1>6 DEF ReceiveError
<1>7. CASE ReceiveClosed
  BY <1>7 DEF ReceiveClosed
<1>8. CASE UNCHANGED vars
  BY <1>8 DEF vars
<1> QED
  BY <1>1, <1>2, <1>3, <1>4, <1>5, <1>6, <1>7, <1>8 DEF Next, Worker, Waiter

\* A caller is never told of success by a worker that reported an error or that
\* is still at work, and a failure it is told of is the first one reported.
THEOREM JobResult == Spec => []ResultIsFirstError
<1>1. Init => IInv
  BY InitEstablishes
<1>2. IInv /\ [Next]_vars => IInv'
  BY NextPreserves
<1>3. IInv => ResultIsFirstError
  BY DEF IInv
<1> QED
  BY <1>1, <1>2, <1>3, PTL DEF Spec

\* No report is lost while the caller still waits, and every variable keeps its type.
THEOREM JobInvariant == Spec => [](TypeOK /\ NothingMissed)
<1>1. IInv => TypeOK /\ NothingMissed
  BY DEF IInv
<1> QED
  BY InitEstablishes, NextPreserves, <1>1, PTL DEF Spec

-----------------------------------------------------------------------------
\* The channel protocol implements the abstract job: the caller learns one
\* outcome, and learns of success only after the goroutine has ended.
THEOREM JobRefinement == Spec => ImplementsOutcome
<1>1. Init => Outcome!Init
  BY DEF Init, Outcome!Init
<1>2. IInv /\ [Next]_vars => [Outcome!Next]_(Outcome!ovars)
  <2> SUFFICES ASSUME IInv, [Next]_vars PROVE [Outcome!Next]_(Outcome!ovars)
    OBVIOUS
  <2> USE ErrorAssumption DEF IInv, TypeOK, NothingMissed, ResultIsFirstError, Outcome!ovars
  <2>1. ASSUME NEW b \in BOOLEAN, CallActive(b) PROVE UNCHANGED Outcome!ovars
    BY <2>1 DEF CallActive
  <2>2. ASSUME NEW e \in Error, CallError(e) PROVE UNCHANGED Outcome!ovars
    BY <2>2 DEF CallError
  <2>3. CASE CallClose
    BY <2>3 DEF CallClose, Outcome!Next, Outcome!Finish
  <2>4. CASE StartWait
    BY <2>4 DEF StartWait
  <2>5. CASE ReceiveProgress
    BY <2>5 DEF ReceiveProgress
  <2>6. CASE ReceiveError
    \* the error received is the abstract failure
    <3>1. Outcome!Fail(sending)
      BY <2>6 DEF ReceiveError, Outcome!Fail
    <3> QED
      BY <2>6, <3>1 DEF ReceiveError, Outcome!Next
  <2>7. CASE ReceiveClosed
    BY <2>7 DEF ReceiveClosed, Outcome!Next, Outcome!Succeed
  <2>8. CASE UNCHANGED vars
    BY <2>8 DEF vars
  <2> QED
    BY <2>1, <2>2, <2>3, <2>4, <2>5, <2>6, <2>7, <2>8 DEF Next, Worker, Waiter
<1> QED
  BY InitEstablishes, NextPreserves, <1>1, <1>2, PTL DEF Spec, ImplementsOutcome, Outcome!Spec
=============================================================================
