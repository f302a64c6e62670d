----------------------- MODULE DiagnosticsDrainProofs -----------------------
(***************************************************************************)
(* Proofs about DiagnosticsDrain, for every size of the pipe, of a read    *)
(* and of the buffer: its types, and that what a guardian said is not lost *)
(* to the cancellation of the drain.                                       *)
(***************************************************************************)
EXTENDS DiagnosticsDrain, TLAPS

\* What is retained is a prefix of what was read.
RetainedInv == retained = Least(taken, Limit)

\* All the guardian wrote is read or in the pipe; only it adds to that.
MarkInv == worker # "failed" => mark <= Written

\* The worker is cancelled only after the guardian is gone, unless wait has failed.
OrderInv ==
  /\ cancelled => CancelClosed
  /\ CancelClosed => unwaited \/ ~guardian
  /\ worker = "done" => unwaited \/ (~guardian /\ mark <= taken)

IInv == TypeOK /\ RetainedInv /\ MarkInv /\ OrderInv

\* IInv holds at the start.
LEMMA InitInv == Init => IInv
<1> SUFFICES ASSUME Init PROVE IInv
  OBVIOUS
<1> USE SizeAssumption DEF Init
<1>1. TypeOK
  <2>1. pipe \in 0 .. Capacity /\ retained \in 0 .. Limit
    OBVIOUS
  <2>2. QED
    BY <2>1 DEF TypeOK, WorkerSteps
<1>2. RetainedInv /\ MarkInv
  BY DEF RetainedInv, MarkInv, Written, Least
<1>3. OrderInv
  BY DEF OrderInv, CancelClosed
<1>4. QED
  BY <1>1, <1>2, <1>3 DEF IInv

\* Every step of the processes and of both threads keeps IInv.
LEMMA Inductive == IInv /\ [Next]_vars => IInv'
<1> SUFFICES ASSUME IInv, [Next]_vars PROVE IInv'
  OBVIOUS
<1> USE SizeAssumption DEF IInv, TypeOK, RetainedInv, MarkInv, OrderInv, Written,
      CancelClosed, WorkerSteps, Least, drain, others
<1>1. CASE Say
  <2>1. pending' \in Nat
    BY <1>1 DEF Say
  <2>2. UNCHANGED <<main, drain, pipe, guardian, descendant, unwaited, mark>>
    BY <1>1 DEF Say
  <2>3. QED
    BY <2>1, <2>2
<1>2. CASE Write
  BY <1>2 DEF Write
<1>3. CASE GuardianExits
  <2>1. UNCHANGED <<main, drain, pipe, pending, descendant, unwaited, mark>> /\ guardian' = FALSE
    BY <1>3 DEF GuardianExits
  <2>2. QED
    BY <2>1
<1>4. CASE DescendantCloses
  <2>1. UNCHANGED <<main, drain, pipe, guardian, pending, unwaited, mark>> /\ descendant' = FALSE
    BY <1>4 DEF DescendantCloses
  <2>2. QED
    BY <2>1
<1>5. CASE DescendantWrites
  <2>1. pipe' \in 0 .. Capacity /\ pipe' = pipe + 1
    BY <1>5 DEF DescendantWrites
  <2>2. UNCHANGED <<main, drain, others>>
    BY <1>5 DEF DescendantWrites
  <2>3. QED
    BY <2>1, <2>2
<1>6. CASE Finish \/ Join \/ WaitFails \/ Return
  <2>1. CASE Finish \/ Return
    BY <1>6, <2>1 DEF Finish, Return
  <2>2. CASE Join
    BY <1>6, <2>2 DEF Join
  <2>3. CASE WaitFails
    <3>1. /\ UNCHANGED <<drain, pipe, guardian, pending, descendant, mark>>
          /\ unwaited' = TRUE /\ main' = "joining"
      BY <2>3 DEF WaitFails
    <3> QED
      BY <3>1
  <2> QED
    BY <1>6, <2>1, <2>2, <2>3
<1>7. CASE Poll
  BY <1>7 DEF Poll
<1>8. CASE ReadBytes
  BY <1>8 DEF ReadBytes
<1>9. CASE ReadNothing
  BY <1>9 DEF ReadNothing
<1>10. CASE DrainFails
  BY <1>10 DEF DrainFails, Drained
<1>11. CASE UNCHANGED vars
  BY <1>11 DEF vars
<1>12. QED
  BY <1>1, <1>2, <1>3, <1>4, <1>5, <1>6, <1>7, <1>8, <1>9, <1>10, <1>11
    DEF Next, MainStep, DrainStep

\* IInv is an invariant.
LEMMA Invariant == Spec => []IInv
<1>1. QED
  BY InitInv, Inductive, PTL DEF Spec

\* The state is always of its types.
THEOREM Typing == Spec => []TypeOK
<1>1. IInv => TypeOK
  BY DEF IInv
<1>2. QED
  BY <1>1, Invariant, PTL

\* Whatever the sizes and whenever the drain is cancelled, the diagnostics it
\* returns hold all the guardian wrote, up to the limit, unless wait has failed.
THEOREM Complete == Spec => []DiagnosticsComplete
<1>1. IInv => DiagnosticsComplete
  BY SizeAssumption DEF IInv, TypeOK, RetainedInv, OrderInv, DiagnosticsComplete, Least
<1>2. QED
  BY <1>1, Invariant, PTL

\* The drain does not end while the guardian may still write, unless wait has failed.
THEOREM Heard == Spec => []GuardianIsHeard
<1>1. IInv => GuardianIsHeard
  BY DEF IInv, OrderInv, GuardianIsHeard
<1>2. QED
  BY <1>1, Invariant, PTL

-----------------------------------------------------------------------------
(* finish comes back: FinishReturns but for the fairness it assumes *)

\* poll does not wake the worker for nothing: the read that follows finds bytes, the
\* end of the pipe, or a cancellation, and so never goes back to poll empty-handed.
ReadsSomething == worker = "read" => pipe > 0 \/ cancelled \/ ~(guardian \/ descendant)

\* Bytes are said within the bound of the model, as long as somebody reads.
BoundInv == worker # "failed" => Written + pending <= MaxBytes

\* Both are kept by every step.
LEMMA ReadsStep ==
  ASSUME IInv, ReadsSomething, BoundInv, [Next]_vars
  PROVE  ReadsSomething' /\ BoundInv'
<1> USE SizeAssumption DEF IInv, TypeOK, ReadsSomething, BoundInv, OrderInv, CancelClosed, Written,
      WorkerSteps, Least, drain, others
<1>1. CASE Say
  <2>1. UNCHANGED <<main, worker, cancelled, taken, pipe, guardian, descendant, unwaited>>
    BY <1>1 DEF Say
  <2>2. worker # "failed" => Written + pending' <= MaxBytes
    BY <1>1 DEF Say
  <2> QED
    BY <2>1, <2>2
<1>2. CASE Write
  BY <1>2 DEF Write
<1>3. CASE GuardianExits \/ DescendantCloses \/ Finish \/ Join \/ WaitFails \/ Return
  BY <1>3 DEF GuardianExits, DescendantCloses, Finish, Join, WaitFails, Return
<1>4. CASE DescendantWrites
  BY <1>4 DEF DescendantWrites
<1>5. CASE Poll
  BY <1>5 DEF Poll
<1>6. CASE ReadBytes
  BY <1>6 DEF ReadBytes
<1>7. CASE ReadNothing \/ DrainFails
  BY <1>7 DEF ReadNothing, DrainFails
<1>8. CASE UNCHANGED vars
  BY <1>8 DEF vars
<1> QED
  BY <1>1, <1>2, <1>3, <1>4, <1>5, <1>6, <1>7, <1>8 DEF Next, MainStep, DrainStep

\* Both are invariants.
LEMMA Reads == Spec => [](IInv /\ ReadsSomething /\ BoundInv)
<1>1. Init => ReadsSomething /\ BoundInv
  BY SizeAssumption DEF Init, ReadsSomething, BoundInv, Written
<1> QED
  BY <1>1, ReadsStep, Invariant, PTL DEF Spec

\* The worker does not spin on an empty pipe that a descendant keeps open.
THEOREM NoBusyLoop == Spec => []ReadsSomething
<1> QED
  BY Reads, PTL

\* While finish waits, whatever it waits for can move: the guardian has room to write
\* or can exit, the worker has something to read or to end for, or the wait is over.
NeverStuck ==
  main \in {"waiting", "joining"} =>
    \/ guardian /\ (pending = 0 \/ pipe < Capacity \/ Drained)
    \/ worker = "poll" /\ (pipe > 0 \/ ~(guardian \/ descendant) \/ CancelClosed)
    \/ worker = "read"
    \/ main = "waiting" /\ ~guardian
    \/ main = "joining" /\ Drained

\* No size of the pipe, no message and no descendant can leave the main thread, the
\* guardian and the drain waiting for one another (lid.rs:317).
THEOREM FinishNeverStuck == Spec => []NeverStuck
<1>1. IInv => NeverStuck
  BY SizeAssumption
     DEF IInv, TypeOK, OrderInv, NeverStuck, CancelClosed, Drained, WorkerSteps
<1> QED
  BY <1>1, Invariant, PTL

\* What is left to do: bytes not yet said, being written and in the pipe, then the
\* steps of each process.
Variant ==
  (IF Drained THEN 0 ELSE 6 * (MaxBytes - Written - pending))
    + 5 * pending + 3 * pipe
    + (IF worker = "poll" THEN 2 ELSE IF worker = "read" THEN 1 ELSE 0)
    + (IF guardian THEN 1 ELSE 0) + (IF descendant THEN 1 ELSE 0)
    + (IF main = "holding" THEN 3 ELSE IF main = "waiting" THEN 2
       ELSE IF main = "joining" THEN 1 ELSE 0)

\* Nothing goes round in circles: each step, of whichever process, leaves less to do,
\* so that a finish that is never stuck returns, however long its guardian's messages.
THEOREM Converges == Spec => [](Variant \in Nat) /\ [][Variant' < Variant]_vars
<1> USE SizeAssumption DEF IInv, TypeOK, ReadsSomething, BoundInv, Written, WorkerSteps, Least,
      Drained, drain, others
<1>1. IInv /\ BoundInv => Variant \in Nat
  BY DEF Variant
<1>2. ASSUME IInv, ReadsSomething, BoundInv, Next
      PROVE  Variant' < Variant
  <2>1. CASE Say
    <3>1. PICK n \in 1 .. MaxBytes : pending' = n
      BY <1>2, <2>1 DEF Say
    <3> QED
      BY <1>2, <2>1, <3>1 DEF Say, Variant
  <2>2. CASE Write
    <3>1. CASE Drained
      BY <1>2, <2>2, <3>1 DEF Write, Variant
    <3>2. CASE ~Drained
      <4>1. PICK n \in Nat \ {0} : n <= pending /\ pipe' = pipe + n /\ pending' = pending - n
        BY <1>2, <2>2, <3>2 DEF Write
      <4> QED
        BY <1>2, <2>2, <3>2, <4>1 DEF Write, Variant
    <3> QED
      BY <3>1, <3>2
  <2>3. CASE GuardianExits
    BY <1>2, <2>3 DEF GuardianExits, Variant
  <2>4. CASE DescendantWrites
    BY <1>2, <2>4 DEF DescendantWrites, Variant
  <2>5. CASE DescendantCloses
    BY <1>2, <2>5 DEF DescendantCloses, Variant
  <2>6. CASE Finish \/ Join \/ WaitFails \/ Return
    BY <1>2, <2>6 DEF Finish, Join, WaitFails, Return, Variant
  <2>7. CASE Poll
    BY <1>2, <2>7 DEF Poll, Variant
  <2>8. CASE ReadBytes
    <3>1. PICK n \in Nat \ {0} : n <= pipe /\ pipe' = pipe - n /\ taken' = taken + n
      BY <1>2, <2>8 DEF ReadBytes
    <3> QED
      BY <1>2, <2>8, <3>1 DEF ReadBytes, Variant
  <2>9. CASE ReadNothing
    BY <1>2, <2>9 DEF ReadNothing, Variant
  <2>10. CASE DrainFails
    BY <1>2, <2>10 DEF DrainFails, Drained, Variant
  <2> QED
    BY <1>2, <2>1, <2>2, <2>3, <2>4, <2>5, <2>6, <2>7, <2>8, <2>9, <2>10
       DEF Next, MainStep, DrainStep
<1> QED
  BY <1>1, <1>2, Reads, PTL DEF Spec
=============================================================================
