-------------------------- MODULE DiagnosticsDrain --------------------------
(***************************************************************************)
(* How LidSession::finish of lid.rs collects the diagnostics of a guardian *)
(* and reaps it: the main thread waits for the guardian, a worker thread   *)
(* drains the guardian's stderr into a bounded buffer, and a second pipe   *)
(* cancels the worker once the guardian is gone.                           *)
(*                                                                         *)
(* The stderr pipe has a bounded capacity: a guardian blocks on a full     *)
(* pipe until somebody reads.  It is inherited: a process the guardian has *)
(* started may hold its write end open long after the guardian has exited, *)
(* and write to it, so its end of file may never come.                     *)
(*                                                                         *)
(* Bytes are counted, in the order they enter the pipe.                    *)
(***************************************************************************)
EXTENDS Naturals

CONSTANTS Capacity,  \* of the pipe
          Chunk,     \* the buffer of one read
          Limit,     \* how much of the diagnostics is retained
          MaxBytes   \* bound on what is ever written

ASSUME SizeAssumption ==
  /\ Capacity \in Nat \ {0}
  /\ Chunk \in Nat \ {0}
  /\ Limit \in Nat
  /\ MaxBytes \in Nat

VARIABLES
  main,        \* the main thread: holding the session, or in a step of finish
  worker,      \* where drain_diagnostics is
  cancelled,   \* what its last poll said of the cancellation pipe
  pipe,        \* bytes in the stderr pipe
  taken,       \* bytes read from it
  retained,    \* bytes of the buffer the worker returns
  guardian,    \* the guardian process runs
  pending,     \* bytes the guardian is in the middle of writing
  descendant,  \* another process holds the write end
  unwaited,    \* wait has failed: finish goes on without knowing of the guardian
  mark         \* history: how many bytes were written up to the guardian's last

vars == <<main, worker, cancelled, pipe, taken, retained, guardian, pending,
          descendant, unwaited, mark>>
drain == <<worker, cancelled, taken, retained>>
others == <<guardian, pending, descendant, unwaited, mark>>

Least(a, b) == IF a < b THEN a ELSE b

\* Everything written to the pipe so far.
Written == taken + pipe

\* DiagnosticDrain::join has dropped the write end of the cancellation pipe.
CancelClosed == main \in {"joining", "done"}

WorkerSteps == {"poll", "read", "done", "failed"}
Drained == worker \in {"done", "failed"}

TypeOK ==
  /\ main \in {"holding", "waiting", "joining", "done"}
  /\ worker \in WorkerSteps
  /\ cancelled \in BOOLEAN
  /\ pipe \in 0 .. Capacity
  /\ taken \in Nat /\ mark \in Nat
  /\ retained \in 0 .. Limit
  /\ guardian \in BOOLEAN /\ descendant \in BOOLEAN /\ unwaited \in BOOLEAN
  /\ pending \in Nat

\* A session whose worker has just started.
Init ==
  /\ main = "holding"
  /\ worker = "poll" /\ cancelled = FALSE
  /\ pipe = 0 /\ taken = 0 /\ retained = 0
  /\ guardian = TRUE /\ pending = 0
  /\ descendant \in BOOLEAN
  /\ unwaited = FALSE
  /\ mark = 0

-----------------------------------------------------------------------------
(* The guardian and its descendants *)

\* The guardian, or the pmset it has become, writes a message (what it writes once
\* nobody can read is of no consequence),
Say ==
  /\ guardian /\ pending = 0
  /\ ~Drained
  /\ \E n \in 1 .. MaxBytes :
       Written + n <= MaxBytes /\ pending' = n
  /\ UNCHANGED <<main, drain, pipe, guardian, descendant, unwaited, mark>>

\* ... as much at a time as the pipe has room for.  Once the worker has ended
\* nobody reads, and the rest is discarded (SIGPIPE is ignored).
Write ==
  /\ guardian /\ pending > 0
  /\ IF Drained
     THEN pending' = 0 /\ UNCHANGED <<pipe, mark>>
     ELSE /\ pipe < Capacity
          /\ pipe' = pipe + Least(pending, Capacity - pipe)
          /\ pending' = pending - Least(pending, Capacity - pipe)
          /\ mark' = taken + pipe'
  /\ UNCHANGED <<main, drain, guardian, descendant, unwaited>>

\* It exits once everything is written.
GuardianExits ==
  /\ guardian /\ pending = 0
  /\ guardian' = FALSE
  /\ UNCHANGED <<main, drain, pipe, pending, descendant, unwaited, mark>>

\* The descendant writes, also after the guardian is gone, or closes its end.
DescendantWrites ==
  /\ descendant
  /\ ~Drained /\ pipe < Capacity
  /\ Written + pending < MaxBytes
  /\ pipe' = pipe + 1
  /\ UNCHANGED <<main, drain, others>>

DescendantCloses ==
  /\ descendant
  /\ descendant' = FALSE
  /\ UNCHANGED <<main, drain, pipe, guardian, pending, unwaited, mark>>

-----------------------------------------------------------------------------
(* The main thread: LidSession::finish *)

\* finish drops the guardian's stdin and waits for the guardian.
Finish ==
  /\ main = "holding"
  /\ main' = "waiting"
  /\ UNCHANGED <<drain, pipe, others>>

\* Mutant: the worker is joined before the guardian is waited for.
JoinFirst ==
  /\ main = "waiting"
  /\ main' = "joining"
  /\ UNCHANGED <<drain, pipe, others>>

\* wait has returned: cancel the worker and join it.
Join ==
  /\ main = "waiting"
  /\ ~guardian
  /\ main' = "joining"
  /\ UNCHANGED <<drain, pipe, others>>

\* wait fails: the worker is cancelled and joined all the same, whatever the guardian
\* is doing, and finish returns the error.
WaitFails ==
  /\ main = "waiting"
  /\ unwaited' = TRUE
  /\ main' = "joining"
  /\ UNCHANGED <<drain, pipe, guardian, pending, descendant, mark>>

Return ==
  /\ main = "joining"
  /\ Drained
  /\ main' = "done"
  /\ UNCHANGED <<drain, pipe, others>>

-----------------------------------------------------------------------------
(* The worker: drain_diagnostics *)

\* Mutant: the worker polls the stderr pipe alone.
PollOne ==
  /\ worker = "poll"
  /\ pipe > 0 \/ ~(guardian \/ descendant)
  /\ cancelled' = CancelClosed
  /\ worker' = "read"
  /\ UNCHANGED <<main, pipe, taken, retained, others>>

\* poll waits for bytes, the end of the pipe, or cancellation.
Poll ==
  /\ worker = "poll"
  /\ pipe > 0 \/ ~(guardian \/ descendant) \/ CancelClosed
  /\ cancelled' = CancelClosed
  /\ worker' = "read"
  /\ UNCHANGED <<main, pipe, taken, retained, others>>

\* A read that returns bytes: all are drained, a prefix is kept.  Once cancelled,
\* the worker polls no more.
ReadBytes ==
  /\ worker = "read" /\ pipe > 0
  /\ LET count == Least(pipe, Chunk)
     IN  /\ pipe' = pipe - count
         /\ taken' = taken + count
         /\ retained' = retained + Least(count, Limit - retained)
  /\ worker' = IF cancelled THEN "read" ELSE "poll"
  /\ UNCHANGED <<main, cancelled, others>>

\* Mutant: a cancelled worker leaves what is in the pipe.
ReadStopsAtCancel ==
  /\ worker = "read"
  /\ cancelled \/ pipe = 0
  /\ worker' = IF cancelled \/ ~(guardian \/ descendant) THEN "done" ELSE "poll"
  /\ UNCHANGED <<main, cancelled, pipe, taken, retained, others>>

\* A read that finds the pipe empty: its end, or, the pipe being nonblocking,
\* "would block", which ends the drain only when it is cancelled.
ReadNothing ==
  /\ worker = "read" /\ pipe = 0
  /\ worker' = IF cancelled \/ ~(guardian \/ descendant) THEN "done" ELSE "poll"
  /\ UNCHANGED <<main, cancelled, pipe, taken, retained, others>>

\* fcntl, poll or read fails: the worker returns the error and closes the pipe.
DrainFails ==
  /\ ~Drained
  /\ worker' = "failed"
  /\ pipe' = 0
  /\ UNCHANGED <<main, cancelled, taken, retained, others>>

-----------------------------------------------------------------------------
DrainStep == Poll \/ ReadBytes \/ ReadNothing
MainStep == Join \/ Return

Next ==
  \/ Say \/ Write \/ GuardianExits \/ DescendantWrites \/ DescendantCloses
  \/ Finish \/ MainStep \/ WaitFails
  \/ DrainStep \/ DrainFails

Spec == Init /\ [][Next]_vars

\* The guardian writes what it has to say and exits, unless it is blocked, and both
\* threads run.  The descendant owes nothing: it may keep the pipe open for ever.
FairSpec ==
  /\ Spec
  /\ WF_vars(Write) /\ WF_vars(GuardianExits)
  /\ WF_vars(DrainStep) /\ WF_vars(MainStep)

-----------------------------------------------------------------------------
(* Properties *)

\* The error a stop reports is the one the guardian gave: whenever the worker ends
\* without an error of its own, it has retained all that the guardian ever wrote,
\* up to the limit, though it may be cancelled with bytes in the pipe.  (When wait
\* fails, finish reports that instead.)
DiagnosticsComplete == worker = "done" => unwaited \/ retained >= Least(mark, Limit)

\* The worker outlives the guardian: it ends neither before the guardian's last
\* message nor before the pipe is drained, unless wait has failed; so no guardian is
\* left blocked.
GuardianIsHeard == worker = "done" => unwaited \/ ~guardian

\* finish always comes back: no guardian is left blocked on a full pipe, and no
\* descendant can hold the main thread.
FinishReturns == main = "waiting" ~> main = "done"
=============================================================================
