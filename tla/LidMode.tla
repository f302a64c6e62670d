------------------------------ MODULE LidMode ------------------------------
(***************************************************************************)
(* What lid-closed mode promises the code that starts and stops it: the    *)
(* setting as it is when a call returns, with no guardian process, pipe or *)
(* blocking wait in sight.                                                 *)
(*                                                                         *)
(* LidGuardian implements it with processes that outlive the application   *)
(* (LidCaller maps its states).  AppSession, which takes a start or a stop *)
(* for one step, keeps to it.                                              *)
(***************************************************************************)
VARIABLES
  has,         \* the caller has a lid session
  suppressed,  \* the system-wide setting
  leaked,      \* a reset failed, and none has succeeded since
  late         \* a guardian of a crashed instance is still about

modeVars == <<has, suppressed, leaked, late>>

\* Nothing is suppressed for good: whoever does it still holds a session, or died
\* and left a guardian behind, or has been told that the reset failed.
Accounted == suppressed => has \/ late \/ leaked

ModeInit ==
  /\ has = FALSE /\ late = FALSE
  /\ suppressed \in BOOLEAN /\ leaked = suppressed

Restored == suppressed' = FALSE /\ leaked' = FALSE

NotRestored == UNCHANGED suppressed /\ leaked' = suppressed

-----------------------------------------------------------------------------
Start ==
  /\ ~has
  /\ has' = TRUE /\ suppressed' = TRUE
  /\ UNCHANGED <<leaked, late>>

\* A start that fails once it has raised the setting, and fails to undo that.  One that
\* fails earlier leaves no trace.
StartFails ==
  /\ ~has
  /\ suppressed' = TRUE /\ leaked' = TRUE
  /\ UNCHANGED <<has, late>>

\* A reset without a session: a failed start undone, recovery at launch, the check that
\* an authorization works.
Clean == ~has /\ Restored /\ UNCHANGED <<has, late>>

Stop ==
  /\ has
  /\ has' = FALSE
  /\ Restored \/ NotRestored
  /\ UNCHANGED late

\* The caller is gone, its guardian is not; it may have raised the setting just now.
Crash ==
  /\ has' = FALSE /\ late' = TRUE
  /\ UNCHANGED suppressed \/ suppressed' = TRUE
  /\ UNCHANGED leaked

\* As long as such a guardian is about, its reset falls when it will.
Disturbed ==
  /\ late
  /\ has' \in BOOLEAN /\ suppressed' \in BOOLEAN /\ leaked' \in BOOLEAN /\ late' \in BOOLEAN
  /\ Accounted'

ModeNext == Start \/ StartFails \/ Clean \/ Stop \/ Crash \/ Disturbed

ModeSpec == ModeInit /\ [][ModeNext]_modeVars
=============================================================================
