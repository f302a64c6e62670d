---------------------------- MODULE LidGuardian ----------------------------
(***************************************************************************)
(* Lid-closed mode as lid.rs builds it: the application's main thread, the *)
(* detached guardian processes it spawns, and the system-wide setting      *)
(* `pmset disablesleep` they all write.                                    *)
(*                                                                         *)
(* A guardian runs                                                         *)
(*     pmset 1 || exit 1;  printf ready;  read;  exec pmset 0              *)
(* where the read blocks on a pipe whose only write end the application    *)
(* holds.  The application may end at any step of its own (a clean exit, a *)
(* crash, a SIGKILL); its guardians then live on as orphans, and a new     *)
(* instance may be launched before they are done.                          *)
(*                                                                         *)
(* Assumptions.  A guardian is never killed (lid.rs:246 demands it), a     *)
(* `pmset` or `sudo` that reports failure has had no effect, and no other  *)
(* program writes the setting.  A guardian's identity is reused once its   *)
(* process is gone, so Guardians bounds how many exist at one time, never  *)
(* how many there ever were.                                               *)
(***************************************************************************)
CONSTANTS Guardians,   \* identities of guardian processes
          None         \* no session

ASSUME NoneAssumption == None \notin Guardians

VARIABLES
  app,            \* what the application's main thread is doing
  lid,            \* AppState.lid: the guardian of the installed session
  call,           \* the guardian of the session being started or stopped
  pipes,          \* guardians whose stdin write end the application holds
  phase,          \* where each guardian is in its script
  orphans,        \* guardians that outlived the instance that spawned them
  sleepDisabled,  \* the system-wide setting `pmset disablesleep`
  unrestored      \* history: the reset that was to lift the suppression failed

vars == <<app, lid, call, pipes, phase, orphans, sleepDisabled, unrestored>>

AppPhases == {"down", "recovering", "recoverReset", "idle", "starting",
              "abandoning", "authorizing", "restarting", "stopping"}

Live == {"enabling", "waiting", "resetting"}
Exited == {"exitOk", "exitErr"}

\* A session holds its guardian's pipe while it is starting and while installed.
Starting == app \in {"starting", "restarting"}

\* Phases of the main thread in which it waits for the guardian in `call`.
InCall == Starting \/ app \in {"abandoning", "stopping"}

\* A guardian that has raised the setting and has yet to reset it.
Owner(g) == phase[g] \in {"waiting", "resetting"}

TypeOK ==
  /\ app \in AppPhases
  /\ lid \in Guardians \cup {None}
  /\ call \in Guardians \cup {None}
  /\ InCall <=> call # None
  /\ pipes \in SUBSET Guardians
  /\ phase \in [Guardians -> Live \cup Exited \cup {"free"}]
  /\ orphans \in SUBSET {g \in Guardians : phase[g] \in Live}
  /\ sleepDisabled \in BOOLEAN
  /\ unrestored \in BOOLEAN

\* The setting survives reboots of the application: it may be set from before.
Init ==
  /\ app = "down"
  /\ lid = None
  /\ call = None
  /\ pipes = {}
  /\ phase = [g \in Guardians |-> "free"]
  /\ orphans = {}
  /\ sleepDisabled \in BOOLEAN
  /\ unrestored = sleepDisabled

-----------------------------------------------------------------------------
(* Launch and recovery *)

\* main: the advisory lock admits one instance at a time.
Launch ==
  /\ app = "down"
  /\ app' = "recovering"
  /\ UNCHANGED <<lid, call, pipes, phase, orphans, sleepDisabled, unrestored>>

\* reset_if_stale queries `pmset -g`; a failed query is displayed, nothing more.
RecoverQuery ==
  /\ app = "recovering"
  /\ \/ app' = "idle"
     \/ sleepDisabled /\ app' = "recoverReset"
  /\ UNCHANGED <<lid, call, pipes, phase, orphans, sleepDisabled, unrestored>>

\* A successful `pmset disablesleep 0`, whoever runs it.
RestoreSleep ==
  /\ sleepDisabled' = FALSE
  /\ unrestored' = FALSE

\* ... and resets on what that query returned, by now possibly out of date.
RecoverReset ==
  /\ app = "recoverReset"
  /\ app' = "idle"
  /\ RestoreSleep \/ UNCHANGED <<sleepDisabled, unrestored>>
  /\ UNCHANGED <<lid, call, pipes, phase, orphans>>

-----------------------------------------------------------------------------
(* Starting a session *)

\* spawn_guardian, in its own process group, its stdin a pipe to us.
Spawn(g) ==
  /\ phase[g] = "free"
  /\ phase' = [phase EXCEPT ![g] = "enabling"]
  /\ call' = g
  /\ pipes' = pipes \cup {g}

\* After a failed first attempt a click asks for authorization, the command
\* line's TOGGLE gives up.
AfterFirstFailure == {"authorizing", "idle"}

\* try_start_stop for lid-closed mode: LidSession::start.  The caller checked
\* that no session is active, so none is installed (AppSession, LidIsBounded).
StartLid(g) ==
  /\ app = "idle"
  /\ lid = None
  /\ Spawn(g)
  /\ app' = "starting"
  /\ UNCHANGED <<lid, orphans, sleepDisabled, unrestored>>

\* The cancellation pipe or the process could not be created.
SpawnFails ==
  /\ app = "idle"
  /\ lid = None
  /\ app' \in AfterFirstFailure
  /\ UNCHANGED <<lid, call, pipes, phase, orphans, sleepDisabled, unrestored>>

\* Mutant: start returns the session without waiting for the acknowledgment.
InstallUnacknowledged ==
  /\ Starting
  /\ lid' = call
  /\ call' = None
  /\ app' = "idle"
  /\ UNCHANGED <<pipes, phase, orphans, sleepDisabled, unrestored>>

\* The guardian acknowledged: start_session succeeds and install_lid_session
\* stores it.
Install ==
  /\ Starting
  /\ phase[call] = "waiting"
  /\ lid' = call
  /\ call' = None
  /\ app' = "idle"
  /\ UNCHANGED <<pipes, phase, orphans, sleepDisabled, unrestored>>

\* The guardian acknowledged, the power assertion failed: release_lid.
PowerFails ==
  /\ Starting
  /\ phase[call] = "waiting"
  /\ pipes' = pipes \ {call}
  /\ app' = "stopping"
  /\ UNCHANGED <<lid, call, phase, orphans, sleepDisabled, unrestored>>

\* Mutant: the failed start returns without finish, its process unreaped.
StartRejectedUnreaped ==
  /\ Starting
  /\ pipes' = pipes \ {call}
  /\ call' = None
  /\ app' = IF app = "starting" THEN "authorizing" ELSE "idle"
  /\ UNCHANGED <<lid, phase, orphans, sleepDisabled, unrestored>>

\* No acknowledgment: the guardian exited, or reading from it failed, or the
\* diagnostics thread did not start.  finish (or Drop) closes the pipe.
StartRejected ==
  /\ Starting
  /\ pipes' = pipes \ {call}
  /\ app' = IF app = "starting" THEN "abandoning" ELSE "stopping"
  /\ UNCHANGED <<lid, call, phase, orphans, sleepDisabled, unrestored>>

\* authorize installs the sudoers rule, then verifies it with a reset; on
\* success LidSession::start is tried once more.
Authorize(g) ==
  /\ app = "authorizing"
  /\ RestoreSleep
  /\ Spawn(g)
  /\ app' = "restarting"
  /\ UNCHANGED <<lid, orphans>>

\* The dialog was cancelled, the verification failed, or the retry did not spawn.
AuthorizeFails ==
  /\ app = "authorizing"
  /\ app' = "idle"
  /\ RestoreSleep \/ UNCHANGED <<sleepDisabled, unrestored>>
  /\ UNCHANGED <<lid, call, pipes, phase, orphans>>

-----------------------------------------------------------------------------
(* Stopping a session *)

\* Mutant: the pipe is closed but nobody waits for the guardian.
StopLidDetached ==
  /\ app = "idle"
  /\ lid # None
  /\ lid' = None
  /\ pipes' = pipes \ {lid}
  /\ UNCHANGED <<app, call, phase, orphans, sleepDisabled, unrestored>>

\* Mutant: finish waits with the pipe still open.
StopLidKeepsPipe ==
  /\ app = "idle"
  /\ lid # None
  /\ call' = lid
  /\ lid' = None
  /\ app' = "stopping"
  /\ UNCHANGED <<pipes, phase, orphans, sleepDisabled, unrestored>>

\* Every handler that ends a session takes AppState.lid and calls stop on it:
\* the button, STOP, START, QUIT, expiry, thermal cutoff, teardown.
StopLid ==
  /\ app = "idle"
  /\ lid # None
  /\ call' = lid
  /\ lid' = None
  /\ pipes' = pipes \ {lid}
  /\ app' = "stopping"
  /\ UNCHANGED <<phase, orphans, sleepDisabled, unrestored>>

\* Mutant: finish kills the guardian and then waits for it.
ReapByKilling ==
  /\ app \in {"abandoning", "stopping"}
  /\ phase' = [phase EXCEPT ![call] = "free"]
  /\ call' = None
  /\ app' \in IF app = "abandoning" THEN AfterFirstFailure ELSE {"idle"}
  /\ UNCHANGED <<lid, pipes, orphans, sleepDisabled, unrestored>>

\* Mutant: finish leaves the guardian in the session, for Drop to wait for again.
ReapTwice ==
  /\ app \in {"abandoning", "stopping"}
  /\ phase[call] \in Exited
  /\ phase' = [phase EXCEPT ![call] = "free"]
  /\ app' \in IF app = "abandoning" THEN AfterFirstFailure ELSE {"idle"}
  /\ UNCHANGED <<lid, call, pipes, orphans, sleepDisabled, unrestored>>

\* finish: wait() returns once the guardian has exited, and reaps it.
Reap ==
  /\ app \in {"abandoning", "stopping"}
  /\ phase[call] \in Exited
  /\ phase' = [phase EXCEPT ![call] = "free"]
  /\ call' = None
  /\ app' \in IF app = "abandoning" THEN AfterFirstFailure ELSE {"idle"}
  /\ UNCHANGED <<lid, pipes, orphans, sleepDisabled, unrestored>>

\* The instance ends, at any moment and for any reason: the kernel closes its
\* pipes, and its live children are orphaned.
Terminate ==
  /\ app # "down"
  /\ app' = "down"
  /\ lid' = None
  /\ call' = None
  /\ pipes' = {}
  /\ orphans' = {g \in Guardians : phase[g] \in Live}
  /\ phase' = [g \in Guardians |-> IF phase[g] \in Live THEN phase[g] ELSE "free"]
  /\ UNCHANGED <<sleepDisabled, unrestored>>

-----------------------------------------------------------------------------
(* The guardian's script *)

\* The process is gone at once when nobody is left to reap it.
Exit(g, code) ==
  /\ phase' = [phase EXCEPT ![g] = IF g \in orphans THEN "free" ELSE code]
  /\ orphans' = orphans \ {g}

\* "$@" 1, then printf ready.  SIGPIPE is ignored: a vanished reader is no error.
Enable(g) ==
  /\ phase[g] = "enabling"
  /\ phase' = [phase EXCEPT ![g] = "waiting"]
  /\ sleepDisabled' = TRUE
  /\ UNCHANGED <<app, lid, call, pipes, orphans, unrestored>>

\* "$@" 1 failed: exit 1.
EnableFails(g) ==
  /\ phase[g] = "enabling"
  /\ Exit(g, "exitErr")
  /\ UNCHANGED <<app, lid, call, pipes, sleepDisabled, unrestored>>

\* Mutant: `read && exec "$@" 0`, and read fails at end of file.
ReadEofExits(g) ==
  /\ phase[g] = "waiting"
  /\ g \notin pipes
  /\ Exit(g, "exitErr")
  /\ UNCHANGED <<app, lid, call, pipes, sleepDisabled, unrestored>>

\* read sees end of file once the only write end is closed.
ReadEof(g) ==
  /\ phase[g] = "waiting"
  /\ g \notin pipes
  /\ phase' = [phase EXCEPT ![g] = "resetting"]
  /\ UNCHANGED <<app, lid, call, pipes, orphans, sleepDisabled, unrestored>>

\* exec "$@" 0.
Reset(g) ==
  /\ phase[g] = "resetting"
  /\ Exit(g, "exitOk")
  /\ RestoreSleep
  /\ UNCHANGED <<app, lid, call, pipes>>

\* Mutant: the script hides the failure of its last command.
ResetFailsSilently(g) ==
  /\ phase[g] = "resetting"
  /\ Exit(g, "exitOk")
  /\ UNCHANGED <<app, lid, call, pipes, sleepDisabled, unrestored>>

\* The reset failed: what is suppressed stays suppressed and nobody retries.
ResetFails(g) ==
  /\ phase[g] = "resetting"
  /\ Exit(g, "exitErr")
  /\ unrestored' = sleepDisabled
  /\ UNCHANGED <<app, lid, call, pipes, sleepDisabled>>

GuardianStep(g) ==
  Enable(g) \/ EnableFails(g) \/ ReadEof(g) \/ Reset(g) \/ ResetFails(g)

\* What the main thread does with no further input once a call is under way.
Returns == Install \/ PowerFails \/ Reap \/ RecoverQuery \/ RecoverReset

Next ==
  \/ Launch
  \/ Returns
  \/ \E g \in Guardians : StartLid(g) \/ Authorize(g)
  \/ SpawnFails \/ AuthorizeFails \/ StartRejected \/ StopLid
  \/ Terminate
  \/ \E g \in Guardians : GuardianStep(g)

\* Guardians are scheduled by the system.  The main thread blocks only in
\* read_line and wait, which return when the guardian speaks or exits: an exited
\* guardian's stdout is at end of file.  The user, the authorization dialog and
\* the instance's end are under no obligation.
Fairness ==
  /\ \A g \in Guardians : WF_vars(GuardianStep(g))
  /\ WF_vars(Returns)
  /\ WF_vars(Starting /\ phase[call] \in Exited /\ StartRejected)

Spec == Init /\ [][Next]_vars
FairSpec == Spec /\ Fairness

-----------------------------------------------------------------------------
(* Properties *)

\* Sleep is never suppressed without somebody who will lift it: either a guardian
\* is alive between its `pmset 1` and its `pmset 0`, or a reset was run, reported
\* failure, and none has succeeded since.  (The crash watchdog of lid.rs:25-37.)
SuppressionOwned ==
  sleepDisabled => unrestored \/ \E g \in Guardians : Owner(g)

\* No child is lost or left a zombie: a guardian process exists only as the
\* installed session, as the one session being started or stopped, or as an
\* orphan of an earlier instance.  Never two of this instance at once.
EveryGuardianHeld ==
  /\ \A g \in Guardians :
       phase[g] # "free" => g \in orphans \/ g = lid \/ g = call
  /\ lid = None \/ call = None

\* A session whose guardian has raised the setting keeps it raised: only the late
\* reset of an orphan, never a reset of this instance (of the previous session,
\* of the recovery or of the authorization check), can lift it.
LiftedOnlyByOrphan ==
  \A g \in Guardians :
    (phase[g] = "waiting" /\ g \notin orphans /\ phase'[g] = "waiting"
       /\ sleepDisabled /\ ~sleepDisabled')
    => \E o \in orphans : phase[o] = "resetting" /\ o \notin orphans'

OwnResetsNeverOvertake == [][LiftedOnlyByOrphan]_vars

\* Stop reports success only if sleep is restored, unless a guardian orphaned by
\* a crash is still to reset it: what `Ok` of LidSession::stop promises.
SuccessMeansRestored ==
  (app = "stopping" /\ app' = "idle" /\ phase[call] = "exitOk" /\ orphans = {})
    => (sleepDisabled' => unrestored')

StopRestores == [][SuccessMeansRestored]_vars

\* Every blocking call of the main thread comes back: to the run loop, or to the
\* authorization dialog, which waits for the user.
CallsReturn == InCall ~> app \in {"idle", "authorizing", "down"}

\* Once the instance has ended, normal sleep comes back without it, or the reset
\* was tried and failed.
CrashRestores == app = "down" ~> (~sleepDisabled \/ unrestored)

\* "Installs a lid session only after the previous guardian has finished
\* resetting" (app_delegate.rs:548).  Not so across a relaunch: an orphan's reset
\* may still be due.
InstalledAfterPreviousReset ==
  [][(lid = None /\ lid' # None) =>
       \A g \in Guardians \ {lid'} : ~Owner(g)]_vars
=============================================================================
