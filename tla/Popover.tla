------------------------------ MODULE Popover ------------------------------
(***************************************************************************)
(* The popover of app_delegate.rs on top of the sessions of AppSession:    *)
(* how it opens and closes, the countdown timer that refreshes it, the     *)
(* global monitor for clicks outside of it, and the message it shows.      *)
(*                                                                         *)
(* Closing is not an instant.  AppKit animates it, isShown stays true, and *)
(* popoverDidClose comes at its end; in between the main thread runs       *)
(* commands, timers and clicks.  It also closes without the application    *)
(* having asked (a transient popover), and no callback but popoverDidClose *)
(* then says so.                                                           *)
(*                                                                         *)
(* Every handler of AppSession that calls update_ui or invalidate_timers   *)
(* acts on the countdown timer as well: each step here is one of its steps *)
(* with what it does to the popover, or a step of the popover alone.       *)
(***************************************************************************)
EXTENDS AppSession

VARIABLES
  popover,    \* "closed", "shown", or "closing": asked to close, not closed yet
  countdown,  \* AppState.countdown_timer holds a timer
  timers,     \* countdown timers the run loop fires
  monitor,    \* AppState.outside_click_monitor holds a token
  monitors,   \* outside-click monitors AppKit has installed
  message     \* AppState.error_message: none, the heat notice, or any other text

popoverVars == <<popover, countdown, timers, monitor, monitors, message>>
allVars == <<vars, popoverVars>>

IsShown == popover # "closed"
One(present) == IF present THEN 1 ELSE 0

PopoverTypeOK ==
  /\ popover \in {"closed", "shown", "closing"}
  /\ countdown \in BOOLEAN /\ timers \in Nat
  /\ monitor \in BOOLEAN /\ monitors \in Nat
  /\ message \in {"none", "cutoff", "error"}

\* init_app_state shows the error of a recovery that failed, be it at the query.
PopoverInit ==
  /\ Init
  /\ popover = "closed"
  /\ countdown = FALSE /\ timers = 0
  /\ monitor = FALSE /\ monitors = 0
  /\ message \in {"none", "error"} /\ (sleepDisabled => message = "error")

-----------------------------------------------------------------------------
(* What the handlers are made of *)

\* start_countdown_timer_if_needed, where `has` says whether a timer is held and
\* `alive` how many are scheduled.
StartCountdown(has, alive) ==
  LET needed == ~has /\ popover' # "closed" /\ power' # "off" /\ left' # NoLimit
  IN  countdown' = (has \/ needed) /\ timers' = alive + One(needed)

\* stop_countdown_timer: the timer held is invalidated.
StopCountdown == countdown' = FALSE /\ timers' = timers - One(countdown)

RemoveMonitor == monitor' = FALSE /\ monitors' = monitors - One(monitor)

\* The monitor before is removed; AppKit may return none.
InstallMonitor ==
  \E installed \in BOOLEAN :
    monitor' = installed /\ monitors' = monitors - One(monitor) + One(installed)

\* A handler that calls neither update_ui nor invalidate_timers.
Untouched == UNCHANGED <<popover, countdown, timers, monitor, monitors>>

\* One that ends with update_ui,
Refreshed ==
  /\ UNCHANGED <<popover, monitor, monitors>>
  /\ StartCountdown(countdown, timers)

\* ... that calls invalidate_timers,
Invalidated == StopCountdown /\ UNCHANGED <<popover, monitor, monitors>>

\* ... or both, in this order.
InvalidatedAndRefreshed ==
  /\ UNCHANGED <<popover, monitor, monitors>>
  /\ StartCountdown(FALSE, timers - One(countdown))

ShowError == message' = "error"

ShowIf(failed) == IF failed THEN ShowError ELSE UNCHANGED message

\* A stop that fails is shown, whether or not sleep is restored; a timer tells nobody
\* else which of the two it was.
ShowRestore == ShowIf(lid /\ leaked') \/ (lid /\ ShowError)

\* Mutant: the heat notice is cleared like any error.
ClearAll == message' = "none"

\* clear_error.
ClearError == message' = IF message = "cutoff" THEN "cutoff" ELSE "none"

\* A handler that failed shows why; START does so only to its client.
ShowFailure == IF job'.prompt THEN ShowError ELSE ShowError \/ UNCHANGED message

-----------------------------------------------------------------------------
(* The handlers of AppSession, with what they do to the popover *)

\* A start that goes on, or is refused by the controls, the heat, the guardian or
\* the dialog.
ProceedOrShow ==
  IF answer' = "failed" THEN Refreshed /\ ShowError ELSE Untouched /\ UNCHANGED message

\* Only a popover on the screen can be clicked.
ClickStartShown == ClickStart /\ IsShown /\ ProceedOrShow
ToggleStarts == ToggleStart /\ ProceedOrShow

StartArrives ==
  /\ \E d \in Durations \cup {NoLimit}, display \in BOOLEAN : StartCommand(d, display)
  /\ Untouched /\ UNCHANGED message

LidStarts == (StartLid \/ StartLidFails \/ Authorize) /\ ProceedOrShow

\* start_session clears the message, and reports a restore that fails.
PreviousEnds ==
  /\ EndPrevious
  /\ IF pc' = "acquire" THEN Invalidated /\ message' = "none"
     ELSE InvalidatedAndRefreshed /\ ShowError

\* Without a limit the session is complete and update_ui follows at once.
Acquires ==
  /\ Acquire
  /\ IF pc' = "schedule" THEN Untouched ELSE Refreshed
  /\ UNCHANGED message

AcquireRefused ==
  /\ AcquireFails
  /\ Refreshed
  /\ IF pc' = "rollback" THEN UNCHANGED message ELSE ShowFailure

\* Mutant: update_ui comes before the session is scheduled, and not after.
SchedulesUnseen ==
  /\ Schedule
  /\ IF left > 0 THEN Untouched ELSE Invalidated
  /\ ShowRestore

\* schedule_expiry_timer, which may stop the session and report a failed restore,
\* and the update_ui of start_session.
Schedules ==
  /\ Schedule
  /\ IF left > 0 THEN Refreshed /\ UNCHANGED message
     ELSE InvalidatedAndRefreshed /\ ShowRestore

Installs == Install /\ Untouched /\ UNCHANGED message

RollsBack == Rollback /\ Refreshed /\ ShowError

\* stop_session in a handler that shows its failure.
SessionStops ==
  /\ \/ (Stop \/ QuitCommand) /\ ShowIf(answer' = "failed")
     \/ QuitMenu /\ ShowIf(exit' = exit)
  /\ InvalidatedAndRefreshed

ExpiryTimer ==
  /\ ExpiryFires
  /\ IF Finite /\ left > 0 THEN Untouched /\ UNCHANGED message
     ELSE InvalidatedAndRefreshed /\ ShowRestore

\* The notice; a stop that fails puts its error behind it.
HeatCutsLid ==
  /\ ThermalFires
  /\ Refreshed
  /\ message' \in {"cutoff", "error"} /\ (leaked' => message' = "error")

\* teardown removes the monitor and invalidates the timers, then the process ends.
TearsDown ==
  /\ Teardown
  /\ RemoveMonitor
  /\ UNCHANGED <<popover, message>>
  /\ StartCountdown(FALSE, timers - One(countdown))

\* A new process has none of it.
Relaunches ==
  /\ Relaunch
  /\ popover' = "closed"
  /\ countdown' = FALSE /\ timers' = 0
  /\ monitor' = FALSE /\ monitors' = 0
  /\ message' \in {"none", "error"} /\ (sleepDisabled' => message' = "error")

\* The radio buttons and the checkbox call clear_error, the field nothing.
ControlsChange ==
  /\ IsShown
  /\ \/ (ToggleNoLimit \/ \E m \in Modes : SelectMode(m)) /\ Refreshed /\ ClearError
     \/ /\ \E d \in Durations \cup {Invalid} : EnterDuration(d)
        /\ Untouched /\ UNCHANGED message

WorldChanges == (Tick \/ HeatChanges) /\ Untouched /\ UNCHANGED message

-----------------------------------------------------------------------------
(* The popover alone *)

\* The main thread is in its run loop, and what AppSession describes is left alone.
Callback ==
  /\ pc = "idle" /\ Running
  /\ UNCHANGED <<vars, message>>

\* close_popover: AppKit is asked to close what is shown.
ClosePopover ==
  /\ RemoveMonitor /\ StopCountdown
  /\ popover' = IF IsShown THEN "closing" ELSE "closed"

\* The left click that opens: update_ui, show, monitor, countdown.  What update_ui
\* shows is what is shown already (UiFresh).
OpenPopover ==
  /\ Callback
  /\ ~IsShown
  /\ popover' = "shown"
  /\ InstallMonitor
  /\ StartCountdown(countdown, timers)

\* The click on a popover that isShown, also while it is closing.
ClickToClose == Callback /\ IsShown /\ ClosePopover

\* applicationDidResignActive, whether or not the popover is shown.
ResignActive == Callback /\ ClosePopover

\* A monitor sees a click in another application.
ClickOutside == Callback /\ monitors > 0 /\ ClosePopover

\* AppKit closes the transient popover by itself; nobody is told yet.
CloseNatively ==
  /\ Callback
  /\ popover = "shown"
  /\ popover' = "closing"
  /\ UNCHANGED <<countdown, timers, monitor, monitors>>

\* Mutant: only the monitor is removed when the popover has closed.
DidCloseKeepsTimer ==
  /\ Callback
  /\ popover = "closing"
  /\ popover' = "closed"
  /\ RemoveMonitor
  /\ UNCHANGED <<countdown, timers>>

\* popoverDidClose.
DidClose ==
  /\ Callback
  /\ popover = "closing"
  /\ popover' = "closed"
  /\ RemoveMonitor /\ StopCountdown

\* The countdown timer fires: update_ui, of which only the text is new.
CountdownFires ==
  /\ Callback
  /\ timers > 0
  /\ Refreshed

-----------------------------------------------------------------------------
SessionStep ==
  ClickStartShown \/ ToggleStarts \/ StartArrives \/ LidStarts \/ PreviousEnds
    \/ Acquires \/ AcquireRefused \/ Schedules \/ Installs \/ RollsBack
    \/ SessionStops \/ ExpiryTimer \/ HeatCutsLid \/ TearsDown \/ Relaunches
    \/ ControlsChange \/ WorldChanges

PopoverStep ==
  OpenPopover \/ ClickToClose \/ ResignActive \/ ClickOutside \/ CloseNatively
    \/ DidClose \/ CountdownFires

PopoverNext == SessionStep \/ PopoverStep

PopoverSpec == PopoverInit /\ [][PopoverNext]_allVars

-----------------------------------------------------------------------------
(* Properties *)

\* Nothing outlives the popover it belongs to: every timer the run loop fires and
\* every monitor AppKit calls is the one the application holds, and none is left
\* once the popover has closed (app_delegate.rs:113), though update_ui may start the
\* timer again between close_popover and popoverDidClose.
NothingLeftBehind ==
  /\ timers = One(countdown)
  /\ monitors = One(monitor)
  /\ popover = "closed" => ~countdown /\ ~monitor

\* An open popover keeps showing the time left: while it shows a finite session the
\* countdown runs, however the session came about, and it runs for nothing else
\* (README.md:11; app_delegate.rs:905, "only for an open popover with an active
\* finite session").
CountdownFollows ==
  /\ pc = "idle" /\ Running /\ popover = "shown" /\ Active /\ Finite => countdown
  /\ countdown => IsShown /\ Active /\ Finite

\* The notice that heat has ended lid-closed mode stays until a session is started
\* or an error takes its place: no click and no stop erases it (ui.rs:100, "Notice
\* retained after thermal protection stops lid mode").
NoticeStays ==
  message = "cutoff" /\ message' = "none" => pc = "startSession" \/ ~Running

NoticeRetained == [][NoticeStays]_allVars

\* There is a lid session, or a start that is after one.
LidClaimed == lid \/ held \/ pc \in {"startLid", "authorize", "retryLid"}

\* teardown, with which the process ends: a reset that fails is only logged.
TornDown == exit' = "system" \/ (exit = "pending" /\ exit' = "quit")

\* No handler gives lid-closed mode up with sleep still suppressed and says nothing:
\* the button, a command, a timer, the heat, a start that fails at whichever step, each
\* answers with the failure or shows it, and none ends the application with it
\* (tests/main_thread_app.rs:1757, "failed Quit must not tear down the app").  Only
\* teardown does: also that of an acknowledged QUIT, for a lid session begun after the
\* acknowledgment.  A second Quit finds no session to stop and goes through.
GivenUpOpenly ==
  LidClaimed /\ ~LidClaimed' /\ sleepDisabled' =>
    TornDown \/ (exit' = exit /\ (answer' = "failed" \/ message' = "error"))

NoSilentLoss == [][GivenUpOpenly]_allVars
=============================================================================
