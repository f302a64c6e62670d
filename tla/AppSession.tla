----------------------------- MODULE AppSession -----------------------------
(***************************************************************************)
(* The session state machine of the application: app_delegate.rs over the  *)
(* power controller (power.rs), the lid session (lid.rs), two timers and   *)
(* the popover's controls.                                                 *)
(*                                                                         *)
(* Every handler runs on the main thread, to its end.  Starting a session  *)
(* is the only one that is cut into steps here, one per call that blocks   *)
(* or reads the clock: in between, time passes and the machine heats up.   *)
(* The others take the lid session, stop it and return, and are one step   *)
(* each.  LidSession::start and stop are seen from the caller: they take   *)
(* effect or fail, as LidGuardian shows they do.                           *)
(*                                                                         *)
(* Time is the wall clock the code reads, relative to the end of the       *)
(* session: `left` is ends_at - now, cut at 0.  The clock never goes back. *)
(* One tick stands for any amount of time up to a minute, the shortest     *)
(* session the popover accepts.                                            *)
(***************************************************************************)
EXTENDS Naturals

CONSTANTS MaxDuration,   \* bound on the length of a session, in ticks
          NoLimit,       \* "No time limit"
          Invalid,       \* a duration field that does not parse
          JumpInStart    \* may the clock pass between the two reads of a start?

ASSUME DurationAssumption == MaxDuration \in Nat \ {0}
ASSUME NoLimitAssumption == NoLimit \notin Nat /\ Invalid \notin Nat /\ Invalid # NoLimit
ASSUME JumpAssumption == JumpInStart \in BOOLEAN

VARIABLES
  pc,             \* next step of try_start_stop / start_session, or "idle"
  job,            \* what it captured: duration, display, may it prompt
  power,          \* PowerController.session: "off" or the assertion's kind
  left,           \* ticks until ends_at, NoLimit when there is none
  expiry,         \* AppState.expiry_timer is scheduled
  lid,            \* AppState.lid holds a session
  thermal,        \* AppState.thermal_timer is scheduled
  held,           \* try_start_stop holds a lid session it has not installed
  sleepDisabled,  \* the system-wide setting
  leaked,         \* history: a reset failed and none has succeeded since
  mode,           \* the selected radio button
  noLimit,        \* the "No time limit" checkbox
  field,          \* the duration field and unit, parsed
  shown,          \* what the popover was last told to show
  hot,            \* thermal state serious or critical
  exit,           \* "no", a scheduled or completed quit, or ended by the system
  answer          \* what the handler that just returned reported, else "none"

session == <<power, left, expiry>>
lidState == <<lid, thermal, held, sleepDisabled, leaked>>
controls == <<mode, noLimit, field>>
vars == <<pc, job, session, lidState, controls, shown, hot, exit, answer>>

Durations == 1 .. MaxDuration   \* what a session may be started with
Remaining == 0 .. MaxDuration   \* what may be left of it
Jobs == [duration : Durations \cup {NoLimit}, display : BOOLEAN, prompt : BOOLEAN]
Modes == {"system", "display", "lid"}
Steps == {"idle", "startLid", "authorize", "retryLid", "startSession", "acquire",
          "schedule", "install", "rollback"}
Kinds == {"off", "system", "display"}
Views == {"session", "finite", "unlimited"}
Exits == {"no", "pending", "quit", "system"}
Answers == {"none", "started", "stopped", "failed", "terminating"}
Running == exit \in {"no", "pending"}
Active == power # "off"
Finite == left # NoLimit

TypeOK ==
  /\ pc \in Steps
  /\ job \in Jobs
  /\ power \in Kinds
  /\ left \in Remaining \cup {NoLimit}
  /\ power = "off" => left = NoLimit
  /\ expiry \in BOOLEAN /\ lid \in BOOLEAN /\ thermal \in BOOLEAN /\ held \in BOOLEAN
  /\ sleepDisabled \in BOOLEAN /\ leaked \in BOOLEAN
  /\ mode \in Modes
  /\ noLimit \in BOOLEAN
  /\ field \in Durations \cup {Invalid}
  /\ shown \in Views
  /\ hot \in BOOLEAN
  /\ exit \in Exits
  /\ answer \in Answers

\* compute_ui_projection: which inputs are enabled, under which title and icon.
Projection(pow, unlimited) ==
  IF pow # "off" THEN "session" ELSE IF unlimited THEN "unlimited" ELSE "finite"

\* init_app_state, whose recovery of stale suppression may have failed.
Init ==
  /\ pc = "idle"
  /\ job = [duration |-> NoLimit, display |-> FALSE, prompt |-> FALSE]
  /\ power = "off" /\ left = NoLimit /\ expiry = FALSE
  /\ lid = FALSE /\ thermal = FALSE /\ held = FALSE
  /\ sleepDisabled \in BOOLEAN /\ leaked = sleepDisabled
  /\ mode = "system" /\ noLimit = FALSE /\ field = MaxDuration
  /\ shown = "finite"
  /\ hot \in BOOLEAN
  /\ exit = "no"
  /\ answer = "none"

-----------------------------------------------------------------------------
(* What the handlers are made of *)

\* update_ui, for the state it reads.
UpdateUi(pow, unlimited) == shown' = Projection(pow, unlimited)

\* The handler returns to the run loop and reports.
Return(what) == pc' = "idle" /\ answer' = what

\* ... an error, which the popover shows.
Fail(pow) == Return("failed") /\ UpdateUi(pow, noLimit)

\* The handler goes on.
Continue(step) == pc' = step /\ answer' = "none"

Restored == sleepDisabled' = FALSE /\ leaked' = FALSE
RestoreFailed == UNCHANGED sleepDisabled /\ leaked' = sleepDisabled

\* release_lid: stop the lid session, if there is one, and wait for its reset.  It may
\* also fail with sleep restored: finish could not wait, or collect the diagnostics.
Release(present, ok) ==
  \/ present /\ Restored
  \/ present /\ ~ok /\ RestoreFailed
  \/ ~present /\ ok /\ UNCHANGED <<sleepDisabled, leaked>>

\* Mutants: stopping forgets the end of the session, the expiry timer, the lid.
TakeAllKeepsEnd ==
  /\ power' = "off" /\ UNCHANGED left /\ expiry' = FALSE
  /\ lid' = FALSE /\ thermal' = FALSE
TakeAllKeepsExpiry ==
  /\ power' = "off" /\ left' = NoLimit /\ UNCHANGED expiry
  /\ lid' = FALSE /\ thermal' = FALSE
TakeAllKeepsLid ==
  /\ power' = "off" /\ left' = NoLimit /\ expiry' = FALSE
  /\ UNCHANGED <<lid, thermal>>

\* invalidate_timers and PowerController::stop.
TakeAll ==
  /\ power' = "off" /\ left' = NoLimit /\ expiry' = FALSE
  /\ lid' = FALSE /\ thermal' = FALSE

\* Mutant: a stop that fails returns before update_ui.
StopSessionStaleUi(ok) ==
  /\ TakeAll
  /\ Release(lid, ok)
  /\ IF ok THEN UpdateUi("off", noLimit) ELSE UNCHANGED shown
  /\ UNCHANGED <<job, held, controls, hot>>

\* stop_session.
StopSession(ok) ==
  /\ TakeAll
  /\ Release(lid, ok)
  /\ UpdateUi("off", noLimit)
  /\ UNCHANGED <<job, held, controls, hot>>

-----------------------------------------------------------------------------
(* Starting a session *)

\* Mutant: starts without asking whether a session is active.
BeginStartAnyway(prompt) ==
  /\ pc = "idle" /\ Running
  /\ field # Invalid /\ ~noLimit
  /\ Continue(IF mode = "lid" THEN "startLid" ELSE "startSession")
  /\ job' = [duration |-> field, display |-> mode = "display", prompt |-> prompt]
  /\ UNCHANGED <<session, lidState, controls, shown, hot, exit>>

\* try_start_stop with no session active: reads the controls, and refuses a
\* duration that does not parse, or lid-closed mode on a hot machine.
BeginStart(prompt) ==
  LET duration == IF noLimit THEN NoLimit ELSE field
      useLid == ~noLimit /\ mode = "lid"
      refused == duration = Invalid \/ (useLid /\ hot)
  IN  /\ pc = "idle" /\ Running /\ ~Active
      /\ IF refused
         THEN Fail("off") /\ UNCHANGED job
         ELSE /\ Continue(IF useLid THEN "startLid" ELSE "startSession")
              /\ job' = [duration |-> duration, display |-> mode = "display",
                         prompt |-> prompt]
              /\ UNCHANGED shown
      /\ UNCHANGED <<session, lidState, controls, hot, exit>>

\* The button may prompt for authorization, TOGGLE may not.
ClickStart == BeginStart(TRUE)
ToggleStart == BeginStart(FALSE)

\* START: the command carries duration and mode, and sets the radio buttons.  It
\* replaces a session that is active.
StartCommand(duration, display) ==
  /\ pc = "idle" /\ Running
  /\ mode' = IF display THEN "display" ELSE "system"
  /\ job' = [duration |-> duration, display |-> display, prompt |-> FALSE]
  /\ Continue("startSession")
  /\ UNCHANGED <<session, lidState, noLimit, field, shown, hot, exit>>

\* What a failed start_lid has done: nothing was enabled, or it was and the guardian
\* has reset it, or failed to.
FailedStart ==
  \/ UNCHANGED <<sleepDisabled, leaked>>
  \/ Restored
  \/ sleepDisabled' = TRUE /\ leaked' = TRUE

\* start_lid succeeds.
StartLid ==
  /\ pc \in {"startLid", "retryLid"}
  /\ held' = TRUE /\ sleepDisabled' = TRUE
  /\ Continue("startSession")
  /\ UNCHANGED <<job, session, lid, thermal, leaked, controls, shown, hot, exit>>

\* start_lid fails.
StartLidFails ==
  /\ pc \in {"startLid", "retryLid"}
  /\ FailedStart
  /\ IF pc = "startLid" /\ job.prompt THEN Continue("authorize") /\ UNCHANGED shown
     ELSE Fail(power)
  /\ UNCHANGED <<job, session, lid, thermal, held, controls, hot, exit>>

\* The administrator dialog; success is verified by a reset.
Authorize ==
  /\ pc = "authorize"
  /\ \/ Restored /\ Continue("retryLid") /\ UNCHANGED shown
     \/ UNCHANGED <<sleepDisabled, leaked>> /\ Fail(power)
  /\ UNCHANGED <<job, session, lid, thermal, held, controls, hot, exit>>

\* start_session first ends the session before, whatever it was.
EndPrevious ==
  /\ pc = "startSession"
  /\ TakeAll
  /\ \E ok \in BOOLEAN :
       /\ Release(lid, ok)
       /\ IF ok THEN Continue("acquire") /\ UNCHANGED shown
          ELSE IF held THEN Continue("rollback") /\ UpdateUi("off", noLimit)
               ELSE Fail("off")
  /\ UNCHANGED <<job, held, controls, hot, exit>>

\* PowerController::start with the clock as it is now: ends_at = now + duration.
Acquire ==
  /\ pc = "acquire"
  /\ power' = IF job.display THEN "display" ELSE "system"
  /\ left' = job.duration
  /\ IF job.duration # NoLimit THEN Continue("schedule") /\ UNCHANGED shown
     ELSE Return("started") /\ UpdateUi(power', noLimit)
  /\ UNCHANGED <<job, expiry, lidState, controls, hot, exit>>

\* Mutant: the error returns at once, the lid session it holds forgotten.
AcquireFailsForgetsLid ==
  /\ pc = "acquire"
  /\ held' = FALSE
  /\ Fail(power)
  /\ UNCHANGED <<job, session, lid, thermal, sleepDisabled, leaked, controls, hot, exit>>

\* The assertion is refused; a lid session already started is given up.
AcquireFails ==
  /\ pc = "acquire"
  /\ IF held THEN Continue("rollback") /\ UpdateUi(power, noLimit) ELSE Fail(power)
  /\ UNCHANGED <<job, session, lidState, controls, hot, exit>>

\* Mutant: no timer is scheduled for a session whose end is ahead.
ScheduleNothing ==
  /\ pc = "schedule"
  /\ IF held THEN Continue("install") ELSE Return("started")
  /\ UpdateUi(power, noLimit)
  /\ UNCHANGED <<job, session, lidState, controls, hot, exit>>

\* schedule_expiry_timer reads the clock again.  If the end has passed it stops
\* the session, and start_session returns success all the same.
Schedule ==
  /\ pc = "schedule"
  /\ IF left > 0
     THEN expiry' = TRUE /\ UNCHANGED <<power, left, lid, thermal, sleepDisabled, leaked>>
     ELSE TakeAll /\ \E ok \in BOOLEAN : Release(lid, ok)
  /\ IF held THEN Continue("install") ELSE Return("started")
  /\ UpdateUi(power', noLimit)
  /\ UNCHANGED <<job, held, controls, hot, exit>>

\* Mutant: installs the session without its thermal timer.
InstallUnwatched ==
  /\ pc = "install"
  /\ lid' = TRUE /\ held' = FALSE
  /\ Return("started")
  /\ UNCHANGED <<job, session, thermal, sleepDisabled, leaked, controls, shown, hot, exit>>

\* install_lid_session.  EndPrevious has taken the previous one, so its
\* branches for a previous session that fails to stop are never reached.
Install ==
  /\ pc = "install"
  /\ ~lid
  /\ lid' = TRUE /\ thermal' = TRUE /\ held' = FALSE
  /\ Return("started")
  /\ UNCHANGED <<job, session, sleepDisabled, leaked, controls, shown, hot, exit>>

\* release_lid on the error path of try_start_stop.
Rollback ==
  /\ pc = "rollback"
  /\ held' = FALSE
  /\ \E ok \in BOOLEAN : Release(TRUE, ok)
  /\ Fail(power)
  /\ UNCHANGED <<job, session, lid, thermal, controls, hot, exit>>

-----------------------------------------------------------------------------
(* Ending a session *)

\* Mutant: STOP reports success whatever the guardian says.
StopIgnoresFailure ==
  /\ pc = "idle" /\ Running
  /\ \E ok \in BOOLEAN : StopSession(ok)
  /\ Return("stopped")
  /\ UNCHANGED exit

\* STOP, or the button and TOGGLE while a session is active.
Stop ==
  /\ pc = "idle" /\ Running
  /\ \E ok \in BOOLEAN :
       StopSession(ok) /\ Return(IF ok THEN "stopped" ELSE "failed")
  /\ UNCHANGED exit

\* Mutant: the timer fires once and is not rescheduled for the rest.
ExpiryFiresOnce ==
  /\ pc = "idle" /\ Running /\ expiry
  /\ IF Finite /\ left > 0
     THEN expiry' = FALSE /\ UNCHANGED <<power, left, lidState, job, controls, shown, hot>>
     ELSE \E ok \in BOOLEAN : StopSession(ok)
  /\ answer' = "none"
  /\ UNCHANGED <<pc, exit>>

\* The expiry timer fires, early or late; schedule_expiry_timer decides.
ExpiryFires ==
  /\ pc = "idle" /\ Running /\ expiry
  /\ IF Finite /\ left > 0
     THEN UNCHANGED <<session, lidState, job, controls, shown, hot>>
     ELSE \E ok \in BOOLEAN : StopSession(ok)
  /\ answer' = "none"
  /\ UNCHANGED <<pc, exit>>

\* check_thermal_state: the session goes on without lid-closed mode.  Its branch
\* for a timer without a session only invalidates the timer.
ThermalFires ==
  /\ pc = "idle" /\ Running /\ thermal
  /\ hot
  /\ lid' = FALSE /\ thermal' = FALSE
  /\ \E ok \in BOOLEAN : Release(lid, ok)
  /\ mode' = "system"
  /\ UpdateUi(power, noLimit)
  /\ answer' = "none"
  /\ UNCHANGED <<pc, job, session, held, noLimit, field, hot, exit>>

\* QUIT: once the session is stopped, terminate 50 ms later, after the reply.
QuitCommand ==
  /\ pc = "idle" /\ Running
  /\ \E ok \in BOOLEAN :
       /\ StopSession(ok)
       /\ IF ok THEN exit' = "pending" /\ Return("terminating")
          ELSE UNCHANGED exit /\ Return("failed")

\* Mutant: Quit terminates though sleep was not restored.
QuitMenuAnyway ==
  /\ pc = "idle" /\ Running
  /\ \E ok \in BOOLEAN : StopSession(ok)
  /\ exit' = "quit"
  /\ answer' = "none"
  /\ UNCHANGED pc

\* Quit in the menu terminates at once.
QuitMenu ==
  /\ pc = "idle" /\ Running
  /\ \E ok \in BOOLEAN :
       /\ StopSession(ok)
       /\ IF ok THEN exit' = "quit" ELSE UNCHANGED exit
  /\ answer' = "none"
  /\ UNCHANGED pc

\* Mutant: the timer of QUIT spares a session started in the meantime.
TeardownUnlessActive ==
  /\ pc = "idle" /\ Running /\ ~Active
  /\ \E ok \in BOOLEAN : StopSession(ok)
  /\ exit' = IF exit = "pending" THEN "quit" ELSE "system"
  /\ answer' = "none"
  /\ UNCHANGED pc

\* teardown, by the timer of QUIT or by the system (applicationWillTerminate).  A
\* reset that fails is only logged.
Teardown ==
  /\ pc = "idle" /\ Running
  /\ \E ok \in BOOLEAN : StopSession(ok)
  /\ exit' = IF exit = "pending" THEN "quit" ELSE "system"
  /\ answer' = "none"
  /\ UNCHANGED pc

\* The next launch: fresh controls, and recovery of stale suppression.
Relaunch ==
  /\ ~Running
  /\ exit' = "no"
  /\ Release(sleepDisabled, TRUE) \/ Release(sleepDisabled, FALSE)
  /\ mode' = "system" /\ noLimit' = FALSE /\ field' = MaxDuration
  /\ UpdateUi(power, FALSE)
  /\ answer' = "none"
  /\ UNCHANGED <<pc, job, session, lid, thermal, held, hot>>

-----------------------------------------------------------------------------
(* The popover's inputs, each enabled as last shown, and the world *)

Input == pc = "idle" /\ Running /\ answer' = "none"

SelectMode(m) ==
  /\ Input
  /\ IF m = "lid" THEN shown = "finite" ELSE shown # "session"
  /\ mode' = m
  /\ UpdateUi(power, noLimit)
  /\ UNCHANGED <<pc, job, session, lidState, noLimit, field, hot, exit>>

\* Mutant: the checkbox leaves lid-closed mode selected.
ToggleNoLimitKeepsMode ==
  /\ Input
  /\ shown # "session"
  /\ noLimit' = ~noLimit
  /\ UpdateUi(power, noLimit')
  /\ UNCHANGED <<pc, job, session, lidState, mode, field, hot, exit>>

\* noTimeLimitChanged: lid-closed mode is never combined with no limit.
ToggleNoLimit ==
  /\ Input
  /\ shown # "session"
  /\ noLimit' = ~noLimit
  /\ mode' = IF noLimit' /\ mode = "lid" THEN "system" ELSE mode
  /\ UpdateUi(power, noLimit')
  /\ UNCHANGED <<pc, job, session, lidState, field, hot, exit>>

EnterDuration(d) ==
  /\ Input
  /\ shown = "finite"
  /\ field' = d
  /\ UNCHANGED <<pc, job, session, lidState, mode, noLimit, shown, hot, exit>>

\* Time passes, also while a handler is blocked.
Tick ==
  /\ Running
  /\ Finite /\ left > 0
  /\ pc = "schedule" => JumpInStart
  /\ left' = left - 1
  /\ answer' = "none"
  /\ UNCHANGED <<pc, job, power, expiry, lidState, controls, shown, hot, exit>>

HeatChanges ==
  /\ hot' = ~hot
  /\ answer' = "none"
  /\ UNCHANGED <<pc, job, session, lidState, controls, shown, exit>>

-----------------------------------------------------------------------------
\* A start under way; the dialog of Authorize waits for the user.
Proceed ==
  StartLid \/ StartLidFails \/ EndPrevious \/ Acquire \/ AcquireFails \/ Schedule
    \/ Install \/ Rollback

Next ==
  \/ ClickStart \/ ToggleStart
  \/ \E d \in Durations \cup {NoLimit}, display \in BOOLEAN : StartCommand(d, display)
  \/ Proceed \/ Authorize
  \/ Stop \/ ExpiryFires \/ ThermalFires
  \/ QuitCommand \/ QuitMenu \/ Teardown \/ Relaunch
  \/ \E m \in Modes : SelectMode(m)
  \/ ToggleNoLimit
  \/ \E d \in Durations \cup {Invalid} : EnterDuration(d)
  \/ Tick \/ HeatChanges

\* The main thread goes on (LidGuardian, CallsReturn), time passes, and the run
\* loop fires the timers that are due: also between commands that never cease to
\* arrive, as every turn of the loop serves both.
Fairness ==
  /\ WF_vars(Proceed)
  /\ WF_vars(Tick)
  /\ WF_vars(ExpiryFires)
  /\ WF_vars(ThermalFires)
  /\ SF_vars(exit = "pending" /\ Teardown)

Spec == Init /\ [][Next]_vars
FairSpec == Spec /\ Fairness

\* The thermal timer alone: the end of the session may be as far off as it likes.
ThermalSpec == Spec /\ WF_vars(Proceed) /\ WF_vars(ThermalFires)

-----------------------------------------------------------------------------
(* Properties *)

\* Between handlers the timers are those of the session: an expiry timer exactly
\* for a finite one (a stale one would stop the next session, whose end it does not
\* know), a thermal timer exactly for lid-closed mode.
TimersMatch ==
  pc = "idle" =>
    /\ expiry <=> Active /\ Finite
    /\ thermal <=> lid

\* Lid-closed mode is bounded: whatever came before, it runs only inside a finite
\* session (README.md:19, "cannot stay awake forever in a closed bag").
LidIsBounded == lid => Active /\ Finite

\* ... and it has effect: no reset of a session before it lifts the suppression of
\* the one that is installed.
LidHasEffect == lid => sleepDisabled

\* Sleep stays suppressed only for a lid session this instance still holds, or
\* after a reset that failed: no error path and no cancelled start forgets one.
NoLostSuppression == sleepDisabled => lid \/ held \/ leaked

\* What a command reports is so: after "started" a session runs, after anything
\* else none does, and no timer is left.  After "stopped" or "terminating" sleep is
\* not suppressed, unless by an earlier reset that failed; after "failed" it is
\* only if a reset failed.
ReportIsTrue ==
  /\ answer' = "started" => Active'
  /\ answer' \in {"stopped", "failed", "terminating"} =>
       ~(Active \/ lid \/ held \/ expiry \/ thermal)'
  /\ answer' \in {"stopped", "terminating"} /\ sleepDisabled' => leaked
  /\ answer' = "failed" /\ sleepDisabled' => leaked'

AnswerTruthful == [][ReportIsTrue]_vars

\* Between handlers the popover offers what the state allows: no handler returns
\* without update_ui after it has changed the session.
UiFresh == pc = "idle" => shown = Projection(power, noLimit)

\* "No time limit" and lid-closed mode are never selected together, whatever the
\* order of clicks, commands and cutoffs.
NoUnlimitedLid == ~(noLimit /\ mode = "lid")

\* Lid-closed mode ends, whatever the user does or omits to do.
LidEnds == lid ~> ~lid

\* On a machine that stays hot it ends by the thermal check, long before the
\* session does (checked under ThermalSpec, where time need not pass).
HeatEndsLid == (lid /\ hot) ~> ~(lid /\ hot)

\* The application keeps the promises of KeepAwake, that a session with a time
\* limit ends among them.
Promise == INSTANCE KeepAwake
  WITH kind <- power, limited <- Active /\ Finite, lidMode <- lid

PromiseKept == Promise!Spec
SessionsEnd == Promise!FairSpec

\* To the setting the application does what lid-closed mode promises its callers
\* (LidMode, which LidGuardian implements with processes), and nothing else: every
\* handler stops the session it takes, never one it does not have, and no other step
\* lifts or raises the suppression.
LidPromise == INSTANCE LidMode
  WITH has <- lid \/ held, suppressed <- sleepDisabled, leaked <- leaked, late <- FALSE

LidPromiseKept == LidPromise!ModeSpec

\* QUIT, once acknowledged, terminates the application, unless the user has opened
\* the authorization dialog in between.
QuitCompletes == exit = "pending" ~> (exit = "quit" \/ pc = "authorize")
=============================================================================
