--------------------------- MODULE PopoverProofs ---------------------------
(***************************************************************************)
(* Proofs about Popover.  Every step of it is a step of AppSession or      *)
(* leaves AppSession alone, so what AppSessionProofs proves holds here, and *)
(* its invariant is used: the countdown follows the session only because    *)
(* no session is active when a start reaches its assertion (Staging).      *)
(***************************************************************************)
EXTENDS Popover, AppSessionProofs

\* CountdownFollows, strengthened: the timer already runs when a start has only the
\* lid session left to install.
Following ==
  /\ countdown => IsShown /\ Active /\ Finite
  /\ pc \in {"idle", "install"} /\ Running /\ popover = "shown" /\ Active /\ Finite
       => countdown

PopoverInv == PopoverTypeOK /\ NothingLeftBehind /\ Following

-----------------------------------------------------------------------------
(* The sessions under the popover *)

\* What Popover does to the session is what AppSession does.
LEMMA SessionStepIsNext ==
  ASSUME SessionStep
  PROVE  Next
BY DEF SessionStep, Next, Proceed, ClickStartShown, ToggleStarts, StartArrives, LidStarts,
   PreviousEnds, Acquires, AcquireRefused, Schedules, Installs, RollsBack, SessionStops,
   ExpiryTimer, HeatCutsLid, TearsDown, Relaunches, ControlsChange, WorldChanges

\* The steps of the popover alone leave the session as it is.
LEMMA PopoverStepLeavesSessions ==
  ASSUME PopoverStep
  PROVE  UNCHANGED <<vars, message>> /\ pc = "idle" /\ Running
BY DEF PopoverStep, OpenPopover, ClickToClose, ResignActive, ClickOutside, CloseNatively,
   DidClose, CountdownFires, Callback

\* Popover adds to AppSession and takes nothing away: every behaviour of it is one of
\* AppSession, so the theorems about Spec hold of PopoverSpec.
THEOREM Sessions == PopoverSpec => Spec
<1>1. PopoverInit => Init
  BY DEF PopoverInit
<1>2. [PopoverNext]_allVars => [Next]_vars
  BY SessionStepIsNext, PopoverStepLeavesSessions DEF PopoverNext, allVars
<1> QED
  BY <1>1, <1>2, PTL DEF PopoverSpec, Spec

-----------------------------------------------------------------------------
(* What the handlers are made of keeps the invariant *)

\* One stays opaque.
LEMMA OneFacts ==
  /\ One(TRUE) = 1 /\ One(FALSE) = 0
  /\ \A b \in BOOLEAN : One(b) \in Nat /\ One(b) - One(b) = One(FALSE)
<1>1. One(TRUE) = 1 /\ One(FALSE) = 0
  BY DEF One
<1>2. ASSUME NEW b \in BOOLEAN
      PROVE  One(b) \in Nat /\ One(b) - One(b) = One(FALSE)
  <2>1. One(b) \in {0, 1}
    BY Zenon DEF One
  <2>2. \A n \in {0, 1} : n \in Nat /\ n - n = 0
    OBVIOUS
  <2> QED
    BY <1>1, <2>1, <2>2, Zenon
<1> QED
  BY <1>1, <1>2

\* The timer the countdown needs is scheduled, unless there is one already.
LEMMA CountdownEffect ==
  ASSUME NEW has \in BOOLEAN, NEW alive, alive = One(has), StartCountdown(has, alive)
  PROVE  /\ countdown' \in BOOLEAN /\ timers' \in Nat /\ timers' = One(countdown')
         /\ countdown' => has \/ (IsShown' /\ Active' /\ Finite')
         /\ IsShown' /\ Active' /\ Finite' => countdown'
<1> DEFINE needed == ~has /\ popover' # "closed" /\ power' # "off" /\ left' # NoLimit
<1> USE DEF IsShown, Active, Finite
<1>1. countdown' = (has \/ needed) /\ timers' = alive + One(needed)
  BY DEF StartCountdown
<1>2. CASE has
  <2>1. countdown' = TRUE
    BY <1>1, <1>2, Zenon
  <2> QED
    BY <1>1, <1>2, <2>1 DEF One
<1>3. CASE ~has /\ needed
  <2>1. countdown' = TRUE
    BY <1>1, <1>3, Zenon
  <2> QED
    BY <1>1, <1>3, <2>1 DEF One
<1>4. CASE ~has /\ ~needed
  <2>1. countdown' = FALSE
    BY <1>1, <1>4, Zenon
  <2> QED
    BY <1>1, <1>4, <2>1 DEF One
<1> QED
  BY <1>2, <1>3, <1>4

\* A handler that does not touch the popover keeps it consistent.
LEMMA UntouchedKeeps ==
  ASSUME PopoverInv, Untouched, message' \in {"none", "cutoff", "error"},
         countdown => Active' /\ Finite',
         pc' \in {"idle", "install"} /\ Running' /\ Active' /\ Finite' =>
           pc \in {"idle", "install"} /\ Running /\ Active /\ Finite
  PROVE  PopoverInv'
BY DEF PopoverInv, Untouched, PopoverTypeOK, NothingLeftBehind, Following, IsShown

\* So does one that ends with update_ui.
LEMMA RefreshedKeeps ==
  ASSUME PopoverInv, Refreshed, message' \in {"none", "cutoff", "error"},
         countdown => Active' /\ Finite'
  PROVE  PopoverInv'
<1> USE DEF PopoverInv, PopoverTypeOK, NothingLeftBehind, Following, IsShown
<1>1. StartCountdown(countdown, timers) /\ timers = One(countdown)
  BY DEF Refreshed
<1> QED
  BY <1>1, CountdownEffect DEF Refreshed

\* So does one that stops the countdown and then refreshes.
LEMMA RestartedKeeps ==
  ASSUME PopoverInv, InvalidatedAndRefreshed, message' \in {"none", "cutoff", "error"}
  PROVE  PopoverInv'
<1> USE DEF PopoverInv, PopoverTypeOK, NothingLeftBehind, Following, IsShown
<1>1. StartCountdown(FALSE, timers - One(countdown)) /\ timers - One(countdown) = One(FALSE)
  BY OneFacts DEF InvalidatedAndRefreshed
<1> QED
  BY <1>1, CountdownEffect DEF InvalidatedAndRefreshed

\* So does one that stops the countdown and goes on.
LEMMA InvalidatedKeeps ==
  ASSUME PopoverInv, Invalidated, message' \in {"none", "cutoff", "error"},
         pc' \notin {"idle", "install"}
  PROVE  PopoverInv'
BY OneFacts
   DEF PopoverInv, Invalidated, StopCountdown, PopoverTypeOK, NothingLeftBehind, Following,
       IsShown

\* So do the popover's own steps: opening, closing, clicks elsewhere, the countdown.
LEMMA CallbackKeeps ==
  ASSUME PopoverInv, PopoverStep
  PROVE  PopoverInv'
<1> USE OneFacts DEF PopoverInv, PopoverTypeOK, NothingLeftBehind, Following, IsShown,
                     Active, Finite, Running, Callback, vars, session
<1>1. CASE OpenPopover
  <2>1. PICK installed \in BOOLEAN :
          monitor' = installed /\ monitors' = monitors - One(monitor) + One(installed)
    BY <1>1 DEF OpenPopover, InstallMonitor
  <2>2. monitor' \in BOOLEAN /\ monitors' \in Nat /\ monitors' = One(monitor')
    <3>1. monitor' \in BOOLEAN /\ One(monitor') = One(installed)
      BY <2>1, Zenon
    <3>2. monitors = One(monitor) /\ One(monitor) = One(FALSE)
      BY <1>1, Zenon DEF OpenPopover
    <3>3. monitors' = 0 + One(installed) /\ One(installed) \in Nat
      BY <2>1, <3>2, OneFacts, Zenon
    <3> QED
      BY <3>1, <3>3
  <2>3. /\ StartCountdown(countdown, timers) /\ ~countdown
        /\ popover' = "shown" /\ UNCHANGED <<pc, exit, message>>
    BY <1>1 DEF OpenPopover
  <2> QED
    BY <2>2, <2>3, CountdownEffect
<1>2. CASE ClickToClose \/ ResignActive \/ ClickOutside
  BY <1>2 DEF ClickToClose, ResignActive, ClickOutside, ClosePopover, RemoveMonitor,
              StopCountdown
<1>3. CASE CloseNatively
  BY <1>3 DEF CloseNatively
<1>4. CASE DidClose
  BY <1>4 DEF DidClose, RemoveMonitor, StopCountdown
<1>5. CASE CountdownFires
  BY <1>5, RefreshedKeeps DEF CountdownFires
<1> QED
  BY <1>1, <1>2, <1>3, <1>4, <1>5 DEF PopoverStep

\* Every handler of a session keeps the popover consistent.
LEMMA SessionKeeps ==
  ASSUME IInv, IInv', PopoverInv, SessionStep
  PROVE  PopoverInv'
<1>m. message' \in {"none", "cutoff", "error"}
  BY DEF PopoverInv, PopoverTypeOK, SessionStep, ClickStartShown, ToggleStarts,
     StartArrives, LidStarts, PreviousEnds, Acquires, AcquireRefused, Schedules, Installs,
     RollsBack, SessionStops, ExpiryTimer, HeatCutsLid, TearsDown, Relaunches,
     ControlsChange, WorldChanges, ProceedOrShow, ShowError, ShowIf, ShowRestore,
     ClearError, ShowFailure
<1>c. countdown => Active /\ Finite
  BY DEF PopoverInv, Following
<1> USE <1>m, <1>c, UntouchedKeeps, RefreshedKeeps, RestartedKeeps, InvalidatedKeeps
    DEF session, Active, Finite, Running
<1>1. CASE ClickStartShown \/ ToggleStarts
  BY <1>1 DEF ClickStartShown, ToggleStarts, ClickStart, ToggleStart, BeginStart,
              ProceedOrShow, Continue, Fail, Return
<1>2. CASE StartArrives
  BY <1>2 DEF StartArrives, StartCommand, Continue
<1>3. CASE LidStarts
  BY <1>3 DEF LidStarts, StartLid, StartLidFails, Authorize, ProceedOrShow, Continue, Fail,
              Return
<1>4. CASE PreviousEnds
  BY <1>4 DEF PreviousEnds
<1>5. CASE Acquires
  <2>1. ~Active
    BY <1>5 DEF Acquires, Acquire, IInv, Staging
  <2> QED
    BY <1>5, <2>1 DEF Acquires, Acquire, Continue, Return
<1>6. CASE AcquireRefused
  BY <1>6 DEF AcquireRefused, AcquireFails
<1>7. CASE Schedules
  BY <1>7 DEF Schedules, Schedule
<1>8. CASE Installs
  BY <1>8 DEF Installs, Install
<1>9. CASE RollsBack
  BY <1>9 DEF RollsBack, Rollback
<1>10. CASE SessionStops
  BY <1>10 DEF SessionStops
<1>11. CASE ExpiryTimer
  BY <1>11 DEF ExpiryTimer, ExpiryFires
<1>12. CASE HeatCutsLid
  BY <1>12 DEF HeatCutsLid, ThermalFires
<1>13. CASE TearsDown
  <2>1. ~Running'
    BY <1>13 DEF TearsDown, Teardown
  <2> QED
    BY <1>13, <2>1, OneFacts, CountdownEffect
       DEF TearsDown, RemoveMonitor, PopoverInv, PopoverTypeOK, NothingLeftBehind, Following,
           IsShown
<1>14. CASE Relaunches
  BY <1>14, OneFacts DEF Relaunches, PopoverInv, PopoverTypeOK, NothingLeftBehind, Following,
     IsShown
<1>15. CASE ControlsChange
  BY <1>15 DEF ControlsChange, SelectMode, ToggleNoLimit, EnterDuration, Input
<1>16. CASE WorldChanges
  <2>1. CASE Tick
    <3>1. Finite' /\ UNCHANGED <<pc, power, exit>>
      BY <2>1, DurationFacts DEF Tick, IInv, TypeOK
    <3> QED
      BY <1>16, <2>1, <3>1 DEF WorldChanges, Tick
  <2>2. CASE HeatChanges
    BY <1>16, <2>2 DEF WorldChanges, HeatChanges
  <2> QED
    BY <1>16, <2>1, <2>2 DEF WorldChanges
<1> QED
  BY <1>1, <1>2, <1>3, <1>4, <1>5, <1>6, <1>7, <1>8, <1>9, <1>10, <1>11, <1>12, <1>13,
     <1>14, <1>15, <1>16 DEF SessionStep

\* The invariant of the popover is inductive.
LEMMA PopoverInductive ==
  ASSUME ~JumpInStart
  PROVE  PopoverSpec => []PopoverInv
<1>1. PopoverInit => PopoverInv
  BY OneFacts DEF PopoverInit, Init, PopoverInv, PopoverTypeOK, NothingLeftBehind, Following,
     IsShown, Active
<1>2. IInv /\ IInv' /\ PopoverInv /\ [PopoverNext]_allVars => PopoverInv'
  <2>1. CASE UNCHANGED allVars
    BY <2>1 DEF allVars, vars, session, popoverVars, PopoverInv, PopoverTypeOK,
       NothingLeftBehind, Following, IsShown, Active, Finite, Running
  <2> QED
    BY <2>1, SessionKeeps, CallbackKeeps DEF PopoverNext
<1> QED
  BY <1>1, <1>2, Sessions, Inductive, PTL DEF PopoverSpec

-----------------------------------------------------------------------------
\* Every variable of Popover stays within its type.
THEOREM PopoverTyping ==
  ASSUME ~JumpInStart
  PROVE  PopoverSpec => []PopoverTypeOK
BY PopoverInductive, PTL DEF PopoverInv

\* No timer and no monitor outlives the popover or is scheduled twice.
THEOREM NothingLeft ==
  ASSUME ~JumpInStart
  PROVE  PopoverSpec => []NothingLeftBehind
BY PopoverInductive, PTL DEF PopoverInv

\* The countdown runs for an open popover with a finite session, and for nothing else.
THEOREM CountdownRuns ==
  ASSUME ~JumpInStart
  PROVE  PopoverSpec => []CountdownFollows
<1>1. PopoverInv => CountdownFollows
  BY DEF PopoverInv, Following, CountdownFollows
<1> QED
  BY <1>1, PopoverInductive, PTL

\* Only the start of a session clears the heat notice.
THEOREM NoticeKept == PopoverSpec => NoticeRetained
<1>1. [PopoverNext]_allVars => [NoticeStays]_allVars
  <2> SUFFICES ASSUME PopoverNext, message = "cutoff", message' = "none"
               PROVE  pc = "startSession" \/ ~Running
    BY DEF NoticeStays
  <2>1. SessionStep
    BY PopoverStepLeavesSessions DEF PopoverNext
  <2>2. PreviousEnds \/ Relaunches
    BY <2>1 DEF SessionStep, ClickStartShown, ToggleStarts, StartArrives, LidStarts,
       Acquires, AcquireRefused, Schedules, Installs, RollsBack, SessionStops, ExpiryTimer,
       HeatCutsLid, TearsDown, ControlsChange, WorldChanges, ProceedOrShow, ShowError,
       ShowIf, ShowRestore, ClearError, ShowFailure
  <2> QED
    BY <2>2 DEF PreviousEnds, EndPrevious, Relaunches, Relaunch
<1> QED
  BY <1>1, PTL DEF PopoverSpec, NoticeRetained
-----------------------------------------------------------------------------
\* A lid session that is stopped with sleep suppressed all the same was not stopped
\* successfully, and the reset that failed is remembered.
LEMMA StopFailed ==
  ASSUME NEW present, NEW ok, Release(present, ok), present, sleepDisabled'
  PROVE  ~ok /\ leaked'
<1>1. ~Restored
  BY Zenon DEF Restored
<1>2. ~ok /\ RestoreFailed
  BY <1>1, Zenon DEF Release
<1> QED
  BY <1>2, Zenon DEF RestoreFailed

\* Lid-closed mode is never given up silently with sleep still suppressed, on any path
\* of any handler, except by teardown.  Nothing is assumed of the clock, and it holds of
\* each step whatever came before it.
THEOREM LossesReported == PopoverSpec => NoSilentLoss
<1>1. [PopoverNext]_allVars => [GivenUpOpenly]_allVars
  <2> SUFFICES ASSUME PopoverNext, LidClaimed, ~LidClaimed', sleepDisabled'
               PROVE  TornDown \/ (exit' = exit /\ (answer' = "failed" \/ message' = "error"))
    BY DEF GivenUpOpenly
  <2> USE DEF LidClaimed, lidState
  <2>1. SessionStep
    BY PopoverStepLeavesSessions DEF PopoverNext, vars
  <2>2. CASE ClickStartShown \/ ToggleStarts \/ StartArrives \/ ControlsChange \/ WorldChanges
    BY <2>2 DEF ClickStartShown, ToggleStarts, StartArrives, ControlsChange, WorldChanges,
       ClickStart, ToggleStart, BeginStart, StartCommand, Continue, Fail, Return, SelectMode,
       ToggleNoLimit, EnterDuration, Input, Tick, HeatChanges
  <2>3. CASE LidStarts
    BY <2>3 DEF LidStarts, StartLid, StartLidFails, Authorize, Continue, Fail, Return
  <2>4. CASE PreviousEnds
    BY <2>4, StopFailed DEF PreviousEnds, EndPrevious, TakeAll, Continue, Fail, Return
  <2>5. CASE Acquires \/ AcquireRefused
    BY <2>5 DEF Acquires, AcquireRefused, Acquire, AcquireFails, Continue, Fail, Return
  <2>6. CASE Schedules
    BY <2>6, StopFailed
       DEF Schedules, Schedule, TakeAll, Continue, Return, ShowRestore, ShowIf, ShowError
  <2>7. CASE Installs \/ RollsBack
    BY <2>7 DEF Installs, RollsBack, Install, Rollback, Fail, Return
  <2>8. CASE SessionStops
    BY <2>8, StopFailed
       DEF SessionStops, Stop, QuitCommand, QuitMenu, StopSession, Return, ShowIf, ShowError
  <2>9. CASE ExpiryTimer
    BY <2>9, StopFailed
       DEF ExpiryTimer, ExpiryFires, StopSession, ShowRestore, ShowIf, ShowError
  <2>10. CASE HeatCutsLid
    BY <2>10, StopFailed DEF HeatCutsLid, ThermalFires
  <2>11. CASE TearsDown \/ Relaunches
    BY <2>11 DEF TearsDown, Relaunches, Teardown, Relaunch, TornDown
  <2> QED
    BY <2>1, <2>2, <2>3, <2>4, <2>5, <2>6, <2>7, <2>8, <2>9, <2>10, <2>11 DEF SessionStep
<1> QED
  BY <1>1, PTL DEF PopoverSpec, NoSilentLoss
=============================================================================
