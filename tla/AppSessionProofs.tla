-------------------------- MODULE AppSessionProofs --------------------------
(***************************************************************************)
(* Proofs about AppSession for sessions of any length, under the one       *)
(* assumption its passing runs make too: the clock does not run past the   *)
(* end of a session between the two reads of its start.                    *)
(*                                                                         *)
(* None of the properties is inductive: what holds between handlers is     *)
(* suspended while a start is under way.  Staging says, step by step, what *)
(* a start has done so far and what it still owes.                         *)
(***************************************************************************)
EXTENDS AppSession, TLAPS

\* What holds at each step of a start.
Staging ==
  /\ pc \in {"startLid", "authorize", "retryLid"} =>
       ~Active /\ ~held /\ job.duration # NoLimit /\ ~job.display
  /\ held =>
       /\ pc \in {"startSession", "acquire", "schedule", "install", "rollback"}
       /\ ~lid /\ sleepDisabled
       /\ job.duration # NoLimit /\ ~job.display
  /\ pc \in {"acquire", "rollback"} => ~Active
  /\ pc = "rollback" => held
  /\ pc = "schedule" =>
       /\ power = IF job.display THEN "display" ELSE "system"
       /\ left = job.duration /\ left # NoLimit
       /\ ~lid /\ ~expiry
  /\ pc = "install" =>
       /\ held /\ power = "system" /\ Finite /\ expiry
       /\ shown = Projection(power, noLimit)

\* Timers and lid-closed mode live only inside a session that has an end.
Attached ==
  /\ thermal <=> lid
  /\ lid => power = "system" /\ Finite
  /\ expiry => Active /\ Finite
  /\ pc = "idle" /\ Active /\ Finite => expiry

\* Nothing runs in an application that has ended.
Quiescent == ~Running => pc = "idle" /\ ~Active

IInv ==
  /\ TypeOK
  /\ Staging
  /\ Attached
  /\ Quiescent
  /\ LidHasEffect
  /\ NoLostSuppression
  /\ UiFresh
  /\ NoUnlimitedLid

-----------------------------------------------------------------------------
\* What release_lid may do to the setting, whether or not there is a session.
LEMMA ReleaseEffect ==
  ASSUME sleepDisabled \in BOOLEAN, leaked \in BOOLEAN,
         NEW present \in BOOLEAN, NEW ok \in BOOLEAN, Release(present, ok)
  PROVE  /\ sleepDisabled' \in BOOLEAN /\ leaked' \in BOOLEAN
         /\ sleepDisabled' => sleepDisabled
         /\ present /\ sleepDisabled' => leaked'
         /\ ~present => ok /\ (sleepDisabled' <=> sleepDisabled) /\ (leaked' <=> leaked)
         /\ ok /\ present => ~sleepDisabled'
<1>1. CASE present /\ Restored
  BY <1>1, Zenon DEF Restored
<1>2. CASE present /\ ~ok /\ RestoreFailed
  BY <1>2, Zenon DEF Release, RestoreFailed
<1>3. CASE ~present /\ ok /\ UNCHANGED <<sleepDisabled, leaked>>
  BY <1>3, Zenon
<1> QED
  BY <1>1, <1>2, <1>3 DEF Release

\* What the proofs need of durations; Durations and Remaining stay opaque in them.
LEMMA DurationFacts ==
  /\ MaxDuration \in Durations /\ NoLimit \notin Durations
  /\ NoLimit \notin Remaining /\ Durations \subseteq Remaining
  /\ \A d \in Durations : d > 0
  /\ \A n \in Remaining : n > 0 => n - 1 \in Remaining
BY DurationAssumption, NoLimitAssumption DEF Durations, Remaining

\* Jobs stays opaque too.
LEMMA JobFacts ==
  /\ \A d \in Durations \cup {NoLimit}, display \in BOOLEAN, prompt \in BOOLEAN :
       [duration |-> d, display |-> display, prompt |-> prompt] \in Jobs
  /\ \A j \in Jobs : j.duration \in Durations \cup {NoLimit} /\ j.display \in BOOLEAN
BY DEF Jobs

\* A comparison is a truth value.
LEMMA ModeIsDisplay == (mode = "display") \in BOOLEAN
BY Zenon

\* What every handler ends with keeps its variables in their types.
LEMMA HandlerTypes ==
  /\ \A what \in Answers : Return(what) => pc' \in Steps /\ answer' \in Answers
  /\ \A step \in Steps : Continue(step) => pc' \in Steps /\ answer' \in Answers
  /\ \A pow \in Kinds, unlimited \in BOOLEAN :
       UpdateUi(pow, unlimited) => shown' \in Views
  /\ \A pow \in Kinds :
       noLimit \in BOOLEAN /\ Fail(pow) =>
         pc' \in Steps /\ answer' \in Answers /\ shown' \in Views
BY DEF Return, Continue, UpdateUi, Fail, Answers, Views, Steps, Kinds, Projection

\* A start that begins captures a well-typed job.
LEMMA BeginTypes ==
  ASSUME TypeOK, NEW prompt \in BOOLEAN, BeginStart(prompt)
  PROVE  TypeOK'
<1> USE DEF TypeOK, session, lidState, controls
<1> DEFINE duration == IF noLimit THEN NoLimit ELSE field
           useLid == ~noLimit /\ mode = "lid"
<1>1. CASE duration = Invalid \/ (useLid /\ hot)
  BY <1>1, HandlerTypes DEF BeginStart, Kinds
<1>2. CASE ~(duration = Invalid \/ (useLid /\ hot))
  <2>1. duration \in Durations \cup {NoLimit}
    BY <1>2
  <2>2. job' = [duration |-> duration, display |-> mode = "display", prompt |-> prompt]
    BY <1>2 DEF BeginStart
  <2>3. job' \in Jobs
    BY <2>1, <2>2, ModeIsDisplay, Zenon DEF Jobs
  <2>4. pc' \in Steps /\ answer' \in Answers
    BY <1>2, HandlerTypes DEF BeginStart, Steps
  <2> QED
    BY <1>2, <2>3, <2>4 DEF BeginStart
<1> QED
  BY <1>1, <1>2

-----------------------------------------------------------------------------
(* Type correctness *)

\* The initial state is of its types.
LEMMA InitTypes == Init => TypeOK
BY DurationFacts, JobFacts
   DEF Init, TypeOK, Steps, Kinds, Modes, Views, Exits, Answers

\* Every variable of AppSession stays within its type, for sessions of any length.
THEOREM Typing == Spec => []TypeOK
<1> USE DEF TypeOK, session, lidState, controls
<1>1. Init => TypeOK
  BY InitTypes
<1>2. TypeOK /\ [Next]_vars => TypeOK'
  <2> SUFFICES ASSUME TypeOK, [Next]_vars PROVE TypeOK'
    OBVIOUS
  <2> USE HandlerTypes
  <2>1. CASE ClickStart
    BY <2>1, BeginTypes DEF ClickStart
  <2>2. CASE ToggleStart
    BY <2>2, BeginTypes DEF ToggleStart
  <2>3. ASSUME NEW d \in Durations \cup {NoLimit}, NEW k \in BOOLEAN, StartCommand(d, k)
       PROVE  TypeOK'
    BY <2>3, JobFacts DEF StartCommand, Steps, Modes
  <2>4. CASE StartLid
    BY <2>4 DEF StartLid, Steps
  <2>5. CASE StartLidFails
    BY <2>5 DEF StartLidFails, FailedStart, Restored, Steps
  <2>6. CASE EndPrevious
    BY <2>6, ReleaseEffect DEF EndPrevious, TakeAll, Steps, Kinds
  <2>7. CASE Acquire
    BY <2>7, JobFacts, DurationFacts DEF Acquire, Steps, Kinds, Answers
  <2>8. CASE AcquireFails
    BY <2>8 DEF AcquireFails, Steps
  <2>9. CASE Schedule
    BY <2>9, JobFacts, ReleaseEffect DEF Schedule, TakeAll, Steps, Kinds,
           Answers
  <2>10. CASE Install
    BY <2>10 DEF Install, Answers
  <2>11. CASE Rollback
    BY <2>11, ReleaseEffect DEF Rollback
  <2>12. CASE Authorize
    BY <2>12 DEF Authorize, Restored, Steps
  <2>13. CASE Stop
    BY <2>13, ReleaseEffect DEF Stop, StopSession, TakeAll, Answers, Kinds
  <2>14. CASE ExpiryFires
    BY <2>14, ReleaseEffect DEF ExpiryFires, StopSession, TakeAll, Answers,
           Kinds
  <2>15. CASE ThermalFires
    BY <2>15, ReleaseEffect DEF ThermalFires, Answers, Modes
  <2>16. CASE QuitCommand
    BY <2>16, ReleaseEffect DEF QuitCommand, StopSession, TakeAll, Answers,
           Kinds, Exits
  <2>17. CASE QuitMenu
    BY <2>17, ReleaseEffect DEF QuitMenu, StopSession, TakeAll, Answers,
           Kinds, Exits
  <2>18. CASE Teardown
    BY <2>18, ReleaseEffect DEF Teardown, StopSession, TakeAll, Answers,
           Kinds, Exits
  <2>19. CASE Relaunch
    BY <2>19, DurationFacts, ReleaseEffect DEF Relaunch, Answers, Modes, Exits
  <2>20. ASSUME NEW m \in Modes, SelectMode(m)
       PROVE  TypeOK'
    BY <2>20 DEF SelectMode, Input, Answers
  <2>21. CASE ToggleNoLimit
    BY <2>21 DEF ToggleNoLimit, Input, Answers, Modes
  <2>22. ASSUME NEW d \in Durations \cup {Invalid}, EnterDuration(d)
       PROVE  TypeOK'
    BY <2>22 DEF EnterDuration, Input, Answers
  <2>23. CASE Tick
    BY <2>23, DurationFacts DEF Tick, Answers, Finite
  <2>24. CASE HeatChanges
    BY <2>24 DEF HeatChanges, Answers
  <2>25. CASE UNCHANGED vars
    BY <2>25 DEF vars
  <2> QED
    BY <2>1, <2>2, <2>3, <2>4, <2>5, <2>6, <2>7, <2>8, <2>9, <2>10, <2>11,
           <2>12, <2>13, <2>14, <2>15, <2>16, <2>17, <2>18, <2>19, <2>20,
           <2>21, <2>22, <2>23, <2>24, <2>25 DEF Next, Proceed
<1> QED
  BY <1>1, <1>2, PTL DEF Spec

-----------------------------------------------------------------------------
(* The invariant *)

Invariants == Staging /\ Attached /\ Quiescent /\ LidHasEffect
                /\ NoLostSuppression /\ UiFresh /\ NoUnlimitedLid

\* Every step keeps the invariant, if the clock does not jump in a start.
LEMMA InvariantStep ==
  ASSUME TypeOK, Invariants, ~JumpInStart, [Next]_vars
  PROVE  Invariants'
<1> USE DurationFacts, JobFacts
    DEF TypeOK, Modes, Steps, session, lidState, controls, Running,
        Kinds, Views, Exits, Answers, Active, Finite, UpdateUi, Projection, Return, Continue, Fail, Invariants,
        Staging, Attached, Quiescent, LidHasEffect, NoLostSuppression, UiFresh,
        NoUnlimitedLid
<1>1. CASE ClickStart
  BY <1>1, ModeIsDisplay DEF ClickStart, BeginStart
<1>2. CASE ToggleStart
  BY <1>2, ModeIsDisplay DEF ToggleStart, BeginStart
<1>3. ASSUME NEW d \in Durations \cup {NoLimit}, NEW k \in BOOLEAN, StartCommand(d, k)
     PROVE  Invariants'
  BY <1>3 DEF StartCommand
<1>4. CASE StartLid
  BY <1>4 DEF StartLid
<1>5. CASE StartLidFails
  BY <1>5 DEF StartLidFails, FailedStart, Restored
<1>6. CASE EndPrevious
  BY <1>6, ReleaseEffect DEF EndPrevious, TakeAll
<1>7. CASE Acquire
  BY <1>7 DEF Acquire
<1>8. CASE AcquireFails
  BY <1>8 DEF AcquireFails
<1>9. CASE Schedule
  BY <1>9, ReleaseEffect DEF Schedule, TakeAll
<1>10. CASE Install
  BY <1>10 DEF Install
<1>11. CASE Rollback
  BY <1>11, ReleaseEffect DEF Rollback
<1>12. CASE Authorize
  BY <1>12 DEF Authorize, Restored
<1>13. CASE Stop
  BY <1>13, ReleaseEffect DEF Stop, StopSession, TakeAll
<1>14. CASE ExpiryFires
  BY <1>14, ReleaseEffect DEF ExpiryFires, StopSession, TakeAll
<1>15. CASE ThermalFires
  BY <1>15, ReleaseEffect DEF ThermalFires
<1>16. CASE QuitCommand
  BY <1>16, ReleaseEffect DEF QuitCommand, StopSession, TakeAll
<1>17. CASE QuitMenu
  BY <1>17, ReleaseEffect DEF QuitMenu, StopSession, TakeAll
<1>18. CASE Teardown
  BY <1>18, ReleaseEffect DEF Teardown, StopSession, TakeAll
<1>19. CASE Relaunch
  BY <1>19, ReleaseEffect DEF Relaunch
<1>20. ASSUME NEW m \in Modes, SelectMode(m)
     PROVE  Invariants'
  BY <1>20 DEF SelectMode, Input
<1>21. CASE ToggleNoLimit
  BY <1>21 DEF ToggleNoLimit, Input
<1>22. ASSUME NEW d \in Durations \cup {Invalid}, EnterDuration(d)
     PROVE  Invariants'
  BY <1>22 DEF EnterDuration, Input
<1>23. CASE Tick
  BY <1>23 DEF Tick
<1>24. CASE HeatChanges
  BY <1>24 DEF HeatChanges
<1>25. CASE UNCHANGED vars
  BY <1>25 DEF vars
<1> QED
  BY <1>1, <1>2, <1>3, <1>4, <1>5, <1>6, <1>7, <1>8, <1>9, <1>10, <1>11,
         <1>12, <1>13, <1>14, <1>15, <1>16, <1>17, <1>18, <1>19, <1>20, <1>21,
         <1>22, <1>23, <1>24, <1>25 DEF Next, Proceed

\* IInv is inductive.
LEMMA Inductive ==
  ASSUME ~JumpInStart
  PROVE  Spec => []IInv
<1>1. Init => IInv
  <2> SUFFICES ASSUME Init PROVE IInv
    OBVIOUS
  <2>1. TypeOK
    BY InitTypes
  <2>2. Staging /\ Attached /\ Quiescent
    BY DEF Init, Staging, Attached, Quiescent, Running, Active
  <2>3. LidHasEffect /\ NoLostSuppression /\ UiFresh /\ NoUnlimitedLid
    BY DEF Init, LidHasEffect, NoLostSuppression, UiFresh, NoUnlimitedLid, Projection
  <2> QED
    BY <2>1, <2>2, <2>3 DEF IInv
<1>2. TypeOK /\ TypeOK' /\ IInv /\ [Next]_vars => IInv'
  BY InvariantStep DEF IInv, Invariants
<1> QED
  BY <1>1, <1>2, Typing, PTL DEF Spec

\* Lid-closed mode runs only inside a session that has an end.
THEOREM Bounded ==
  ASSUME ~JumpInStart
  PROVE  Spec => []LidIsBounded
<1>1. IInv => LidIsBounded
  BY DEF IInv, Attached, LidIsBounded, Active
<1> QED
  BY <1>1, Inductive, PTL

\* Between handlers the timers are those of the session.
THEOREM TimersFollow ==
  ASSUME ~JumpInStart
  PROVE  Spec => []TimersMatch
<1>1. IInv => TimersMatch
  BY DEF IInv, TypeOK, Attached, TimersMatch
<1> QED
  BY <1>1, Inductive, PTL

\* The installed lid session has effect.
THEOREM Effective ==
  ASSUME ~JumpInStart
  PROVE  Spec => []LidHasEffect
BY Inductive, PTL DEF IInv

\* No path of the code forgets a suppression.
THEOREM NothingLost ==
  ASSUME ~JumpInStart
  PROVE  Spec => []NoLostSuppression
BY Inductive, PTL DEF IInv

\* Between handlers the popover shows the state it is in.
THEOREM PopoverFollows ==
  ASSUME ~JumpInStart
  PROVE  Spec => []UiFresh
BY Inductive, PTL DEF IInv

\* No order of clicks, commands and cutoffs selects lid-closed mode without a limit.
THEOREM NeverUnlimited ==
  ASSUME ~JumpInStart
  PROVE  Spec => []NoUnlimitedLid
BY Inductive, PTL DEF IInv

-----------------------------------------------------------------------------
(* AppSession implements KeepAwake *)

\* Each action does one of five things to what KeepAwake sees.
LEMMA StepShape ==
  ASSUME TypeOK, [Next]_vars
  PROVE  \/ UNCHANGED <<power, lid>> /\ (Finite' <=> Finite)
         \/ TakeAll
         \/ Acquire \/ Install \/ ThermalFires
<1> USE DEF session, lidState, controls, Finite
<1>1. CASE Tick
  BY <1>1, DurationFacts DEF Tick, TypeOK
<1>2. CASE ~Tick
  BY <1>2 DEF Next, Proceed, vars, ClickStart, ToggleStart, BeginStart, StartCommand,
     StartLid, StartLidFails, EndPrevious, AcquireFails, Schedule, Rollback, Authorize,
     Stop, ExpiryFires, QuitCommand, QuitMenu, Teardown, StopSession, Relaunch,
     SelectMode, ToggleNoLimit, EnterDuration, HeatChanges
<1> QED
  BY <1>1, <1>2

\* The safety half of the promise: no session begins on top of another, lid-closed
\* mode begins only inside a limited session in the system mode, and ends with it or
\* before it.
THEOREM KeepsPromise ==
  ASSUME ~JumpInStart
  PROVE  Spec => PromiseKept
<1>1. Init => Promise!Init
  BY DEF Init, Promise!Init, Active, Finite
<1>2. IInv /\ [Next]_vars => [Promise!Next]_(Promise!vars)
  <2> SUFFICES ASSUME IInv, [Next]_vars
               PROVE  Promise!Next \/ UNCHANGED Promise!vars
    OBVIOUS
  <2> USE DEF IInv, TypeOK, Kinds, Active, Finite
  <2>1. CASE UNCHANGED <<power, lid>> /\ (Finite' <=> Finite)
    BY <2>1 DEF Promise!vars
  <2>2. CASE TakeAll
    BY <2>2 DEF TakeAll, Promise!vars, Promise!Next, Promise!End, Attached
  <2>3. CASE Acquire
    <3>1. Promise!Begin
      BY <2>3, DurationFacts, JobFacts DEF Acquire, Promise!Begin, Staging, Attached, lidState
    <3> QED
      BY <3>1 DEF Promise!Next
  <2>4. CASE Install
    BY <2>4 DEF Install, Promise!Next, Promise!CloseLid, Staging, session
  <2>5. CASE ThermalFires
    BY <2>5 DEF ThermalFires, Promise!Next, Promise!CutLid, Attached, session
  <2> QED
    BY <2>1, <2>2, <2>3, <2>4, <2>5, StepShape
<1> QED
  BY <1>1, <1>2, Inductive, PTL DEF Spec, PromiseKept, Promise!Spec

-----------------------------------------------------------------------------
(* What the handlers report *)

\* A report is never contradicted by the state it leaves behind.
THEOREM ReportsTrue ==
  ASSUME ~JumpInStart
  PROVE  Spec => AnswerTruthful
<1>1. IInv /\ IInv' /\ [Next]_vars => [ReportIsTrue]_vars
  <2> SUFFICES ASSUME IInv, IInv', Next PROVE ReportIsTrue
    OBVIOUS
  <2> USE DEF ReportIsTrue, IInv, Staging, Attached, NoLostSuppression, LidHasEffect,
              session, lidState, Active, Finite, Return, Continue, Fail
  <2>1. CASE ClickStart \/ ToggleStart
    BY <2>1 DEF ClickStart, ToggleStart, BeginStart
  <2>2. CASE StartLidFails \/ Authorize
    BY <2>2 DEF StartLidFails, FailedStart, Authorize, Restored
  <2>3. CASE EndPrevious
    BY <2>3, ReleaseEffect DEF EndPrevious, TakeAll, TypeOK
  <2>4. CASE Acquire
    BY <2>4 DEF Acquire
  <2>5. CASE AcquireFails
    BY <2>5 DEF AcquireFails
  <2>6. CASE Schedule
    BY <2>6, DurationFacts, JobFacts DEF Schedule, TypeOK
  <2>7. CASE Install
    BY <2>7 DEF Install
  <2>8. CASE Rollback
    BY <2>8, ReleaseEffect DEF Rollback, TypeOK
  <2>9. CASE Stop \/ QuitCommand
    BY <2>9, ReleaseEffect DEF Stop, QuitCommand, StopSession, TakeAll, TypeOK
  <2>10. CASE answer' = "none"
    BY <2>10
  <2> QED
    BY <2>1, <2>2, <2>3, <2>4, <2>5, <2>6, <2>7, <2>8, <2>9, <2>10
       DEF Next, Proceed, StartCommand, StartLid, ExpiryFires, ThermalFires, QuitMenu,
           Teardown, Relaunch, SelectMode, ToggleNoLimit, EnterDuration, Input, Tick,
           HeatChanges
<1> QED
  BY <1>1, Inductive, PTL DEF Spec, AnswerTruthful

-----------------------------------------------------------------------------
(* AppSession keeps to LidMode *)

\* Each action does one of six things to the lid session and to the setting.
LEMMA SettingShape ==
  ASSUME IInv, [Next]_vars
  PROVE  \/ UNCHANGED <<sleepDisabled, leaked>> /\ ((lid \/ held)' <=> (lid \/ held))
         \/ StartLid \/ StartLidFails \/ Authorize \/ Rollback \/ Relaunch
         \/ /\ \E ok \in BOOLEAN : Release(lid, ok)
            /\ lid' = FALSE /\ UNCHANGED held
<1> USE DEF lidState
<1>1. CASE Schedule
  BY <1>1 DEF Schedule, TakeAll
<1>2. CASE ExpiryFires
  BY <1>2 DEF ExpiryFires, StopSession, TakeAll
<1>3. CASE EndPrevious \/ Stop \/ QuitCommand \/ QuitMenu \/ Teardown
  BY <1>3 DEF EndPrevious, Stop, QuitCommand, QuitMenu, Teardown, StopSession, TakeAll
<1>4. CASE Install
  BY <1>4 DEF Install, IInv, Staging
<1> QED
  BY <1>1, <1>2, <1>3, <1>4
     DEF Next, Proceed, vars, ClickStart, ToggleStart, BeginStart, StartCommand, Acquire,
         AcquireFails, ThermalFires, SelectMode, ToggleNoLimit, EnterDuration, Tick,
         HeatChanges

\* Every handler, on every path, treats the setting as LidMode allows: LidGuardian
\* implements the same specification, so what is taken for one step here is what a
\* call and its guardian amount to there.
THEOREM LidPromiseHolds ==
  ASSUME ~JumpInStart
  PROVE  Spec => LidPromiseKept
<1>1. Init => LidPromise!ModeInit
  BY DEF Init, LidPromise!ModeInit
<1>2. IInv /\ IInv' /\ [Next]_vars => [LidPromise!ModeNext]_(LidPromise!modeVars)
  <2> SUFFICES ASSUME IInv, IInv', [Next]_vars
               PROVE  LidPromise!ModeNext \/ UNCHANGED LidPromise!modeVars
    OBVIOUS
  <2>0. /\ lid \in BOOLEAN /\ held \in BOOLEAN /\ sleepDisabled \in BOOLEAN /\ leaked \in BOOLEAN
        /\ ~(lid /\ held)
        /\ pc \in {"startLid", "retryLid", "authorize"} => ~lid /\ ~held
        /\ pc = "rollback" => held
        /\ ~Running => ~lid /\ ~held
        /\ sleepDisabled => lid \/ held \/ leaked
    BY DEF IInv, TypeOK, Staging, Attached, Quiescent, NoLostSuppression, Active
  <2>1. CASE UNCHANGED <<sleepDisabled, leaked>> /\ ((lid \/ held)' <=> (lid \/ held))
    BY <2>1 DEF LidPromise!modeVars
  <2>2. CASE StartLid
    BY <2>0, <2>2 DEF StartLid, LidPromise!ModeNext, LidPromise!Start
  <2>3. CASE StartLidFails
    <3>1. UNCHANGED LidPromise!modeVars \/ LidPromise!Clean \/ LidPromise!StartFails
      BY <2>0, <2>3
         DEF StartLidFails, FailedStart, Restored, LidPromise!StartFails, LidPromise!Clean,
             LidPromise!Restored, LidPromise!modeVars
    <3> QED
      BY <3>1 DEF LidPromise!ModeNext
  <2>4. CASE Authorize
    BY <2>0, <2>4
       DEF Authorize, Restored, LidPromise!ModeNext, LidPromise!modeVars, LidPromise!Clean,
           LidPromise!Restored
  <2>5. CASE Rollback
    BY <2>0, <2>5
       DEF Rollback, Release, Restored, RestoreFailed, LidPromise!ModeNext, LidPromise!Stop,
           LidPromise!Restored, LidPromise!NotRestored
  <2>6. CASE Relaunch
    BY <2>0, <2>6
       DEF Relaunch, Release, Restored, RestoreFailed, LidPromise!ModeNext, LidPromise!Clean,
           LidPromise!Restored, LidPromise!modeVars
  <2>7. CASE /\ \E ok \in BOOLEAN : Release(lid, ok)
             /\ lid' = FALSE /\ UNCHANGED held
    <3>1. CASE lid
      BY <2>0, <2>7, <3>1
         DEF Release, Restored, RestoreFailed, LidPromise!ModeNext, LidPromise!Stop,
             LidPromise!Restored, LidPromise!NotRestored
    <3>2. CASE ~lid
      BY <2>0, <2>7, <3>2 DEF Release, LidPromise!modeVars
    <3> QED
      BY <3>1, <3>2
  <2> QED
    BY <2>1, <2>2, <2>3, <2>4, <2>5, <2>6, <2>7, SettingShape
<1> QED
  BY <1>1, <1>2, Inductive, PTL DEF Spec, LidPromiseKept, LidPromise!ModeSpec

\* The other way round: AppSession leaves out nothing that LidMode, and so a guardian,
\* may do to a start that succeeds, to one that fails, or to a stop.
THEOREM NoOutcomeLeftOut ==
  ASSUME TypeOK
  PROVE  /\ LidPromise!Start => sleepDisabled' = TRUE /\ UNCHANGED leaked
         /\ LidPromise!Clean \/ LidPromise!StartFails \/ UNCHANGED LidPromise!modeVars
              => FailedStart
         /\ LidPromise!Stop => \E ok \in BOOLEAN : Release(TRUE, ok)
<1> USE DEF LidPromise!Restored, LidPromise!modeVars
<1>1. LidPromise!Start => sleepDisabled' = TRUE /\ UNCHANGED leaked
  BY DEF LidPromise!Start
<1>2. LidPromise!Clean \/ LidPromise!StartFails \/ UNCHANGED LidPromise!modeVars => FailedStart
  BY DEF LidPromise!Clean, LidPromise!StartFails, FailedStart, Restored
<1>3. LidPromise!Stop => Release(TRUE, TRUE) \/ Release(TRUE, FALSE)
  BY DEF LidPromise!Stop, LidPromise!NotRestored, Release, Restored, RestoreFailed
<1> QED
  BY <1>1, <1>2, <1>3

-----------------------------------------------------------------------------
(* What is left out may be left out *)

\* What the code guards against and never meets: a start of lid-closed mode or an
\* installation with another lid session at hand, a thermal timer without one, a start
\* that has nothing to give up.
Unmet ==
  /\ pc \in {"startLid", "authorize", "retryLid"} => ~lid /\ ~held
  /\ pc = "install" => ~lid /\ held
  /\ pc = "rollback" => ~lid /\ held
  /\ thermal => lid

\* Install leaves out what install_lid_session does to a previous session, and
\* ThermalFires what check_thermal_state does without one; LidGuardian starts a session
\* only when there is none: none of this restricts the program, as long as the clock does
\* not pass the end of a session within its start (session_jump).
THEOREM BranchesDead ==
  ASSUME ~JumpInStart
  PROVE  Spec => []Unmet
<1>1. IInv => Unmet
  BY DEF IInv, Staging, Attached, Active, Unmet
<1> QED
  BY <1>1, Inductive, PTL

\* An instance that has ended, by Quit, by the timer of QUIT or by the system, has taken
\* everything with it: also a session that a command started while a QUIT was pending.
EndedClean ==
  ~Running => /\ ~(Active \/ lid \/ held \/ expiry \/ thermal)
              /\ sleepDisabled => leaked

\* The next instance inherits nothing but what a failed reset has left.
THEOREM EndsClean ==
  ASSUME ~JumpInStart
  PROVE  Spec => []EndedClean
<1>1. IInv => EndedClean
  BY DEF IInv, Staging, Attached, Quiescent, NoLostSuppression, Active, EndedClean
<1> QED
  BY <1>1, Inductive, PTL

\* How far a start has to go: at most a refused guardian, one authorization dialog, one
\* more guardian, and start_session.
Ahead ==
  CASE pc = "startLid" -> 7 [] pc = "authorize" -> 6 [] pc = "retryLid" -> 5
    [] pc = "startSession" -> 4 [] pc = "acquire" -> 3 [] pc = "schedule" -> 2
    [] pc \in {"install", "rollback"} -> 1 [] OTHER -> 0

\* A start under way only goes forward, and no other handler moves it.
StartAdvances == [][pc # "idle" => UNCHANGED pc \/ Ahead' < Ahead]_vars

\* Whatever fails on the way, a start prompts once at most and returns to the run loop,
\* also when it is rolled back: what QuitCompletes needs of it beside fairness.
THEOREM StartsReturn == Spec => StartAdvances
<1>1. ASSUME Next, pc # "idle"
      PROVE  UNCHANGED pc \/ Ahead' < Ahead
  <2> USE <1>1 DEF Ahead, Continue, Return, Fail
  <2>1. CASE StartLid \/ StartLidFails \/ Authorize
    BY <2>1 DEF StartLid, StartLidFails, Authorize
  <2>2. CASE EndPrevious \/ Acquire \/ AcquireFails
    BY <2>2 DEF EndPrevious, Acquire, AcquireFails
  <2>3. CASE Schedule
    <3>1. pc = "schedule" /\ pc' \in {"install", "idle"}
      BY <2>3 DEF Schedule
    <3> QED
      BY <3>1
  <2>4. CASE Install \/ Rollback
    <3>1. pc' = "idle" /\ (pc = "install" \/ pc = "rollback")
      BY <2>4 DEF Install, Rollback
    <3> QED
      BY <3>1
  <2>5. CASE Tick \/ HeatChanges
    BY <2>5 DEF Tick, HeatChanges
  <2>6. CASE Relaunch
    BY <2>6 DEF Relaunch
  <2>7. ~(ClickStart \/ ToggleStart \/ Stop \/ ExpiryFires \/ ThermalFires)
    BY DEF ClickStart, ToggleStart, BeginStart, Stop, ExpiryFires, ThermalFires
  <2>8. ~(QuitCommand \/ QuitMenu \/ Teardown \/ ToggleNoLimit)
    BY DEF QuitCommand, QuitMenu, Teardown, ToggleNoLimit, Input
  <2>9. \A d, display, m : ~StartCommand(d, display) /\ ~SelectMode(m) /\ ~EnterDuration(d)
    BY DEF StartCommand, SelectMode, EnterDuration, Input
  <2> QED
    BY <2>1, <2>2, <2>3, <2>4, <2>5, <2>6, <2>7, <2>8, <2>9 DEF Next, Proceed
<1>2. [Next]_vars => [pc # "idle" => UNCHANGED pc \/ Ahead' < Ahead]_vars
  BY <1>1
<1> QED
  BY <1>2, PTL DEF Spec, StartAdvances
=============================================================================
