------------------------- MODULE LidGuardianProofs -------------------------
(***************************************************************************)
(* Proofs about LidGuardian, for any set of guardians.                     *)
(*                                                                         *)
(* The safety invariant of the module is not inductive: a step of the main *)
(* thread (a reap, a crash) loses nothing only because of what `lid`,      *)
(* `call` and `orphans` name between them.  IInv adds that bookkeeping.    *)
(***************************************************************************)
EXTENDS LidCaller, TLAPS

\* An installed session is a guardian of this instance, waiting on the pipe whose
\* write end we hold: without the pipe it would be about to reset.
InstalledWaits ==
  lid # None => /\ app = "idle"
                /\ lid \in pipes
                /\ phase[lid] = "waiting"
                /\ lid \notin orphans

\* `call`, set exactly while a blocking call is under way (TypeOK), names a process
\* of this instance that has not been reaped.
CallHeld ==
  /\ call # None => call \notin orphans /\ phase[call] # "free"
  /\ Starting => call \in pipes

IInv ==
  /\ TypeOK
  /\ InstalledWaits
  /\ CallHeld
  /\ EveryGuardianHeld
  /\ SuppressionOwned

-----------------------------------------------------------------------------
(* Type correctness *)

\* Every variable of LidGuardian stays within its type, for any set of guardians.
THEOREM Typing == Spec => []TypeOK
<1>1. Init => TypeOK
  BY DEF Init, TypeOK, AppPhases, Live, Exited, InCall, Starting
<1>2. TypeOK /\ [Next]_vars => TypeOK'
  <2> SUFFICES ASSUME TypeOK, [Next]_vars PROVE TypeOK'
    OBVIOUS
  <2> USE NoneAssumption DEF TypeOK, AppPhases, Live, Exited, AfterFirstFailure, InCall,
        Starting
  <2>1. CASE Launch
    BY <2>1 DEF Launch
  <2>2. CASE RecoverQuery
    BY <2>2 DEF RecoverQuery
  <2>3. CASE RecoverReset
    BY <2>3 DEF RecoverReset, RestoreSleep
  <2>4. ASSUME NEW g \in Guardians, StartLid(g) PROVE TypeOK'
    BY <2>4 DEF StartLid, Spawn
  <2>5. CASE SpawnFails
    BY <2>5 DEF SpawnFails
  <2>6. CASE Install
    BY <2>6 DEF Install
  <2>7. CASE PowerFails
    BY <2>7 DEF PowerFails
  <2>8. CASE StartRejected
    BY <2>8 DEF StartRejected
  <2>9. ASSUME NEW g \in Guardians, Authorize(g) PROVE TypeOK'
    BY <2>9 DEF Authorize, Spawn, RestoreSleep
  <2>10. CASE AuthorizeFails
    BY <2>10 DEF AuthorizeFails, RestoreSleep
  <2>11. CASE StopLid
    BY <2>11 DEF StopLid
  <2>12. CASE Reap
    BY <2>12 DEF Reap
  <2>13. CASE Terminate
    BY <2>13 DEF Terminate
  <2>14. ASSUME NEW g \in Guardians, GuardianStep(g) PROVE TypeOK'
    <3>1. CASE Enable(g)
      BY <3>1 DEF Enable
    <3>2. CASE EnableFails(g)
      BY <3>2 DEF EnableFails, Exit
    <3>3. CASE ReadEof(g)
      BY <3>3 DEF ReadEof
    <3>4. CASE Reset(g)
      BY <3>4 DEF Reset, Exit, RestoreSleep
    <3>5. CASE ResetFails(g)
      BY <3>5 DEF ResetFails, Exit
    <3> QED
      BY <2>14, <3>1, <3>2, <3>3, <3>4, <3>5 DEF GuardianStep
  <2>15. CASE UNCHANGED vars
    BY <2>15 DEF vars
  <2> QED
    BY <2>1, <2>2, <2>3, <2>4, <2>5, <2>6, <2>7, <2>8, <2>9, <2>10, <2>11,
       <2>12, <2>13, <2>14, <2>15 DEF Next, Returns
<1> QED
  BY <1>1, <1>2, PTL DEF Spec

-----------------------------------------------------------------------------
(* The bookkeeping of guardian processes *)

Bookkeeping == InstalledWaits /\ CallHeld /\ EveryGuardianHeld

\* Every step keeps the bookkeeping: the main thread's fields and the orphans
\* account for every guardian process, each where its role says.
LEMMA BookkeepingStep ==
  ASSUME TypeOK, Bookkeeping, [Next]_vars
  PROVE  Bookkeeping'
<1> USE NoneAssumption DEF TypeOK, AppPhases, Live, Exited, AfterFirstFailure,
    Bookkeeping, InstalledWaits, CallHeld, EveryGuardianHeld,
    InCall, Starting
<1>1. CASE Launch
  BY <1>1 DEF Launch
<1>2. CASE RecoverQuery
  BY <1>2 DEF RecoverQuery
<1>3. CASE RecoverReset
  BY <1>3 DEF RecoverReset
<1>4. ASSUME NEW g \in Guardians, StartLid(g) PROVE Bookkeeping'
  BY <1>4 DEF StartLid, Spawn
<1>5. CASE SpawnFails
  BY <1>5 DEF SpawnFails
<1>6. CASE Install
  BY <1>6 DEF Install
<1>7. CASE PowerFails
  BY <1>7 DEF PowerFails
<1>8. CASE StartRejected
  BY <1>8 DEF StartRejected
<1>9. ASSUME NEW g \in Guardians, Authorize(g) PROVE Bookkeeping'
  BY <1>9 DEF Authorize, Spawn
<1>10. CASE AuthorizeFails
  BY <1>10 DEF AuthorizeFails
<1>11. CASE StopLid
  BY <1>11 DEF StopLid
<1>12. CASE Reap
  BY <1>12 DEF Reap
<1>13. CASE Terminate
  BY <1>13 DEF Terminate
<1>14. ASSUME NEW g \in Guardians, GuardianStep(g) PROVE Bookkeeping'
  <2>1. CASE Enable(g)
    BY <2>1 DEF Enable
  <2>2. CASE EnableFails(g)
    BY <2>2 DEF EnableFails, Exit
  <2>3. CASE ReadEof(g)
    BY <2>3 DEF ReadEof
  <2>4. CASE Reset(g)
    BY <2>4 DEF Reset, Exit
  <2>5. CASE ResetFails(g)
    BY <2>5 DEF ResetFails, Exit
  <2> QED
    BY <1>14, <2>1, <2>2, <2>3, <2>4, <2>5 DEF GuardianStep
<1>15. CASE UNCHANGED vars
  BY <1>15 DEF vars
<1> QED
  BY <1>1, <1>2, <1>3, <1>4, <1>5, <1>6, <1>7, <1>8, <1>9, <1>10, <1>11,
     <1>12, <1>13, <1>14, <1>15 DEF Next, Returns

-----------------------------------------------------------------------------
(* Sleep suppression is always owned *)

\* Every step leaves the suppression with an owner, or with a failed reset.
LEMMA OwnedStep ==
  ASSUME TypeOK, Bookkeeping, SuppressionOwned, [Next]_vars
  PROVE  SuppressionOwned'
<1> USE DEF TypeOK, SuppressionOwned, Owner, Live, Exited, InCall, Starting
<1>1. CASE Launch
  BY <1>1 DEF Launch
<1>2. CASE RecoverQuery
  BY <1>2 DEF RecoverQuery
<1>3. CASE RecoverReset
  BY <1>3 DEF RecoverReset, RestoreSleep
<1>4. ASSUME NEW g \in Guardians, StartLid(g) PROVE SuppressionOwned'
  BY <1>4 DEF StartLid, Spawn
<1>5. CASE SpawnFails
  BY <1>5 DEF SpawnFails
<1>6. CASE Install
  BY <1>6 DEF Install
<1>7. CASE PowerFails
  BY <1>7 DEF PowerFails
<1>8. CASE StartRejected
  BY <1>8 DEF StartRejected
<1>9. ASSUME NEW g \in Guardians, Authorize(g) PROVE SuppressionOwned'
  BY <1>9 DEF Authorize, RestoreSleep
<1>10. CASE AuthorizeFails
  BY <1>10 DEF AuthorizeFails, RestoreSleep
<1>11. CASE StopLid
  BY <1>11 DEF StopLid
<1>12. CASE Reap
  BY <1>12 DEF Reap
<1>13. CASE Terminate
  BY <1>13 DEF Terminate
<1>14. ASSUME NEW g \in Guardians, GuardianStep(g) PROVE SuppressionOwned'
  <2>1. CASE Enable(g)
    BY <2>1 DEF Enable
  <2>2. CASE EnableFails(g)
    BY <2>2 DEF EnableFails, Exit
  <2>3. CASE ReadEof(g)
    BY <2>3 DEF ReadEof
  <2>4. CASE Reset(g)
    BY <2>4 DEF Reset, RestoreSleep
  <2>5. CASE ResetFails(g)
    BY <2>5 DEF ResetFails
  <2> QED
    BY <1>14, <2>1, <2>2, <2>3, <2>4, <2>5 DEF GuardianStep
<1>15. CASE UNCHANGED vars
  BY <1>15 DEF vars
<1> QED
  BY <1>1, <1>2, <1>3, <1>4, <1>5, <1>6, <1>7, <1>8, <1>9, <1>10, <1>11,
     <1>12, <1>13, <1>14, <1>15 DEF Next, Returns

\* IInv is inductive.
LEMMA Inductive == Spec => []IInv
<1>1. Init => IInv
  BY NoneAssumption
     DEF Init, IInv, TypeOK, AppPhases, Live, Exited, InstalledWaits, CallHeld, InCall,
         Starting, EveryGuardianHeld, SuppressionOwned
<1>2. TypeOK /\ TypeOK' /\ IInv /\ [Next]_vars => IInv'
  BY BookkeepingStep, OwnedStep DEF IInv, Bookkeeping
<1> QED
  BY <1>1, <1>2, Typing, PTL DEF Spec

\* Whatever the number of guardians, crashes and relaunches: sleep is never
\* suppressed without a guardian that will lift it, unless a reset failed.
THEOREM Owned == Spec => []SuppressionOwned
BY Inductive, PTL DEF IInv

\* No guardian process is ever lost, left a zombie, or run beside another of the
\* same instance.
THEOREM Held == Spec => []EveryGuardianHeld
BY Inductive, PTL DEF IInv

-----------------------------------------------------------------------------
(* Nobody waits for somebody who waits for him *)

\* The write end of a guardian's stdin is open only while its session is installed or
\* being started, and a guardian does not reset before it is closed.
PipesClosed ==
  /\ \A g \in Guardians : g \in pipes <=> g = lid \/ (Starting /\ g = call)
  /\ \A g \in pipes : phase[g] \in {"enabling", "waiting", "exitErr"}
  /\ \A g \in orphans : phase[g] \in Live

\* The safety part of CallsReturn and CrashRestores: the guardian that finish waits for
\* and one left by a crash do not wait for end of file in vain, and while start waits
\* for the acknowledgment there is a line or the end of the pipe to come.
NoMutualWait ==
  /\ app \in {"abandoning", "stopping"} => call \notin pipes
  /\ \A g \in orphans : g \notin pipes /\ phase[g] \in Live
  /\ Starting => phase[call] \in {"enabling", "waiting", "exitErr"}

\* Every step that opens or closes a pipe does so with the session it belongs to.
LEMMA PipesStep ==
  ASSUME IInv, PipesClosed, [Next]_vars
  PROVE  PipesClosed'
<1> USE NoneAssumption DEF IInv, TypeOK, AppPhases, Live, Exited, AfterFirstFailure,
    InstalledWaits, CallHeld, EveryGuardianHeld, InCall, Starting, PipesClosed
<1>1. CASE Launch \/ RecoverQuery \/ RecoverReset
  BY <1>1 DEF Launch, RecoverQuery, RecoverReset
<1>2. ASSUME NEW g \in Guardians, StartLid(g) \/ Authorize(g) PROVE PipesClosed'
  BY <1>2 DEF StartLid, Authorize, Spawn
<1>3. CASE SpawnFails \/ AuthorizeFails
  BY <1>3 DEF SpawnFails, AuthorizeFails
<1>4. CASE Install
  BY <1>4 DEF Install
<1>5. CASE PowerFails \/ StartRejected
  BY <1>5 DEF PowerFails, StartRejected
<1>6. CASE StopLid
  BY <1>6 DEF StopLid
<1>7. CASE Reap
  BY <1>7 DEF Reap
<1>8. CASE Terminate
  BY <1>8 DEF Terminate
<1>9. ASSUME NEW g \in Guardians, GuardianStep(g) PROVE PipesClosed'
  <2>1. CASE Enable(g) \/ ReadEof(g)
    BY <2>1 DEF Enable, ReadEof
  <2>2. CASE EnableFails(g)
    BY <2>2 DEF EnableFails, Exit
  <2>3. CASE Reset(g) \/ ResetFails(g)
    BY <2>3 DEF Reset, ResetFails, Exit
  <2> QED
    BY <1>9, <2>1, <2>2, <2>3 DEF GuardianStep
<1>10. CASE UNCHANGED vars
  BY <1>10 DEF vars
<1> QED
  BY <1>1, <1>2, <1>3, <1>4, <1>5, <1>6, <1>7, <1>8, <1>9, <1>10 DEF Next, Returns

\* Neither a stop nor a crash leaves a guardian waiting on a pipe that nobody will close,
\* however many guardians, failed starts and relaunches came before.
THEOREM NobodyWaitsInVain == Spec => []NoMutualWait
<1>1. Init => PipesClosed
  BY NoneAssumption DEF Init, PipesClosed, Starting
<1>2. IInv /\ PipesClosed => NoMutualWait
  BY NoneAssumption
     DEF IInv, TypeOK, CallHeld, EveryGuardianHeld, PipesClosed, NoMutualWait, InCall, Starting,
         InstalledWaits
<1> QED
  BY <1>1, <1>2, PipesStep, Inductive, PTL DEF Spec

-----------------------------------------------------------------------------
(* What a step may do to the setting *)

\* No reset of this instance lifts the suppression of its own running session:
\* only the late reset of an orphan can.
THEOREM NeverOvertaken == Spec => OwnResetsNeverOvertake
<1>1. IInv /\ [Next]_vars => [LiftedOnlyByOrphan]_vars
  <2> SUFFICES ASSUME IInv, Next, NEW g \in Guardians,
                      phase[g] = "waiting", g \notin orphans, phase'[g] = "waiting",
                      sleepDisabled, ~sleepDisabled'
               PROVE  \E o \in orphans : phase[o] = "resetting" /\ o \notin orphans'
    BY DEF LiftedOnlyByOrphan
  <2>1. lid = g \/ call = g
    BY DEF IInv, EveryGuardianHeld
  <2>2. \/ RecoverReset \/ AuthorizeFails
        \/ \E h \in Guardians : Authorize(h) \/ Reset(h)
    BY DEF Next, Returns, Launch, RecoverQuery, StartLid, SpawnFails, Install,
           PowerFails, StartRejected, StopLid, Reap, Terminate, GuardianStep,
           Enable, EnableFails, ReadEof, ResetFails
  <2>3. ~RecoverReset /\ ~AuthorizeFails /\ \A h \in Guardians : ~Authorize(h)
    BY <2>1, NoneAssumption
       DEF IInv, TypeOK, InstalledWaits, InCall, Starting, RecoverReset, AuthorizeFails,
           Authorize
  <2>4. PICK h \in Guardians : Reset(h)
    BY <2>2, <2>3
  <2>5. h \in orphans
    BY <2>1, <2>4, NoneAssumption DEF IInv, EveryGuardianHeld, Reset
  <2> QED
    BY <2>4, <2>5 DEF Reset, Exit
<1> QED
  BY <1>1, Inductive, PTL DEF Spec, OwnResetsNeverOvertake

\* A stop that reports success has restored sleep, unless an orphan of a crashed
\* instance is still to do so.
THEOREM StopKeepsPromise == Spec => StopRestores
<1>1. IInv /\ [Next]_vars => [SuccessMeansRestored]_vars
  <2> SUFFICES ASSUME IInv, Next, app = "stopping", app' = "idle",
                      phase[call] = "exitOk", orphans = {}
               PROVE  sleepDisabled' => unrestored'
    BY DEF SuccessMeansRestored
  <2>1. \A g \in Guardians : ~Owner(g)
    BY NoneAssumption DEF IInv, EveryGuardianHeld, InstalledWaits, Owner
  <2>2. sleepDisabled => unrestored
    BY <2>1 DEF IInv, SuppressionOwned
  <2>3. Reap
    BY DEF Next, Returns, Launch, RecoverQuery, RecoverReset, StartLid, SpawnFails,
           Install, PowerFails, StartRejected, Starting, Authorize, AuthorizeFails,
           StopLid, Terminate, GuardianStep, Enable, EnableFails, ReadEof, Reset,
           ResetFails
  <2> QED
    BY <2>2, <2>3 DEF Reap
<1> QED
  BY <1>1, Inductive, PTL DEF Spec, StopRestores
\* What InstalledAfterPreviousReset says, of one instance.
InstalledAlone ==
  (lid = None /\ lid' # None) =>
    \A g \in Guardians \ {lid'} : Owner(g) => g \in orphans

\* Without a crash before it, a session is installed only after every previous guardian
\* has finished resetting, as app_delegate.rs:548 says: the orphans of a crashed
\* instance are the one exception, and guardian_relaunch meets it.
THEOREM InstalledAfterOwnResets == Spec => [][InstalledAlone]_vars
<1>1. IInv /\ [Next]_vars => [InstalledAlone]_vars
  <2> SUFFICES ASSUME IInv, Next, lid = None, lid' # None,
                      NEW g \in Guardians \ {lid'}, Owner(g)
               PROVE  g \in orphans
    BY DEF InstalledAlone
  <2>1. Install
    BY DEF Next, Returns, Launch, RecoverQuery, RecoverReset, StartLid, Authorize, SpawnFails,
           AuthorizeFails, PowerFails, StartRejected, StopLid, Reap, Terminate,
           GuardianStep, Enable, EnableFails, ReadEof, Reset, ResetFails
  <2>2. phase[g] # "free" /\ g # call /\ g # lid
    BY <2>1, NoneAssumption DEF Owner, Install
  <2> QED
    BY <2>2 DEF IInv, EveryGuardianHeld
<1> QED
  BY <1>1, Inductive, PTL DEF Spec

-----------------------------------------------------------------------------
(* LidGuardian implements LidMode *)

Views == [has : BOOLEAN, suppressed : BOOLEAN, leaked : BOOLEAN, late : BOOLEAN]

Setting(s, u) == sleepDisabled = s /\ unrestored = u

\* How far the guardian in `call` has come, and what it has done to the setting
\* since the caller last saw it.
CallUnderWay ==
  /\ phase[call] = "enabling" => ~view.has /\ Setting(view.suppressed, view.leaked)
  /\ phase[call] \in {"waiting", "resetting"} =>
       Setting(IF view.has THEN view.suppressed ELSE TRUE, view.leaked)
  /\ phase[call] = "exitOk" => Setting(FALSE, FALSE)
  /\ phase[call] = "exitErr" =>
       IF view.has THEN Setting(view.suppressed, view.suppressed)
       ELSE Setting(view.suppressed, view.leaked) \/ Setting(TRUE, TRUE)

\* What the caller saw last is what there is, but for a call under way; a session it
\* saw is then the one being stopped.
ViewInv ==
  /\ view \in Views
  /\ ~InCall => view = Current
  /\ InCall =>
       /\ view.has => app = "stopping"
       /\ orphans # {} => view.late
       /\ ~view.late => CallUnderWay

\* A call sees nothing of its own steps but their end: the specification restricts
\* LidGuardian in nothing.
LEMMA CallerSteps == CallerSpec => Spec
<1>1. CallerInit => Init
  BY DEF CallerInit
<1>2. [CallerNext]_callerVars => [Next]_vars
  BY DEF CallerNext, StartGivenUp, AuthorizationVerified, OtherStep, Next, Returns, callerVars
<1> QED
  BY <1>1, <1>2, PTL DEF CallerSpec, Spec

\* Between calls a guardian is the installed session, or an orphan's.
LEMMA AtRest ==
  ASSUME IInv, ~InCall
  PROVE  /\ call = None
         /\ \A g \in Guardians : phase[g] # "free" => g \in orphans \/ g = lid
         /\ lid # None => phase[lid] = "waiting" /\ lid \in pipes /\ lid \notin orphans
BY NoneAssumption DEF IInv, TypeOK, EveryGuardianHeld, InstalledWaits

\* In a call the only guardian that is no orphan is the one the call waits for.
LEMMA InACall ==
  ASSUME IInv, InCall
  PROVE  /\ call \in Guardians /\ call \notin orphans /\ phase[call] # "free" /\ lid = None
         /\ \A g \in Guardians : phase[g] # "free" => g \in orphans \/ g = call
BY NoneAssumption DEF IInv, TypeOK, EveryGuardianHeld, CallHeld

\* Every step keeps the view what it should be between calls and in each.
LEMMA ViewStep ==
  ASSUME IInv, IInv', ViewInv, [CallerNext]_callerVars
  PROVE  ViewInv'
<1> USE DEF ViewInv, Views, Current, Setting
<1>t. /\ lid \in Guardians \cup {None} /\ orphans \in SUBSET Guardians
      /\ sleepDisabled \in BOOLEAN /\ unrestored \in BOOLEAN
      /\ lid' \in Guardians \cup {None} /\ orphans' \in SUBSET Guardians
      /\ sleepDisabled' \in BOOLEAN /\ unrestored' \in BOOLEAN
      /\ phase \in [Guardians -> Live \cup Exited \cup {"free"}]
  BY DEF IInv, TypeOK
<1>c. Current' \in Views /\ [Current EXCEPT !.has = TRUE] \in Views
  BY <1>t
<1>1. CASE StartGivenUp
  <2>1. /\ InCall' /\ app' = "stopping" /\ call' = call /\ phase' = phase
        /\ phase[call] = "waiting" /\ orphans' = orphans
        /\ sleepDisabled' = sleepDisabled /\ unrestored' = unrestored
        /\ view' = [Current EXCEPT !.has = TRUE]
    BY <1>1 DEF StartGivenUp, PowerFails, InCall
  <2>2. CallUnderWay'
    BY <2>1, <1>t DEF CallUnderWay
  <2> QED
    BY <2>1, <2>2, <1>c, <1>t
<1>2. CASE AuthorizationVerified
  <2>1. PICK g \in Guardians : Authorize(g)
    BY <1>2 DEF AuthorizationVerified
  <2>2. /\ view' = Current' /\ phase'[call'] = "enabling" /\ lid' = None
    BY <1>2, <2>1, <1>t, AtRest, InACall, NoneAssumption
       DEF AuthorizationVerified, Authorize, Spawn, InCall, Starting, IInv, InstalledWaits
  <2>3. CallUnderWay'
    BY <2>2, <1>t DEF CallUnderWay
  <2> QED
    BY <2>2, <2>3, <1>c, <1>t
<1>3. CASE OtherStep /\ ~InCall'
  BY <1>3, <1>c DEF OtherStep
<1>4. CASE OtherStep /\ InCall'
  <2>v. view' = view /\ InCall'
    BY <1>4 DEF OtherStep
  <2>q. ASSUME view.has => app' = "stopping", orphans' # {} => view.late,
               ~view.late => CallUnderWay'
        PROVE  ViewInv'
    BY <2>v, <2>q
  <2>1. CASE \E g \in Guardians : StartLid(g)
    <3>1. PICK g \in Guardians : StartLid(g)
      BY <2>1
    <3>2. ~InCall /\ view = Current
      BY <3>1, <1>t DEF StartLid, InCall, Starting
    <3>3. /\ phase'[call'] = "enabling" /\ UNCHANGED <<orphans, sleepDisabled, unrestored>>
          /\ lid = None
      BY <3>1, <1>t DEF StartLid, Spawn
    <3>4. ~view.has /\ (orphans' # {} => view.late)
      BY <3>2, <3>3
    <3>5. CallUnderWay'
      <4>1. Setting(view.suppressed, view.leaked)' /\ ~view'.has
        BY <2>v, <3>2, <3>3, <3>4
      <4> QED
        BY <3>3, <4>1 DEF CallUnderWay
    <3> QED
      BY <2>q, <3>4, <3>5
  <2>2. CASE StopLid
    <3>1. ~InCall /\ view = Current /\ lid # None
      BY <2>2, <1>t DEF StopLid, InCall, Starting
    <3>2. phase[lid] = "waiting"
      BY <3>1, AtRest
    <3>3. /\ phase'[call'] = "waiting" /\ UNCHANGED <<orphans, sleepDisabled, unrestored>>
          /\ app' = "stopping"
      BY <3>2, <2>2 DEF StopLid
    <3>4. view.has /\ (orphans' # {} => view.late)
      BY <3>1, <3>3
    <3>5. CallUnderWay'
      <4>1. Setting(view.suppressed, view.leaked)' /\ view'.has
        BY <2>v, <3>1, <3>3, <3>4
      <4> QED
        BY <3>3, <4>1 DEF CallUnderWay
    <3> QED
      BY <2>q, <3>3, <3>4, <3>5
  <2>3. CASE StartRejected
    <3>1. InCall /\ ~view.has
      BY <2>3 DEF StartRejected, InCall, Starting
    <3>2. UNCHANGED <<call, phase, orphans, sleepDisabled, unrestored>>
      BY <2>3 DEF StartRejected
    <3>3. CallUnderWay => CallUnderWay'
      BY <2>v, <3>2 DEF CallUnderWay
    <3> QED
      BY <2>q, <3>1, <3>2, <3>3
  <2>4. CASE \E g \in Guardians : GuardianStep(g)
    <3>1. PICK g \in Guardians : GuardianStep(g)
      BY <2>4
    <3>2. InCall /\ UNCHANGED <<app, call>> /\ orphans' \in SUBSET orphans
      BY <3>1, <1>4 DEF GuardianStep, Enable, EnableFails, ReadEof, Reset, ResetFails, Exit,
         InCall, Starting
    <3>3. ASSUME ~view.late PROVE CallUnderWay'
      <4>1. orphans = {} /\ CallUnderWay
        BY <3>2, <3>3
      <4>2. phase[g] # "free"
        BY <3>1 DEF GuardianStep, Enable, EnableFails, ReadEof, Reset, ResetFails
      <4>3. g = call /\ call \in Guardians
        BY <3>2, <4>1, <4>2, InACall
      <4> USE <1>t, <2>v, <3>2, <4>1, <4>3 DEF CallUnderWay
      <4>4. CASE Enable(g)
        BY <4>4 DEF Enable
      <4>5. CASE EnableFails(g)
        BY <4>5 DEF EnableFails, Exit
      <4>6. CASE ReadEof(g)
        BY <4>6 DEF ReadEof
      <4>7. CASE Reset(g)
        BY <4>7 DEF Reset, Exit, RestoreSleep
      <4>8. CASE ResetFails(g)
        <5>1. phase'[call'] = "exitErr" /\ unrestored' = sleepDisabled /\ sleepDisabled' = sleepDisabled
          BY <4>8 DEF ResetFails, Exit
        <5>2. sleepDisabled = IF view.has THEN view.suppressed ELSE TRUE
          BY <4>8 DEF ResetFails
        <5> QED
          BY <5>1, <5>2
      <4> QED
        BY <3>1, <4>4, <4>5, <4>6, <4>7, <4>8 DEF GuardianStep
    <3>4. orphans' # {} => orphans # {}
      BY <3>2
    <3> QED
      BY <2>q, <3>2, <3>3, <3>4
  <2> QED
    BY <1>4, <2>1, <2>2, <2>3, <2>4
       DEF OtherStep, Launch, RecoverQuery, RecoverReset, SpawnFails, Install, AuthorizeFails,
           Reap, Terminate, InCall, Starting, AfterFirstFailure
<1>5. CASE UNCHANGED callerVars
  BY <1>5 DEF callerVars, vars, CallUnderWay, InCall, Starting
<1> QED
  BY <1>1, <1>2, <1>3, <1>4, <1>5 DEF CallerNext

\* ViewInv is an invariant.
LEMMA ViewInvariant == CallerSpec => []ViewInv
<1>1. IInv /\ CallerInit => ViewInv
  <2> SUFFICES ASSUME IInv, CallerInit PROVE ViewInv
    OBVIOUS
  <2>1. view = Current /\ ~InCall
    BY DEF CallerInit, Init, InCall, Starting
  <2> QED
    BY <2>1 DEF ViewInv, Views, Current, IInv, TypeOK
<1>2. IInv /\ IInv' /\ ViewInv /\ [CallerNext]_callerVars => ViewInv'
  BY ViewStep
<1> QED
  BY <1>1, <1>2, CallerSteps, Inductive, PTL DEF CallerSpec

\* While an orphan is about LidMode promises only that the suppression is accounted
\* for, which it is whenever no call hides it.
LEMMA DisturbedStep ==
  ASSUME IInv', ViewInv, view.late, ~InCall', view' = Current'
  PROVE  Mode!Disturbed
<1>1. /\ lid' # None <=> view'.has
      /\ view'.suppressed = sleepDisabled' /\ view'.leaked = unrestored'
      /\ orphans' # {} <=> view'.late
  BY DEF Current
<1>2. /\ view'.has \in BOOLEAN /\ view'.suppressed \in BOOLEAN
      /\ view'.leaked \in BOOLEAN /\ view'.late \in BOOLEAN
  BY <1>1 DEF Current, IInv, TypeOK
<1>3. view'.suppressed => view'.has \/ view'.late \/ view'.leaked
  <2> SUFFICES ASSUME sleepDisabled', ~unrestored' PROVE lid' # None \/ orphans' # {}
    BY <1>1
  <2>1. PICK g \in Guardians : Owner(g)'
    BY DEF IInv, SuppressionOwned
  <2>2. g \in orphans' \/ g = lid'
    BY <2>1, NoneAssumption DEF IInv, EveryGuardianHeld, Owner, TypeOK
  <2> QED
    BY <2>2, NoneAssumption
<1> QED
  BY <1>2, <1>3 DEF Mode!Disturbed, Mode!Accounted

\* A call that returns, or a crash, from a view that no orphan clouds.
LEMMA ClearStep ==
  ASSUME IInv, IInv', ViewInv, ~view.late, ~InCall', OtherStep
  PROVE  Mode!ModeNext \/ UNCHANGED Mode!modeVars
<1> USE DEF Mode!ModeNext
<1>t. /\ lid \in Guardians \cup {None} /\ orphans \in SUBSET Guardians
      /\ sleepDisabled \in BOOLEAN /\ unrestored \in BOOLEAN
      /\ view \in Views
  BY DEF IInv, TypeOK, ViewInv
<1>v. /\ view'.has = (lid' # None) /\ view'.late = (orphans' # {})
      /\ view'.suppressed = sleepDisabled' /\ view'.leaked = unrestored'
  BY DEF OtherStep, Current
<1>r. ~InCall => /\ view.has = (lid # None) /\ view.late = (orphans # {})
                 /\ view.suppressed = sleepDisabled /\ view.leaked = unrestored
  BY DEF ViewInv, Current
<1>o. orphans = {}
  BY <1>r DEF ViewInv
<1>1. CASE UNCHANGED <<lid, orphans, sleepDisabled, unrestored>> /\ ~InCall
  BY <1>1, <1>v, <1>r DEF Mode!modeVars
<1>2. CASE Launch \/ RecoverQuery \/ SpawnFails
  BY <1>1, <1>2 DEF Launch, RecoverQuery, SpawnFails, InCall, Starting
<1>3. CASE RecoverReset \/ AuthorizeFails
  <2>1. ~InCall /\ UNCHANGED <<lid, orphans>> /\ lid = None
    BY <1>3 DEF RecoverReset, AuthorizeFails, InCall, Starting, IInv, InstalledWaits
  <2>2. CASE UNCHANGED <<sleepDisabled, unrestored>>
    BY <1>1, <2>1, <2>2
  <2>3. CASE RestoreSleep
    <3>1. Mode!Clean
      BY <1>v, <1>r, <2>1, <2>3 DEF RestoreSleep, Mode!Clean, Mode!Restored
    <3> QED
      BY <3>1
  <2> QED
    BY <1>3, <2>2, <2>3 DEF RecoverReset, AuthorizeFails
<1>4. CASE Install
  <2>1. /\ InCall /\ phase[call] = "waiting" /\ lid' # None
        /\ UNCHANGED <<orphans, sleepDisabled, unrestored>>
    BY <1>4, InACall, NoneAssumption DEF Install, InCall
  <2>2. ~view.has /\ sleepDisabled = TRUE /\ unrestored = view.leaked
    BY <1>4, <2>1 DEF ViewInv, CallUnderWay, Setting, Install, Starting
  <2>3. Mode!Start
    BY <1>v, <1>o, <1>t, <2>1, <2>2 DEF Mode!Start, Views
  <2> QED
    BY <2>3
<1>5. ASSUME InCall, phase[call] \in Exited, lid' = None, orphans' = {},
             UNCHANGED <<sleepDisabled, unrestored>>
      PROVE  Mode!ModeNext \/ UNCHANGED Mode!modeVars
  <2>1. CallUnderWay
    BY <1>5 DEF ViewInv
  <2>2. view'.has = FALSE /\ view'.late = FALSE
    BY <1>v, <1>5
  <2>3. view.late = FALSE /\ view.has \in BOOLEAN
    BY <1>t DEF Views
  <2>4. CASE view.has
    <3>1. Mode!Restored \/ Mode!NotRestored
      BY <1>5, <1>v, <2>1, <2>4 DEF CallUnderWay, Setting, Exited, Mode!Restored, Mode!NotRestored
    <3> QED
      BY <2>2, <2>3, <2>4, <3>1 DEF Mode!Stop
  <2>5. CASE ~view.has
    <3>1. \/ view'.suppressed = view.suppressed /\ view'.leaked = view.leaked
          \/ Mode!Restored
          \/ view'.suppressed = TRUE /\ view'.leaked = TRUE
      BY <1>5, <1>v, <2>1, <2>5 DEF CallUnderWay, Setting, Exited, Mode!Restored
    <3> QED
      BY <2>2, <2>3, <2>5, <3>1 DEF Mode!StartFails, Mode!Clean, Mode!modeVars
  <2> QED
    BY <2>4, <2>5
<1>6. CASE Reap
  <2>1. InCall /\ phase[call] \in Exited /\ UNCHANGED <<lid, orphans, sleepDisabled, unrestored>>
    BY <1>6 DEF Reap, InCall
  <2> QED
    BY <1>5, <1>o, <2>1, InACall
<1>7. CASE Terminate
  <2>1. /\ lid' = None /\ orphans' = {g \in Guardians : phase[g] \in Live}
        /\ UNCHANGED <<sleepDisabled, unrestored>>
    BY <1>7 DEF Terminate
  <2>2. ASSUME orphans' # {},
               view.suppressed = sleepDisabled \/ sleepDisabled = TRUE, view.leaked = unrestored
        PROVE  Mode!Crash
    BY <1>v, <2>1, <2>2 DEF Mode!Crash
  <2>3. CASE ~InCall
    <3>1. CASE lid # None
      <4>1. lid \in orphans'
        BY <2>1, <2>3, <3>1, <1>t, AtRest DEF Live
      <4> QED
        BY <4>1, <1>r, <2>2, <2>3
    <3>2. CASE lid = None
      <4>1. orphans' = {}
        BY <2>1, <2>3, <3>2, <1>o, AtRest, NoneAssumption DEF Live
      <4> QED
        BY <1>1, <1>o, <2>1, <2>3, <3>2, <4>1
    <3> QED
      BY <3>1, <3>2
  <2>4. CASE InCall /\ phase[call] \in Live
    <3>1. call \in orphans'
      BY <2>1, <2>4, InACall
    <3>2. CallUnderWay
      BY <2>4 DEF ViewInv
    <3>3. /\ view.suppressed = sleepDisabled \/ sleepDisabled = TRUE
          /\ view.leaked = unrestored
      BY <2>4, <3>2 DEF CallUnderWay, Setting, Live
    <3> QED
      BY <2>2, <3>1, <3>3
  <2>5. CASE InCall /\ phase[call] \notin Live
    <3>1. orphans' = {}
      BY <1>o, <2>1, <2>5, InACall DEF Live
    <3>2. phase[call] \in Exited
      BY <2>5, InACall DEF IInv, TypeOK
    <3> QED
      BY <1>5, <2>1, <2>5, <3>1, <3>2
  <2> QED
    BY <2>3, <2>4, <2>5
<1>8. ASSUME NEW g \in Guardians, GuardianStep(g)
      PROVE  FALSE
  <2>1. ~InCall
    BY <1>8 DEF GuardianStep, Enable, EnableFails, ReadEof, Reset, ResetFails, InCall, Starting
  <2>2. phase[g] # "free" /\ (phase[g] = "waiting" => g \notin pipes)
    BY <1>8 DEF GuardianStep, Enable, EnableFails, ReadEof, Reset, ResetFails
  <2>3. g = lid
    BY <1>o, <2>1, <2>2, AtRest
  <2> QED
    BY <2>1, <2>2, <2>3, AtRest, NoneAssumption
<1> QED
  BY <1>2, <1>3, <1>4, <1>6, <1>7, <1>8
     DEF OtherStep, StartLid, StartRejected, StopLid, InCall, Starting

\* Every step, as its callers see it, is one of LidMode or none.
LEMMA ModeStep ==
  ASSUME IInv, IInv', ViewInv, [CallerNext]_callerVars
  PROVE  Mode!ModeNext \/ UNCHANGED Mode!modeVars
<1> USE DEF Mode!ModeNext
<1>t. view \in Views /\ sleepDisabled \in BOOLEAN /\ unrestored \in BOOLEAN
  BY DEF IInv, TypeOK, ViewInv
<1>1. CASE StartGivenUp
  <2>1. /\ view'.has = TRUE /\ view'.suppressed = sleepDisabled /\ view'.leaked = unrestored
        /\ view'.late = (orphans # {})
    BY <1>1 DEF StartGivenUp, Current
  <2>2. InCall /\ Starting /\ phase[call] = "waiting"
    BY <1>1 DEF StartGivenUp, PowerFails, InCall
  <2>3. CASE view.late
    BY <1>t, <2>1, <2>3 DEF Mode!Disturbed, Mode!Accounted
  <2>4. CASE ~view.late
    <3>1. ~view.has /\ sleepDisabled = TRUE /\ unrestored = view.leaked /\ orphans = {}
      BY <2>2, <2>4 DEF ViewInv, CallUnderWay, Setting, Starting
    <3>2. Mode!Start
      BY <1>t, <2>1, <2>4, <3>1 DEF Mode!Start, Views
    <3> QED
      BY <3>2
  <2> QED
    BY <2>3, <2>4
<1>2. CASE AuthorizationVerified
  <2>1. PICK g \in Guardians : Authorize(g)
    BY <1>2 DEF AuthorizationVerified
  <2>2. ~InCall /\ lid = None /\ UNCHANGED <<lid, orphans>> /\ RestoreSleep
    BY <2>1 DEF Authorize, InCall, Starting, IInv, InstalledWaits
  <2>3. /\ view'.has = FALSE /\ view'.late = (orphans # {})
        /\ view'.suppressed = FALSE /\ view'.leaked = FALSE
    BY <1>2, <2>2 DEF AuthorizationVerified, Current, RestoreSleep
  <2>4. view.has = (lid # None) /\ view.late = (orphans # {})
    BY <2>2 DEF ViewInv, Current
  <2>5. Mode!Clean
    BY <2>2, <2>3, <2>4 DEF Mode!Clean, Mode!Restored
  <2> QED
    BY <2>5
<1>3. CASE OtherStep /\ InCall'
  BY <1>3 DEF OtherStep, Mode!modeVars
<1>4. CASE OtherStep /\ ~InCall' /\ view.late
  BY <1>4, DisturbedStep DEF OtherStep
<1>5. CASE OtherStep /\ ~InCall' /\ ~view.late
  BY <1>5, ClearStep
<1>6. CASE UNCHANGED callerVars
  BY <1>6 DEF callerVars, Mode!modeVars
<1> QED
  BY <1>1, <1>2, <1>3, <1>4, <1>5, <1>6 DEF CallerNext

\* Guardian processes, pipes and crashes implement what AppSession takes a start and
\* a stop for: seen from the calls that return, lid-closed mode is LidMode.
THEOREM Serves == CallerSpec => CallersServed
<1>1. CallerInit => Mode!ModeInit
  <2> SUFFICES ASSUME CallerInit PROVE Mode!ModeInit
    OBVIOUS
  <2>1. /\ view.has = (lid # None) /\ view.late = (orphans # {})
        /\ view.suppressed = sleepDisabled /\ view.leaked = unrestored
    BY DEF CallerInit, Current
  <2> QED
    BY <2>1 DEF CallerInit, Init, Mode!ModeInit
<1>2. IInv /\ IInv' /\ ViewInv /\ [CallerNext]_callerVars => [Mode!ModeNext]_(Mode!modeVars)
  BY ModeStep
<1> QED
  BY <1>1, <1>2, CallerSteps, Inductive, ViewInvariant, PTL
     DEF CallerSpec, CallersServed, Mode!ModeSpec
=============================================================================
