----------------------------- MODULE LidCaller -----------------------------
(***************************************************************************)
(* LidGuardian as try_start_stop, release_lid and recovery see it: through *)
(* the returns of the calls they make.  While the main thread is blocked   *)
(* in one, what the guardian does to the setting does not show; `view` is  *)
(* what it was when the last call returned.  It is a history variable: it  *)
(* restricts no step.                                                      *)
(***************************************************************************)
EXTENDS LidGuardian

VARIABLE view  \* the variables of LidMode, as of the last return

callerVars == <<vars, view>>

Current == [has |-> lid # None, suppressed |-> sleepDisabled, leaked |-> unrestored,
            late |-> orphans # {}]

CallerInit == Init /\ view = Current

\* LidSession::start has returned a session, which is stopped at once.
StartGivenUp == PowerFails /\ view' = [Current EXCEPT !.has = TRUE]

\* The reset with which authorize verifies its rule has returned.
AuthorizationVerified == (\E g \in Guardians : Authorize(g)) /\ view' = Current'

\* Whoever is blocked sees nothing until the call returns.
OtherStep ==
  /\ \/ Launch \/ RecoverQuery \/ RecoverReset
     \/ \E g \in Guardians : StartLid(g)
     \/ SpawnFails \/ Install \/ StartRejected \/ AuthorizeFails
     \/ StopLid \/ Reap \/ Terminate
     \/ \E g \in Guardians : GuardianStep(g)
  /\ view' = IF InCall' THEN view ELSE Current'

CallerNext == StartGivenUp \/ AuthorizationVerified \/ OtherStep

CallerSpec == CallerInit /\ [][CallerNext]_callerVars

FairCallerSpec == CallerSpec /\ Fairness

-----------------------------------------------------------------------------
\* Seen from its callers, a lid session is what LidMode says: a start that succeeds
\* has suppressed sleep, one that fails or a stop leaves it restored or reports a
\* reset that failed, whatever the guardians do meanwhile; a crash costs no more
\* than a late reset (lid.rs:25-37).
Mode == INSTANCE LidMode
  WITH has <- view.has, suppressed <- view.suppressed, leaked <- view.leaked,
       late <- view.late

CallersServed == Mode!ModeSpec
=============================================================================
