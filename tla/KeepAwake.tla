----------------------------- MODULE KeepAwake -----------------------------
(***************************************************************************)
(* What the application promises its user about a session, with no timer,  *)
(* handler or child process in sight (README.md, "What it does" and "Keep  *)
(* running with lid closed"): one session at a time, in one of three       *)
(* modes; lid-closed mode only inside a session with a time limit, and it  *)
(* may be cut short while the session goes on; a session with a time limit *)
(* ends.  AppSession implements it.                                        *)
(***************************************************************************)
VARIABLES
  kind,     \* what is kept awake: "off", "system" or "display"
  limited,  \* the session has a time limit
  lidMode   \* the machine stays awake with its lid closed

vars == <<kind, limited, lidMode>>

Init == kind = "off" /\ limited = FALSE /\ lidMode = FALSE

\* A session starts only when there is none: a new one replaces the old one by
\* ending it first.
Begin ==
  /\ kind = "off"
  /\ kind' \in {"system", "display"}
  /\ limited' \in BOOLEAN
  /\ lidMode' = FALSE

\* Lid-closed mode lets the screen turn off, and needs a time limit.
CloseLid ==
  /\ kind = "system" /\ limited
  /\ lidMode' = TRUE
  /\ UNCHANGED <<kind, limited>>

\* The machine is too hot: the session goes on without lid-closed mode.
CutLid ==
  /\ lidMode
  /\ lidMode' = FALSE
  /\ UNCHANGED <<kind, limited>>

\* Everything ends together.
End ==
  /\ kind # "off"
  /\ kind' = "off" /\ limited' = FALSE /\ lidMode' = FALSE

Next == Begin \/ CloseLid \/ CutLid \/ End

Spec == Init /\ [][Next]_vars

\* A session with a time limit ends.
FairSpec == Spec /\ WF_vars(limited /\ End)
=============================================================================
