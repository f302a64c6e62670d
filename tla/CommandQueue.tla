---------------------------- MODULE CommandQueue ----------------------------
(***************************************************************************)
(* What the IPC server promises its clients: a queue.  Connections are     *)
(* served one at a time in the order they were made; the command of the    *)
(* one being served is run at most once, and never after it was refused;   *)
(* an answer follows the run.  A client may give up at any time, which     *)
(* takes neither its place nor its command away.                           *)
(*                                                                         *)
(* IpcServer implements it with a worker thread, a slot and a stop flag.   *)
(* CommandLine builds on it.                                               *)
(***************************************************************************)
EXTENDS Sequences

CONSTANTS Clients,  \* connections, one command each
          Wake,     \* a connection that asks for nothing: it wakes the worker
          None

VARIABLES
  line,      \* the connections that wait, oldest first
  current,   \* the connection being served, or None
  seen,      \* what each client has seen of its own
  executed   \* the clients whose command has been run

queueVars == <<line, current, seen, executed>>

Seen == {"away", "waiting", "answered", "rejected", "closed", "gaveUp"}

QueueInit ==
  /\ line = <<>> /\ current = None
  /\ seen = [c \in Clients |-> "away"]
  /\ executed = {}

\* The clients of S that still wait see `what`.
Show(S, what) ==
  seen' = [c \in Clients |-> IF c \in S /\ seen[c] = "waiting" THEN what ELSE seen[c]]

-----------------------------------------------------------------------------
Join(c) ==
  /\ seen[c] = "away"
  /\ seen' = [seen EXCEPT ![c] = "waiting"]
  /\ line' = Append(line, c)
  /\ UNCHANGED <<current, executed>>

Awaken == line' = Append(line, Wake) /\ UNCHANGED <<current, seen, executed>>

\* Mutant: the oldest connection is passed over when there are others.
TakeSecond ==
  /\ current = None /\ line # <<>>
  /\ LET rest == Tail(line)
     IN  IF rest = <<>> THEN current' = Head(line) /\ line' = rest
         ELSE current' = Head(rest) /\ line' = <<Head(line)>> \o Tail(rest)
  /\ UNCHANGED <<seen, executed>>

Take ==
  /\ current = None /\ line # <<>>
  /\ current' = Head(line) /\ line' = Tail(line)
  /\ UNCHANGED <<seen, executed>>

\* Not what has been run.
Refuse ==
  /\ current \in Clients \ executed
  /\ Show({current}, "rejected")
  /\ UNCHANGED <<line, current, executed>>

\* Not what has been refused, and nothing twice.
Run ==
  /\ current \in Clients \ executed
  /\ seen[current] # "rejected"
  /\ executed' = executed \cup {current}
  /\ UNCHANGED <<line, current, seen>>

Answer ==
  /\ current \in executed
  /\ Show({current}, "answered")
  /\ UNCHANGED <<line, current, executed>>

\* The server stops: whoever is served loses the connection, not the service.
Cut == Show({current}, "closed") /\ UNCHANGED <<line, current, executed>>

\* The connection is closed, and with it the turn is over.
Close ==
  /\ current' = None
  /\ Show({current}, "closed")
  /\ UNCHANGED <<line, executed>>

\* The listener is closed, with all that wait for it.
CloseAll ==
  /\ current = None
  /\ line' = <<>>
  /\ Show({line[i] : i \in DOMAIN line}, "closed")
  /\ UNCHANGED <<current, executed>>

\* The process ends.
End ==
  /\ line' = <<>> /\ current' = None
  /\ Show(Clients, "closed")
  /\ UNCHANGED executed

GiveUp(c) ==
  /\ seen[c] = "waiting"
  /\ seen' = [seen EXCEPT ![c] = "gaveUp"]
  /\ UNCHANGED <<line, current, executed>>

QueueNext ==
  \/ Awaken \/ Take \/ Refuse \/ Run \/ Answer \/ Cut \/ Close \/ CloseAll \/ End
  \/ \E c \in Clients : Join(c) \/ GiveUp(c)

QueueSpec == QueueInit /\ [][QueueNext]_queueVars
=============================================================================
