----------------------------- MODULE IpcServer -----------------------------
(***************************************************************************)
(* The IPC server of ipc_server.rs: a worker thread that accepts one       *)
(* connection at a time and runs its command on the main thread, the       *)
(* clients that connect to it, and the main thread, which serves those     *)
(* commands and stops the server when the application ends.                *)
(*                                                                         *)
(* The worker blocks in accept, in read and in the dispatch to the main    *)
(* thread; stop must wake it from the first two without waiting for the    *)
(* third.  A client is one connection that carries one command; it may     *)
(* stay silent, hang up, or give up while its command is being run.        *)
(***************************************************************************)
EXTENDS Sequences

CONSTANTS Clients,  \* connections, one command each
          Wake,     \* the connection stop makes to wake the worker
          None

ASSUME ConnectionAssumption == Wake \notin Clients /\ None \notin Clients /\ Wake # None

VARIABLES
  worker,    \* where accept_connections and serve_connection_with are
  conn,      \* the connection accepted, or None: accept failed
  slot,      \* the active-connection slot
  stopping,  \* the stop flag
  main,      \* the main thread: serving, in a step of stop, or past it
  woken,     \* stop's wake-up connection did not fail
  backlog,   \* connections the listener has not accepted yet, oldest first
  client,    \* what each client has seen so far
  frame,     \* what each client has sent
  executed,  \* history: the clients whose command has been run
  repeated,  \* history: a command has been run twice
  late       \* history: the frame being served was read after stop was published

vars == <<worker, conn, slot, stopping, main, woken, backlog, client, frame,
          executed, repeated, late>>
history == <<executed, repeated, late>>
peers == <<backlog, client, frame>>
mainVars == <<stopping, main, woken>>

WorkerSteps == {"check", "accept", "accepted", "register", "registered", "reading",
                "received", "dispatching", "responding", "clear", "dropping", "done"}
MainSteps == {"serving", "cancel", "wake", "unlink", "stopped", "gone"}

TypeOK ==
  /\ worker \in WorkerSteps
  /\ conn \in Clients \cup {Wake, None}
  /\ slot \in Clients \cup {None}  \* never the wake-up connection
  /\ stopping \in BOOLEAN /\ woken \in BOOLEAN
  /\ main \in MainSteps
  /\ backlog \in Seq(Clients \cup {Wake})
  /\ client \in [Clients -> {"away", "waiting", "answered", "rejected", "closed", "gaveUp"}]
  /\ frame \in [Clients -> {"none", "command", "garbage"}]
  /\ executed \in SUBSET Clients
  /\ repeated \in BOOLEAN /\ late \in BOOLEAN

Init ==
  /\ worker = "check"
  /\ conn = None /\ slot = None
  /\ stopping = FALSE /\ main = "serving" /\ woken = TRUE
  /\ backlog = <<>>
  /\ client = [c \in Clients |-> "away"]
  /\ frame = [c \in Clients |-> "none"]
  /\ executed = {} /\ repeated = FALSE /\ late = FALSE

\* The clients of S that still wait see `what`.
Tell(S, what) ==
  client' = [c \in Clients |-> IF c \in S /\ client[c] = "waiting" THEN what ELSE client[c]]

-----------------------------------------------------------------------------
(* The worker: accept_connections *)

CheckStopping ==
  /\ worker = "check"
  /\ worker' = IF stopping THEN "dropping" ELSE "accept"
  /\ UNCHANGED <<conn, slot, mainVars, peers, history>>

\* Mutant: the oldest connection is passed over when there are others.
AcceptSecond ==
  /\ worker = "accept"
  /\ backlog # <<>>
  /\ LET rest == Tail(backlog)
     IN  IF rest = <<>> THEN conn' = Head(backlog) /\ backlog' = rest
         ELSE conn' = Head(rest) /\ backlog' = <<Head(backlog)>> \o Tail(rest)
  /\ worker' = "accepted"
  /\ UNCHANGED <<slot, mainVars, client, frame, history>>

\* accept returns the oldest connection,
Accept ==
  /\ worker = "accept"
  /\ backlog # <<>>
  /\ conn' = Head(backlog)
  /\ backlog' = Tail(backlog)
  /\ worker' = "accepted"
  /\ UNCHANGED <<slot, mainVars, client, frame, history>>

\* ... or an error, after which the worker goes round, at once or in 200 ms.
AcceptFails ==
  /\ worker = "accept"
  /\ conn' = None
  /\ worker' = "accepted"
  /\ UNCHANGED <<slot, mainVars, peers, history>>

\* Mutant: the flag is not read again once accept has returned.
AcceptUnchecked ==
  /\ worker = "accepted"
  /\ worker' = IF conn = None THEN "check" ELSE "register"
  /\ UNCHANGED <<conn, slot, mainVars, peers, history>>

\* The flag is read again, before the result is looked at.
CheckAccepted ==
  /\ worker = "accepted"
  /\ IF stopping
     THEN worker' = "dropping" /\ conn' = None /\ Tell({conn}, "closed")
     ELSE /\ worker' = IF conn = None THEN "check" ELSE "register"
          /\ UNCHANGED <<conn, client>>
  /\ UNCHANGED <<slot, mainVars, backlog, frame, history>>

Register ==
  /\ worker = "register"
  /\ slot' = conn
  /\ worker' = "registered"
  /\ UNCHANGED <<conn, mainVars, peers, history>>

\* try_clone failed: the client is closed.
RegisterFails ==
  /\ worker = "register"
  /\ Tell({conn}, "closed")
  /\ conn' = None
  /\ worker' = "check"
  /\ UNCHANGED <<slot, mainVars, backlog, frame, history>>

\* Mutant: no recheck after registration.
ServeUnchecked ==
  /\ worker = "registered"
  /\ worker' \in {"reading", "clear"}
  /\ UNCHANGED <<conn, slot, mainVars, peers, history>>

\* The recheck after registration, and the options of the socket, which may fail.
Serve ==
  /\ worker = "registered"
  /\ worker' \in IF stopping THEN {"clear"} ELSE {"reading", "clear"}
  /\ UNCHANGED <<conn, slot, mainVars, peers, history>>

\* The slot is emptied; with it the connection's last descriptor is closed.
Clear ==
  /\ worker = "clear"
  /\ slot' = None /\ conn' = None
  /\ Tell({conn}, "closed")
  /\ worker' = "check"
  /\ UNCHANGED <<mainVars, backlog, frame, history>>

\* The worker returns: the handler is dropped on the main thread, then the
\* listener, with the connections still in its backlog.
Drop ==
  /\ worker = "dropping"
  /\ main \in {"serving", "stopped"}
  /\ worker' = "done"
  /\ backlog' = <<>>
  /\ Tell({backlog[i] : i \in DOMAIN backlog}, "closed")
  /\ UNCHANGED <<conn, slot, mainVars, frame, history>>

-----------------------------------------------------------------------------
(* The worker: serve_connection_with *)

\* read_frame has a whole frame.
ReadFrame ==
  /\ worker = "reading"
  /\ frame[conn] # "none"
  /\ late' = stopping
  /\ worker' = "received"
  /\ UNCHANGED <<conn, slot, mainVars, peers, executed, repeated>>

\* A response is written, or lost: the write fails or times out, which is only logged.
Reply(what) == Tell({conn}, what) \/ UNCHANGED client

\* read_frame fails: "ERR invalid frame" to whoever still listens.
InvalidFrame ==
  /\ Reply("rejected")
  /\ worker' = "clear"
  /\ UNCHANGED <<conn, slot, mainVars, backlog, frame, history>>

\* End of file: stop has shut the connection down, or the client has hung up.
ReadEnds ==
  /\ worker = "reading"
  /\ client[conn] = "closed" \/ (client[conn] # "waiting" /\ frame[conn] = "none")
  /\ InvalidFrame

\* Mutant: every read gets a fresh budget, and a client may be silent for ever.
ReadWaits ==
  /\ worker = "reading"
  /\ client[conn] # "waiting"
  /\ InvalidFrame

\* The budget of one second is spent, or the frame too long.
ReadTimesOut ==
  /\ worker = "reading"
  /\ InvalidFrame

\* Mutant: the frame is dispatched whether or not the server is stopping.
DispatchAnyway ==
  /\ worker = "received"
  /\ IF frame[conn] = "garbage" THEN worker' = "clear" /\ Tell({conn}, "rejected")
     ELSE worker' = "dispatching" /\ UNCHANGED client
  /\ UNCHANGED <<conn, slot, mainVars, backlog, frame, history>>

\* A server that is stopping dispatches no more; what does not parse is refused.
Dispatch ==
  /\ worker = "received"
  /\ IF stopping THEN worker' = "clear" /\ UNCHANGED client
     ELSE IF frame[conn] = "garbage" THEN worker' = "clear" /\ Reply("rejected")
     ELSE worker' = "dispatching" /\ UNCHANGED client
  /\ UNCHANGED <<conn, slot, mainVars, backlog, frame, history>>

\* The main thread runs the handler: between two callbacks of its run loop, never
\* inside stop.
Execute ==
  /\ worker = "dispatching"
  /\ main \in {"serving", "stopped"}
  /\ executed' = executed \cup {conn}
  /\ repeated' = (repeated \/ conn \in executed)
  /\ worker' = "responding"
  /\ UNCHANGED <<conn, slot, mainVars, peers, late>>

\* Mutant: a response that cannot be delivered makes the worker try once more.
RespondOrRetry ==
  /\ worker = "responding"
  /\ Tell({conn}, "answered")
  /\ worker' = IF client[conn] = "gaveUp" THEN "dispatching" ELSE "clear"
  /\ UNCHANGED <<conn, slot, mainVars, backlog, frame, history>>

Respond ==
  /\ worker = "responding"
  /\ Reply("answered")
  /\ worker' = "clear"
  /\ UNCHANGED <<conn, slot, mainVars, backlog, frame, history>>

-----------------------------------------------------------------------------
(* The main thread: IpcServer::stop *)

StopPublish ==
  /\ main = "serving"
  /\ stopping' = TRUE
  /\ main' = "cancel"
  /\ UNCHANGED <<worker, conn, slot, woken, peers, history>>

\* The registered connection is shut down in both directions.
StopCancel ==
  /\ main = "cancel"
  /\ Tell({slot}, "closed")
  /\ main' = "wake"
  /\ UNCHANGED <<worker, conn, slot, stopping, woken, backlog, frame, history>>

\* Mutant: stop leaves the worker in accept.
StopWakesNobody ==
  /\ main = "wake"
  /\ main' = "unlink"
  /\ UNCHANGED <<worker, conn, slot, stopping, woken, peers, history>>

\* The wake-up connection, which fails if somebody has removed or replaced the
\* socket file, or the worker has left already.
StopWake ==
  /\ main = "wake"
  /\ \/ worker # "done" /\ backlog' = Append(backlog, Wake) /\ UNCHANGED woken
     \/ woken' = FALSE /\ UNCHANGED backlog
  /\ main' = "unlink"
  /\ UNCHANGED <<worker, conn, slot, stopping, client, frame, history>>

\* Mutant: stop joins the worker before it returns.
StopJoins ==
  /\ main = "unlink"
  /\ worker = "done"
  /\ main' = "stopped"
  /\ UNCHANGED <<worker, conn, slot, stopping, woken, peers, history>>

\* The socket file is removed, and no client can connect any more (the file is
\* the subject of SocketOwnership).  Drop calls stop again, to no further effect.
StopUnlink ==
  /\ main = "unlink"
  /\ main' = "stopped"
  /\ UNCHANGED <<worker, conn, slot, stopping, woken, peers, history>>

\* The process ends, by teardown or by a crash: the kernel closes everything.
ProcessEnds ==
  /\ main # "gone"
  /\ main' = "gone"
  /\ worker' = "done"
  /\ conn' = None /\ slot' = None /\ backlog' = <<>>
  /\ Tell(Clients, "closed")
  /\ UNCHANGED <<stopping, woken, frame, history>>

-----------------------------------------------------------------------------
(* The clients: send_command, or any other program *)

Connect(c) ==
  /\ client[c] = "away"
  /\ worker # "done" /\ main \notin {"stopped", "gone"}
  /\ client' = [client EXCEPT ![c] = "waiting"]
  /\ backlog' = Append(backlog, c)
  /\ UNCHANGED <<worker, conn, slot, mainVars, frame, history>>

Send(c) ==
  /\ client[c] = "waiting"
  /\ frame[c] = "none"
  /\ \E what \in {"command", "garbage"} : frame' = [frame EXCEPT ![c] = what]
  /\ UNCHANGED <<worker, conn, slot, mainVars, backlog, client, history>>

\* The client times out or is interrupted.
GiveUp(c) ==
  /\ client[c] = "waiting"
  /\ client' = [client EXCEPT ![c] = "gaveUp"]
  /\ UNCHANGED <<worker, conn, slot, mainVars, backlog, frame, history>>

-----------------------------------------------------------------------------
AcceptStep == Accept \/ AcceptFails

\* What the worker does next, but for accepting a connection or timing out.
WorkerStep ==
  CheckStopping \/ CheckAccepted \/ Register \/ RegisterFails \/ Serve \/ Clear \/ Drop
    \/ ReadFrame \/ ReadEnds \/ Dispatch \/ Execute \/ Respond

StopStep == StopCancel \/ StopWake \/ StopUnlink

ClientStep(c) == Connect(c) \/ Send(c) \/ GiveUp(c)

Next ==
  \/ WorkerStep \/ AcceptStep \/ ReadTimesOut
  \/ StopPublish \/ StopStep \/ ProcessEnds
  \/ \E c \in Clients : ClientStep(c)

Spec == Init /\ [][Next]_vars

\* The threads run, a read ends with its budget, and errors of accept do not last:
\* sooner or later one of its calls succeeds.  Nobody is obliged to send anything.
FairSpec ==
  /\ Spec
  /\ WF_vars(WorkerStep) /\ WF_vars(ReadTimesOut) /\ SF_vars(Accept)
  /\ WF_vars(StopStep)

-----------------------------------------------------------------------------
(* Properties *)

\* Stop does not miss a connection that was being accepted (ipc_server.rs:277): once
\* it has looked at the slot, no client whose connection is still open is being
\* read, nor will be.
CancelMissesNobody ==
  /\ main \in {"wake", "unlink", "stopped"}
  /\ worker = "reading"
  => client[conn] # "waiting"

\* A frame that arrives after stop was published is not dispatched
\* (ipc_server.rs:198), though its connection may still be open.
NothingLate == worker \in {"dispatching", "responding"} => ~late

\* What a client is told is so: an answer means its command has been run, and a
\* refusal that it never will be.  No command is run twice, not for a client that
\* has gone away either.
OutcomeHonest ==
  /\ \A c \in Clients :
       /\ client[c] = "answered" => c \in executed
       /\ client[c] = "rejected" => c \notin executed
  /\ ~repeated

\* The server is a queue to its clients (CommandQueue): however accept, stop and the
\* end of the process interleave, connections are served one at a time in the order
\* they were made, so a command whose client has given up runs before its retry.
Queue == INSTANCE CommandQueue WITH line <- backlog, current <- conn, seen <- client

QueueKept == Queue!QueueSpec

\* Stop always comes back: the main thread never waits for the worker, which may
\* be waiting for it (ipc_server.rs:310).
StopReturns == stopping ~> main \in {"stopped", "gone"}

\* Once stopped, the worker ends, also one that waits for a client in accept.
StopEndsWorker == stopping ~> worker = "done" \/ ~woken

\* Every client gets an answer, a refusal or the end of its connection, whatever
\* the clients before it do or omit to do.
EveryClientServed == \A c \in Clients : client[c] = "waiting" ~> client[c] # "waiting"
=============================================================================
