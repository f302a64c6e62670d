-------------------------- MODULE IpcServerProofs --------------------------
(***************************************************************************)
(* Proofs about IpcServer, for any number of connections: its types, its   *)
(* three safety properties and that it implements CommandQueue, from one   *)
(* inductive invariant.                                                    *)
(***************************************************************************)
EXTENDS IpcServer, Integers, TLAPS

\* Steps at which the worker has a client in the slot.
Registered == {"registered", "reading", "received", "dispatching", "responding", "clear"}

\* The slot holds the connection being served.
SlotInv ==
  /\ worker = "register" => conn \in Clients
  /\ worker \in Registered => conn \in Clients /\ slot = conn
  /\ worker \notin Registered => slot = None
  /\ worker \in {"check", "accept", "dropping", "done"} => conn = None

\* The flag is up before stop does anything else; only then does it connect.
StopInv ==
  /\ main \in {"cancel", "wake", "unlink", "stopped"} => stopping
  /\ (conn = Wake \/ \E i \in DOMAIN backlog : backlog[i] = Wake) => stopping
  /\ worker = "received" /\ late => stopping

\* A connection that has not been dispatched has not been run, nor answered.
Fresh(c) == client[c] \notin {"away", "answered", "rejected"} /\ c \notin executed

\* Each connection is in one place: not made, in the backlog once, or accepted.
PlaceInv ==
  /\ \A c \in Clients : client[c] = "away" =>
       c \notin executed /\ c # conn /\ \A i \in DOMAIN backlog : backlog[i] # c
  /\ \A i \in DOMAIN backlog : backlog[i] \in Clients =>
       /\ Fresh(backlog[i]) /\ backlog[i] # conn
       /\ \A j \in DOMAIN backlog : backlog[j] = backlog[i] => j = i

\* What has become of the connection being served.
ServedInv ==
  /\ worker \notin {"responding", "clear"} => (conn \in Clients => Fresh(conn))
  /\ worker = "responding" => conn \in executed /\ client[conn] # "rejected"

IInv ==
  /\ TypeOK /\ SlotInv /\ StopInv /\ PlaceInv /\ ServedInv
  /\ CancelMissesNobody /\ NothingLate /\ OutcomeHonest

\* IInv holds at the start.
LEMMA InitInv == Init => IInv
<1> SUFFICES ASSUME Init PROVE IInv
  OBVIOUS
<1> USE DEF Init
<1>1. TypeOK
  <2>1. backlog \in Seq(Clients \cup {Wake})
    OBVIOUS
  <2>2. /\ client \in [Clients -> {"away", "waiting", "answered", "rejected", "closed", "gaveUp"}]
        /\ frame \in [Clients -> {"none", "command", "garbage"}]
    OBVIOUS
  <2>3. QED
    BY <2>1, <2>2 DEF TypeOK, WorkerSteps, MainSteps
<1>2. SlotInv /\ StopInv /\ PlaceInv /\ ServedInv
  BY ConnectionAssumption DEF SlotInv, StopInv, PlaceInv, ServedInv, Registered
<1>3. CancelMissesNobody /\ NothingLate /\ OutcomeHonest
  BY DEF CancelMissesNobody, NothingLate, OutcomeHonest
<1>4. QED
  BY <1>1, <1>2, <1>3 DEF IInv

\* Every step of the worker, of stop and of the clients keeps IInv.
LEMMA Inductive == IInv /\ [Next]_vars => IInv'
<1> SUFFICES ASSUME IInv, [Next]_vars PROVE IInv'
  OBVIOUS
<1> USE ConnectionAssumption DEF IInv, TypeOK, SlotInv, StopInv, PlaceInv, ServedInv,
      CancelMissesNobody, NothingLate, OutcomeHonest, WorkerSteps, MainSteps, Registered,
      Fresh, Tell, mainVars, peers, history
<1>1. CASE CheckStopping
  BY <1>1 DEF CheckStopping
<1>2. CASE Accept
  BY <1>2 DEF Accept
<1>3. CASE AcceptFails
  BY <1>3 DEF AcceptFails
<1>4. CASE CheckAccepted
  BY <1>4 DEF CheckAccepted
<1>5. CASE Register
  BY <1>5 DEF Register
<1>6. CASE RegisterFails
  BY <1>6 DEF RegisterFails
<1>7. CASE Serve
  BY <1>7 DEF Serve
<1>8. CASE Clear
  BY <1>8 DEF Clear
<1>9. CASE Drop
  BY <1>9 DEF Drop
<1>10. CASE ReadFrame
  BY <1>10 DEF ReadFrame
<1>11. CASE ReadEnds
  BY <1>11 DEF ReadEnds, InvalidFrame, Reply
<1>12. CASE ReadTimesOut
  BY <1>12 DEF ReadTimesOut, InvalidFrame, Reply
<1>13. CASE Dispatch
  BY <1>13 DEF Dispatch, Reply
<1>14. CASE Execute
  BY <1>14 DEF Execute
<1>15. CASE Respond
  BY <1>15 DEF Respond, Reply
<1>16. CASE StopPublish
  BY <1>16 DEF StopPublish
<1>17. CASE StopCancel
  BY <1>17 DEF StopCancel
<1>18. CASE StopWake
  <2>1. CASE UNCHANGED backlog
    BY <1>18, <2>1 DEF StopWake
  <2>2. CASE backlog' = Append(backlog, Wake)
    <3>1. /\ DOMAIN backlog' = 1 .. Len(backlog) + 1
          /\ backlog'[Len(backlog) + 1] = Wake
          /\ \A i \in DOMAIN backlog : backlog'[i] = backlog[i]
      BY <2>2
    <3>2. \A i \in DOMAIN backlog' : backlog'[i] \in Clients =>
             i \in DOMAIN backlog /\ backlog[i] = backlog'[i]
      BY <3>1
    <3>3. PlaceInv'
      BY <1>18, <3>1, <3>2 DEF StopWake
    <3>4. QED
      BY <1>18, <2>2, <3>1, <3>3 DEF StopWake
  <2>3. QED
    BY <1>18, <2>1, <2>2 DEF StopWake
<1>19. CASE StopUnlink
  BY <1>19 DEF StopUnlink
<1>20. CASE ProcessEnds
  BY <1>20 DEF ProcessEnds
<1>21. ASSUME NEW c \in Clients, Connect(c) PROVE IInv'
  BY <1>21 DEF Connect
<1>22. ASSUME NEW c \in Clients, Send(c) PROVE IInv'
  BY <1>22 DEF Send
<1>23. ASSUME NEW c \in Clients, GiveUp(c) PROVE IInv'
  BY <1>23 DEF GiveUp
<1>24. CASE UNCHANGED vars
  BY <1>24 DEF vars
<1>25. QED
  BY <1>1, <1>2, <1>3, <1>4, <1>5, <1>6, <1>7, <1>8, <1>9, <1>10, <1>11, <1>12, <1>13, <1>14, <1>15, <1>16, <1>17, <1>18, <1>19, <1>20, <1>21, <1>22, <1>23, <1>24
    DEF Next, WorkerStep, AcceptStep, StopStep, ClientStep

\* IInv is an invariant.
LEMMA Invariant == Spec => []IInv
<1>1. QED
  BY InitInv, Inductive, PTL DEF Spec

\* The state is always of its types.
THEOREM Typing == Spec => []TypeOK
<1>1. IInv => TypeOK
  BY DEF IInv
<1>2. QED
  BY <1>1, Invariant, PTL

\* Stop misses no connection, however it falls between accept, registration and
\* recheck (ipc_server.rs:277).
THEOREM CancelCatches == Spec => []CancelMissesNobody
<1>1. IInv => CancelMissesNobody
  BY DEF IInv
<1>2. QED
  BY <1>1, Invariant, PTL

\* No frame that arrives after stop was published is dispatched (ipc_server.rs:198).
THEOREM DispatchStops == Spec => []NothingLate
<1>1. IInv => NothingLate
  BY DEF IInv
<1>2. QED
  BY <1>1, Invariant, PTL

\* An answer means the command was run, once; a refusal that it was not.
THEOREM Honest == Spec => []OutcomeHonest
<1>1. IInv => OutcomeHonest
  BY DEF IInv
<1>2. QED
  BY <1>1, Invariant, PTL

-----------------------------------------------------------------------------
(* IpcServer implements CommandQueue *)

\* Every step of the server is one of the queue's, or none.
LEMMA QueueStep ==
  ASSUME IInv, [Next]_vars
  PROVE  [Queue!QueueNext]_(Queue!queueVars)
<1> USE ConnectionAssumption DEF IInv, TypeOK, SlotInv, ServedInv, StopInv, Registered, Fresh,
      Tell, Queue!Show, Queue!queueVars, mainVars, peers, history
<1>1. CASE UNCHANGED <<backlog, conn, client, executed>>
  BY <1>1
<1>2. CASE Accept
  <2>1. Queue!Take
    BY <1>2 DEF Accept, Queue!Take
  <2> QED
    BY <2>1 DEF Queue!QueueNext
<1>3. CASE CheckAccepted \/ RegisterFails \/ Clear
  <2>1. Queue!Close \/ UNCHANGED <<backlog, conn, client, executed>>
    BY <1>3 DEF CheckAccepted, RegisterFails, Clear, Queue!Close
  <2> QED
    BY <2>1 DEF Queue!QueueNext
<1>4. CASE Drop
  <2>1. Queue!CloseAll
    BY <1>4 DEF Drop, Queue!CloseAll
  <2> QED
    BY <2>1 DEF Queue!QueueNext
<1>5. CASE ReadEnds \/ ReadTimesOut
  <2>1. Queue!Refuse \/ UNCHANGED <<backlog, conn, client, executed>>
    BY <1>5 DEF ReadEnds, ReadTimesOut, InvalidFrame, Reply, Queue!Refuse
  <2> QED
    BY <2>1 DEF Queue!QueueNext
<1>6. CASE Dispatch
  <2>1. Queue!Refuse \/ UNCHANGED <<backlog, conn, client, executed>>
    BY <1>6 DEF Dispatch, Reply, Queue!Refuse
  <2> QED
    BY <2>1 DEF Queue!QueueNext
<1>7. CASE Execute
  <2>1. Queue!Run
    BY <1>7 DEF Execute, Queue!Run
  <2> QED
    BY <2>1 DEF Queue!QueueNext
<1>8. CASE Respond
  <2>1. Queue!Answer \/ UNCHANGED <<backlog, conn, client, executed>>
    BY <1>8 DEF Respond, Reply, Queue!Answer
  <2> QED
    BY <2>1 DEF Queue!QueueNext
<1>9. CASE StopCancel
  <2>1. CASE slot = conn
    BY <1>9, <2>1 DEF StopCancel, Queue!Cut, Queue!QueueNext
  <2>2. CASE slot = None
    BY <1>9, <2>2 DEF StopCancel
  <2> QED
    BY <2>1, <2>2
<1>10. CASE StopWake
  <2>1. Queue!Awaken \/ UNCHANGED <<backlog, conn, client, executed>>
    BY <1>10 DEF StopWake, Queue!Awaken
  <2> QED
    BY <2>1 DEF Queue!QueueNext
<1>11. CASE ProcessEnds
  <2>1. Queue!End
    BY <1>11 DEF ProcessEnds, Queue!End
  <2> QED
    BY <2>1 DEF Queue!QueueNext
<1>12. ASSUME NEW c \in Clients, Connect(c) \/ GiveUp(c)
       PROVE  Queue!QueueNext
  <2>1. Queue!Join(c) \/ Queue!GiveUp(c)
    BY <1>12 DEF Connect, GiveUp, Queue!Join, Queue!GiveUp
  <2> QED
    BY <2>1 DEF Queue!QueueNext
<1> QED
  BY <1>1, <1>2, <1>3, <1>4, <1>5, <1>6, <1>7, <1>8, <1>9, <1>10, <1>11, <1>12
     DEF Next, WorkerStep, AcceptStep, StopStep, ClientStep, CheckStopping, AcceptFails,
         Register, Serve, ReadFrame, StopPublish, StopUnlink, Send, vars

\* Whatever the worker and stop do to each other, the clients are served as a queue.
THEOREM Queues == Spec => QueueKept
<1>1. Init => Queue!QueueInit
  BY DEF Init, Queue!QueueInit
<1>2. IInv /\ [Next]_vars => [Queue!QueueNext]_(Queue!queueVars)
  BY QueueStep
<1> QED
  BY <1>1, <1>2, Invariant, PTL DEF Spec, QueueKept, Queue!QueueSpec

-----------------------------------------------------------------------------
(* Nobody is left behind *)

\* The safety part of StopEndsWorker: once stop has connected, a worker that is, or will
\* be, in accept has that connection before it, and a worker that has it ends.
WakeupKept ==
  /\ main \in {"unlink", "stopped"} /\ woken /\ worker = "accept"
       => \E i \in DOMAIN backlog : backlog[i] = Wake
  /\ conn = Wake => worker = "accepted" /\ stopping

\* The safety part of EveryClientServed: whoever waits is in the backlog of a listener
\* that is open, or is being served.
ClientsHeld ==
  \A c \in Clients : client[c] = "waiting" =>
    /\ worker # "done"
    /\ c = conn \/ \E i \in DOMAIN backlog : backlog[i] = c

\* Every step keeps the wake-up and the waiting clients where they are looked for.
LEMMA HeldStep ==
  ASSUME IInv, WakeupKept, ClientsHeld, [Next]_vars
  PROVE  WakeupKept' /\ ClientsHeld'
<1> USE ConnectionAssumption DEF IInv, TypeOK, SlotInv, StopInv, WakeupKept, ClientsHeld,
      WorkerSteps, MainSteps, Registered, Tell, mainVars, peers, history
<1>1. CASE UNCHANGED <<worker, conn, stopping, main, woken, backlog, client>>
  BY <1>1
<1>2. CASE CheckStopping \/ AcceptFails \/ Register \/ Serve \/ ReadFrame \/ Execute
  BY <1>2 DEF CheckStopping, AcceptFails, Register, Serve, ReadFrame, Execute
<1>3. CASE Accept
  <2>1. /\ worker = "accept" /\ worker' = "accepted" /\ conn = None
        /\ conn' = backlog[1] /\ UNCHANGED <<stopping, client>>
    BY <1>3 DEF Accept
  <2>2. \A i \in DOMAIN backlog : i = 1 \/ (i - 1 \in DOMAIN backlog' /\ backlog'[i - 1] = backlog[i])
    BY <1>3 DEF Accept
  <2>3. 1 \in DOMAIN backlog
    BY <1>3 DEF Accept
  <2>4. \A c \in Clients : client'[c] = "waiting" =>
          c = conn' \/ \E i \in DOMAIN backlog' : backlog'[i] = c
    BY <2>1, <2>2
  <2>5. conn' = Wake => stopping'
    BY <2>1, <2>3
  <2> QED
    BY <2>1, <2>4, <2>5
<1>4. CASE CheckAccepted \/ RegisterFails \/ Clear \/ ReadEnds \/ ReadTimesOut \/ Dispatch \/ Respond
  <2>1. UNCHANGED <<backlog, main, woken, stopping>> /\ worker' \notin {"accept", "accepted", "done"}
    BY <1>4 DEF CheckAccepted, RegisterFails, Clear, ReadEnds, ReadTimesOut, InvalidFrame,
                Dispatch, Respond, Reply
  <2>2. conn' \in {conn, None} /\ (conn = Wake => conn' = None)
    BY <1>4 DEF CheckAccepted, RegisterFails, Clear, ReadEnds, ReadTimesOut, InvalidFrame,
                Dispatch, Respond, Reply
  <2>3. \A c \in Clients : client'[c] = "waiting" =>
          client[c] = "waiting" /\ (c = conn => c = conn')
    BY <1>4 DEF CheckAccepted, RegisterFails, Clear, ReadEnds, ReadTimesOut, InvalidFrame,
                Dispatch, Respond, Reply
  <2>4. worker # "done"
    BY <1>4 DEF CheckAccepted, RegisterFails, Clear, ReadEnds, ReadTimesOut, InvalidFrame,
                Dispatch, Respond, Reply
  <2> QED
    BY <2>1, <2>2, <2>3, <2>4
<1>5. CASE Drop \/ ProcessEnds
  <2>1. worker' = "done" /\ conn' # Wake /\ \A c \in Clients : client'[c] # "waiting"
    BY <1>5 DEF Drop, ProcessEnds
  <2> QED
    BY <2>1
<1>6. CASE StopPublish \/ StopCancel
  BY <1>6 DEF StopPublish, StopCancel
<1>7. CASE StopWake
  <2>1. UNCHANGED <<worker, conn, stopping, client>>
    BY <1>7 DEF StopWake
  <2>2. CASE UNCHANGED backlog /\ woken' = FALSE
    BY <2>1, <2>2
  <2>3. CASE backlog' = Append(backlog, Wake)
    <3>1. /\ \A i \in DOMAIN backlog : i \in DOMAIN backlog' /\ backlog'[i] = backlog[i]
          /\ Len(backlog) + 1 \in DOMAIN backlog' /\ backlog'[Len(backlog) + 1] = Wake
      BY <2>3
    <3> QED
      BY <2>1, <3>1
  <2> QED
    BY <1>7, <2>2, <2>3 DEF StopWake
<1>8. CASE StopUnlink
  BY <1>8 DEF StopUnlink
<1>9. ASSUME NEW c \in Clients, Connect(c)
      PROVE  WakeupKept' /\ ClientsHeld'
  <2>1. /\ UNCHANGED <<worker, conn, stopping, main, woken>> /\ worker # "done"
        /\ backlog' = Append(backlog, c) /\ client' = [client EXCEPT ![c] = "waiting"]
    BY <1>9 DEF Connect
  <2>2. /\ \A i \in DOMAIN backlog : i \in DOMAIN backlog' /\ backlog'[i] = backlog[i]
        /\ Len(backlog) + 1 \in DOMAIN backlog' /\ backlog'[Len(backlog) + 1] = c
    BY <2>1
  <2> QED
    BY <2>1, <2>2
<1>10. ASSUME NEW c \in Clients, Send(c) \/ GiveUp(c)
       PROVE  WakeupKept' /\ ClientsHeld'
  BY <1>10 DEF Send, GiveUp
<1> QED
  BY <1>1, <1>2, <1>3, <1>4, <1>5, <1>6, <1>7, <1>8, <1>9, <1>10
     DEF Next, WorkerStep, AcceptStep, StopStep, ClientStep, vars

\* Both are invariants.
LEMMA Nobody == Spec => [](WakeupKept /\ ClientsHeld)
<1>1. Init => WakeupKept /\ ClientsHeld
  BY ConnectionAssumption DEF Init, WakeupKept, ClientsHeld
<1> QED
  BY <1>1, HeldStep, Invariant, PTL DEF Spec

\* Whenever stop connects, the wake-up reaches the worker if it needs one, and is never
\* served as a client.
THEOREM WakeupArrives == Spec => []WakeupKept
<1> QED
  BY Nobody, PTL

\* No client waits for a listener that is gone, nor for a turn that has been taken away.
THEOREM NoClientLost == Spec => []ClientsHeld
<1> QED
  BY Nobody, PTL

\* How far a worker has to go once stop is published: it accepts, reads and dispatches
\* nothing more than what it is at.
Remaining ==
  CASE worker = "register" -> 11 [] worker = "registered" -> 10 [] worker = "reading" -> 9
    [] worker = "received" -> 8 [] worker = "dispatching" -> 7 [] worker = "responding" -> 6
    [] worker = "clear" -> 5 [] worker = "accept" -> 4 [] worker = "accepted" -> 3
    [] worker = "check" -> 2 [] worker = "dropping" -> 1 [] OTHER -> 0

\* Once stop is published each step of the worker brings it nearer its end, through
\* whatever it was doing: with WakeupKept, what StopEndsWorker says but for fairness.
WindsDown == [][stopping => UNCHANGED worker \/ Remaining' < Remaining]_vars

\* A stopped worker goes round its loop no more.
THEOREM WorkerWindsDown == Spec => WindsDown
<1>1. ASSUME IInv, Next, stopping
      PROVE  UNCHANGED worker \/ Remaining' < Remaining
  <2> USE <1>1 DEF IInv, TypeOK, SlotInv, Registered, Remaining, WorkerSteps
  <2>1. CASE CheckStopping \/ Accept \/ AcceptFails \/ CheckAccepted \/ Register \/ RegisterFails
    BY <2>1 DEF CheckStopping, Accept, AcceptFails, CheckAccepted, Register, RegisterFails
  <2>2. CASE Serve \/ Clear \/ Drop
    BY <2>2 DEF Serve, Clear, Drop
  <2>3. CASE ReadFrame \/ ReadEnds \/ ReadTimesOut
    <3>1. worker = "reading" /\ worker' \in {"received", "clear"}
      BY <2>3 DEF ReadFrame, ReadEnds, ReadTimesOut, InvalidFrame
    <3> QED
      BY <3>1
  <2>4. CASE Dispatch \/ Execute \/ Respond
    BY <2>4 DEF Dispatch, Execute, Respond
  <2>5. CASE StopPublish \/ StopStep
    BY <2>5 DEF StopPublish, StopStep, StopCancel, StopWake, StopUnlink
  <2>6. CASE ProcessEnds
    BY <2>6 DEF ProcessEnds
  <2>7. ASSUME NEW c \in Clients, ClientStep(c)
        PROVE  UNCHANGED worker
    BY <2>7 DEF ClientStep, Connect, Send, GiveUp
  <2> QED
    BY <2>1, <2>2, <2>3, <2>4, <2>5, <2>6, <2>7 DEF Next, WorkerStep, AcceptStep
<1> QED
  BY <1>1, Invariant, PTL DEF Spec, WindsDown
=============================================================================
