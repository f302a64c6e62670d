----------------------- MODULE SocketOwnershipProofs -----------------------
(***************************************************************************)
(* Proofs about SocketOwnership, for any number of instances: its types,   *)
(* that a served socket stays where it is, and that a stale one is always  *)
(* reclaimed.                                                              *)
(***************************************************************************)
EXTENDS SocketOwnership, TLAPS

\* An instance that has come past the lock holds it.
LockInv == \A p \in Instances : step[p] \notin {"none", "launched"} => lock = p

\* Before it binds, an instance's name is not at the path.
UnboundInv ==
  \A p \in Instances :
    step[p] \in {"launched", "bind", "inspect", "probe", "remove", "rebind"} => path # p

\* What is at the path at each step of the instance that holds the lock, if no
\* other program has touched it.
PathInv ==
  \A p \in Instances : ~meddled =>
    /\ step[p] \in {"inspect", "probe", "remove"} => path \in Instances
    /\ step[p] = "rebind" => path = None
    /\ step[p] \in {"identify", "secure", "serving"} => path = p

\* ... and at any time.
UntouchedInv == ~meddled => path \in Instances \cup {None}

IInv ==
  /\ TypeOK /\ LockInv /\ UnboundInv /\ PathInv /\ UntouchedInv
  /\ StaleReclaimed

\* IInv holds at the start.
LEMMA InitInv == Init => IInv
BY NameAssumption DEF Init, IInv, TypeOK, LockInv, UnboundInv, PathInv, UntouchedInv,
   StaleReclaimed, Steps, Binding, Objects

\* Every step of an instance and of other programs keeps IInv.
LEMMA Inductive == IInv /\ [Next]_vars => IInv'
<1> SUFFICES ASSUME IInv, [Next]_vars PROVE IInv'
  OBVIOUS
<1> USE NameAssumption DEF IInv, TypeOK, LockInv, UnboundInv, PathInv, UntouchedInv,
      StaleReclaimed, Steps, Binding, Objects, Go, Give
<1>1. CASE Meddle
  BY <1>1 DEF Meddle
<1>2. CASE UNCHANGED vars
  BY <1>2 DEF vars
<1>3. ASSUME NEW p \in Instances, Launch(p) PROVE IInv'
  BY <1>3 DEF Launch
<1>4. ASSUME NEW p \in Instances, TryLock(p) PROVE IInv'
  BY <1>4 DEF TryLock
<1>5. ASSUME NEW p \in Instances, Bind(p) PROVE IInv'
  BY <1>5 DEF Bind
<1>6. ASSUME NEW p \in Instances, Inspect(p) PROVE IInv'
  BY <1>6 DEF Inspect
<1>7. ASSUME NEW p \in Instances, Probe(p) PROVE IInv'
  BY <1>7 DEF Probe
<1>8. ASSUME NEW p \in Instances, Remove(p) PROVE IInv'
  BY <1>8 DEF Remove
<1>9. ASSUME NEW p \in Instances, Rebind(p) PROVE IInv'
  BY <1>9 DEF Rebind
<1>10. ASSUME NEW p \in Instances, Identify(p) PROVE IInv'
  BY <1>10 DEF Identify
<1>11. ASSUME NEW p \in Instances, Secure(p) PROVE IInv'
  BY <1>11 DEF Secure
<1>12. ASSUME NEW p \in Instances, Stop(p) PROVE IInv'
  BY <1>12 DEF Stop
<1>13. ASSUME NEW p \in Instances, Unlink(p) PROVE IInv'
  BY <1>13 DEF Unlink
<1>14. ASSUME NEW p \in Instances, Exit(p) PROVE IInv'
  BY <1>14 DEF Exit
<1>15. QED
  BY <1>1, <1>2, <1>3, <1>4, <1>5, <1>6, <1>7, <1>8, <1>9, <1>10, <1>11, <1>12, <1>13,
     <1>14 DEF Next, InstanceStep

\* IInv is an invariant.
LEMMA Invariant == Spec => []IInv
<1>1. QED
  BY InitInv, Inductive, PTL DEF Spec

\* The state is always of its types.
THEOREM Typing == Spec => []TypeOK
<1>1. IInv => TypeOK
  BY DEF IInv
<1>2. QED
  BY <1>1, Invariant, PTL

\* No instance, of however many, takes the socket of the one that serves.
THEOREM Reachable == Spec => []ServerReachable
<1>1. IInv => ServerReachable
  BY DEF IInv, PathInv, ServerReachable
<1>2. QED
  BY <1>1, Invariant, PTL

\* No crash leaves a socket that keeps a later instance from serving.
THEOREM Reclaimed == Spec => []StaleReclaimed
<1>1. IInv => StaleReclaimed
  BY DEF IInv
<1>2. QED
  BY <1>1, Invariant, PTL

-----------------------------------------------------------------------------
(* One instance at a time, also when other programs meddle *)

\* Past the lock there is one instance, and no other touches the path: not one that is
\* launched beside it, nor one that has crashed, at whatever step of binding, serving
\* or stopping it is.
OnlyHolderTouches ==
  [][path' # path => Meddle \/ \E p \in Instances : lock = p /\ InstanceStep(p)]_vars

\* The checks and the removals of the socket never race with those of another instance,
\* though each is several calls (ipc_server.rs:33).
THEOREM HolderAlone == Spec => OnlyHolderTouches
<1>1. ASSUME IInv, Next, path' # path
      PROVE  Meddle \/ \E p \in Instances : lock = p /\ InstanceStep(p)
  <2> SUFFICES ASSUME NEW p \in Instances, InstanceStep(p) PROVE lock = p
    BY <1>1 DEF Next
  <2>1. step[p] \notin {"none", "launched"}
    BY <1>1 DEF InstanceStep, Launch, TryLock, Bind, Inspect, Probe, Remove, Rebind, Identify,
                Secure, Stop, Unlink, Exit
  <2> QED
    BY <1>1, <2>1 DEF IInv, LockInv
<1> QED
  BY <1>1, Invariant, PTL DEF Spec, OnlyHolderTouches
=============================================================================
