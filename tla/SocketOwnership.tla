-------------------------- MODULE SocketOwnership --------------------------
(***************************************************************************)
(* Who owns the socket file: the instance lock of main.rs, the binding of  *)
(* the listener and the removal of the file in ipc_server.rs, by instances *)
(* that come and go, crash, and leave their sockets behind.                *)
(*                                                                         *)
(* A socket is named by the instance that bound it, which stands for its   *)
(* device and inode: an identity is reused only once its socket is gone.   *)
(* Other programs may remove the file, or put something in its place: an   *)
(* object the code refuses to touch, or a socket of the same user.         *)
(***************************************************************************)
CONSTANTS Instances,
          Foreign,   \* not a socket, or another user's
          Listener,  \* a socket another program of this user serves
          None

ASSUME NameAssumption ==
  /\ Foreign \notin Instances /\ Listener \notin Instances /\ None \notin Instances
  /\ Foreign # Listener /\ Foreign # None /\ Listener # None

VARIABLES
  lock,      \* who holds the advisory lock
  path,      \* what is at the socket's path
  step,      \* where each instance is
  identity,  \* what each took for its socket when it had bound it
  meddled,   \* history: another program has touched the path
  failed     \* history: the instances that met an I/O error

vars == <<lock, path, step, identity, meddled, failed>>

Objects == Instances \cup {Foreign, Listener}
Binding == {"bind", "inspect", "probe", "remove", "rebind", "identify", "secure"}
Steps == {"none", "launched", "serving", "unserved", "unlink", "leaving"} \cup Binding

TypeOK ==
  /\ lock \in Instances \cup {None}
  /\ path \in Objects \cup {None}
  /\ step \in [Instances -> Steps]
  /\ identity \in [Instances -> Objects \cup {None}]
  /\ \A p \in Instances : step[p] \in {"secure", "serving", "unlink"} => identity[p] # None
  /\ meddled \in BOOLEAN
  /\ failed \in SUBSET Instances

Init ==
  /\ lock = None /\ path = None
  /\ step = [p \in Instances |-> "none"]
  /\ identity = [p \in Instances |-> None]
  /\ meddled = FALSE /\ failed = {}

Go(p, to) == step' = [step EXCEPT ![p] = to]

\* An error of the file system: the instance goes on without its server.
Give(p) == Go(p, "unserved") /\ failed' = failed \cup {p}

-----------------------------------------------------------------------------
(* main: the instance lock *)

Launch(p) ==
  /\ step[p] = "none" /\ path # p
  /\ Go(p, "launched")
  /\ identity' = [identity EXCEPT ![p] = None]
  /\ failed' = failed \ {p}
  /\ UNCHANGED <<lock, path, meddled>>

\* Mutant: an instance that does not get the lock looks at the socket.
TryLockOrProbe(p) ==
  /\ step[p] = "launched"
  /\ lock' = IF lock = None THEN p ELSE lock
  /\ Go(p, "bind")
  /\ UNCHANGED <<path, identity, meddled, failed>>

\* The lock is free, or the instance leaves before it has touched anything.
TryLock(p) ==
  /\ step[p] = "launched"
  /\ \/ lock = None /\ lock' = p /\ Go(p, "bind")
     \/ UNCHANGED lock /\ Go(p, "none")
  /\ UNCHANGED <<path, identity, meddled, failed>>

-----------------------------------------------------------------------------
(* bind_listener *)

\* Mutant: an address in use is an error like any other.
BindOnce(p) ==
  /\ step[p] = "bind"
  /\ \/ path = None /\ path' = p /\ Go(p, "identify")
     \/ path # None /\ UNCHANGED path /\ Go(p, "unserved")
  /\ UNCHANGED <<lock, identity, meddled, failed>>

\* bind succeeds on a free path; an occupied one is looked at.
Bind(p) ==
  /\ step[p] = "bind"
  /\ \/ path = None /\ path' = p /\ Go(p, "identify") /\ UNCHANGED failed
     \/ path # None /\ UNCHANGED path /\ Go(p, "inspect") /\ UNCHANGED failed
     \/ UNCHANGED path /\ Give(p)
  /\ UNCHANGED <<lock, identity, meddled>>

\* Only a socket of this user is probed; a path that has become free is given up.
Inspect(p) ==
  /\ step[p] = "inspect"
  /\ Go(p, IF path \in {Foreign, None} THEN "unserved" ELSE "probe")
  /\ UNCHANGED <<lock, path, identity, meddled, failed>>

\* A dead socket refuses the connection.  One that is served answers STATUS, or is
\* too busy to do so within a second.
Probe(p) ==
  /\ step[p] = "probe"
  /\ \/ Go(p, "remove")
     \/ /\ path = Listener \/ (path \in Instances /\ step[path] = "serving")
        /\ Go(p, "unserved")
  /\ UNCHANGED <<lock, path, identity, meddled, failed>>

\* The stale socket is removed: whatever is at the path by now.
Remove(p) ==
  /\ step[p] = "remove"
  /\ \/ path # None /\ path' = None /\ Go(p, "rebind") /\ UNCHANGED failed
     \/ path = None /\ UNCHANGED path /\ Go(p, "unserved") /\ UNCHANGED failed
     \/ path # None /\ UNCHANGED path /\ Give(p)
  /\ UNCHANGED <<lock, identity, meddled>>

Rebind(p) ==
  /\ step[p] = "rebind"
  /\ \/ path = None /\ path' = p /\ Go(p, "identify") /\ UNCHANGED failed
     \/ path # None /\ UNCHANGED path /\ Go(p, "unserved") /\ UNCHANGED failed
     \/ path = None /\ UNCHANGED path /\ Give(p)
  /\ UNCHANGED <<lock, identity, meddled>>

\* The identity is that of whatever is at the path after bind.
Identify(p) ==
  /\ step[p] = "identify"
  /\ IF path = None THEN Go(p, "unserved") /\ UNCHANGED identity
     ELSE Go(p, "secure") /\ identity' = [identity EXCEPT ![p] = path]
  /\ UNCHANGED <<lock, path, meddled, failed>>

\* chmod 0600; when that fails the socket is removed again.
Secure(p) ==
  /\ step[p] = "secure"
  /\ \/ path # None /\ Go(p, "serving") /\ UNCHANGED <<path, failed>>
     \/ Give(p) /\ path' = IF path = identity[p] THEN None ELSE path
  /\ UNCHANGED <<lock, identity, meddled>>

-----------------------------------------------------------------------------
(* The end of an instance *)

\* stop, in teardown: remove_socket_if_owned compares the identity,
Stop(p) ==
  /\ step[p] = "serving"
  /\ Go(p, IF path = identity[p] THEN "unlink" ELSE "leaving")
  /\ UNCHANGED <<lock, path, identity, meddled, failed>>

\* ... and removes whatever is at the path by now, if it can.
Unlink(p) ==
  /\ step[p] = "unlink"
  /\ Go(p, "leaving")
  /\ \/ path' = None /\ UNCHANGED failed
     \/ UNCHANGED path /\ failed' = failed \cup {p}
  /\ UNCHANGED <<lock, identity, meddled>>

\* The process ends, at any step: the kernel releases the lock, the file stays.
Exit(p) ==
  /\ step[p] # "none"
  /\ Go(p, "none")
  /\ lock' = IF lock = p THEN None ELSE lock
  /\ UNCHANGED <<path, identity, meddled, failed>>

\* Another program removes what is at the path, or puts something there.
Meddle ==
  /\ meddled' = TRUE
  /\ \/ path # None /\ path' = None
     \/ path = None /\ path' \in {Foreign, Listener}
  /\ UNCHANGED <<lock, step, identity, failed>>

InstanceStep(p) ==
  \/ Launch(p) \/ TryLock(p)
  \/ Bind(p) \/ Inspect(p) \/ Probe(p) \/ Remove(p) \/ Rebind(p) \/ Identify(p) \/ Secure(p)
  \/ Stop(p) \/ Unlink(p) \/ Exit(p)

Next == Meddle \/ \E p \in Instances : InstanceStep(p)

Spec == Init /\ [][Next]_vars

-----------------------------------------------------------------------------
(* Properties *)

\* A served socket is where the clients look for it, unless another program has
\* touched the path: no instance that comes or goes, at whatever step, takes it
\* away, not even one that found its owner too busy to answer (main.rs:23).
ServerReachable == \A p \in Instances : step[p] = "serving" /\ ~meddled => path = p

\* An instance is without its server only after an I/O error or when another
\* program is in the way: what a crash has left behind is always reclaimed.
StaleReclaimed == \A p \in Instances : step[p] = "unserved" => p \in failed \/ meddled
=============================================================================
