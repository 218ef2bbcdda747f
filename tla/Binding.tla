------------------------------- MODULE Binding -------------------------------
(***************************************************************************)
(* bind_listeners of listener.rs for a Unix socket: several servers, or    *)
(* several entries of one server's listen list, that want the same path.   *)
(* The socket a crashed server leaves behind has to be removed before the  *)
(* path can be bound again; the lock file beside it is what keeps a server *)
(* from removing the socket of one that is alive.  Entries of one server   *)
(* are tried in turn in the code; here they interleave like all others.    *)
(*                                                                         *)
(* pc[b] is how far b has come, lock who holds the lock on the lock file,  *)
(* socket whose socket the path names, dead or alive.  The system releases *)
(* the lock of a process that ends, and leaves the path as it is.          *)
(***************************************************************************)
CONSTANTS Binder,   \* those who want the path
          None      \* nobody

VARIABLES pc, lock, socket

vars == <<pc, lock, socket>>

Holding == {"locked", "removed", "serving", "closing"}

TypeOK == /\ pc \in [Binder -> {"start", "failed"} \cup Holding]
          /\ lock \in Binder \cup {None}
          /\ socket \in Binder \cup {None}

Init == /\ pc = [b \in Binder |-> "start"]
        /\ lock = None
        /\ socket = None

\* Binder b gives up: what it held of the lock goes with the Flock.
Fail(b) == /\ pc' = [pc EXCEPT ![b] = "failed"]
           /\ lock' = IF lock = b THEN None ELSE lock
           /\ UNCHANGED socket
------------------------------------------------------------------------------
\* Flock::lock with LockExclusiveNonblock.  Without the lock, or when the lock
\* file cannot be created, the entry is skipped.
Lock(b) == /\ pc[b] = "start"
           /\ \/ /\ lock = None
                 /\ lock' = b
                 /\ pc' = [pc EXCEPT ![b] = "locked"]
                 /\ UNCHANGED socket
              \/ Fail(b)

\* remove_file; it fails only where there is nothing to remove.
RemoveFile(b) == /\ pc[b] = "locked"
                 /\ socket' = None
                 /\ pc' = [pc EXCEPT ![b] = "removed"]
                 /\ UNCHANGED lock

\* UnixListener::bind does not bind a path that exists.
Bind(b) == /\ pc[b] = "removed"
           /\ \/ /\ socket = None
                 /\ socket' = b
                 /\ pc' = [pc EXCEPT ![b] = "serving"]
                 /\ UNCHANGED lock
              \/ Fail(b)

\* The Listener is dropped: its socket closes, and then the Flock beside it, the
\* second field of ListenerType::Unix, is released.
Close(b) == /\ pc[b] = "serving"
            /\ pc' = [pc EXCEPT ![b] = "closing"]
            /\ UNCHANGED <<lock, socket>>

Release(b) == pc[b] = "closing" /\ Fail(b)

\* The process ends, wherever it is, and is started again.
Restart(b) == /\ pc' = [pc EXCEPT ![b] = "start"]
              /\ lock' = IF lock = b THEN None ELSE lock
              /\ UNCHANGED socket

Next == \E b \in Binder :
            Lock(b) \/ RemoveFile(b) \/ Bind(b) \/ Close(b) \/ Release(b) \/ Restart(b)

Spec == Init /\ [][Next]_vars
------------------------------------------------------------------------------
\* Clients that open the path reach the server that serves there: nobody removes
\* or replaces its socket while it is alive, so no more than one serves.
SocketIsServed == \A b \in Binder : pc[b] = "serving" => socket = b

\* A server that has removed the path finds it free: what a crash left behind
\* does not keep anyone from binding, and nobody binds in between.
PathIsFree == \A b \in Binder : pc[b] = "removed" => socket = None

\* Strengthening: those past the lock hold it.
HoldersHaveLock == \A b \in Binder : pc[b] \in Holding => lock = b

BindingInv == SocketIsServed /\ PathIsFree /\ HoldersHaveLock
==============================================================================
