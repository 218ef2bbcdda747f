---------------------------- MODULE BindingProofs ----------------------------
(***************************************************************************)
(* Theorems about Binding, for any number of servers.                      *)
(***************************************************************************)
EXTENDS Binding, TLAPS

IInv == TypeOK /\ BindingInv

USE DEF TypeOK, BindingInv, SocketIsServed, PathIsFree, HoldersHaveLock, Holding, IInv

\* Whoever gives up or restarts takes only its own lock along.
LEMMA LetGo ==
    ASSUME None \notin Binder, IInv, NEW b \in Binder, NEW to \in {"start", "failed"},
           pc' = [pc EXCEPT ![b] = to],
           lock' = IF lock = b THEN None ELSE lock,
           socket' = socket
    PROVE  IInv'
<1>1. TypeOK'
    OBVIOUS
<1>2. \A c \in Binder : c # b => pc'[c] = pc[c]
    OBVIOUS
<1>3. pc'[b] = to
    OBVIOUS
<1>4. HoldersHaveLock'
    BY <1>2, <1>3
<1> QED BY <1>1, <1>2, <1>3, <1>4

\* Only one holds the lock, so what it does to the path is nobody else's loss.
LEMMA NextInv ==
    ASSUME None \notin Binder, IInv, [Next]_vars
    PROVE  IInv'
<1>1. CASE UNCHANGED vars
    BY <1>1 DEF vars
<1>2. ASSUME NEW b \in Binder, Lock(b)
      PROVE  IInv'
    <2>1. CASE Fail(b)
        BY <2>1, LetGo DEF Fail
    <2>2. CASE lock = None /\ lock' = b /\ pc' = [pc EXCEPT ![b] = "locked"] /\ UNCHANGED socket
        <3>1. \A c \in Binder : pc[c] \notin Holding
            BY <2>2
        <3>2. pc'[b] = "locked" /\ \A c \in Binder : c # b => pc'[c] = pc[c]
            BY <2>2
        <3> QED BY <2>2, <3>1, <3>2
    <2> QED BY <1>2, <2>1, <2>2 DEF Lock
<1>3. ASSUME NEW b \in Binder, RemoveFile(b)
      PROVE  IInv'
    <2>1. \A c \in Binder : c # b => pc[c] \notin Holding /\ pc'[c] = pc[c]
        BY <1>3 DEF RemoveFile
    <2>2. pc'[b] = "removed" /\ socket' = None /\ lock' = lock /\ lock = b
        BY <1>3 DEF RemoveFile
    <2> QED BY <1>3, <2>1, <2>2 DEF RemoveFile
<1>4. ASSUME NEW b \in Binder, Bind(b)
      PROVE  IInv'
    <2>1. CASE Fail(b)
        BY <2>1, LetGo DEF Fail
    <2>2. CASE socket' = b /\ pc' = [pc EXCEPT ![b] = "serving"] /\ UNCHANGED lock
        <3>1. \A c \in Binder : c # b => pc[c] \notin Holding /\ pc'[c] = pc[c]
            BY <1>4, <2>2 DEF Bind
        <3>2. pc'[b] = "serving" /\ lock = b
            BY <1>4, <2>2 DEF Bind
        <3> QED BY <2>2, <3>1, <3>2
    <2> QED BY <1>4, <2>1, <2>2 DEF Bind
<1>5. ASSUME NEW b \in Binder, Close(b)
      PROVE  IInv'
    BY <1>5 DEF Close
<1>6. ASSUME NEW b \in Binder, Release(b)
      PROVE  IInv'
    BY <1>6, LetGo DEF Release, Fail
<1>7. ASSUME NEW b \in Binder, Restart(b)
      PROVE  IInv'
    BY <1>7, LetGo DEF Restart
<1> QED BY <1>1, <1>2, <1>3, <1>4, <1>5, <1>6, <1>7 DEF Next

\* A server that is alive keeps its socket, whatever others start, crash or stop
\* meanwhile; and one that has got the lock can bind the path.
THEOREM OneServerPerPath ==
    ASSUME None \notin Binder
    PROVE  Spec => [](SocketIsServed /\ PathIsFree)
<1>1. Init => IInv
    BY DEF Init
<1>2. IInv /\ [Next]_vars => IInv'
    BY NextInv
<1>3. IInv => SocketIsServed /\ PathIsFree
    OBVIOUS
<1> QED BY <1>1, <1>2, <1>3, PTL DEF Spec
==============================================================================
