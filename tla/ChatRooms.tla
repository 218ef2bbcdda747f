------------------------------ MODULE ChatRooms ------------------------------
(***************************************************************************)
(* What the talker of src/server/talker.rs promises, without handles,      *)
(* vectors, loops, timers and limits: users come and go, are in rooms or   *)
(* are not, and what is said in a room becomes the end of its history.     *)
(*                                                                         *)
(*   up       the talker runs                                              *)
(*   online   the users that are connected                                 *)
(*   inside   the rooms each of them is in                                 *)
(*   rooms    the rooms there are                                          *)
(*   history  what is remembered of each of them, the oldest first         *)
(***************************************************************************)
EXTENDS Integers, Sequences

CONSTANTS UserID, RoomID, None,
          SYSTEM,       \* who announces that somebody joined, left or renamed
          RoomSets      \* the sets of rooms a user can be in

VARIABLES up, online, inside, rooms, history

vars == <<up, online, inside, rooms, history>>

\* The history of one room goes on: by one message, the last one, and older
\* ones may be forgotten for it.
Continues(old, new) ==
    /\ new # <<>>
    /\ \E k \in 0 .. Len(old) : new = Append(SubSeq(old, k + 1, Len(old)), new[Len(new)])

\* Something is said in room r, and nothing in the others.
Said(r) ==
    /\ r \in rooms
    /\ Continues(history[r], history'[r])
    /\ history' = [history EXCEPT ![r] = history'[r]]

LastSaid(r) == history'[r][Len(history'[r])]
Announced(r) == Said(r) /\ LastSaid(r).sid = SYSTEM /\ LastSaid(r).sent_to = None
------------------------------------------------------------------------------
Init ==
    /\ up = TRUE /\ online = {} /\ rooms = {}
    /\ inside = [u \in UserID |-> {}]
    /\ history = [r \in RoomID |-> <<>>]

Connect(u) ==
    /\ online' = online \cup {u} /\ u \notin online
    /\ UNCHANGED <<up, inside, rooms, history>>

\* A user that goes is out of every room at once.
Disconnect(u) ==
    /\ u \in online /\ online' = online \ {u}
    /\ inside' = [inside EXCEPT ![u] = {}]
    /\ UNCHANGED <<up, rooms, history>>

\* Into one room or several, all at once, and none of them entered twice.
Enter(u, R) ==
    /\ u \in online /\ R \subseteq rooms \ inside[u]
    /\ inside[u] \cup R \in RoomSets
    /\ inside' = [inside EXCEPT ![u] = @ \cup R]
    /\ UNCHANGED <<up, online, rooms, history>>

Leave(u, r) ==
    /\ u \in online /\ r \in inside[u]
    /\ inside' = [inside EXCEPT ![u] = @ \ {r}]
    /\ Announced(r)
    /\ UNCHANGED <<up, online, rooms>>

\* An exclusive join begins by leaving every other room.
LeaveOthers(u, r) ==
    /\ u \in online
    /\ inside' = [inside EXCEPT ![u] = @ \cap {r}]
    /\ UNCHANGED <<up, online, rooms, history>>

Announce(r) ==
    /\ Announced(r)
    /\ UNCHANGED <<up, online, inside, rooms>>

\* Only who is in a room is heard there; so is whom a private message is for.
Say(u, r) ==
    /\ u \in online /\ r \in inside[u]
    /\ Said(r) /\ LastSaid(r).sid = u
    /\ \A v \in UserID : LastSaid(r).sent_to = v => r \in inside[v]
    /\ UNCHANGED <<up, online, inside, rooms>>

\* A new room has no past.
Open(r) ==
    /\ rooms' = rooms \cup {r} /\ r \notin rooms
    /\ UNCHANGED <<up, online, inside, history>>

\* Rooms nobody is in may go, and their past with them.
Forget(R) ==
    /\ R \subseteq rooms /\ \A u \in UserID : inside[u] \cap R = {}
    /\ rooms' = rooms \ R
    /\ history' = [r \in RoomID |-> IF r \in R THEN <<>> ELSE history[r]]
    /\ UNCHANGED <<up, online, inside>>

\* The task of the talker ends, and all it knows is lost.
Fall ==
    /\ up' = FALSE /\ online' = {} /\ rooms' = {}
    /\ inside' = [u \in UserID |-> {}]
    /\ history' = [r \in RoomID |-> <<>>]

Next ==
    /\ up
    /\ \/ \E u \in UserID :
              \/ Connect(u) \/ Disconnect(u)
              \/ \E R \in SUBSET RoomID : Enter(u, R)
              \/ \E r \in RoomID : Leave(u, r) \/ LeaveOthers(u, r) \/ Say(u, r)
       \/ \E r \in RoomID : Announce(r) \/ Open(r)
       \/ \E R \in SUBSET RoomID : Forget(R)
       \/ Fall

Spec == Init /\ [][Next]_vars
==============================================================================
