--------------------------- MODULE TalkerRefinement ---------------------------
(***************************************************************************)
(* The talker implements ChatRooms.  Its handlers loop, tell one room      *)
(* after another, and change one map after the other; whoever asks for the *)
(* rooms of a user through the mapping below sees each of them happen at   *)
(* one moment:                                                             *)
(*                                                                         *)
(*   joining one room or several    when ROOM is sent                      *)
(*   leaving the others for one     when the request is taken              *)
(*   disconnecting                  when the talker takes it               *)
(***************************************************************************)
EXTENDS TalkerProperties

Up == panicked = None

\* The rooms a loop in progress has entered, but not told anybody of.
Entering == {d.rid : d \in Pending(task)}

Inside(u) ==
    CASE task.sid = u /\ task.op = "exclusive" -> RoomsIn(in_rooms[u]) \cap {task.rid}
      [] task.sid = u /\ task.op \in {"user_joined", "room_join"} ->
             RoomsIn(in_rooms[u]) \ Entering
      [] OTHER -> RoomsIn(in_rooms[u])

Chat == INSTANCE ChatRooms WITH
    up       <- Up,
    online   <- IF Up THEN users ELSE {},
    inside   <- [u \in UserID |-> IF Up THEN Inside(u) ELSE {}],
    rooms    <- IF Up THEN rooms ELSE {},
    history  <- [r \in RoomID |-> IF Up THEN messages[r] ELSE <<>>],
    RoomSets <- {R \in SUBSET RoomID : Cardinality(R) <= MaxRooms}

\* What every handler amounts to, interrupted or not, is one of the steps of
\* ChatRooms: no order of requests, loops and ticks lets a user be in a room it
\* did not enter, be heard where it is not, see a history change behind its
\* end, or lose a room it is in.
ImplementsChatRooms == Chat!Spec
==============================================================================
