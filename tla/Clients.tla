------------------------------- MODULE Clients -------------------------------
(***************************************************************************)
(* What a client can know.  Clients are not part of the repository; this   *)
(* is the replica any client keeps by reading the S2C messages the way     *)
(* docs/protocol.md lists them and src/types.rs serialises them: a room    *)
(* handle is an index into the array of the last ROOM message, HISTORY     *)
(* opens a room, USER_UPDATE, USER_JOINED, USER_LEFT and USER_CHANGE_NICK  *)
(* maintain its list of users, TYPING replaces its list of typing users    *)
(* and MESSAGE extends its log.                                            *)
(*                                                                         *)
(* The talker's channel, the router and the listener hand the events of    *)
(* one client over in the order in which the talker sent them, so the      *)
(* replica is advanced at the moment of sending: client[u] is what user u  *)
(* knows once it has read everything sent to it.                           *)
(***************************************************************************)
EXTENDS RoomHandles

CONSTANTS UserID,    \* session ids
          Profile,   \* nicks and colours, a pair is one value
          LogMax     \* bound: how many messages of a room a client remembers

ASSUME ClientsAssumption == LogMax \in Nat

VARIABLE client

NewClient ==
    [rooms     |-> <<>>,                      \* the array of the last ROOM
     roster    |-> [r \in RoomID |-> {}],     \* <<sid, profile>> of the users
     typing    |-> [r \in RoomID |-> {}],
     log       |-> [r \in RoomID |-> <<>>],
     misrouted |-> FALSE,                     \* a handle meant another room
     renamed   |-> {}]     \* rooms this user's profile changed in, unannounced

\* The last two are history variables of the model.  For the first every event
\* carries, never sent, the room it was meant for beside the handle by which
\* the client has to find it; renamed is told by the talker (see Talker).
Resolve(c, rh) == IF rh + 1 \in DOMAIN c.rooms THEN c.rooms[rh + 1] ELSE None

LastN(s) == IF Len(s) > LogMax THEN SubSeq(s, Len(s) - LogMax + 1, Len(s)) ELSE s

Others(roster, sid) == {entry \in roster : entry[1] # sid}

OpenRooms(c, array) ==
    LET kept(f, empty) == [r \in RoomID |-> IF r \in RoomsIn(array) THEN f[r] ELSE empty]
    IN  [c EXCEPT !.rooms  = array,
                  !.roster = kept(@, {}),
                  !.typing = kept(@, {}),
                  !.log    = kept(@, <<>>)]

InRoom(c, r, e) ==
    CASE e.type = "HISTORY" ->
             [c EXCEPT !.log[r] = LastN(e.hist), !.roster[r] = {}, !.typing[r] = {},
                       !.renamed = @ \ {r}]
      [] e.type = "USER_UPDATE"      -> [c EXCEPT !.roster[r] = e.users]
      [] e.type \in {"USER_JOINED", "USER_CHANGE_NICK"} ->
             [c EXCEPT !.roster[r] = Others(@, e.user[1]) \cup {e.user}]
      [] e.type = "USER_LEFT" ->
             [c EXCEPT !.roster[r] = Others(@, e.sid), !.typing[r] = @ \ {e.sid}]
      [] e.type = "TYPING"           -> [c EXCEPT !.typing[r] = e.sids]
      [] e.type = "MESSAGE"          -> [c EXCEPT !.log[r] = LastN(Append(@, e.msg))]
      [] OTHER                       -> c       \* MESSAGE_DM, MOUSE, CUSTOM_R, CUSTOM_U

Receive(c, e) ==
    IF e.type = "ROOM" THEN OpenRooms(c, e.rooms)
    ELSE IF Resolve(c, e.rh) # e.room THEN [c EXCEPT !.misrouted = TRUE]
    ELSE InRoom(c, e.room, e)

\* A batch maps the users an event is sent to to what each of them is sent
\* (the members of a room have handles of their own for it).
DeliverBatch(clients, batch) ==
    [u \in UserID |-> IF u \in DOMAIN batch THEN Receive(clients[u], batch[u])
                                            ELSE clients[u]]

Deliver(batches) ==
    LET after[i \in 0 .. Len(batches)] ==
            IF i = 0 THEN client ELSE DeliverBatch(after[i - 1], batches[i])
    IN  client' = after[Len(batches)]
==============================================================================
