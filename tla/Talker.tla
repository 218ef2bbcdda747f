------------------------------- MODULE Talker -------------------------------
(***************************************************************************)
(* The talker task of src/server/talker.rs: users, rooms and everything    *)
(* that happens to them.  The task takes one TalkerRxOp or one timer tick  *)
(* at a time, and no other task touches its state, so a handler runs to    *)
(* its end before the next one begins.  A handler that loops over rooms is *)
(* one step per iteration: task holds the loop that is running, and no     *)
(* other action is enabled until it is done, so that what the code expects *)
(* of its state is checked in the middle of a loop as well.                *)
(*                                                                         *)
(*   users, joined, profile, in_rooms, user_limits  the map of UserStates  *)
(*   rooms, members, messages, empty_timer,         the map of RoomStates  *)
(*   typing_timer, room_limits                      and RoomMemberStates   *)
(*   ratelimit_idx, msgid_counter                   the talker's own       *)
(*   task                                           the handler's loop     *)
(*   panicked                                       the expect that failed *)
(*   seen                                           sids handed out so far *)
(*   client                                         see Clients            *)
(*                                                                         *)
(* Requests that change nothing (a refused one, a bad handle) are not      *)
(* steps.  Responses are left out: nothing below depends on their text.    *)
(***************************************************************************)
EXTENDS Integers, Sequences, FiniteSets, Clients, Ratelimits
LOCAL INSTANCE SequencesExt

CONSTANTS DefaultProfile,   \* UserNick::default() and UserColor::default()
          SYSTEM,           \* UserID::SYSTEM, the sender of system messages
          HistoryMax, RoomEmptyTimer, RoomTypingTimer,    \* TalkerConfig
          RateLimit,        \* TalkerConfig.ratelimits, a function on Kinds
          MessageIDs,       \* number of message ids, 2^32
          MaxMessages,      \* bound: no request is taken after so many ids
          MaxInitRooms,     \* bound: length of the room list of USER_JOINED
          Stimuli           \* bound: what the environment of a run does

UserKinds == {"chnick", "room"}
RoomKinds == {"mouse", "message", "message_dm", "typing"}

ASSUME TalkerAssumption ==
    /\ HistoryMax \in Nat /\ RoomEmptyTimer \in Nat /\ RoomTypingTimer \in Nat
    /\ RateLimit \in [UserKinds \cup RoomKinds -> Counter]
    /\ MaxInitRooms \in Nat
    /\ MessageIDs \in Nat \ {0} /\ MaxMessages \in Nat
    /\ DefaultProfile \in Profile
    /\ None \notin UserID \cup {SYSTEM, "init_rooms"} /\ SYSTEM \notin UserID

VARIABLES users, joined, profile, in_rooms, user_limits,
          rooms, members, messages, empty_timer, typing_timer, room_limits,
          ratelimit_idx, msgid_counter, task, panicked, seen

userVars == <<users, joined, profile, user_limits>>
roomVars == <<rooms, empty_timer>>
memberVars == <<members, typing_timer, room_limits>>
vars == <<userVars, in_rooms, roomVars, memberVars, messages, ratelimit_idx,
          msgid_counter, task, panicked, seen, client>>
------------------------------------------------------------------------------
(* Messages and events. *)

TextMessage(id, content, sid, sent_to) ==
    [id |-> id, content |-> content, sid |-> sid, sent_to |-> sent_to]

NextMessageID == (msgid_counter + 1) % MessageIDs

\* Mutants: the newest message makes room, and one message too many is kept.
PushHistory_back(hist, msg) ==
    Append(IF Len(hist) >= HistoryMax /\ hist # <<>> THEN Front(hist) ELSE hist, msg)
PushHistory_long(hist, msg) ==
    Append(IF Len(hist) > HistoryMax /\ hist # <<>> THEN Tail(hist) ELSE hist, msg)

PushHistory(hist, msg) ==
    Append(IF Len(hist) >= HistoryMax /\ hist # <<>> THEN Tail(hist) ELSE hist, msg)

\* Mutant: private messages are not filtered out.
get_history_all(hist) == hist

\* The public part of a saved history, public[n] that of its first n messages.
get_history(hist) ==
    LET public[n \in 0 .. Len(hist)] ==
            IF n = 0 THEN <<>>
            ELSE IF hist[n].sent_to = None THEN Append(public[n - 1], hist[n])
            ELSE public[n - 1]
    IN  public[Len(hist)]

get_users(mem, prof)  == {<<u, prof[u]>> : u \in mem}
get_typing(mem, timer) == {u \in mem : timer[u] # 0}

\* An event about a room, with the handle by which its receiver finds the room.
About(rid, rh, e) ==
    [x \in {"room", "rh"} \cup DOMAIN e |->
        CASE x = "room" -> rid [] x = "rh" -> rh [] OTHER -> e[x]]

\* send_uni and send_to_room, as batches for Deliver.
ToUser(u, e) == [v \in {u} |-> e]
\* Mutant: one handle for all of them.
ToRoom_shared(rid, mem, e) ==
    LET rh == room_get_rh_by_id(in_rooms[CHOOSE u \in mem : TRUE], rid)
    IN  [u \in mem |-> About(rid, rh, e)]

ToRoom(rid, mem, e) ==
    [u \in mem |-> About(rid, room_get_rh_by_id(in_rooms[u], rid), e)]
MessageTo(rid, mem, msg) == ToRoom(rid, mem, [type |-> "MESSAGE", msg |-> msg])

\* What send_to_room expects: the room exists, and each of its members is a
\* user whose vector holds the room.
CanSend(rid, mem) == /\ rid \in rooms
                     /\ \A u \in mem : u \in users /\ rid \in RoomsIn(in_rooms[u])

\* An unwrap or expect: the task is gone when it fails.
Expect(condition, site) == panicked' = IF condition THEN panicked ELSE site

Task(op, sid, todo, rid, done) ==
    [op |-> op, sid |-> sid, todo |-> todo, rid |-> rid, done |-> done]
NoTask == Task("idle", None, <<>>, None, <<>>)
Loop(op, sid, todo, rid) == Task(op, sid, todo, rid, <<>>)
\* Mutant: the loop is not run.
EndOr_never(t) == NoTask

EndOr(t) == IF HasNext(t.todo) THEN t ELSE NoTask

Ready(stimulus)   == /\ panicked = None /\ task = NoTask
                     /\ stimulus \in Stimuli /\ msgid_counter < MaxMessages
Running(ops)      == panicked = None /\ task.op \in ops /\ HasNext(task.todo)

\* validate_rh
ValidHandle(sid, h) ==
    /\ sid \in users /\ h \in DOMAIN in_rooms[sid]
    /\ in_rooms[sid][h] \in rooms
------------------------------------------------------------------------------
(* The limits: an accepted event of the given kind. *)

CheckUser(sid, kind) ==
    /\ MayAdd(user_limits[sid][kind], RateLimit[kind])
    /\ user_limits' = [user_limits EXCEPT ![sid][kind] = Add(@, ratelimit_idx)]

CheckMember(sid, rid, kind) ==
    /\ MayAdd(room_limits[rid][sid][kind], RateLimit[kind])
    /\ room_limits' = [room_limits EXCEPT ![rid][sid][kind] = Add(@, ratelimit_idx)]

FreshUserLimits == [k \in UserKinds |-> NoEvents]
FreshRoomLimits == [k \in RoomKinds |-> NoEvents]

\* RoomMemberState::new() or the removal of one: no member state is left.
SetMembers(rid, sid, mem) ==
    /\ members'      = [members EXCEPT ![rid] = mem]
    /\ typing_timer' = [typing_timer EXCEPT ![rid][sid] = 0]
    /\ room_limits'  = [room_limits EXCEPT ![rid][sid] = FreshRoomLimits]
------------------------------------------------------------------------------
Init ==
    /\ users = {} /\ joined = {} /\ seen = {}
    /\ profile = [u \in UserID |-> DefaultProfile]
    /\ in_rooms = [u \in UserID |-> <<>>]
    /\ user_limits = [u \in UserID |-> FreshUserLimits]
    /\ rooms = {}
    /\ members = [r \in RoomID |-> {}]
    /\ messages = [r \in RoomID |-> <<>>]
    /\ empty_timer = [r \in RoomID |-> 0]
    /\ typing_timer = [r \in RoomID |-> [u \in UserID |-> 0]]
    /\ room_limits = [r \in RoomID |-> [u \in UserID |-> FreshRoomLimits]]
    /\ ratelimit_idx = 0 /\ msgid_counter = 0
    /\ task = NoTask /\ panicked = None
    /\ client = [u \in UserID |-> NewClient]

\* The listener never hands out a sid again (see the README).
OnConnect(sid) ==
    /\ Ready("CONNECT") /\ sid \notin seen
    /\ seen' = seen \cup {sid}
    /\ users' = users \cup {sid}
    /\ UNCHANGED <<joined, profile, user_limits, in_rooms, roomVars, memberVars,
                   messages, ratelimit_idx, msgid_counter, task, panicked, client>>

OnDisconnect(sid) ==
    /\ Ready("DISCONNECT") /\ sid \in users
    /\ users' = users \ {sid}
    /\ joined' = joined \ {sid}
    /\ profile' = [profile EXCEPT ![sid] = DefaultProfile]
    /\ in_rooms' = [in_rooms EXCEPT ![sid] = <<>>]
    /\ user_limits' = [user_limits EXCEPT ![sid] = FreshUserLimits]
    /\ client' = [client EXCEPT ![sid] = NewClient]
    /\ task' = EndOr(Loop("disconnect", sid, in_rooms[sid], None))
    /\ UNCHANGED <<roomVars, memberVars, messages, ratelimit_idx, msgid_counter,
                   panicked, seen>>

\* The part that user_room_leave and an iteration of on_disconnect share: the
\* member goes, the others get a system message, which is saved, and USER_LEFT.
\* The caller of user_room_leave may send more after that.
LeaveRoom(sid, rid, after) ==
    LET mem == members[rid] \ {sid}
        msg == TextMessage(msgid_counter, "user_left", SYSTEM, None)
    IN  /\ SetMembers(rid, sid, mem)
        /\ msgid_counter' = NextMessageID
        /\ messages' = [messages EXCEPT ![rid] = PushHistory(@, msg)]
        /\ Expect(CanSend(rid, mem), "leave")
        /\ Deliver(<<MessageTo(rid, mem, msg),
                     ToRoom(rid, mem, [type |-> "USER_LEFT", sid |-> sid])>> \o after)

DisconnectRoom ==
    /\ Running({"disconnect"})
    /\ LeaveRoom(task.sid, First(task.todo), <<>>)
    /\ task' = EndOr([task EXCEPT !.todo = Rest(@)])
    /\ UNCHANGED <<userVars, in_rooms, roomVars, ratelimit_idx, seen>>
------------------------------------------------------------------------------
(* Joining: USER_JOINED joins a list of rooms, ROOM_JOIN one. *)

\* The profile of a user changes with or without word to the rooms it is in.
Renamed(sid, prof, unannounced) ==
    /\ profile' = [profile EXCEPT ![sid] = prof]
    /\ client' = [client EXCEPT ![sid].renamed =
                     IF prof = profile[sid] THEN @ ELSE unannounced]

\* A second USER_JOINED only gets an error response.  The first tells nobody of
\* the profile, whatever rooms the user has joined by then.
ReqUserJoined(sid, prof, init_rooms) ==
    /\ Ready("USER_JOINED") /\ sid \in users \ joined
    /\ joined' = joined \cup {sid}
    /\ Renamed(sid, prof, RoomsIn(in_rooms[sid]))
    /\ LET list == Dedup(init_rooms)
       IN  task' = IF Cardinality({i \in DOMAIN list : list[i] # None}) > MaxRooms
                   THEN NoTask ELSE Loop("user_joined", sid, list, None)
    /\ UNCHANGED <<users, user_limits, in_rooms, roomVars, memberVars, messages,
                   ratelimit_idx, msgid_counter, panicked, seen>>

\* An exclusive join leaves every other room first.
ReqRoomJoin(sid, rid, exclusive) ==
    /\ Ready("ROOM_JOIN") /\ sid \in users
    /\ CheckUser(sid, "room")
    /\ task' = IF exclusive
               THEN Loop("exclusive", sid, Vacate(in_rooms[sid], rid), rid)
               ELSE Loop("room_join", sid, <<rid>>, rid)
    /\ UNCHANGED <<users, joined, profile, in_rooms, roomVars, memberVars, messages,
                   ratelimit_idx, msgid_counter, panicked, seen, client>>

user_room_leave(sid, rid, after) ==
    /\ in_rooms' = [in_rooms EXCEPT ![sid] = Trim(Vacate(@, rid))]
    /\ LeaveRoom(sid, rid, after)

ExclusiveLeave ==
    /\ Running({"exclusive"})
    /\ user_room_leave(task.sid, First(task.todo), <<>>)
    /\ task' = [task EXCEPT !.todo = Rest(@)]
    /\ UNCHANGED <<userVars, roomVars, ratelimit_idx, seen>>

ExclusiveJoin ==
    /\ panicked = None /\ task.op = "exclusive" /\ ~ HasNext(task.todo)
    /\ in_rooms' = [in_rooms EXCEPT ![task.sid] =
                        IF task.rid \in RoomsIn(@) THEN @ ELSE <<>>]
    /\ task' = Loop("room_join", task.sid, <<task.rid>>, task.rid)
    /\ UNCHANGED <<userVars, roomVars, memberVars, messages, ratelimit_idx,
                   msgid_counter, panicked, seen, client>>

\* Mutant: an existing room keeps its timer.
ensure_room_once(rid) ==
    /\ rooms' = rooms \cup {rid}
    /\ empty_timer' = [empty_timer EXCEPT ![rid] = IF rid \in rooms THEN @ ELSE RoomEmptyTimer]

ensure_room(rid) ==
    /\ rooms' = rooms \cup {rid}
    /\ empty_timer' = [empty_timer EXCEPT ![rid] = RoomEmptyTimer]

\* The room is in the vector already, or the vector is full.
\* Mutant: one handle more than fits a RoomHandle.
CannotJoin_off(sid, rid) ==
    \/ rid \in RoomsIn(in_rooms[sid])
    \/ FreeSlots(in_rooms[sid]) = {} /\ Len(in_rooms[sid]) > MaxRooms

CannotJoin(sid, rid) ==
    \/ rid \in RoomsIn(in_rooms[sid])
    \/ FreeSlots(in_rooms[sid]) = {} /\ Len(in_rooms[sid]) >= MaxRooms

\* user_room_join_unimmediate returning Err: USER_JOINED unwraps the result,
\* ROOM_JOIN answers with the code.
JoinRefused ==
    /\ Running({"user_joined", "room_join"})
    /\ CannotJoin(task.sid, First(task.todo))
    /\ ensure_room(First(task.todo))
    /\ Expect(task.op = "room_join", "init_rooms")
    /\ task' = NoTask
    /\ UNCHANGED <<userVars, in_rooms, memberVars, messages, ratelimit_idx,
                   msgid_counter, seen, client>>

\* user_room_join_unimmediate returning Ok.
JoinRoom ==
    /\ Running({"user_joined", "room_join"})
    /\ ~ CannotJoin(task.sid, First(task.todo))
    /\ LET sid == task.sid
           rid == First(task.todo)
           mem == members[rid] \cup {sid}
       IN  /\ ensure_room(rid)
           /\ in_rooms' = [in_rooms EXCEPT ![sid] = AddRoom(@, rid)]
           /\ SetMembers(rid, sid, mem)
           /\ Expect(mem \subseteq users, "join")
           /\ msgid_counter' = NextMessageID
           /\ task' = Task(task.op, sid, Rest(task.todo), task.rid,
                  Append(task.done, [rid   |-> rid,
                                     rh    |-> room_get_rh_by_id(in_rooms'[sid], rid),
                                     mid   |-> msgid_counter,
                                     hist  |-> get_history(messages[rid]),
                                     users |-> get_users(mem, profile)]))
    /\ UNCHANGED <<userVars, messages, ratelimit_idx, seen, client>>

\* All rooms are joined: ROOM is sent before anything that uses a new handle.
SendRooms ==
    /\ panicked = None /\ task.op \in {"user_joined", "room_join"} /\ ~ HasNext(task.todo)
    /\ Deliver(<<ToUser(task.sid, [type |-> "ROOM", rooms |-> in_rooms[task.sid]])>>)
    /\ task' = IF task.done = <<>> THEN NoTask ELSE [task EXCEPT !.op = "complete"]
    /\ UNCHANGED <<userVars, in_rooms, roomVars, memberVars, messages, ratelimit_idx,
                   msgid_counter, panicked, seen>>

user_room_join_unimmediate_complete ==
    /\ panicked = None /\ task.op = "complete" /\ task.done # <<>>
    /\ LET sid  == task.sid
           d    == Head(task.done)
           mem  == members[d.rid]
           msg  == TextMessage(d.mid, "user_joined", SYSTEM, None)
           own(e) == ToUser(sid, About(d.rid, d.rh, e))
       IN  /\ Expect(CanSend(d.rid, mem), "complete")
           /\ messages' = [messages EXCEPT ![d.rid] = PushHistory(@, msg)]
           /\ Deliver(<<own([type |-> "HISTORY", hist |-> d.hist]),
                        ToRoom(d.rid, mem, [type |-> "USER_JOINED",
                                            user |-> <<sid, profile[sid]>>]),
                        own([type |-> "USER_UPDATE", users |-> d.users]),
                        MessageTo(d.rid, mem, msg)>>)
    /\ task' = IF Len(task.done) = 1 THEN NoTask ELSE [task EXCEPT !.done = Tail(@)]
    /\ UNCHANGED <<userVars, in_rooms, roomVars, memberVars, ratelimit_idx,
                   msgid_counter, seen>>
------------------------------------------------------------------------------
(* The other requests. *)

ReqUserChNick(sid, prof) ==
    /\ Ready("USER_CHANGE_NICK") /\ sid \in users
    /\ CheckUser(sid, "chnick")
    /\ Renamed(sid, prof, {})
    /\ task' = IF prof = profile[sid] THEN NoTask
               ELSE EndOr(Loop("ch_nick", sid, in_rooms[sid], None))
    /\ UNCHANGED <<users, joined, in_rooms, roomVars, memberVars, messages,
                   ratelimit_idx, msgid_counter, panicked, seen>>

ChNickRoom ==
    /\ Running({"ch_nick"})
    /\ LET sid == task.sid
           rid == First(task.todo)
           mem == members[rid]
           msg == TextMessage(msgid_counter, "user_ch_nick", SYSTEM, None)
       IN  /\ Expect(CanSend(rid, mem), "chnick")
           /\ msgid_counter' = NextMessageID
           /\ messages' = [messages EXCEPT ![rid] = PushHistory(@, msg)]
           /\ Deliver(<<ToRoom(rid, mem, [type |-> "USER_CHANGE_NICK",
                                          user |-> <<sid, profile[sid]>>]),
                        MessageTo(rid, mem, msg)>>)
    /\ task' = EndOr([task EXCEPT !.todo = Rest(@)])
    /\ UNCHANGED <<userVars, in_rooms, roomVars, memberVars, ratelimit_idx, seen>>

ReqRoomLeave(sid, h) ==
    /\ Ready("ROOM_LEAVE") /\ ValidHandle(sid, h)
    /\ CheckUser(sid, "room")
    /\ LET rid   == in_rooms[sid][h]
           array == Trim(Vacate(in_rooms[sid], rid))
       IN  user_room_leave(sid, rid, <<ToUser(sid, [type |-> "ROOM", rooms |-> array])>>)
    /\ UNCHANGED <<users, joined, profile, roomVars, ratelimit_idx, task, seen>>

\* A request about a room in which the sender has handle h, and what those
\* expect that are sent on to the room: that the sender is a member and that
\* the room can be sent to.
MemberRequest(op, sid, h) ==
    /\ Ready(op) /\ ValidHandle(sid, h)
    /\ UNCHANGED <<users, joined, profile, user_limits, in_rooms, roomVars, members,
                   ratelimit_idx, task, seen>>

ExpectMember(sid, rid) ==
    Expect(sid \in members[rid] /\ CanSend(rid, members[rid]), "member")

ReqMessage(sid, h) ==
    /\ MemberRequest("MESSAGE", sid, h)
    /\ LET rid == in_rooms[sid][h]
           msg == TextMessage(msgid_counter, "message", sid, None)
       IN  /\ CheckMember(sid, rid, "message")
           /\ ExpectMember(sid, rid)
           /\ messages' = [messages EXCEPT ![rid] = PushHistory(@, msg)]
           /\ Deliver(<<MessageTo(rid, members[rid], msg)>>)
    /\ msgid_counter' = NextMessageID
    /\ UNCHANGED typing_timer

\* The target may be anyone, connected or not.  Both ends get the message; it
\* is saved, unless the target is not in the room.
ReqMessageDM(sid, h, target) ==
    /\ MemberRequest("MESSAGE_DM", sid, h)
    /\ LET rid  == in_rooms[sid][h]
           msg  == TextMessage(msgid_counter, "message", sid, target)
           sent == target \in users /\ rid \in RoomsIn(in_rooms[target])
       IN  /\ CheckMember(sid, rid, "message_dm")
           /\ Expect(sid \in members[rid], "member")
           /\ messages' = IF sent THEN [messages EXCEPT ![rid] = PushHistory(@, msg)]
                                  ELSE messages
           /\ Deliver(IF sent
                      THEN <<ToRoom(rid, {sid, target}, [type |-> "MESSAGE_DM", msg |-> msg])>>
                      ELSE <<>>)
    /\ msgid_counter' = NextMessageID
    /\ UNCHANGED typing_timer

TypingIn(rid, timer) == [type |-> "TYPING", sids |-> get_typing(members[rid], timer[rid])]

\* Only a change is sent on.
ReqTyping(sid, h, is_typing) ==
    /\ MemberRequest("TYPING", sid, h)
    /\ LET rid     == in_rooms[sid][h]
           changed == (typing_timer[rid][sid] # 0) # is_typing
       IN  /\ CheckMember(sid, rid, "typing")
           /\ Expect(sid \in members[rid] /\ (changed => CanSend(rid, members[rid])), "member")
           /\ typing_timer' = [typing_timer EXCEPT ![rid][sid] =
                                  IF is_typing THEN RoomTypingTimer ELSE 0]
           /\ Deliver(IF changed
                      THEN <<ToRoom(rid, members[rid], TypingIn(rid, typing_timer'))>>
                      ELSE <<>>)
    /\ UNCHANGED <<messages, msgid_counter>>

ReqMouse(sid, h) ==
    /\ MemberRequest("MOUSE", sid, h)
    /\ LET rid == in_rooms[sid][h]
       IN  /\ CheckMember(sid, rid, "mouse")
           /\ ExpectMember(sid, rid)
           /\ Deliver(<<ToRoom(rid, members[rid], [type |-> "MOUSE", sid |-> sid])>>)
    /\ UNCHANGED <<typing_timer, messages, msgid_counter>>

\* Custom messages are not limited.
ReqCustomR(sid, h) ==
    /\ MemberRequest("CUSTOM_R", sid, h)
    /\ LET rid == in_rooms[sid][h]
       IN  /\ Expect(CanSend(rid, members[rid]), "member")
           /\ Deliver(<<ToRoom(rid, members[rid], [type |-> "CUSTOM_R", sid |-> sid])>>)
    /\ UNCHANGED <<typing_timer, room_limits, messages, msgid_counter>>

ReqCustomU(sid, h, target) ==
    /\ MemberRequest("CUSTOM_U", sid, h)
    /\ LET rid == in_rooms[sid][h]
       IN  /\ target # sid /\ target \in users /\ rid \in RoomsIn(in_rooms[target])
           /\ Deliver(<<ToRoom(rid, {target}, [type |-> "CUSTOM_U", sid |-> sid])>>)
    /\ UNCHANGED <<typing_timer, room_limits, messages, msgid_counter, panicked>>
------------------------------------------------------------------------------
(* The timer. *)

\* Mutants: the subtraction does not saturate, or is not stored.
saturating_sub1_wrong(n) == n - 1
saturating_sub1_lost(n)  == n

saturating_sub1(n) == IF n = 0 THEN 0 ELSE n - 1

\* Mutants: occupied rooms count down too; rooms with a history never do.
Unused_all   == rooms
Unused_blank == {r \in rooms : members[r] = {} /\ messages[r] = <<>>}

\* The rooms nobody is in.
Unused == {r \in rooms : members[r] = {}}

\* Mutant: a room is told only when nobody types any longer.
Stopped_last == {r \in rooms : /\ \E u \in members[r] : typing_timer[r][u] = 1
                               /\ \A u \in members[r] : typing_timer[r][u] <= 1}

\* The rooms in which a typing timer is about to reach zero.
Stopped == {r \in rooms : \E u \in members[r] : typing_timer[r][u] = 1}

\* The order in which rooms_to_update_typing is sent is that of a map.  One stands
\* for all: what is sent about one room changes nothing known of another.
InSomeOrder(S) ==
    CHOOSE f \in [1 .. Cardinality(S) -> S] : \A x \in S : \E i \in DOMAIN f : f[i] = x

\* Rooms nobody is in count down and are dropped at zero, with their history;
\* typing members count down and the room is told when one reaches zero.
EverySecond ==
    /\ panicked = None /\ task = NoTask /\ "TICK" \in Stimuli
    /\ ratelimit_idx' = NextIdx(ratelimit_idx)
    /\ user_limits' = [u \in UserID |-> [k \in UserKinds |->
                           ResetIdx(user_limits[u][k], ratelimit_idx')]]
    /\ room_limits' = [r \in RoomID |-> [u \in UserID |-> [k \in RoomKinds |->
                           ResetIdx(room_limits[r][u][k], ratelimit_idx')]]]
    /\ typing_timer' = [r \in RoomID |-> [u \in UserID |->
                           saturating_sub1(typing_timer[r][u])]]
    /\ LET dropped == {r \in Unused : saturating_sub1(empty_timer[r]) = 0}
       IN  /\ rooms' = rooms \ dropped
           /\ messages' = [r \in RoomID |-> IF r \in dropped THEN <<>> ELSE messages[r]]
           /\ empty_timer' = [r \in RoomID |->
                  IF r \in Unused THEN saturating_sub1(empty_timer[r]) ELSE empty_timer[r]]
           /\ Expect(\A r \in Stopped : CanSend(r, members[r]), "typing")
           /\ Deliver([i \in 1 .. Cardinality(Stopped) |->
                  LET r == InSomeOrder(Stopped)[i]
                  IN  ToRoom(r, members[r], TypingIn(r, typing_timer'))])
    /\ UNCHANGED <<users, joined, profile, in_rooms, members, msgid_counter, task, seen>>
------------------------------------------------------------------------------
InitRooms == UNION {[1 .. n -> RoomID] : n \in 0 .. MaxInitRooms}

UserRequest(sid) ==
    \/ \E prof \in Profile : ReqUserChNick(sid, prof)
    \/ \E rid \in RoomID, exclusive \in BOOLEAN : ReqRoomJoin(sid, rid, exclusive)

RoomRequest(sid, h) ==
    \/ ReqRoomLeave(sid, h) \/ ReqMessage(sid, h)
    \/ ReqMouse(sid, h)     \/ ReqCustomR(sid, h)
    \/ \E is_typing \in BOOLEAN : ReqTyping(sid, h, is_typing)
    \/ \E target \in UserID : ReqMessageDM(sid, h, target) \/ ReqCustomU(sid, h, target)

\* What arrives over the channel.  A client should send USER_JOINED before any
\* other request, but nothing makes it: UserState.state is not looked at again.
OnMessage(sid) ==
    \/ OnConnect(sid) \/ OnDisconnect(sid)
    \/ \E prof \in Profile, list \in InitRooms : ReqUserJoined(sid, prof, list)
    \/ /\ sid \in joined \/ "EARLY" \in Stimuli
       /\ UserRequest(sid) \/ \E h \in DOMAIN in_rooms[sid] : RoomRequest(sid, h)

\* What the handler in progress does next.
Continue == \/ DisconnectRoom \/ ExclusiveLeave \/ ExclusiveJoin \/ JoinRefused
            \/ JoinRoom \/ SendRooms \/ user_room_join_unimmediate_complete
            \/ ChNickRoom

Next == (\E sid \in UserID : OnMessage(sid)) \/ Continue \/ EverySecond

\* A handler that has begun goes on, and the interval timer ticks however busy
\* the channel is: the select of run takes a ready branch at random.
Spec == Init /\ [][Next]_vars /\ WF_vars(Continue) /\ SF_vars(EverySecond)
==============================================================================
