---------------------------- MODULE TalkerProofs ----------------------------
(***************************************************************************)
(* Theorems about the talker, for every number of users, rooms, handles    *)
(* and messages and every configuration: its types, its inductive          *)
(* invariant, and that it implements ChatRooms.                            *)
(***************************************************************************)
EXTENDS TalkerRefinement, HandleProofs

LEMMA CounterMod == \A a \in Nat : a % CounterValues \in Counter
  BY CounterValuesAssumption DEF Counter

LEMMA WindowOps ==
    ASSUME NEW w \in Window, NEW idx \in Seconds
    PROVE  Add(w, idx) \in Window /\ ResetIdx(w, idx) \in Window
<1>1. w[idx] + 1 \in Nat
  BY CounterValuesAssumption DEF Window, Counter
<1>2. (w[idx] + 1) % CounterValues \in Counter
  BY <1>1, CounterMod
<1>3. 0 \in Counter
  BY CounterValuesAssumption DEF Counter
<1> QED
  BY <1>2, <1>3 DEF Window, Add, ResetIdx

LEMMA FreshLimits == /\ FreshUserLimits \in [UserKinds -> Window]
                     /\ FreshRoomLimits \in [RoomKinds -> Window]
<1>1. NoEvents \in Window
  BY CounterValuesAssumption DEF NoEvents, Window, Counter
<1> QED
  BY <1>1 DEF FreshUserLimits, FreshRoomLimits

LEMMA SystemMessage ==
    ASSUME NEW id \in Nat, NEW content \in Content, NEW sid \in UserID \cup {SYSTEM},
           NEW sent_to \in UserID \cup {None}
    PROVE  TextMessage(id, content, sid, sent_to) \in Message
  BY DEF TextMessage, Message

LEMMA PushHistoryType ==
    ASSUME NEW hist \in Seq(Message), NEW msg \in Message
    PROVE  PushHistory(hist, msg) \in Seq(Message)
<1>1. CASE Len(hist) >= HistoryMax /\ hist # <<>>
  <2>1. Tail(hist) \in Seq(Message)
    BY <1>1, HeadTailProperties
  <2> QED
    BY <1>1, <2>1, AppendProperties DEF PushHistory
<1>2. CASE ~ (Len(hist) >= HistoryMax /\ hist # <<>>)
  <2>1. PushHistory(hist, msg) = Append(hist, msg)
    BY <1>2 DEF PushHistory
  <2> QED
    BY <2>1, AppendProperties
<1> QED
  BY <1>1, <1>2

\* A sequence over any set is one over its own elements.
LEMMA OwnElements ==
    ASSUME NEW S, NEW s \in Seq(S) PROVE s \in Seq({s[i] : i \in DOMAIN s})
<1>1. Len(s) \in Nat /\ s \in [1 .. Len(s) -> {s[i] : i \in DOMAIN s}]
  BY LenProperties
<1> QED
  BY <1>1, SeqDef

LEMMA SingleVector == ASSUME NEW rid \in RoomID \cup {None} PROVE <<rid>> \in Vector
  BY DEF Vector

LEMMA NoTaskIsTask == IsTask(NoTask)
<1>1. NoTask.done = <<>> /\ NoTask.todo = <<>>
  BY DEF NoTask, Task
<1>2. Pending(NoTask) = {}
  BY <1>1 DEF Pending
<1>3. <<>> \in Seq({}) /\ <<>> \in Vector
  BY DEF Vector
<1> QED
  BY <1>2, <1>3 DEF IsTask, NoTask, Task, Ops

LEMMA LoopIsTask ==
    ASSUME NEW op \in Ops \ {"idle"}, NEW sid \in UserID, NEW todo \in Vector,
           NEW rid \in RoomID \cup {None}
    PROVE  IsTask(Loop(op, sid, todo, rid)) /\ Pending(Loop(op, sid, todo, rid)) = {}
<1> DEFINE t == Loop(op, sid, todo, rid)
<1>1. t = [op |-> op, sid |-> sid, todo |-> todo, rid |-> rid, done |-> <<>>]
  BY DEF Loop, Task
<1>2. Pending(t) = {}
  BY <1>1 DEF Pending
<1>3. <<>> \in Seq({}) /\ sid # None
  BY TalkerAssumption
<1> QED
  BY <1>1, <1>2, <1>3 DEF IsTask

LEMMA TodoIsTask ==
    ASSUME NEW t, IsTask(t), t # NoTask, NEW todo \in Vector
    PROVE  IsTask([t EXCEPT !.todo = todo])
<1> DEFINE t2 == [t EXCEPT !.todo = todo]
<1>1. /\ t2.op = t.op /\ t2.sid = t.sid /\ t2.done = t.done /\ t2.rid = t.rid /\ t2.todo = todo
      /\ t2 = [op |-> t.op, sid |-> t.sid, todo |-> todo, rid |-> t.rid, done |-> t.done]
  BY DEF IsTask
<1>2. Pending(t2) = Pending(t)
  BY <1>1 DEF Pending
<1> HIDE DEF t2
<1> QED
  BY <1>1, <1>2 DEF IsTask, t2

LEMMA CompleteIsTask ==
    ASSUME NEW t, IsTask(t), t # NoTask
    PROVE  IsTask([t EXCEPT !.op = "complete"])
           /\ Pending([t EXCEPT !.op = "complete"]) = Pending(t)
<1> DEFINE t2 == [t EXCEPT !.op = "complete"]
           D  == Seq(Pending(t))
<1>1. t \in [op : Ops, sid : UserID \cup {None}, rid : RoomID \cup {None},
            todo : Vector, done : D]
  BY DEF IsTask
<1> HIDE DEF D
<1>2. t2 = [op |-> "complete", sid |-> t.sid, todo |-> t.todo, rid |-> t.rid, done |-> t.done]
  BY <1>1
<1>3. Pending(t2) = Pending(t)
  BY <1>2 DEF Pending
<1> HIDE DEF t2
<1>4. t2 \in [op : Ops, sid : UserID \cup {None}, rid : RoomID \cup {None},
             todo : Vector, done : D]
  BY <1>1, <1>2 DEF Ops
<1> QED
  BY <1>2, <1>3, <1>4 DEF IsTask, t2, D

LEMMA EndOrIsTask == ASSUME NEW t, IsTask(t) PROVE IsTask(EndOr(t))
  BY NoTaskIsTask DEF EndOr

\* The second halves that wait: one more, or one less.
LEMMA DoneIsTask ==
    ASSUME NEW t, IsTask(t), t # NoTask, NEW todo \in Vector,
           NEW d, d.rid \in RoomID, d.mid \in Nat
    PROVE  LET t2 == Task(t.op, t.sid, todo, t.rid, Append(t.done, d))
           IN  IsTask(t2) /\ Pending(t2) = Pending(t) \cup {d}
<1> DEFINE t2 == Task(t.op, t.sid, todo, t.rid, Append(t.done, d))
           S  == Pending(t) \cup {d}
<1>1. t2 = [op |-> t.op, sid |-> t.sid, todo |-> todo, rid |-> t.rid,
            done |-> Append(t.done, d)]
  BY DEF Task
<1>2. t.done \in Seq(S)
  <2>1. t.done \in Seq(Pending(t))
    BY DEF IsTask
  <2> QED
    BY <2>1, SeqMonotonic
<1>3. /\ Append(t.done, d) \in Seq(S)
      /\ Len(Append(t.done, d)) = Len(t.done) + 1
      /\ \A i \in 1 .. Len(t.done) : Append(t.done, d)[i] = t.done[i]
      /\ Append(t.done, d)[Len(t.done) + 1] = d
  BY <1>2, AppendProperties
<1>4. /\ DOMAIN Append(t.done, d) = 1 .. Len(t.done) + 1
      /\ DOMAIN t.done = 1 .. Len(t.done) /\ Len(t.done) \in Nat
  BY <1>2, <1>3, LenProperties
<1>5. Pending(t2) = S
  BY <1>1, <1>3, <1>4 DEF Pending
<1>6. \A x \in S : x.rid \in RoomID /\ x.mid \in Nat
  BY DEF IsTask
<1>7. t.op \in Ops \ {"idle"} /\ t.sid \in UserID /\ t.rid \in RoomID \cup {None}
  BY DEF IsTask
<1> HIDE DEF t2, S
<1>8. t2 \in [op : Ops, sid : UserID \cup {None}, rid : RoomID \cup {None},
             todo : Vector, done : Seq(S)]
  BY <1>1, <1>3, <1>7
<1>9. IsTask(t2)
  BY <1>1, <1>5, <1>6, <1>7, <1>8, TalkerAssumption DEF IsTask
<1> QED
  BY <1>5, <1>9 DEF t2, S

LEMMA TailIsTask ==
    ASSUME NEW t, IsTask(t), t # NoTask, t.done # <<>>
    PROVE  LET t2 == [t EXCEPT !.done = Tail(@)]
           IN  /\ IsTask(t2) /\ Pending(t2) \subseteq Pending(t)
               /\ Head(t.done) \in Pending(t)
<1> DEFINE t2 == [t EXCEPT !.done = Tail(@)]
<1>1. t2 = [op |-> t.op, sid |-> t.sid, todo |-> t.todo, rid |-> t.rid, done |-> Tail(t.done)]
  <2> DEFINE D == Seq(Pending(t))
  <2>1. t \in [op : Ops, sid : UserID \cup {None}, rid : RoomID \cup {None},
              todo : Vector, done : D]
    BY DEF IsTask
  <2> HIDE DEF D
  <2> QED
    BY <2>1
<1>2. t.done \in Seq(Pending(t))
  BY DEF IsTask
<1>3. Tail(t.done) \in Seq(Pending(t)) /\ Head(t.done) \in Pending(t)
  BY <1>2, HeadTailProperties
<1>4. Tail(t.done) \in Seq(Pending(t2))
  <2> DEFINE rest == Tail(t.done)
  <2>1. Pending(t2) = {rest[i] : i \in DOMAIN rest}
    BY <1>1 DEF Pending
  <2>2. rest \in Seq(Pending(t))
    BY <1>3
  <2> HIDE DEF rest, t2
  <2>3. rest \in Seq(Pending(t2))
    BY <2>1, <2>2, OwnElements
  <2> QED
    BY <2>3 DEF rest, t2
<1>5. Pending(t2) \subseteq Pending(t)
  BY <1>1, <1>3, LenProperties DEF Pending
<1> QED
  BY <1>1, <1>3, <1>4, <1>5 DEF IsTask
------------------------------------------------------------------------------
(* Type correctness, an action at a time. *)

LEMMA SetMembersType ==
    ASSUME TypeOK, NEW rid \in RoomID, NEW sid \in UserID, NEW mem \in SUBSET UserID,
           SetMembers(rid, sid, mem)
    PROVE  /\ members' \in [RoomID -> SUBSET UserID]
           /\ typing_timer' \in [RoomID -> [UserID -> 0 .. RoomTypingTimer]]
           /\ room_limits' \in [RoomID -> [UserID -> [RoomKinds -> Window]]]
<1>1. 0 \in 0 .. RoomTypingTimer
  BY TalkerAssumption
<1> QED
  BY <1>1, FreshLimits DEF SetMembers, TypeOK

LEMMA NextMessageIDType == ASSUME TypeOK PROVE NextMessageID \in 0 .. MessageIDs - 1
  BY TalkerAssumption DEF TypeOK, NextMessageID

\* A message that is saved in a room.
LEMMA SavedType ==
    ASSUME TypeOK, NEW rid \in RoomID, NEW msg \in Message,
           messages' = [messages EXCEPT ![rid] = PushHistory(@, msg)]
    PROVE  messages' \in [RoomID -> Seq(Message)]
  BY PushHistoryType DEF TypeOK

LEMMA ExpectType ==
    ASSUME TypeOK, NEW condition, NEW site \in Sites, Expect(condition, site)
    PROVE  panicked' \in Sites
  BY DEF TypeOK, Expect

LEMMA LeaveRoomType ==
    ASSUME TypeOK, NEW rid \in RoomID, NEW sid \in UserID, NEW after,
           LeaveRoom(sid, rid, after)
    PROVE  /\ members' \in [RoomID -> SUBSET UserID]
           /\ typing_timer' \in [RoomID -> [UserID -> 0 .. RoomTypingTimer]]
           /\ room_limits' \in [RoomID -> [UserID -> [RoomKinds -> Window]]]
           /\ messages' \in [RoomID -> Seq(Message)]
           /\ msgid_counter' \in 0 .. MessageIDs - 1
           /\ panicked' \in Sites
<1> DEFINE mem == members[rid] \ {sid}
           msg == TextMessage(msgid_counter, "user_left", SYSTEM, None)
<1>1. mem \in SUBSET UserID
  BY DEF TypeOK
<1>2. msg \in Message
  <2>1. msgid_counter \in Nat
    BY TalkerAssumption DEF TypeOK
  <2> QED
    BY <2>1, SystemMessage DEF Content
<1>3. SetMembers(rid, sid, mem) /\ msgid_counter' = NextMessageID
      /\ messages' = [messages EXCEPT ![rid] = PushHistory(@, msg)]
      /\ Expect(CanSend(rid, mem), "leave")
  BY DEF LeaveRoom
<1>4. "leave" \in Sites
  BY DEF Sites
<1> HIDE DEF mem, msg
<1> QED
  BY <1>1, <1>2, <1>3, <1>4, SetMembersType, NextMessageIDType, SavedType, ExpectType

LEMMA CheckUserType ==
    ASSUME TypeOK, NEW sid \in UserID, NEW kind \in UserKinds, CheckUser(sid, kind)
    PROVE  user_limits' \in [UserID -> [UserKinds -> Window]]
<1>1. Add(user_limits[sid][kind], ratelimit_idx) \in Window
  BY WindowOps DEF TypeOK
<1> QED
  BY <1>1 DEF CheckUser, TypeOK

LEMMA CheckMemberType ==
    ASSUME TypeOK, NEW sid \in UserID, NEW rid \in RoomID, NEW kind \in RoomKinds,
           CheckMember(sid, rid, kind)
    PROVE  room_limits' \in [RoomID -> [UserID -> [RoomKinds -> Window]]]
<1>1. Add(room_limits[rid][sid][kind], ratelimit_idx) \in Window
  BY WindowOps DEF TypeOK
<1> QED
  BY <1>1 DEF CheckMember, TypeOK

\* A valid handle means a room.
LEMMA HandleType ==
    ASSUME TypeOK, NEW sid \in UserID, NEW h, ValidHandle(sid, h)
    PROVE  in_rooms[sid][h] \in RoomID /\ in_rooms[sid][h] \in RoomsIn(in_rooms[sid])
           /\ sid \in users
<1>1. in_rooms[sid][h] \in RoomID /\ h \in DOMAIN in_rooms[sid] /\ sid \in users
  BY DEF ValidHandle, TypeOK
<1> QED
  BY <1>1, RoomHandlesAssumption DEF RoomsIn

\* The room a loop has reached.
LEMMA RunningType ==
    ASSUME TypeOK, NEW ops, Running(ops), "idle" \notin ops
    PROVE  /\ task # NoTask /\ task.op \in ops /\ task.sid \in UserID /\ task.todo \in Vector
           /\ HasNext(task.todo) /\ First(task.todo) \in RoomID
           /\ First(task.todo) \in RoomsIn(task.todo)
           /\ Rest(task.todo) \in Vector
           /\ IsTask(task) /\ panicked = None
<1>1. IsTask(task) /\ task.op \in ops /\ HasNext(task.todo) /\ task.op # "idle"
      /\ panicked = None
  BY DEF TypeOK, Running
<1>2. task # NoTask
  BY <1>1 DEF NoTask, Task
<1>3. task.todo \in Vector /\ task.sid \in UserID
  BY <1>1, <1>2 DEF IsTask
<1> QED
  BY <1>1, <1>2, <1>3, NextRoom, RestOf

LEMMA TypeInit == Init => TypeOK
<1> SUFFICES ASSUME Init PROVE TypeOK
  OBVIOUS
<1>1. <<>> \in Vector /\ <<>> \in Seq(Message) /\ DefaultProfile \in Profile
  BY TalkerAssumption DEF Vector
<1>2. 0 \in 0 .. RoomEmptyTimer /\ 0 \in 0 .. RoomTypingTimer /\ 0 \in 0 .. MessageIDs - 1
      /\ 0 \in Seconds
  BY TalkerAssumption DEF Seconds, RATELIMIT_WINDOW
<1> QED
  BY <1>1, <1>2, FreshLimits, NoTaskIsTask DEF Init, TypeOK, Sites

LEMMA TypeStep == TypeOK /\ [Next]_vars => TypeOK'
<1> SUFFICES ASSUME TypeOK, [Next]_vars PROVE TypeOK'
  OBVIOUS
<1> USE DEF userVars, roomVars, memberVars
<1>1. ASSUME NEW sid \in UserID, OnConnect(sid) PROVE TypeOK'
  BY <1>1 DEF OnConnect, TypeOK
<1>2. ASSUME NEW sid \in UserID, OnDisconnect(sid) PROVE TypeOK'
  <2>1. IsTask(task')
    <3>1. in_rooms[sid] \in Vector /\ "disconnect" \in Ops \ {"idle"}
      BY DEF TypeOK, Ops
    <3> QED
      BY <1>2, <3>1, LoopIsTask, EndOrIsTask DEF OnDisconnect
  <2>2. <<>> \in Vector /\ DefaultProfile \in Profile
    BY TalkerAssumption DEF Vector
  <2> QED
    BY <1>2, <2>1, <2>2, FreshLimits DEF OnDisconnect, TypeOK
<1>3. ASSUME NEW sid \in UserID, NEW prof \in Profile, NEW list \in InitRooms,
             ReqUserJoined(sid, prof, list)
      PROVE  TypeOK'
  <2>1. Dedup(list) \in Vector
    BY SeqDef, DedupOf, TalkerAssumption DEF InitRooms
  <2>2. IsTask(Loop("user_joined", sid, Dedup(list), None))
    BY <2>1, LoopIsTask DEF Ops
  <2>3. IsTask(task')
    BY <1>3, <2>2, NoTaskIsTask DEF ReqUserJoined
  <2> QED
    BY <1>3, <2>3 DEF ReqUserJoined, Renamed, TypeOK
<1>4. ASSUME NEW sid \in UserID, NEW prof \in Profile, ReqUserChNick(sid, prof)
      PROVE  TypeOK'
  <2>1. IsTask(task')
    <3>1. in_rooms[sid] \in Vector /\ "ch_nick" \in Ops \ {"idle"}
      BY DEF TypeOK, Ops
    <3>2. IsTask(EndOr(Loop("ch_nick", sid, in_rooms[sid], None)))
      BY <3>1, LoopIsTask, EndOrIsTask
    <3> QED
      BY <1>4, <3>2, NoTaskIsTask DEF ReqUserChNick
  <2>2. user_limits' \in [UserID -> [UserKinds -> Window]]
    BY <1>4, CheckUserType DEF ReqUserChNick, UserKinds
  <2> QED
    BY <1>4, <2>1, <2>2 DEF ReqUserChNick, Renamed, TypeOK
<1>5. ASSUME NEW sid \in UserID, NEW rid \in RoomID, NEW exclusive \in BOOLEAN,
             ReqRoomJoin(sid, rid, exclusive)
      PROVE  TypeOK'
  <2>1. IsTask(task')
    <3>1. Vacate(in_rooms[sid], rid) \in Vector /\ <<rid>> \in Vector
      <4>1. in_rooms[sid] \in Vector
        BY DEF TypeOK
      <4> QED
        BY <4>1, VacateOf, SingleVector
    <3>2. IsTask(Loop("exclusive", sid, Vacate(in_rooms[sid], rid), rid))
          /\ IsTask(Loop("room_join", sid, <<rid>>, rid))
      BY <3>1, LoopIsTask DEF Ops
    <3> QED
      BY <1>5, <3>2 DEF ReqRoomJoin
  <2>2. user_limits' \in [UserID -> [UserKinds -> Window]]
    BY <1>5, CheckUserType DEF ReqRoomJoin, UserKinds
  <2> QED
    BY <1>5, <2>1, <2>2 DEF ReqRoomJoin, TypeOK
<1>6. ASSUME NEW sid \in UserID, NEW h, ReqRoomLeave(sid, h) PROVE TypeOK'
  <2> DEFINE rid   == in_rooms[sid][h]
             array == Trim(Vacate(in_rooms[sid], rid))
             after == <<ToUser(sid, [type |-> "ROOM", rooms |-> array])>>
  <2>1. rid \in RoomID
    BY <1>6, HandleType DEF ReqRoomLeave
  <2>2. array \in Vector
    BY <2>1, VacateOf, TrimOf DEF TypeOK
  <2>3. LeaveRoom(sid, rid, after) /\ in_rooms' = [in_rooms EXCEPT ![sid] = array]
    BY <1>6 DEF ReqRoomLeave, user_room_leave, TypeOK
  <2>4. user_limits' \in [UserID -> [UserKinds -> Window]]
    BY <1>6, CheckUserType DEF ReqRoomLeave, UserKinds
  <2> HIDE DEF after, rid, array
  <2> QED
    BY <1>6, <2>1, <2>2, <2>3, <2>4, LeaveRoomType DEF ReqRoomLeave, TypeOK
<1>7. ASSUME NEW sid \in UserID, NEW h, ReqMessage(sid, h) PROVE TypeOK'
  <2> DEFINE rid == in_rooms[sid][h]
             msg == TextMessage(msgid_counter, "message", sid, None)
  <2>1. rid \in RoomID
    BY <1>7, HandleType DEF ReqMessage, MemberRequest
  <2>2. msg \in Message
    BY SystemMessage, TalkerAssumption DEF TypeOK, Content
  <2>3. CheckMember(sid, rid, "message") /\ "message" \in RoomKinds
        /\ messages' = [messages EXCEPT ![rid] = PushHistory(@, msg)]
        /\ panicked' \in Sites
    BY <1>7, ExpectType DEF ReqMessage, ExpectMember, RoomKinds, Sites
  <2> HIDE DEF rid, msg
  <2>4. messages' \in [RoomID -> Seq(Message)]
        /\ room_limits' \in [RoomID -> [UserID -> [RoomKinds -> Window]]]
    BY <2>1, <2>2, <2>3, SavedType, CheckMemberType
  <2> QED
    BY <1>7, <2>3, <2>4, NextMessageIDType DEF ReqMessage, MemberRequest, TypeOK
<1>8. ASSUME NEW sid \in UserID, NEW h, NEW target \in UserID, ReqMessageDM(sid, h, target)
      PROVE  TypeOK'
  <2> DEFINE rid == in_rooms[sid][h]
             msg == TextMessage(msgid_counter, "message", sid, target)
  <2>1. rid \in RoomID
    BY <1>8, HandleType DEF ReqMessageDM, MemberRequest
  <2>2. msg \in Message
    BY SystemMessage, TalkerAssumption DEF TypeOK, Content
  <2>3. CheckMember(sid, rid, "message_dm") /\ "message_dm" \in RoomKinds
        /\ \/ messages' = [messages EXCEPT ![rid] = PushHistory(@, msg)]
           \/ messages' = messages
        /\ panicked' \in Sites
    BY <1>8, ExpectType DEF ReqMessageDM, RoomKinds, Sites
  <2> HIDE DEF rid, msg
  <2>4. messages' \in [RoomID -> Seq(Message)]
    BY <2>1, <2>2, <2>3, SavedType DEF TypeOK
  <2>5. room_limits' \in [RoomID -> [UserID -> [RoomKinds -> Window]]]
    BY <2>1, <2>3, CheckMemberType
  <2> QED
    BY <1>8, <2>3, <2>4, <2>5, NextMessageIDType DEF ReqMessageDM, MemberRequest, TypeOK
<1>9. ASSUME NEW sid \in UserID, NEW h, NEW is_typing \in BOOLEAN,
             ReqTyping(sid, h, is_typing)
      PROVE  TypeOK'
  <2> DEFINE rid == in_rooms[sid][h]
  <2>1. rid \in RoomID
    BY <1>9, HandleType DEF ReqTyping, MemberRequest
  <2>2. CheckMember(sid, rid, "typing") /\ "typing" \in RoomKinds /\ panicked' \in Sites
        /\ typing_timer' = [typing_timer EXCEPT ![rid][sid] =
                               IF is_typing THEN RoomTypingTimer ELSE 0]
    BY <1>9, ExpectType DEF ReqTyping, ExpectMember, RoomKinds, Sites
  <2> HIDE DEF rid
  <2>3. room_limits' \in [RoomID -> [UserID -> [RoomKinds -> Window]]]
    BY <2>1, <2>2, CheckMemberType
  <2>4. typing_timer' \in [RoomID -> [UserID -> 0 .. RoomTypingTimer]]
    <3>1. (IF is_typing THEN RoomTypingTimer ELSE 0) \in 0 .. RoomTypingTimer
      BY TalkerAssumption
    <3> QED
      BY <2>1, <2>2, <3>1 DEF TypeOK
  <2> QED
    BY <1>9, <2>2, <2>3, <2>4 DEF ReqTyping, MemberRequest, TypeOK
<1>10. ASSUME NEW sid \in UserID, NEW h, ReqMouse(sid, h) PROVE TypeOK'
  <2> DEFINE rid == in_rooms[sid][h]
  <2>1. rid \in RoomID
    BY <1>10, HandleType DEF ReqMouse, MemberRequest
  <2>2. CheckMember(sid, rid, "mouse") /\ "mouse" \in RoomKinds /\ panicked' \in Sites
    BY <1>10, ExpectType DEF ReqMouse, ExpectMember, RoomKinds, Sites
  <2> HIDE DEF rid
  <2>3. room_limits' \in [RoomID -> [UserID -> [RoomKinds -> Window]]]
    BY <2>1, <2>2, CheckMemberType
  <2> QED
    BY <1>10, <2>2, <2>3 DEF ReqMouse, MemberRequest, TypeOK
<1>11. ASSUME NEW sid \in UserID, NEW h, ReqCustomR(sid, h) PROVE TypeOK'
  <2>1. panicked' \in Sites
    BY <1>11, ExpectType DEF ReqCustomR, Sites
  <2> QED
    BY <1>11, <2>1 DEF ReqCustomR, MemberRequest, TypeOK
<1>12. ASSUME NEW sid \in UserID, NEW h, NEW target \in UserID, ReqCustomU(sid, h, target)
       PROVE  TypeOK'
  BY <1>12 DEF ReqCustomU, MemberRequest, TypeOK
<1>13. CASE DisconnectRoom
  <2>1. /\ task # NoTask /\ task.sid \in UserID /\ First(task.todo) \in RoomID
        /\ Rest(task.todo) \in Vector /\ IsTask(task)
    BY <1>13, RunningType DEF DisconnectRoom
  <2>2. LeaveRoom(task.sid, First(task.todo), <<>>)
        /\ task' = EndOr([task EXCEPT !.todo = Rest(task.todo)])
    BY <1>13 DEF DisconnectRoom
  <2>3. IsTask(task')
    BY <2>1, <2>2, TodoIsTask, EndOrIsTask
  <2> QED
    BY <1>13, <2>1, <2>2, <2>3, LeaveRoomType DEF DisconnectRoom, TypeOK
<1>14. CASE ExclusiveLeave
  <2>1. /\ task # NoTask /\ task.sid \in UserID /\ First(task.todo) \in RoomID
        /\ Rest(task.todo) \in Vector /\ IsTask(task)
    BY <1>14, RunningType DEF ExclusiveLeave
  <2>2. LeaveRoom(task.sid, First(task.todo), <<>>)
        /\ task' = [task EXCEPT !.todo = Rest(task.todo)]
    BY <1>14 DEF ExclusiveLeave, user_room_leave
  <2>3. IsTask(task')
    BY <2>1, <2>2, TodoIsTask
  <2>4. in_rooms' \in [UserID -> Vector]
    <3>1. Trim(Vacate(in_rooms[task.sid], First(task.todo))) \in Vector
      BY <2>1, VacateOf, TrimOf DEF TypeOK
    <3> QED
      BY <1>14, <2>1, <3>1 DEF ExclusiveLeave, user_room_leave, TypeOK
  <2> QED
    BY <1>14, <2>1, <2>2, <2>3, <2>4, LeaveRoomType DEF ExclusiveLeave, TypeOK
<1>15. CASE ExclusiveJoin
  <2>1. task.sid \in UserID /\ task.rid \in RoomID \cup {None}
    BY <1>15 DEF ExclusiveJoin, TypeOK, IsTask, NoTask, Task
  <2>2. <<task.rid>> \in Vector /\ <<>> \in Vector
    BY <2>1 DEF Vector
  <2>3. IsTask(task')
    BY <1>15, <2>1, <2>2, LoopIsTask DEF ExclusiveJoin, Ops
  <2> QED
    BY <1>15, <2>1, <2>2, <2>3 DEF ExclusiveJoin, TypeOK
<1>16. CASE JoinRefused
  <2>1. First(task.todo) \in RoomID
    BY <1>16, RunningType DEF JoinRefused
  <2>2. empty_timer' \in [RoomID -> 0 .. RoomEmptyTimer] /\ rooms' \in SUBSET RoomID
    BY <1>16, <2>1, TalkerAssumption DEF JoinRefused, ensure_room, TypeOK
  <2>3. panicked' \in Sites
    BY <1>16, ExpectType DEF JoinRefused, Sites
  <2> QED
    BY <1>16, <2>2, <2>3, NoTaskIsTask DEF JoinRefused, TypeOK
<1>17. CASE JoinRoom
  <2> DEFINE sid == task.sid
             rid == First(task.todo)
             mem == members[rid] \cup {sid}
  <2>1. /\ task # NoTask /\ sid \in UserID /\ rid \in RoomID
        /\ Rest(task.todo) \in Vector /\ IsTask(task)
    BY <1>17, RunningType DEF JoinRoom
  <2>2. empty_timer' \in [RoomID -> 0 .. RoomEmptyTimer] /\ rooms' \in SUBSET RoomID
    BY <1>17, <2>1, TalkerAssumption DEF JoinRoom, ensure_room, TypeOK
  <2>3. AddRoom(in_rooms[sid], rid) \in Vector
    <3>1. in_rooms[sid] \in Vector
      BY <2>1 DEF TypeOK
    <3> QED
      BY <2>1, <3>1, AddRoomType
  <2>4. in_rooms' \in [UserID -> Vector]
    BY <1>17, <2>1, <2>3 DEF JoinRoom, TypeOK
  <2>5. mem \in SUBSET UserID
    BY <2>1 DEF TypeOK
  <2>6. SetMembers(rid, sid, mem) /\ panicked' \in Sites
    BY <1>17, ExpectType DEF JoinRoom, Sites
  <2>7. PICK d : /\ d.rid = rid /\ d.mid = msgid_counter
                 /\ task' = Task(task.op, sid, Rest(task.todo), task.rid, Append(task.done, d))
    BY <1>17 DEF JoinRoom
  <2>8. IsTask(task')
    <3>1. d.rid \in RoomID /\ d.mid \in Nat
      BY <2>1, <2>7, TalkerAssumption DEF TypeOK
    <3> QED
      BY <2>1, <2>7, <3>1, DoneIsTask
  <2>9. /\ members' \in [RoomID -> SUBSET UserID]
        /\ typing_timer' \in [RoomID -> [UserID -> 0 .. RoomTypingTimer]]
        /\ room_limits' \in [RoomID -> [UserID -> [RoomKinds -> Window]]]
    BY <2>1, <2>5, <2>6, SetMembersType
  <2> HIDE DEF sid, rid, mem
  <2> QED
    BY <1>17, <2>2, <2>4, <2>6, <2>8, <2>9, NextMessageIDType DEF JoinRoom, TypeOK
<1>18. CASE SendRooms
  <2>1. task # NoTask /\ IsTask(task)
    BY <1>18 DEF SendRooms, TypeOK, NoTask, Task
  <2>2. IsTask([task EXCEPT !.op = "complete"])
    BY <2>1, CompleteIsTask
  <2> QED
    BY <1>18, <2>2, NoTaskIsTask DEF SendRooms, TypeOK
<1>19. CASE user_room_join_unimmediate_complete
  <2> DEFINE d   == Head(task.done)
             msg == TextMessage(d.mid, "user_joined", SYSTEM, None)
  <2>1. task # NoTask /\ IsTask(task) /\ task.done # <<>>
    BY <1>19 DEF user_room_join_unimmediate_complete, TypeOK, NoTask, Task
  <2>2. d.rid \in RoomID /\ d.mid \in Nat
    BY <2>1, TailIsTask DEF IsTask
  <2>3. msg \in Message
    BY <2>2, SystemMessage DEF Content
  <2>4. messages' = [messages EXCEPT ![d.rid] = PushHistory(@, msg)] /\ panicked' \in Sites
    BY <1>19, ExpectType DEF user_room_join_unimmediate_complete, Sites
  <2>5. IsTask(task')
    <3>1. task' = NoTask \/ task' = [task EXCEPT !.done = Tail(@)]
      BY <1>19 DEF user_room_join_unimmediate_complete
    <3> QED
      BY <2>1, <3>1, TailIsTask, NoTaskIsTask
  <2> HIDE DEF d, msg
  <2>6. messages' \in [RoomID -> Seq(Message)]
    BY <2>2, <2>3, <2>4, SavedType
  <2> QED
    BY <1>19, <2>4, <2>5, <2>6 DEF user_room_join_unimmediate_complete, TypeOK
<1>20. CASE ChNickRoom
  <2> DEFINE rid == First(task.todo)
             msg == TextMessage(msgid_counter, "user_ch_nick", SYSTEM, None)
  <2>1. /\ task # NoTask /\ rid \in RoomID /\ Rest(task.todo) \in Vector /\ IsTask(task)
    BY <1>20, RunningType DEF ChNickRoom
  <2>2. msg \in Message
    BY SystemMessage, TalkerAssumption DEF TypeOK, Content
  <2>3. /\ messages' = [messages EXCEPT ![rid] = PushHistory(@, msg)]
        /\ panicked' \in Sites
        /\ task' = EndOr([task EXCEPT !.todo = Rest(task.todo)])
    BY <1>20, ExpectType DEF ChNickRoom, Sites
  <2>4. IsTask(task')
    BY <2>1, <2>3, TodoIsTask, EndOrIsTask
  <2> HIDE DEF rid, msg
  <2>5. messages' \in [RoomID -> Seq(Message)]
    BY <2>1, <2>2, <2>3, SavedType
  <2> QED
    BY <1>20, <2>3, <2>4, <2>5, NextMessageIDType DEF ChNickRoom, TypeOK
<1>21. CASE EverySecond
  <2>1. ratelimit_idx' \in Seconds
    BY <1>21 DEF EverySecond, NextIdx, TypeOK, Seconds, RATELIMIT_WINDOW
  <2>2. user_limits' \in [UserID -> [UserKinds -> Window]]
    <3>1. \A u \in UserID, k \in UserKinds :
              ResetIdx(user_limits[u][k], ratelimit_idx') \in Window
      BY <2>1, WindowOps DEF TypeOK
    <3> QED
      BY <1>21, <3>1 DEF EverySecond
  <2>3. room_limits' \in [RoomID -> [UserID -> [RoomKinds -> Window]]]
    <3>1. \A r \in RoomID, u \in UserID, k \in RoomKinds :
              ResetIdx(room_limits[r][u][k], ratelimit_idx') \in Window
      BY <2>1, WindowOps DEF TypeOK
    <3> QED
      BY <1>21, <3>1 DEF EverySecond
  <2>4. typing_timer' \in [RoomID -> [UserID -> 0 .. RoomTypingTimer]]
    <3>1. \A r \in RoomID, u \in UserID :
              saturating_sub1(typing_timer[r][u]) \in 0 .. RoomTypingTimer
      BY TalkerAssumption DEF TypeOK, saturating_sub1
    <3> QED
      BY <1>21, <3>1 DEF EverySecond
  <2>5. empty_timer' \in [RoomID -> 0 .. RoomEmptyTimer]
    <3>1. \A r \in RoomID : saturating_sub1(empty_timer[r]) \in 0 .. RoomEmptyTimer
                            /\ empty_timer[r] \in 0 .. RoomEmptyTimer
      BY TalkerAssumption DEF TypeOK, saturating_sub1
    <3> QED
      BY <1>21, <3>1 DEF EverySecond
  <2>6. messages' \in [RoomID -> Seq(Message)]
    <3>1. <<>> \in Seq(Message) /\ \A r \in RoomID : messages[r] \in Seq(Message)
      BY DEF TypeOK
    <3> QED
      BY <1>21, <3>1 DEF EverySecond
  <2>7. panicked' \in Sites
    BY <1>21, ExpectType DEF EverySecond, Sites
  <2>8. rooms' \in SUBSET RoomID
    BY <1>21 DEF EverySecond, TypeOK
  <2> QED
    BY <1>21, <2>1, <2>2, <2>3, <2>4, <2>5, <2>6, <2>7, <2>8 DEF EverySecond, TypeOK
<1>22. CASE UNCHANGED vars
  BY <1>22 DEF vars, TypeOK
<1> QED
  BY <1>1, <1>2, <1>3, <1>4, <1>5, <1>6, <1>7, <1>8, <1>9, <1>10, <1>11, <1>12, <1>13, <1>14,
     <1>15, <1>16, <1>17, <1>18, <1>19, <1>20, <1>21, <1>22
  DEF Next, OnMessage, UserRequest, RoomRequest, Continue

\* Every variable of the talker keeps its type.
THEOREM TypeCorrect == Spec => []TypeOK
  BY TypeInit, TypeStep, PTL DEF Spec
------------------------------------------------------------------------------
(* The inductive invariant.  The two maps of the talker stay together: the *)
(* invariant is MembersAgree, strengthened with what the vectors of        *)
(* handles look like and with what a handler that loops relies on from one *)
(* iteration to the next.                                                  *)

IInv == MembersAgree /\ HandlesOK /\ TaskInStep /\ OnlyInitRoomsPanics
------------------------------------------------------------------------------
(* What the handlers expect. *)

\* A member that is not on the way out is a user whose vector holds the room.
LEMMA MemberIsUser ==
    ASSUME TypeOK, IInv, NEW rid \in RoomID, NEW u \in members[rid],
           task.op = "disconnect" => u # task.sid
    PROVE  u \in users /\ rid \in RoomsIn(in_rooms[u]) /\ rid \in rooms
<1>1. u \in UserID
  BY DEF TypeOK
<1>2. Leaving(u) = {}
  BY DEF Leaving
<1>3. rid \in RoomsIn(in_rooms[u])
  BY <1>1, <1>2 DEF IInv, MembersAgree
<1>4. RoomsIn(<<>>) = {}
  BY DEF RoomsIn
<1>5. u \in users
  BY <1>1, <1>3, <1>4 DEF IInv, TaskInStep
<1> QED
  BY <1>3, <1>5 DEF IInv, MembersAgree

LEMMA SendToMembers ==
    ASSUME TypeOK, IInv, NEW rid \in RoomID, rid \in rooms, NEW mem, mem \subseteq members[rid],
           task.op = "disconnect" => task.sid \notin mem
    PROVE  CanSend(rid, mem)
  BY MemberIsUser DEF CanSend

LEMMA RoomsOfUser ==
    ASSUME TypeOK, IInv, NEW u \in UserID, NEW rid \in RoomsIn(in_rooms[u])
    PROVE  rid \in RoomID /\ u \in members[rid] /\ rid \in rooms /\ u \in users
<1>1. rid \in RoomID
  <2>1. in_rooms[u] \in Vector
    BY DEF TypeOK
  <2> QED
    BY <2>1, VectorAsFunction DEF RoomsIn
<1>2. RoomsIn(<<>>) = {}
  BY DEF RoomsIn
<1> QED
  BY <1>1, <1>2 DEF IInv, MembersAgree, TaskInStep

\* A condition that holds is expected in vain.
LEMMA ExpectHolds ==
    ASSUME NEW condition, NEW site, condition, Expect(condition, site)
    PROVE  panicked' = panicked
  BY DEF Expect
------------------------------------------------------------------------------
(* The steps, by what they do to the two maps. *)

\* Steps that leave the maps alone, but may drop or create rooms nobody is in.
LEMMA QuietStep ==
    ASSUME TypeOK, IInv, UNCHANGED <<users, in_rooms, members, task>>,
           panicked' \in {None, "init_rooms"},
           \A r \in RoomID : members[r] # {} => r \in rooms'
    PROVE  IInv'
<1>1. \A u \in UserID : Leaving(u)' = Leaving(u)
  BY DEF Leaving
<1>2. MembersAgree'
  BY <1>1 DEF IInv, MembersAgree
<1>3. HandlesOK'
  BY DEF IInv, HandlesOK
<1>4. TaskInStep'
  BY DEF IInv, TaskInStep, Pending
<1> QED
  BY <1>2, <1>3, <1>4 DEF IInv, OnlyInitRoomsPanics

\* Requests about a room, of a member of it.
LEMMA MemberStep ==
    ASSUME TypeOK, IInv, NEW op, NEW sid \in UserID, NEW h, MemberRequest(op, sid, h),
           panicked' = panicked
    PROVE  IInv'
<1>1. UNCHANGED <<users, in_rooms, members, task, rooms>>
  BY DEF MemberRequest, roomVars
<1>2. panicked' \in {None, "init_rooms"}
  BY DEF IInv, OnlyInitRoomsPanics
<1>3. \A r \in RoomID : members[r] # {} => r \in rooms'
  BY <1>1 DEF IInv, MembersAgree
<1> QED
  BY <1>1, <1>2, <1>3, QuietStep

LEMMA MemberCanSend ==
    ASSUME TypeOK, IInv, NEW op, NEW sid \in UserID, NEW h, MemberRequest(op, sid, h)
    PROVE  LET rid == in_rooms[sid][h]
           IN  rid \in RoomID /\ sid \in members[rid] /\ CanSend(rid, members[rid])
<1> DEFINE rid == in_rooms[sid][h]
<1>1. rid \in RoomID /\ rid \in RoomsIn(in_rooms[sid])
  BY HandleType DEF MemberRequest
<1>2. sid \in members[rid] /\ rid \in rooms
  BY <1>1, RoomsOfUser
<1>3. task.op # "disconnect"
  BY DEF MemberRequest, Ready, NoTask, Task
<1> QED
  BY <1>1, <1>2, <1>3, SendToMembers

\* user_room_leave, for a room the user is in.
LEMMA LeaveStep ==
    ASSUME TypeOK, IInv, NEW sid \in UserID, NEW rid \in RoomsIn(in_rooms[sid]), NEW after,
           user_room_leave(sid, rid, after), UNCHANGED <<users, rooms>>,
           task.op # "disconnect", task'.op # "disconnect"
    PROVE  /\ MembersAgree' /\ HandlesOK' /\ panicked' = panicked
           /\ RoomsIn(in_rooms'[sid]) = RoomsIn(in_rooms[sid]) \ {rid}
           /\ \A u \in UserID \ {sid} : in_rooms'[u] = in_rooms[u]
           /\ \A u \in UserID \ users' : in_rooms'[u] = <<>>
<1> DEFINE array == Trim(Vacate(in_rooms[sid], rid))
<1>1. rid \in RoomID /\ sid \in members[rid] /\ rid \in rooms /\ sid \in users
  BY RoomsOfUser
<1>2. in_rooms[sid] \in Vector /\ NoDuplicates(in_rooms[sid]) /\ Len(in_rooms[sid]) <= MaxRooms
  BY DEF TypeOK, IInv, HandlesOK
<1>3. /\ Vacate(in_rooms[sid], rid) \in Vector /\ NoDuplicates(Vacate(in_rooms[sid], rid))
      /\ Len(Vacate(in_rooms[sid], rid)) = Len(in_rooms[sid])
      /\ RoomsIn(Vacate(in_rooms[sid], rid)) = RoomsIn(in_rooms[sid]) \ {rid}
  BY <1>1, <1>2, VacateOf
<1>4. /\ RoomsIn(array) = RoomsIn(in_rooms[sid]) \ {rid}
      /\ NoDuplicates(array) /\ Trimmed(array) /\ Len(array) <= Len(in_rooms[sid])
      /\ array \in Vector
  BY <1>3, TrimOf
<1>5. Len(array) <= MaxRooms
  BY <1>2, <1>4, VectorAsFunction, RoomHandlesAssumption
<1>6. in_rooms' = [in_rooms EXCEPT ![sid] = array]
  BY DEF user_room_leave
<1> HIDE DEF array
<1>7. in_rooms'[sid] = array /\ \A u \in UserID \ {sid} : in_rooms'[u] = in_rooms[u]
  BY <1>6 DEF TypeOK
<1>8. members' = [members EXCEPT ![rid] = members[rid] \ {sid}]
  BY DEF user_room_leave, LeaveRoom, SetMembers
<1>9. panicked' = panicked
  <2>1. CanSend(rid, members[rid] \ {sid})
    BY <1>1, SendToMembers
  <2>2. Expect(CanSend(rid, members[rid] \ {sid}), "leave")
    BY DEF user_room_leave, LeaveRoom
  <2> QED
    BY <2>1, <2>2, ExpectHolds
<1>10. MembersAgree'
  <2>1. \A u \in UserID : Leaving(u) = {} /\ Leaving(u)' = {}
    BY DEF Leaving
  <2>2. \A u \in UserID, r \in RoomID : u \in members[r] <=> r \in RoomsIn(in_rooms[u])
    BY <2>1 DEF IInv, MembersAgree
  <2>3. \A u \in UserID, r \in RoomID :
            u \in members'[r] <=> u \in members[r] /\ ~ (u = sid /\ r = rid)
    BY <1>1, <1>8 DEF TypeOK
  <2>4. \A u \in UserID, r \in RoomID : u \in members'[r] <=> r \in RoomsIn(in_rooms'[u])
    BY <1>4, <1>7, <2>2, <2>3
  <2>5. \A r \in RoomID : members'[r] # {} => r \in rooms'
    BY <1>8 DEF IInv, MembersAgree, TypeOK
  <2> QED
    BY <2>1, <2>4, <2>5 DEF MembersAgree
<1>11. HandlesOK'
  BY <1>4, <1>5, <1>7 DEF IInv, HandlesOK
<1>12. \A u \in UserID \ users' : in_rooms'[u] = <<>>
  BY <1>1, <1>7 DEF IInv, TaskInStep
<1> QED
  BY <1>4, <1>7, <1>9, <1>10, <1>11, <1>12

\* A step of a handler that begins, or has nothing left of the maps to change.
LEMMA TaskStep ==
    ASSUME TypeOK, IInv, UNCHANGED <<users, in_rooms, members>>,
           \A r \in rooms : r \in rooms',
           panicked' \in {None, "init_rooms"},
           task.op # "disconnect", task'.op # "disconnect",
           task'.op # "idle" => task'.sid \in users,
           task'.op \in {"exclusive", "ch_nick"} =>
               /\ NoDuplicates(task'.todo)
               /\ RoomsIn(task'.todo) \subseteq RoomsIn(in_rooms[task'.sid]),
           task'.op = "exclusive" =>
               RoomsIn(in_rooms[task'.sid]) \subseteq RoomsIn(task'.todo) \cup {task'.rid},
           task'.op \in {"user_joined", "room_join", "complete"} =>
               \A d \in Pending(task') : d.rid \in RoomsIn(in_rooms[task'.sid])
    PROVE  IInv'
<1>1. \A u \in UserID : Leaving(u) = {} /\ Leaving(u)' = {}
  BY DEF Leaving
<1>2. MembersAgree'
  BY <1>1 DEF IInv, MembersAgree
<1>3. HandlesOK'
  BY DEF IInv, HandlesOK
<1>4. TaskInStep'
  BY DEF IInv, TaskInStep, Pending
<1> QED
  BY <1>2, <1>3, <1>4 DEF IInv, OnlyInitRoomsPanics

LEMMA IdleOrLoop ==
    ASSUME NEW op, NEW sid, NEW todo, NEW rid
    PROVE  /\ NoTask.op = "idle" /\ Loop(op, sid, todo, rid).op = op
           /\ Loop(op, sid, todo, rid).sid = sid /\ Loop(op, sid, todo, rid).todo = todo
           /\ Loop(op, sid, todo, rid).rid = rid
           /\ Pending(Loop(op, sid, todo, rid)) = {}
<1>1. Loop(op, sid, todo, rid).done = <<>>
  BY DEF Loop, Task
<1> QED
  BY <1>1 DEF NoTask, Loop, Task, Pending
------------------------------------------------------------------------------
LEMMA InvInit == Init => IInv
<1> SUFFICES ASSUME Init PROVE IInv
  OBVIOUS
<1>1. /\ RoomsIn(<<>>) = {} /\ NoDuplicates(<<>>) /\ Trimmed(<<>>) /\ Len(<<>>) <= MaxRooms
  BY RoomHandlesAssumption DEF RoomsIn, NoDuplicates, Trimmed
<1>2. task.op = "idle"
  BY IdleOrLoop DEF Init
<1>3. MembersAgree
  BY <1>1, <1>2 DEF Init, MembersAgree, Leaving
<1>4. HandlesOK
  BY <1>1 DEF Init, HandlesOK
<1>5. TaskInStep
  BY <1>2 DEF Init, TaskInStep
<1> QED
  BY <1>3, <1>4, <1>5 DEF IInv, OnlyInitRoomsPanics, Init

\* The requests, the rooms of which are not looked at yet.
LEMMA InvConnect ==
    ASSUME TypeOK, IInv, NEW sid \in UserID, OnConnect(sid) PROVE IInv'
<1>1. /\ UNCHANGED <<in_rooms, members, task, panicked, rooms>> /\ users \subseteq users'
      /\ task.op = "idle"
  BY IdleOrLoop DEF OnConnect, Ready, memberVars, roomVars
<1>2. MembersAgree'
  BY <1>1 DEF IInv, MembersAgree, Leaving
<1>3. HandlesOK'
  BY <1>1 DEF IInv, HandlesOK
<1>4. TaskInStep'
  BY <1>1 DEF IInv, TaskInStep
<1> QED
  BY <1>1, <1>2, <1>3, <1>4 DEF IInv, OnlyInitRoomsPanics

LEMMA InvDisconnect ==
    ASSUME TypeOK, IInv, NEW sid \in UserID, OnDisconnect(sid) PROVE IInv'
<1> DEFINE array == in_rooms[sid]
           loop  == Loop("disconnect", sid, array, None)
<1>1. /\ UNCHANGED <<members, panicked, rooms>> /\ users' = users \ {sid}
      /\ task = NoTask /\ in_rooms' = [in_rooms EXCEPT ![sid] = <<>>]
      /\ task' = EndOr(loop)
  BY DEF OnDisconnect, Ready, memberVars, roomVars
<1>2. array \in Vector /\ NoDuplicates(array)
  BY DEF TypeOK, IInv, HandlesOK
<1>3. \/ task' = loop
      \/ task' = NoTask /\ RoomsIn(array) = {}
  BY <1>1, <1>2, NoNext, IdleOrLoop DEF EndOr
<1>4. /\ loop.op = "disconnect" /\ loop.sid = sid /\ loop.todo = array /\ NoTask.op = "idle"
  BY IdleOrLoop
<1> HIDE DEF array, loop
<1>5. /\ in_rooms'[sid] = <<>> /\ \A u \in UserID \ {sid} : in_rooms'[u] = in_rooms[u]
  BY <1>1 DEF TypeOK
<1>6. /\ RoomsIn(<<>>) = {} /\ NoDuplicates(<<>>) /\ Trimmed(<<>>) /\ Len(<<>>) <= MaxRooms
  BY RoomHandlesAssumption DEF RoomsIn, NoDuplicates, Trimmed
<1>7. MembersAgree'
  <2>1. \A u \in UserID : Leaving(u) = {}
    BY <1>1, <1>4 DEF Leaving
  <2>2. \A u \in UserID \ {sid} : Leaving(u)' = {}
    BY <1>3, <1>4 DEF Leaving
  <2>3. Leaving(sid)' = RoomsIn(array)
    BY <1>3, <1>4 DEF Leaving
  <2>4. \A u \in UserID : RoomsIn(in_rooms'[u]) \cup Leaving(u)' = RoomsIn(in_rooms[u])
    BY <1>5, <1>6, <2>2, <2>3 DEF array
  <2> QED
    BY <1>1, <2>1, <2>4 DEF IInv, MembersAgree
<1>8. HandlesOK'
  BY <1>5, <1>6 DEF IInv, HandlesOK
<1>9. TaskInStep'
  <2>1. \A u \in UserID \ users' : in_rooms'[u] = <<>>
    BY <1>1, <1>5 DEF IInv, TaskInStep
  <2>2. task'.op \in {"idle", "disconnect"}
    BY <1>3, <1>4
  <2>3. task'.op = "disconnect" => task'.sid \notin users' /\ NoDuplicates(task'.todo)
    BY <1>1, <1>2, <1>3, <1>4
  <2> QED
    BY <2>1, <2>2, <2>3 DEF TaskInStep
<1> QED
  BY <1>1, <1>7, <1>8, <1>9 DEF IInv, OnlyInitRoomsPanics

\* A request that only begins a loop, or nothing at all.
LEMMA InvUserJoined ==
    ASSUME TypeOK, IInv, NEW sid \in UserID, NEW prof, NEW list, ReqUserJoined(sid, prof, list)
    PROVE  IInv'
<1> DEFINE loop == Loop("user_joined", sid, Dedup(list), None)
<1>1. /\ UNCHANGED <<users, in_rooms, members, rooms, panicked>> /\ task = NoTask
      /\ sid \in users /\ task' \in {NoTask, loop}
  BY DEF ReqUserJoined, Ready, memberVars, roomVars
<1>2. NoTask.op = "idle" /\ loop.op = "user_joined" /\ loop.sid = sid /\ Pending(loop) = {}
  BY IdleOrLoop
<1> HIDE DEF loop
<1> QED
  BY <1>1, <1>2, TaskStep DEF IInv, OnlyInitRoomsPanics

LEMMA InvChNick ==
    ASSUME TypeOK, IInv, NEW sid \in UserID, NEW prof, ReqUserChNick(sid, prof) PROVE IInv'
<1> DEFINE loop == Loop("ch_nick", sid, in_rooms[sid], None)
<1>1. /\ UNCHANGED <<users, in_rooms, members, rooms, panicked>> /\ task = NoTask
      /\ sid \in users /\ task' \in {NoTask, loop}
  BY DEF ReqUserChNick, Ready, EndOr, memberVars, roomVars
<1>2. NoTask.op = "idle" /\ loop.op = "ch_nick" /\ loop.sid = sid /\ loop.todo = in_rooms[sid]
  BY IdleOrLoop
<1>3. NoDuplicates(in_rooms[sid])
  BY DEF IInv, HandlesOK
<1> HIDE DEF loop
<1> QED
  BY <1>1, <1>2, <1>3, TaskStep DEF IInv, OnlyInitRoomsPanics

LEMMA InvRoomJoin ==
    ASSUME TypeOK, IInv, NEW sid \in UserID, NEW rid \in RoomID, NEW exclusive,
           ReqRoomJoin(sid, rid, exclusive)
    PROVE  IInv'
<1> DEFINE todo == Vacate(in_rooms[sid], rid)
           first == Loop("exclusive", sid, todo, rid)
           join == Loop("room_join", sid, <<rid>>, rid)
<1>1. /\ UNCHANGED <<users, in_rooms, members, rooms, panicked>> /\ task = NoTask
      /\ sid \in users /\ task' \in {first, join}
  BY DEF ReqRoomJoin, Ready, memberVars, roomVars
<1>2. /\ NoTask.op = "idle" /\ join.op = "room_join" /\ join.sid = sid /\ Pending(join) = {}
      /\ first.op = "exclusive" /\ first.sid = sid /\ first.todo = todo /\ first.rid = rid
  BY IdleOrLoop
<1>3. NoDuplicates(todo) /\ RoomsIn(todo) = RoomsIn(in_rooms[sid]) \ {rid}
  <2>1. in_rooms[sid] \in Vector /\ NoDuplicates(in_rooms[sid])
    BY DEF TypeOK, IInv, HandlesOK
  <2> QED
    BY <2>1, VacateOf
<1> HIDE DEF first, join, todo
<1> QED
  BY <1>1, <1>2, <1>3, TaskStep DEF IInv, OnlyInitRoomsPanics

LEMMA InvRoomLeave ==
    ASSUME TypeOK, IInv, NEW sid \in UserID, NEW h, ReqRoomLeave(sid, h) PROVE IInv'
<1> DEFINE rid   == in_rooms[sid][h]
           array == Trim(Vacate(in_rooms[sid], rid))
           after == <<ToUser(sid, [type |-> "ROOM", rooms |-> array])>>
<1>1. /\ UNCHANGED <<users, rooms, task>> /\ task.op = "idle" /\ rid \in RoomsIn(in_rooms[sid])
      /\ user_room_leave(sid, rid, after)
  BY HandleType, IdleOrLoop DEF ReqRoomLeave, Ready, roomVars
<1> HIDE DEF rid, array, after
<1>2. /\ MembersAgree' /\ HandlesOK' /\ panicked' = panicked
      /\ \A u \in UserID \ users' : in_rooms'[u] = <<>>
  BY <1>1, LeaveStep
<1>3. TaskInStep'
  BY <1>1, <1>2 DEF TaskInStep
<1> QED
  BY <1>2, <1>3 DEF IInv, OnlyInitRoomsPanics

\* Requests of a member: what they expect holds.
LEMMA InvMemberRequests ==
    ASSUME TypeOK, IInv, NEW sid \in UserID, NEW h,
           \/ ReqMessage(sid, h) \/ ReqMouse(sid, h) \/ ReqCustomR(sid, h)
           \/ \E is_typing \in BOOLEAN : ReqTyping(sid, h, is_typing)
           \/ \E target \in UserID : ReqMessageDM(sid, h, target) \/ ReqCustomU(sid, h, target)
    PROVE  IInv'
<1> DEFINE rid == in_rooms[sid][h]
<1>1. PICK op : MemberRequest(op, sid, h)
  BY DEF ReqMessage, ReqMouse, ReqCustomR, ReqTyping, ReqMessageDM, ReqCustomU
<1>2. /\ sid \in members[rid] /\ CanSend(rid, members[rid])
  BY <1>1, MemberCanSend
<1>3. \/ ExpectMember(sid, rid)
      \/ Expect(CanSend(rid, members[rid]), "member")
      \/ Expect(sid \in members[rid], "member")
      \/ \E changed \in BOOLEAN :
             Expect(sid \in members[rid] /\ (changed => CanSend(rid, members[rid])), "member")
      \/ panicked' = panicked
  BY DEF ReqMessage, ReqMouse, ReqCustomR, ReqTyping, ReqMessageDM, ReqCustomU
<1> HIDE DEF rid
<1>4. panicked' = panicked
  BY <1>2, <1>3 DEF ExpectMember, Expect
<1> QED
  BY <1>1, <1>4, MemberStep
------------------------------------------------------------------------------
(* The iterations of the handlers. *)

LEMMA InvDisconnectRoom == ASSUME TypeOK, IInv, DisconnectRoom PROVE IInv'
<1> DEFINE rid  == First(task.todo)
           rest == [task EXCEPT !.todo = Rest(@)]
<1>0. PICK sid \in UserID : sid = task.sid
  BY RunningType DEF DisconnectRoom
<1>1. /\ task.op = "disconnect" /\ rid \in RoomID
      /\ rid \in RoomsIn(task.todo) /\ task.todo \in Vector /\ HasNext(task.todo)
      /\ IsTask(task) /\ Rest(task.todo) \in Vector
  BY RunningType DEF DisconnectRoom
<1>2. /\ UNCHANGED <<users, in_rooms, rooms>> /\ LeaveRoom(sid, rid, <<>>)
      /\ task' = EndOr(rest)
  BY <1>0 DEF DisconnectRoom, userVars, roomVars
<1>3. /\ rest.op = "disconnect" /\ rest.sid = sid /\ rest.todo = Rest(task.todo)
      /\ NoTask.op = "idle"
  BY <1>0, <1>1, IdleOrLoop DEF IsTask
<1>4. /\ NoDuplicates(task.todo) /\ sid \notin users /\ in_rooms[sid] = <<>>
  BY <1>0, <1>1 DEF IInv, TaskInStep
<1>5. NoDuplicates(rest.todo) /\ RoomsIn(rest.todo) = RoomsIn(task.todo) \ {rid}
  BY <1>1, <1>3, <1>4, RestOf
<1>6. task' = rest \/ (task' = NoTask /\ RoomsIn(rest.todo) = {})
  <2>1. rest.todo \in Vector
    BY <1>1, <1>3, RestOf
  <2> HIDE DEF rest
  <2>2. ~ HasNext(rest.todo) => RoomsIn(rest.todo) = {}
    BY <2>1, NoNext
  <2>3. task' = rest \/ (task' = NoTask /\ ~ HasNext(rest.todo))
    BY <1>2 DEF EndOr
  <2> QED
    BY <2>2, <2>3
<1>7. members' = [members EXCEPT ![rid] = members[rid] \ {sid}]
  BY <1>2 DEF LeaveRoom, SetMembers
<1>8. Leaving(sid) = RoomsIn(task.todo) /\ RoomsIn(<<>>) = {}
  BY <1>0, <1>1 DEF Leaving, RoomsIn
<1>9. sid \in members[rid] /\ rid \in rooms
  BY <1>1, <1>8 DEF IInv, MembersAgree
<1>10. panicked' = panicked
  <2>1. CanSend(rid, members[rid] \ {sid})
    BY <1>0, <1>1, <1>9, SendToMembers
  <2>2. Expect(CanSend(rid, members[rid] \ {sid}), "leave")
    BY <1>2 DEF LeaveRoom
  <2> QED
    BY <2>1, <2>2, ExpectHolds
<1> HIDE DEF rid, rest
<1>11. MembersAgree'
  <2>1. \A u \in UserID \ {sid} : Leaving(u) = {} /\ Leaving(u)' = {}
    BY <1>0, <1>1, <1>3, <1>6 DEF Leaving
  <2>2. Leaving(sid)' = Leaving(sid) \ {rid}
    BY <1>1, <1>3, <1>5, <1>6, <1>8 DEF Leaving
  <2>3. \A u \in UserID, r \in RoomID :
            u \in members'[r] <=> u \in members[r] /\ ~ (u = sid /\ r = rid)
    BY <1>1, <1>7 DEF TypeOK
  <2>4. \A u \in UserID, r \in RoomID :
            u \in members'[r] <=> r \in RoomsIn(in_rooms'[u]) \cup Leaving(u)'
    <3> TAKE u \in UserID, r \in RoomID
    <3>1. CASE u # sid
      BY <1>2, <2>1, <2>3, <3>1 DEF IInv, MembersAgree
    <3>2. CASE u = sid
      BY <1>1, <1>2, <1>4, <1>8, <2>2, <2>3, <3>2 DEF IInv, MembersAgree
    <3> QED
      BY <3>1, <3>2
  <2>5. \A r \in RoomID : members'[r] # {} => r \in rooms'
    BY <1>2, <1>7 DEF IInv, MembersAgree, TypeOK
  <2> QED
    BY <2>4, <2>5 DEF MembersAgree
<1>12. HandlesOK'
  BY <1>2 DEF IInv, HandlesOK
<1>13. TaskInStep'
  BY <1>2, <1>3, <1>4, <1>5, <1>6 DEF IInv, TaskInStep
<1> QED
  BY <1>10, <1>11, <1>12, <1>13 DEF IInv, OnlyInitRoomsPanics

LEMMA InvExclusiveLeave == ASSUME TypeOK, IInv, ExclusiveLeave PROVE IInv'
<1> DEFINE sid  == task.sid
           rid  == First(task.todo)
           rest == [task EXCEPT !.todo = Rest(@)]
<1>1. /\ task.op = "exclusive" /\ sid \in UserID /\ task.todo \in Vector
      /\ rid \in RoomsIn(task.todo) /\ HasNext(task.todo) /\ IsTask(task)
  BY RunningType DEF ExclusiveLeave
<1>2. /\ UNCHANGED <<users, rooms>> /\ user_room_leave(sid, rid, <<>>) /\ task' = rest
  BY DEF ExclusiveLeave, userVars, roomVars
<1>3. /\ rest.op = "exclusive" /\ rest.sid = sid /\ rest.todo = Rest(task.todo)
      /\ rest.rid = task.rid
  BY <1>1 DEF IsTask
<1>4. /\ NoDuplicates(task.todo) /\ sid \in users
      /\ RoomsIn(task.todo) \subseteq RoomsIn(in_rooms[sid])
      /\ RoomsIn(in_rooms[sid]) \subseteq RoomsIn(task.todo) \cup {task.rid}
  BY <1>1 DEF IInv, TaskInStep
<1>5. NoDuplicates(rest.todo) /\ RoomsIn(rest.todo) = RoomsIn(task.todo) \ {rid}
  BY <1>1, <1>3, <1>4, RestOf
<1> HIDE DEF rid, rest
<1>6. /\ MembersAgree' /\ HandlesOK' /\ panicked' = panicked
      /\ RoomsIn(in_rooms'[sid]) = RoomsIn(in_rooms[sid]) \ {rid}
      /\ \A u \in UserID \ users' : in_rooms'[u] = <<>>
  BY <1>1, <1>2, <1>3, <1>4, LeaveStep
<1> HIDE DEF sid
<1>7. TaskInStep'
  BY <1>2, <1>3, <1>4, <1>5, <1>6 DEF TaskInStep
<1> QED
  BY <1>6, <1>7 DEF IInv, OnlyInitRoomsPanics

LEMMA InvExclusiveJoin == ASSUME TypeOK, IInv, ExclusiveJoin PROVE IInv'
<1> DEFINE sid  == task.sid
           join == Loop("room_join", sid, <<task.rid>>, task.rid)
<1>1. /\ UNCHANGED <<users, rooms, members, panicked>> /\ task.op = "exclusive"
      /\ ~ HasNext(task.todo) /\ task' = join
      /\ in_rooms' = [in_rooms EXCEPT ![sid] =
                          IF task.rid \in RoomsIn(in_rooms[sid]) THEN in_rooms[sid] ELSE <<>>]
  BY DEF ExclusiveJoin, userVars, roomVars, memberVars
<1>2. join.op = "room_join" /\ join.sid = sid /\ Pending(join) = {}
  BY IdleOrLoop
<1>3. RoomsIn(task.todo) = {}
  <2>1. task.todo \in Vector
    BY DEF TypeOK, IsTask
  <2> QED
    BY <1>1, <2>1, NoNext
<1>4. sid \in users /\ sid \in UserID /\ RoomsIn(in_rooms[sid]) \subseteq {task.rid}
  BY <1>1, <1>3 DEF IInv, TaskInStep, TypeOK
<1>5. /\ RoomsIn(<<>>) = {} /\ NoDuplicates(<<>>) /\ Trimmed(<<>>) /\ Len(<<>>) <= MaxRooms
  BY RoomHandlesAssumption DEF RoomsIn, NoDuplicates, Trimmed
<1> HIDE DEF join, sid
<1>6. /\ \A u \in UserID \ {sid} : in_rooms'[u] = in_rooms[u]
      /\ in_rooms'[sid] = in_rooms[sid] \/ in_rooms'[sid] = <<>>
      /\ RoomsIn(in_rooms'[sid]) = RoomsIn(in_rooms[sid])
  BY <1>1, <1>4, <1>5 DEF TypeOK
<1>7. MembersAgree'
  <2>1. \A u \in UserID : Leaving(u) = {} /\ Leaving(u)' = {}
    BY <1>1, <1>2 DEF Leaving
  <2>2. \A u \in UserID : RoomsIn(in_rooms'[u]) = RoomsIn(in_rooms[u])
    BY <1>6
  <2> QED
    BY <1>1, <2>1, <2>2 DEF IInv, MembersAgree
<1>8. HandlesOK'
  BY <1>5, <1>6 DEF IInv, HandlesOK
<1>9. TaskInStep'
  BY <1>1, <1>2, <1>4, <1>6 DEF IInv, TaskInStep
<1> QED
  BY <1>1, <1>7, <1>8, <1>9 DEF IInv, OnlyInitRoomsPanics

LEMMA InvJoinRefused == ASSUME TypeOK, IInv, JoinRefused PROVE IInv'
<1>1. /\ UNCHANGED <<users, in_rooms, members>> /\ task.op \notin {"idle", "disconnect"}
      /\ task' = NoTask /\ \A r \in rooms : r \in rooms'
  BY DEF JoinRefused, Running, ensure_room, userVars, memberVars
<1>2. panicked' \in {None, "init_rooms"}
  BY DEF JoinRefused, Expect, IInv, OnlyInitRoomsPanics
<1> QED
  BY <1>1, <1>2, IdleOrLoop, TaskStep

LEMMA InvJoinRoom == ASSUME TypeOK, IInv, JoinRoom PROVE IInv'
<1> DEFINE sid   == task.sid
           rid   == First(task.todo)
           mem   == members[rid] \cup {sid}
           array == AddRoom(in_rooms[sid], rid)
<1>1. /\ task.op \in {"user_joined", "room_join"} /\ sid \in UserID /\ rid \in RoomID
      /\ IsTask(task) /\ task # NoTask /\ Rest(task.todo) \in Vector
  BY RunningType DEF JoinRoom
<1>2. PICK d : /\ d.rid = rid /\ d.mid = msgid_counter
               /\ task' = Task(task.op, sid, Rest(task.todo), task.rid, Append(task.done, d))
  BY DEF JoinRoom
<1>3. /\ UNCHANGED users /\ ~ CannotJoin(sid, rid) /\ rooms' = rooms \cup {rid}
      /\ in_rooms' = [in_rooms EXCEPT ![sid] = array]
      /\ members' = [members EXCEPT ![rid] = mem]
      /\ Expect(mem \subseteq users, "join")
  BY DEF JoinRoom, ensure_room, SetMembers, userVars
<1>4. sid \in users
  BY <1>1 DEF IInv, TaskInStep
<1>5. /\ in_rooms[sid] \in Vector /\ NoDuplicates(in_rooms[sid])
      /\ Len(in_rooms[sid]) <= MaxRooms /\ Trimmed(in_rooms[sid])
  BY <1>1 DEF TypeOK, IInv, HandlesOK
<1>6. rid \notin RoomsIn(in_rooms[sid])
      /\ (FreeSlots(in_rooms[sid]) = {} => Len(in_rooms[sid]) < MaxRooms)
  BY <1>3, <1>5, VectorAsFunction, RoomHandlesAssumption DEF CannotJoin
<1>7. /\ RoomsIn(array) = RoomsIn(in_rooms[sid]) \cup {rid} /\ NoDuplicates(array)
      /\ Len(array) <= MaxRooms /\ Trimmed(array)
  BY <1>1, <1>5, <1>6, AddRoomOf
<1>8. panicked' = panicked
  <2>1. mem \subseteq users
    BY <1>1, <1>4, MemberIsUser
  <2> QED
    BY <1>3, <2>1, ExpectHolds
<1>9. /\ task'.op = task.op /\ task'.sid = sid
      /\ Pending(task') = Pending(task) \cup {d}
  <2>1. d.rid \in RoomID /\ d.mid \in Nat
    BY <1>1, <1>2, TalkerAssumption DEF TypeOK
  <2>2. Pending(task') = Pending(task) \cup {d}
    BY <1>1, <1>2, <2>1, DoneIsTask
  <2> QED
    BY <1>2, <2>2 DEF Task
<1> HIDE DEF array
<1>10. in_rooms'[sid] = array /\ \A u \in UserID \ {sid} : in_rooms'[u] = in_rooms[u]
  BY <1>1, <1>3 DEF TypeOK
<1>11. MembersAgree'
  <2>1. \A u \in UserID : Leaving(u) = {} /\ Leaving(u)' = {}
    BY <1>1, <1>9 DEF Leaving
  <2> HIDE DEF sid, rid
  <2>2. \A u \in UserID, r \in RoomID :
            u \in members'[r] <=> u \in members[r] \/ (u = sid /\ r = rid)
    BY <1>1, <1>3 DEF TypeOK
  <2>3. \A u \in UserID, r \in RoomID : u \in members[r] <=> r \in RoomsIn(in_rooms[u])
    BY <2>1 DEF IInv, MembersAgree
  <2>4. \A u \in UserID, r \in RoomID : u \in members'[r] <=> r \in RoomsIn(in_rooms'[u])
    <3> TAKE u \in UserID, r \in RoomID
    <3>1. CASE u # sid
      BY <1>10, <2>2, <2>3, <3>1
    <3>2. CASE u = sid
      BY <1>7, <1>10, <2>2, <2>3, <3>2
    <3> QED
      BY <3>1, <3>2
  <2>5. \A r \in RoomID : members'[r] # {} => r \in rooms'
    BY <1>3 DEF IInv, MembersAgree, TypeOK
  <2> QED
    BY <2>1, <2>4, <2>5 DEF MembersAgree
<1>12. HandlesOK'
  BY <1>7, <1>10 DEF IInv, HandlesOK
<1>13. TaskInStep'
  <2>1. \A e \in Pending(task') : e.rid \in RoomsIn(in_rooms'[task'.sid])
    <3>1. \A e \in Pending(task) : e.rid \in RoomsIn(in_rooms[sid])
      BY <1>1 DEF IInv, TaskInStep
    <3> QED
      BY <1>2, <1>7, <1>9, <1>10, <3>1
  <2>2. \A u \in UserID \ users' : in_rooms'[u] = <<>>
    BY <1>3, <1>4, <1>10 DEF IInv, TaskInStep
  <2> QED
    BY <1>1, <1>3, <1>4, <1>9, <2>1, <2>2 DEF TaskInStep
<1> QED
  BY <1>8, <1>11, <1>12, <1>13 DEF IInv, OnlyInitRoomsPanics

LEMMA InvSendRooms == ASSUME TypeOK, IInv, SendRooms PROVE IInv'
<1> DEFINE next == [task EXCEPT !.op = "complete"]
<1>1. /\ UNCHANGED <<users, in_rooms, members, rooms, panicked>> /\ task' \in {NoTask, next}
      /\ task.op \in {"user_joined", "room_join"}
  BY DEF SendRooms, userVars, memberVars, roomVars
<1>2. IsTask(task) /\ task # NoTask
  BY <1>1, IdleOrLoop DEF TypeOK
<1>3. Pending(next) = Pending(task) /\ next.op = "complete" /\ next.sid = task.sid
  BY <1>2, CompleteIsTask DEF IsTask
<1>4. /\ task.sid \in users /\ NoTask.op = "idle"
      /\ \A d \in Pending(task) : d.rid \in RoomsIn(in_rooms[task.sid])
  BY <1>1, IdleOrLoop DEF IInv, TaskInStep
<1> HIDE DEF next
<1> QED
  BY <1>1, <1>3, <1>4, TaskStep DEF IInv, OnlyInitRoomsPanics

LEMMA InvComplete == ASSUME TypeOK, IInv, user_room_join_unimmediate_complete PROVE IInv'
<1> DEFINE next == [task EXCEPT !.done = Tail(@)]
           d    == Head(task.done)
<1>1. /\ UNCHANGED <<users, in_rooms, members, rooms>> /\ task' \in {NoTask, next}
      /\ task.op = "complete" /\ task.done # <<>>
      /\ Expect(CanSend(d.rid, members[d.rid]), "complete")
  BY DEF user_room_join_unimmediate_complete, userVars, memberVars, roomVars
<1>2. IsTask(task) /\ task # NoTask
  BY <1>1, IdleOrLoop DEF TypeOK
<1>3. /\ Pending(next) \subseteq Pending(task) /\ d \in Pending(task)
      /\ next.op = "complete" /\ next.sid = task.sid
  BY <1>1, <1>2, TailIsTask DEF IsTask
<1>4. /\ task.sid \in users /\ task.sid \in UserID /\ NoTask.op = "idle"
      /\ \A e \in Pending(task) : e.rid \in RoomsIn(in_rooms[task.sid])
  BY <1>1, IdleOrLoop DEF IInv, TaskInStep, TypeOK
<1> HIDE DEF next, d
<1>5. panicked' = panicked
  <2>1. d.rid \in RoomID /\ d.rid \in rooms
    BY <1>3, <1>4, RoomsOfUser
  <2>2. CanSend(d.rid, members[d.rid])
    BY <1>1, <2>1, SendToMembers
  <2> QED
    BY <1>1, <2>2, ExpectHolds
<1> QED
  BY <1>1, <1>3, <1>4, <1>5, TaskStep DEF IInv, OnlyInitRoomsPanics

LEMMA InvChNickRoom == ASSUME TypeOK, IInv, ChNickRoom PROVE IInv'
<1> DEFINE rid  == First(task.todo)
           rest == [task EXCEPT !.todo = Rest(@)]
<1>1. /\ task.op = "ch_nick" /\ task.todo \in Vector /\ rid \in RoomsIn(task.todo)
      /\ HasNext(task.todo) /\ IsTask(task)
  BY RunningType DEF ChNickRoom
<1>2. /\ UNCHANGED <<users, in_rooms, members, rooms>> /\ task' \in {NoTask, rest}
      /\ Expect(CanSend(rid, members[rid]), "chnick")
  BY DEF ChNickRoom, EndOr, userVars, memberVars, roomVars
<1>3. /\ rest.op = "ch_nick" /\ rest.sid = task.sid /\ rest.todo = Rest(task.todo)
  BY <1>1 DEF IsTask
<1>4. /\ NoDuplicates(task.todo) /\ task.sid \in users /\ task.sid \in UserID
      /\ RoomsIn(task.todo) \subseteq RoomsIn(in_rooms[task.sid]) /\ NoTask.op = "idle"
  BY <1>1, IdleOrLoop DEF IInv, TaskInStep, TypeOK
<1>5. NoDuplicates(rest.todo) /\ RoomsIn(rest.todo) \subseteq RoomsIn(in_rooms[task.sid])
  BY <1>1, <1>3, <1>4, RestOf
<1> HIDE DEF rid, rest
<1>6. panicked' = panicked
  <2>1. rid \in RoomID /\ rid \in rooms
    BY <1>1, <1>4, RoomsOfUser
  <2>2. CanSend(rid, members[rid])
    BY <1>1, <2>1, SendToMembers
  <2> QED
    BY <1>2, <2>2, ExpectHolds
<1> QED
  BY <1>1, <1>2, <1>3, <1>4, <1>5, <1>6, TaskStep DEF IInv, OnlyInitRoomsPanics

LEMMA InvEverySecond == ASSUME TypeOK, IInv, EverySecond PROVE IInv'
<1> DEFINE told == \A r \in Stopped : CanSend(r, members[r])
<1>1. UNCHANGED <<users, in_rooms, members, task>> /\ task.op = "idle" /\ Expect(told, "typing")
  BY IdleOrLoop DEF EverySecond
<1>2. \A r \in Stopped : r \in RoomID /\ r \in rooms
  BY DEF Stopped, TypeOK
<1>3. told
  BY <1>1, <1>2, SendToMembers
<1> HIDE DEF told
<1>4. panicked' \in {None, "init_rooms"}
  BY <1>1, <1>3, ExpectHolds DEF IInv, OnlyInitRoomsPanics
<1>5. \A r \in RoomID : members[r] # {} => r \in rooms'
  BY DEF EverySecond, Unused, IInv, MembersAgree
<1> QED
  BY <1>1, <1>4, <1>5, QuietStep
------------------------------------------------------------------------------
LEMMA InvStep == TypeOK /\ IInv /\ [Next]_vars => IInv'
<1> SUFFICES ASSUME TypeOK, IInv, [Next]_vars PROVE IInv'
  OBVIOUS
<1>1. ASSUME NEW sid \in UserID, OnMessage(sid) PROVE IInv'
  <2>1. CASE OnConnect(sid)
    BY <2>1, InvConnect
  <2>2. CASE OnDisconnect(sid)
    BY <2>2, InvDisconnect
  <2>3. CASE \E prof \in Profile, list \in InitRooms : ReqUserJoined(sid, prof, list)
    BY <2>3, InvUserJoined
  <2>4. CASE UserRequest(sid)
    BY <2>4, InvChNick, InvRoomJoin DEF UserRequest
  <2>5. CASE \E h \in DOMAIN in_rooms[sid] : RoomRequest(sid, h)
    <3>1. PICK h : RoomRequest(sid, h)
      BY <2>5
    <3>2. CASE ReqRoomLeave(sid, h)
      BY <3>2, InvRoomLeave
    <3>3. CASE ~ ReqRoomLeave(sid, h)
      BY <3>1, <3>3, InvMemberRequests DEF RoomRequest
    <3> QED
      BY <3>2, <3>3
  <2> QED
    BY <1>1, <2>1, <2>2, <2>3, <2>4, <2>5 DEF OnMessage
<1>2. CASE Continue
  BY <1>2, InvDisconnectRoom, InvExclusiveLeave, InvExclusiveJoin, InvJoinRefused,
     InvJoinRoom, InvSendRooms, InvComplete, InvChNickRoom DEF Continue
<1>3. CASE EverySecond
  BY <1>3, InvEverySecond
<1>4. CASE UNCHANGED vars
  <2>1. /\ UNCHANGED <<users, in_rooms, members, task, rooms, panicked>>
    BY <1>4 DEF vars, userVars, roomVars, memberVars
  <2> QED
    BY <2>1, QuietStep DEF IInv, OnlyInitRoomsPanics, MembersAgree
<1> QED
  BY <1>1, <1>2, <1>3, <1>4 DEF Next

LEMMA Invariant == Spec => [](TypeOK /\ IInv)
<1>1. Init => TypeOK /\ IInv
  BY TypeInit, InvInit
<1>2. TypeOK /\ IInv /\ [Next]_vars => (TypeOK /\ IInv)'
  BY TypeStep, InvStep
<1> QED
  BY <1>1, <1>2, PTL DEF Spec

\* The users' vectors and the rooms' members name each other (the two maps of
\* talker.rs, kept in step by hand in every handler).
THEOREM MapsAgree == Spec => []MembersAgree
<1>1. IInv => MembersAgree
  BY DEF IInv
<1> QED
  BY <1>1, Invariant, PTL

\* However a client joins and leaves, its handles fit a RoomHandle, none names
\* a room twice, and the array sent to it does not end in a free handle.
THEOREM HandlesFit == Spec => []HandlesOK
<1>1. IInv => HandlesOK
  BY DEF IInv
<1> QED
  BY <1>1, Invariant, PTL

\* No expect or unwrap of a handler fails, but for the one in req_user_joined.
THEOREM ExpectsHold == Spec => []OnlyInitRoomsPanics
<1>1. IInv => OnlyInitRoomsPanics
  BY DEF IInv
<1> QED
  BY <1>1, Invariant, PTL
------------------------------------------------------------------------------
(* The countdown of the rooms nobody is in. *)

LEMMA LeaveRoomMembers ==
    ASSUME TypeOK, NEW rid \in RoomID, NEW sid, NEW after, LeaveRoom(sid, rid, after)
    PROVE  \A r \in RoomID : members'[r] \subseteq members[r]
<1>1. members' = [members EXCEPT ![rid] = members[rid] \ {sid}]
  BY DEF LeaveRoom, SetMembers
<1> QED
  BY <1>1 DEF TypeOK

\* Only a join and the timer touch the rooms and their countdown.
LEMMA OtherSteps ==
    ASSUME TypeOK, [Next]_vars, ~ EverySecond, ~ JoinRefused, ~ JoinRoom
    PROVE  UNCHANGED <<rooms, empty_timer>> /\ \A r \in RoomID : members'[r] \subseteq members[r]
<1> USE DEF roomVars, memberVars
<1>1. ASSUME NEW sid \in UserID, OnMessage(sid)
      PROVE  UNCHANGED <<rooms, empty_timer>>
             /\ \A r \in RoomID : members'[r] \subseteq members[r]
  <2>1. CASE OnConnect(sid) \/ OnDisconnect(sid)
             \/ \E prof \in Profile, list \in InitRooms : ReqUserJoined(sid, prof, list)
    BY <2>1 DEF OnConnect, OnDisconnect, ReqUserJoined
  <2>2. CASE UserRequest(sid)
    BY <2>2 DEF UserRequest, ReqUserChNick, ReqRoomJoin
  <2>3. ASSUME NEW h, RoomRequest(sid, h)
        PROVE  UNCHANGED <<rooms, empty_timer>>
               /\ \A r \in RoomID : members'[r] \subseteq members[r]
    <3>1. CASE ReqRoomLeave(sid, h)
      <4>1. in_rooms[sid][h] \in RoomID
        BY <3>1, HandleType DEF ReqRoomLeave
      <4>2. PICK after : LeaveRoom(sid, in_rooms[sid][h], after)
        BY <3>1 DEF ReqRoomLeave, user_room_leave
      <4> QED
        BY <3>1, <4>1, <4>2, LeaveRoomMembers DEF ReqRoomLeave
    <3>2. CASE ~ ReqRoomLeave(sid, h)
      BY <2>3, <3>2 DEF RoomRequest, ReqMessage, ReqMouse, ReqCustomR, ReqTyping,
         ReqMessageDM, ReqCustomU, MemberRequest
    <3> QED
      BY <3>1, <3>2
  <2> QED
    BY <1>1, <2>1, <2>2, <2>3 DEF OnMessage
<1>2. CASE DisconnectRoom \/ ExclusiveLeave
  <2>1. First(task.todo) \in RoomID
    BY <1>2, RunningType DEF DisconnectRoom, ExclusiveLeave
  <2>2. LeaveRoom(task.sid, First(task.todo), <<>>)
    BY <1>2 DEF DisconnectRoom, ExclusiveLeave, user_room_leave
  <2> QED
    BY <1>2, <2>1, <2>2, LeaveRoomMembers DEF DisconnectRoom, ExclusiveLeave
<1>3. CASE ExclusiveJoin \/ SendRooms \/ user_room_join_unimmediate_complete \/ ChNickRoom
  BY <1>3 DEF ExclusiveJoin, SendRooms, user_room_join_unimmediate_complete, ChNickRoom
<1>4. CASE UNCHANGED vars
  BY <1>4 DEF vars
<1> QED
  BY <1>1, <1>2, <1>3, <1>4 DEF Next, Continue

LEMMA CountdownStep == TypeOK /\ FullCountdown /\ [Next]_vars => FullCountdown'
<1> SUFFICES ASSUME TypeOK, FullCountdown, [Next]_vars PROVE FullCountdown'
  OBVIOUS
<1>1. CASE JoinRefused \/ JoinRoom
  <2>1. First(task.todo) \in RoomID
    BY <1>1, RunningType DEF JoinRefused, JoinRoom
  <2>2. ensure_room(First(task.todo))
    BY <1>1 DEF JoinRefused, JoinRoom
  <2>3. \A r \in RoomID \ {First(task.todo)} : members'[r] = members[r]
    BY <1>1, <2>1 DEF JoinRefused, JoinRoom, SetMembers, memberVars, TypeOK
  <2> QED
    BY <2>1, <2>2, <2>3 DEF ensure_room, FullCountdown, TypeOK
<1>2. CASE EverySecond
  <2>1. /\ members' = members /\ rooms' \subseteq rooms
        /\ \A r \in RoomID : r \notin Unused => empty_timer'[r] = empty_timer[r]
    BY <1>2 DEF EverySecond
  <2>2. \A r \in rooms : members[r] # {} => r \notin Unused
    BY DEF Unused
  <2> QED
    BY <2>1, <2>2 DEF FullCountdown, TypeOK
<1>3. CASE ~ EverySecond /\ ~ JoinRefused /\ ~ JoinRoom
  BY <1>3, OtherSteps DEF FullCountdown, TypeOK
<1> QED
  BY <1>1, <1>2, <1>3

\* A room's countdown never starts from what an earlier one left of it.
THEOREM CountdownIsFull == Spec => []FullCountdown
<1>1. Init => FullCountdown
  BY DEF Init, FullCountdown
<1> QED
  BY <1>1, TypeCorrect, CountdownStep, PTL DEF Spec

\* No request, in whatever order the requests come, drops a room: the timer
\* does, and only a room nobody is in.
THEOREM OnlyEmptyDropped == Spec => DroppedOnlyEmpty
<1>1. TypeOK /\ [Next]_vars => [Drops]_vars
  <2> SUFFICES ASSUME TypeOK, [Next]_vars PROVE Drops
    OBVIOUS
  <2>1. CASE JoinRefused \/ JoinRoom
    BY <2>1 DEF JoinRefused, JoinRoom, ensure_room, Drops
  <2>2. CASE EverySecond
    BY <2>2 DEF EverySecond, Unused, Drops, CountedDown
  <2>3. CASE ~ EverySecond /\ ~ JoinRefused /\ ~ JoinRoom
    BY <2>3, OtherSteps DEF Drops
  <2> QED
    BY <2>1, <2>2, <2>3
<1> QED
  BY <1>1, TypeCorrect, PTL DEF Spec, DroppedOnlyEmpty
------------------------------------------------------------------------------
(* What is saved. *)

Saved(r) == \E msg : messages'[r] = PushHistory(messages[r], msg)

LEMMA OneSaved ==
    ASSUME TypeOK, NEW rid \in RoomID, NEW msg,
           messages' = [messages EXCEPT ![rid] = PushHistory(@, msg)]
    PROVE  \A r \in RoomID : messages'[r] = messages[r] \/ Saved(r)
<1>1. \A r \in RoomID : messages'[r] = IF r = rid THEN PushHistory(messages[rid], msg)
                                                   ELSE messages[r]
  BY DEF TypeOK
<1> QED
  BY <1>1 DEF Saved

\* A step leaves the history of a room alone, adds a message, or forgets all.
LEMMA HistoryStep ==
    ASSUME TypeOK, [Next]_vars, NEW r \in RoomID
    PROVE  messages'[r] = messages[r] \/ messages'[r] = <<>> \/ Saved(r)
<1>1. ASSUME NEW sid \in UserID, OnMessage(sid) PROVE messages'[r] = messages[r] \/ Saved(r)
  <2>1. CASE OnConnect(sid) \/ OnDisconnect(sid)
             \/ \E prof \in Profile, list \in InitRooms : ReqUserJoined(sid, prof, list)
    BY <2>1 DEF OnConnect, OnDisconnect, ReqUserJoined
  <2>2. CASE UserRequest(sid)
    BY <2>2 DEF UserRequest, ReqUserChNick, ReqRoomJoin
  <2>3. ASSUME NEW h, RoomRequest(sid, h) PROVE messages'[r] = messages[r] \/ Saved(r)
    <3> DEFINE rid == in_rooms[sid][h]
    <3>1. CASE ReqRoomLeave(sid, h)
      <4>1. rid \in RoomID
        BY <3>1, HandleType DEF ReqRoomLeave
      <4>2. PICK msg : messages' = [messages EXCEPT ![rid] = PushHistory(@, msg)]
        BY <3>1 DEF ReqRoomLeave, user_room_leave, LeaveRoom
      <4> QED
        BY <4>1, <4>2, OneSaved
    <3>2. CASE ReqMessage(sid, h)
      <4>1. rid \in RoomID
        BY <3>2, HandleType DEF ReqMessage, MemberRequest
      <4>2. PICK msg : messages' = [messages EXCEPT ![rid] = PushHistory(@, msg)]
        BY <3>2 DEF ReqMessage
      <4> QED
        BY <4>1, <4>2, OneSaved
    <3>3. ASSUME NEW target, ReqMessageDM(sid, h, target)
          PROVE  messages'[r] = messages[r] \/ Saved(r)
      <4>1. rid \in RoomID
        BY <3>3, HandleType DEF ReqMessageDM, MemberRequest
      <4>2. \/ messages' = messages
            \/ \E msg : messages' = [messages EXCEPT ![rid] = PushHistory(@, msg)]
        BY <3>3 DEF ReqMessageDM
      <4> QED
        BY <4>1, <4>2, OneSaved
    <3>4. CASE \/ ReqMouse(sid, h) \/ ReqCustomR(sid, h)
               \/ \E is_typing \in BOOLEAN : ReqTyping(sid, h, is_typing)
               \/ \E target \in UserID : ReqCustomU(sid, h, target)
      BY <3>4 DEF ReqMouse, ReqCustomR, ReqTyping, ReqCustomU
    <3> QED
      BY <2>3, <3>1, <3>2, <3>3, <3>4 DEF RoomRequest
  <2> QED
    BY <1>1, <2>1, <2>2, <2>3 DEF OnMessage
<1>2. CASE DisconnectRoom \/ ExclusiveLeave \/ ChNickRoom
  <2>1. First(task.todo) \in RoomID
    BY <1>2, RunningType DEF DisconnectRoom, ExclusiveLeave, ChNickRoom
  <2>2. PICK msg : messages' = [messages EXCEPT ![First(task.todo)] = PushHistory(@, msg)]
    BY <1>2 DEF DisconnectRoom, ExclusiveLeave, user_room_leave, LeaveRoom, ChNickRoom
  <2> QED
    BY <2>1, <2>2, OneSaved
<1>3. CASE user_room_join_unimmediate_complete
  <2> DEFINE d == Head(task.done)
  <2>1. task.op = "complete" /\ task.done # <<>>
    BY <1>3 DEF user_room_join_unimmediate_complete
  <2>2. IsTask(task) /\ task # NoTask
    BY <2>1, IdleOrLoop DEF TypeOK
  <2>3. d \in Pending(task)
    BY <2>1, <2>2, TailIsTask
  <2>4. d.rid \in RoomID
    BY <2>2, <2>3 DEF IsTask
  <2>5. PICK msg : messages' = [messages EXCEPT ![d.rid] = PushHistory(@, msg)]
    BY <1>3 DEF user_room_join_unimmediate_complete
  <2> QED
    BY <2>4, <2>5, OneSaved
<1>4. CASE ExclusiveJoin \/ JoinRefused \/ JoinRoom \/ SendRooms
  BY <1>4 DEF ExclusiveJoin, JoinRefused, JoinRoom, SendRooms
<1>5. CASE EverySecond
  <2>1. messages' = [q \in RoomID |->
                       IF q \in {p \in Unused : saturating_sub1(empty_timer[p]) = 0}
                       THEN <<>> ELSE messages[q]]
    BY <1>5 DEF EverySecond
  <2> QED
    BY <2>1
<1>6. CASE UNCHANGED vars
  BY <1>6 DEF vars
<1> QED
  BY <1>1, <1>2, <1>3, <1>4, <1>5, <1>6 DEF Next, Continue

LEMMA PushBounded ==
    ASSUME NEW hist \in Seq(Message), NEW msg, Len(hist) <= HistoryMax \/ Len(hist) = 1
    PROVE  LET new == PushHistory(hist, msg) IN Len(new) <= HistoryMax \/ Len(new) = 1
<1> DEFINE kept == IF Len(hist) >= HistoryMax /\ hist # <<>> THEN Tail(hist) ELSE hist
<1>1. Len(hist) \in Nat /\ (hist # <<>> => Len(hist) # 0) /\ (hist = <<>> => Len(hist) = 0)
  OBVIOUS
<1>2. hist # <<>> => Tail(hist) \in Seq(Message) /\ Len(Tail(hist)) = Len(hist) - 1
  OBVIOUS
<1>3. kept \in Seq(Message) /\ (Len(kept) + 1 <= HistoryMax \/ Len(kept) = 0)
  BY <1>1, <1>2, TalkerAssumption
<1>4. Len(Append(kept, msg)) = Len(kept) + 1 /\ Len(kept) \in Nat
  BY <1>3
<1>5. PushHistory(hist, msg) = Append(kept, msg)
  BY DEF PushHistory
<1> HIDE DEF kept
<1> QED
  BY <1>3, <1>4, <1>5

\* push_history pops before it pushes: however long a room lives and whatever is
\* said in it, its history holds history_max messages, or one if that is 0.
THEOREM HistoryStaysBounded == Spec => []HistoryBounded
<1>1. Init => HistoryBounded
  <2>1. Len(<<>>) = 0
    OBVIOUS
  <2> QED
    BY <2>1, TalkerAssumption DEF Init, HistoryBounded
<1>2. TypeOK /\ HistoryBounded /\ [Next]_vars => HistoryBounded'
  <2> SUFFICES ASSUME TypeOK, HistoryBounded, [Next]_vars, NEW r \in RoomID
               PROVE  Len(messages'[r]) <= HistoryMax \/ Len(messages'[r]) = 1
    BY DEF HistoryBounded
  <2>1. messages[r] \in Seq(Message) /\ (Len(messages[r]) <= HistoryMax \/ Len(messages[r]) = 1)
    BY DEF TypeOK, HistoryBounded
  <2>2. Saved(r) => Len(messages'[r]) <= HistoryMax \/ Len(messages'[r]) = 1
    BY <2>1, PushBounded DEF Saved
  <2>3. Len(<<>>) <= HistoryMax
    BY TalkerAssumption
  <2> QED
    BY <2>1, <2>2, <2>3, HistoryStep
<1> QED
  BY <1>1, <1>2, TypeCorrect, PTL DEF Spec

(***************************************************************************)
(* The talker implements ChatRooms: the first steps of the loops, the last *)
(* ones or those in between, depending on the handler, are steps of        *)
(* ChatRooms, and the others change nothing it can see.                    *)
(***************************************************************************)

\* What the mapping needs beyond IInv: a room is not left for itself, and a join
\* of one room has entered nothing before its one iteration.
Loops ==
    /\ task.op = "exclusive" => task.rid \notin RoomsIn(task.todo)
    /\ task.op = "room_join" => DOMAIN task.todo = {1}
    /\ task.op = "room_join" /\ HasNext(task.todo) => Pending(task) = {}
------------------------------------------------------------------------------
(* The history of a room. *)

LEMMA PushContinues ==
    ASSUME NEW hist \in Seq(Message), NEW msg \in Message
    PROVE  /\ Chat!Continues(hist, PushHistory(hist, msg))
           /\ PushHistory(hist, msg)[Len(PushHistory(hist, msg))] = msg
<1> DEFINE new == PushHistory(hist, msg)
<1>1. Len(hist) \in Nat
  BY LenProperties
<1>2. \E k \in 0 .. Len(hist) : new = Append(SubSeq(hist, k + 1, Len(hist)), msg)
  <2>1. CASE Len(hist) >= HistoryMax /\ hist # <<>>
    <3>1. Len(hist) # 0
      BY <2>1, EmptySeq
    <3>2. Tail(hist) = SubSeq(hist, 2, Len(hist))
      BY <2>1, TailIsSubSeq
    <3>3. new = Append(Tail(hist), msg)
      BY <2>1 DEF PushHistory
    <3>4. new = Append(SubSeq(hist, 1 + 1, Len(hist)), msg)
      BY <3>2, <3>3
    <3> QED
      BY <1>1, <3>1, <3>4
  <2>2. CASE ~ (Len(hist) >= HistoryMax /\ hist # <<>>)
    <3>1. new = Append(SubSeq(hist, 0 + 1, Len(hist)), msg)
      BY <2>2, SubSeqFull DEF PushHistory
    <3> QED
      BY <1>1, <3>1
  <2> QED
    BY <2>1, <2>2
<1> HIDE DEF new
<1>3. PICK k \in 0 .. Len(hist) : new = Append(SubSeq(hist, k + 1, Len(hist)), msg)
  BY <1>2
<1>4. SubSeq(hist, k + 1, Len(hist)) \in Seq(Message)
  <2>1. \A i \in k + 1 .. Len(hist) : hist[i] \in Message
    BY <1>1, ElementOfSeq
  <2>2. k + 1 \in Int /\ Len(hist) \in Int
    BY <1>1
  <2> QED
    BY <2>1, <2>2, SubSeqProperties
<1>5. new # <<>> /\ new[Len(new)] = msg
  <2> DEFINE sub == SubSeq(hist, k + 1, Len(hist))
  <2>1. sub \in Seq(Message) /\ new = Append(sub, msg)
    BY <1>3, <1>4
  <2> HIDE DEF sub
  <2>2. new # <<>> /\ Len(new) = Len(sub) + 1 /\ new[Len(sub) + 1] = msg
    BY <2>1, AppendProperties
  <2> QED
    BY <2>2
<1> QED
  BY <1>1, <1>3, <1>5 DEF Chat!Continues, new
------------------------------------------------------------------------------
(* What ChatRooms sees of a step. *)

\* A failed expect, whatever it was about.
LEMMA Fallen == ASSUME Up, ~ Up' PROVE Chat!Next
  BY DEF Chat!Next, Chat!Fall, Up

LEMMA NothingSeen ==
    ASSUME UNCHANGED <<panicked, users, rooms, messages>>,
           \A u \in UserID : Inside(u)' = Inside(u)
    PROVE  UNCHANGED Chat!vars
<1>1. Up' = Up
  BY DEF Up
<1>2. [u \in UserID |-> IF Up THEN Inside(u) ELSE {}]' = [u \in UserID |-> IF Up THEN Inside(u) ELSE {}]
  BY <1>1
<1>3. [r \in RoomID |-> IF Up THEN messages[r] ELSE <<>>]' = [r \in RoomID |-> IF Up THEN messages[r] ELSE <<>>]
  BY <1>1
<1> QED
  BY <1>1, <1>2, <1>3 DEF Chat!vars

\* While the talker runs, the mapped state is its own.
LEMMA UpState ==
    ASSUME TypeOK, Up
    PROVE  /\ (IF Up THEN users ELSE {}) = users /\ (IF Up THEN rooms ELSE {}) = rooms
           /\ [u \in UserID |-> IF Up THEN Inside(u) ELSE {}] = [u \in UserID |-> Inside(u)]
           /\ [r \in RoomID |-> IF Up THEN messages[r] ELSE <<>>] = messages
  BY DEF TypeOK

LEMMA Saying ==
    ASSUME TypeOK, Up, TypeOK', Up', NEW rid \in rooms, NEW msg \in Message,
           messages' = [messages EXCEPT ![rid] = PushHistory(@, msg)]
    PROVE  Chat!Said(rid) /\ Chat!LastSaid(rid) = msg
<1> DEFINE H == [r \in RoomID |-> IF Up THEN messages[r] ELSE <<>>]
<1>1. rid \in RoomID /\ messages[rid] \in Seq(Message)
  BY DEF TypeOK
<1>2. H = messages /\ H' = messages'
  BY UpState DEF TypeOK
<1>3. messages'[rid] = PushHistory(messages[rid], msg)
  BY <1>1 DEF TypeOK
<1>4. Chat!Continues(messages[rid], messages'[rid]) /\ messages'[rid][Len(messages'[rid])] = msg
  BY <1>1, <1>3, PushContinues
<1>5. messages' = [messages EXCEPT ![rid] = messages'[rid]]
  BY <1>3
<1>6. (IF Up THEN rooms ELSE {}) = rooms
  OBVIOUS
<1> QED
  BY <1>2, <1>4, <1>5, <1>6 DEF Chat!Said, Chat!LastSaid

LEMMA UpStep ==
    ASSUME TypeOK, Up, TypeOK', Up'
    PROVE  /\ Up' = Up
           /\ (IF Up THEN users ELSE {})' = users' /\ (IF Up THEN rooms ELSE {})' = rooms'
           /\ [u \in UserID |-> IF Up THEN Inside(u) ELSE {}]' = [u \in UserID |-> Inside(u)']
           /\ [r \in RoomID |-> IF Up THEN messages[r] ELSE <<>>]' = messages'
  BY DEF TypeOK

\* A system message is sent to a room, and nobody is in other rooms than before.
LEMMA AnnounceStep ==
    ASSUME TypeOK, Up, TypeOK', Up', NEW rid \in rooms, NEW msg \in Message,
           msg.sid = SYSTEM, msg.sent_to = None,
           messages' = [messages EXCEPT ![rid] = PushHistory(@, msg)],
           UNCHANGED <<users, rooms>>, \A u \in UserID : Inside(u)' = Inside(u)
    PROVE  Chat!Next
<1>1. Chat!Announced(rid)
  BY Saying DEF Chat!Announced
<1>2. UNCHANGED [u \in UserID |-> IF Up THEN Inside(u) ELSE {}]
  BY UpState, UpStep
<1>3. Chat!Announce(rid)
  BY <1>1, <1>2, UpState, UpStep DEF Chat!Announce
<1> QED
  BY <1>3 DEF Chat!Next, TypeOK

LEMMA OpenStep ==
    ASSUME TypeOK, Up, TypeOK', Up', NEW rid \in RoomID, rooms' = rooms \cup {rid},
           UNCHANGED <<users, messages>>, \A u \in UserID : Inside(u)' = Inside(u)
    PROVE  [Chat!Next]_Chat!vars
<1>1. CASE rid \in rooms
  <2>1. UNCHANGED <<panicked, rooms>>
    BY <1>1 DEF Up
  <2> QED
    BY <2>1, NothingSeen
<1>2. CASE rid \notin rooms
  <2>1. UNCHANGED [u \in UserID |-> IF Up THEN Inside(u) ELSE {}]
    BY UpState, UpStep
  <2>2. Chat!Open(rid)
    BY <1>2, <2>1, UpState, UpStep DEF Chat!Open
  <2> QED
    BY <2>2 DEF Chat!Next
<1> QED
  BY <1>1, <1>2
------------------------------------------------------------------------------
(* The requests. *)

LEMMA ConnectStep ==
    ASSUME TypeOK, Up, TypeOK', Up', NEW sid \in UserID, OnConnect(sid)
    PROVE  Chat!Next
<1>1. /\ UNCHANGED <<in_rooms, task, rooms, messages>> /\ users' = users \cup {sid}
      /\ sid \notin users
  BY DEF OnConnect, roomVars, TypeOK
<1>2. \A u \in UserID : Inside(u)' = Inside(u)
  BY <1>1 DEF Inside, Entering, Pending
<1>3. UNCHANGED [u \in UserID |-> IF Up THEN Inside(u) ELSE {}]
  BY <1>2, UpState, UpStep
<1>4. Chat!Connect(sid)
  BY <1>1, <1>3, UpState, UpStep DEF Chat!Connect
<1> QED
  BY <1>4 DEF Chat!Next

LEMMA DisconnectStep ==
    ASSUME TypeOK, Up, TypeOK', Up', NEW sid \in UserID, OnDisconnect(sid)
    PROVE  Chat!Next
<1> DEFINE loop == Loop("disconnect", sid, in_rooms[sid], None)
<1>1. /\ UNCHANGED <<rooms, messages>> /\ users' = users \ {sid} /\ sid \in users
      /\ task = NoTask /\ task' \in {NoTask, loop}
      /\ in_rooms' = [in_rooms EXCEPT ![sid] = <<>>]
  BY DEF OnDisconnect, Ready, EndOr, roomVars
<1>2. NoTask.op = "idle" /\ loop.op = "disconnect"
  BY IdleOrLoop
<1> HIDE DEF loop
<1>3. RoomsIn(<<>>) = {}
  BY DEF RoomsIn
<1>4. /\ in_rooms'[sid] = <<>> /\ \A u \in UserID \ {sid} : in_rooms'[u] = in_rooms[u]
  BY <1>1 DEF TypeOK
<1>5. \A u \in UserID : /\ Inside(u) = RoomsIn(in_rooms[u])
                        /\ Inside(u)' = RoomsIn(in_rooms'[u])
  BY <1>1, <1>2 DEF Inside
<1>6. \A u \in UserID : Inside(u)' = IF u = sid THEN {} ELSE Inside(u)
  BY <1>3, <1>4, <1>5
<1>7. [u \in UserID |-> IF Up THEN Inside(u) ELSE {}]'
          = [[u \in UserID |-> IF Up THEN Inside(u) ELSE {}] EXCEPT ![sid] = {}]
  BY <1>6, UpState, UpStep
<1>8. Chat!Disconnect(sid)
  BY <1>1, <1>7, UpState, UpStep DEF Chat!Disconnect
<1> QED
  BY <1>8 DEF Chat!Next

\* A loop that begins has entered nothing.
LEMMA BeginStep ==
    ASSUME TypeOK, UNCHANGED <<panicked, users, rooms, messages, in_rooms>>, task = NoTask,
           task'.op # "exclusive", Pending(task') = {}
    PROVE  UNCHANGED Chat!vars
<1>1. NoTask.op = "idle"
  BY IdleOrLoop
<1>2. \A u \in UserID : /\ Inside(u) = RoomsIn(in_rooms[u])
                        /\ Inside(u)' = RoomsIn(in_rooms[u])
  BY <1>1 DEF Inside, Entering
<1> QED
  BY <1>2, NothingSeen

LEMMA UserJoinedStep ==
    ASSUME TypeOK, NEW sid \in UserID, NEW prof, NEW list, ReqUserJoined(sid, prof, list)
    PROVE  UNCHANGED Chat!vars
<1> DEFINE loop == Loop("user_joined", sid, Dedup(list), None)
<1>1. /\ UNCHANGED <<panicked, users, rooms, messages, in_rooms>>
      /\ task = NoTask /\ task' \in {NoTask, loop}
  BY DEF ReqUserJoined, Ready, roomVars
<1>2. /\ NoTask.op = "idle" /\ Pending(NoTask) = {}
      /\ loop.op = "user_joined" /\ Pending(loop) = {}
  BY IdleOrLoop DEF NoTask, Task, Pending
<1> HIDE DEF loop
<1>3. task'.op # "exclusive" /\ Pending(task') = {}
  BY <1>1, <1>2
<1> QED
  BY <1>1, <1>3, BeginStep

LEMMA ChNickStep ==
    ASSUME TypeOK, NEW sid \in UserID, NEW prof, ReqUserChNick(sid, prof)
    PROVE  UNCHANGED Chat!vars
<1> DEFINE loop == Loop("ch_nick", sid, in_rooms[sid], None)
<1>1. /\ UNCHANGED <<panicked, users, rooms, messages, in_rooms>>
      /\ task = NoTask /\ task' \in {NoTask, loop}
  BY DEF ReqUserChNick, Ready, EndOr, roomVars
<1>2. /\ NoTask.op = "idle" /\ Pending(NoTask) = {} /\ loop.op = "ch_nick" /\ Pending(loop) = {}
  BY IdleOrLoop DEF NoTask, Task, Pending
<1> HIDE DEF loop
<1>3. task'.op # "exclusive" /\ Pending(task') = {}
  BY <1>1, <1>2
<1> QED
  BY <1>1, <1>3, BeginStep

LEMMA RoomJoinStep ==
    ASSUME TypeOK, Up, TypeOK', Up', NEW sid \in UserID, NEW rid \in RoomID, NEW exclusive,
           ReqRoomJoin(sid, rid, exclusive)
    PROVE  [Chat!Next]_Chat!vars
<1> DEFINE first == Loop("exclusive", sid, Vacate(in_rooms[sid], rid), rid)
           join  == Loop("room_join", sid, <<rid>>, rid)
<1>1. /\ UNCHANGED <<panicked, users, rooms, messages, in_rooms>> /\ sid \in users
      /\ task = NoTask /\ task' \in {first, join}
  BY DEF ReqRoomJoin, Ready, roomVars
<1>2. /\ NoTask.op = "idle" /\ join.op = "room_join" /\ Pending(join) = {}
      /\ first.op = "exclusive" /\ first.sid = sid /\ first.rid = rid
  BY IdleOrLoop
<1> HIDE DEF first, join
<1>3. CASE task' = join
  <2>1. task'.op # "exclusive" /\ Pending(task') = {}
    BY <1>2, <1>3
  <2> QED
    BY <1>1, <2>1, BeginStep
<1>4. CASE task' = first
  <2>1. \A u \in UserID : /\ Inside(u) = RoomsIn(in_rooms[u])
                          /\ Inside(u)' = IF u = sid THEN RoomsIn(in_rooms[u]) \cap {rid}
                                                     ELSE RoomsIn(in_rooms[u])
    BY <1>1, <1>2, <1>4 DEF Inside
  <2>2. [u \in UserID |-> IF Up THEN Inside(u) ELSE {}]'
            = [[u \in UserID |-> IF Up THEN Inside(u) ELSE {}] EXCEPT ![sid] = @ \cap {rid}]
    BY <2>1, UpState, UpStep
  <2>3. Chat!LeaveOthers(sid, rid)
    BY <1>1, <2>2, UpState, UpStep DEF Chat!LeaveOthers
  <2> QED
    BY <2>3 DEF Chat!Next
<1> QED
  BY <1>1, <1>3, <1>4

\* What LeaveRoom saves.
LEMMA LeaveMessage ==
    ASSUME TypeOK, NEW sid, NEW rid, NEW after, LeaveRoom(sid, rid, after)
    PROVE  \E msg \in Message : /\ msg.sid = SYSTEM /\ msg.sent_to = None
                                /\ messages' = [messages EXCEPT ![rid] = PushHistory(@, msg)]
<1> DEFINE msg == TextMessage(msgid_counter, "user_left", SYSTEM, None)
<1>1. messages' = [messages EXCEPT ![rid] = PushHistory(@, msg)]
  BY DEF LeaveRoom
<1>2. msgid_counter \in Nat
  BY TalkerAssumption DEF TypeOK
<1>3. msg \in Message /\ msg.sid = SYSTEM /\ msg.sent_to = None
  BY <1>2 DEF TextMessage, Message, Content
<1> HIDE DEF msg
<1> QED
  BY <1>1, <1>3

LEMMA RoomLeaveStep ==
    ASSUME TypeOK, IInv, Up, TypeOK', Up', NEW sid \in UserID, NEW h, ReqRoomLeave(sid, h)
    PROVE  Chat!Next
<1>1. PICK rid, after : /\ UNCHANGED <<users, rooms, task>> /\ task.op = "idle"
                        /\ rid \in RoomsIn(in_rooms[sid]) /\ user_room_leave(sid, rid, after)
  BY HandleType, IdleOrLoop DEF ReqRoomLeave, Ready, roomVars
<1>2. PICK msg \in Message : /\ msg.sid = SYSTEM /\ msg.sent_to = None
                             /\ messages' = [messages EXCEPT ![rid] = PushHistory(@, msg)]
  BY <1>1, LeaveMessage DEF user_room_leave
<1>4. /\ RoomsIn(in_rooms'[sid]) = RoomsIn(in_rooms[sid]) \ {rid}
      /\ \A u \in UserID \ {sid} : in_rooms'[u] = in_rooms[u]
  BY <1>1, LeaveStep
<1>5. rid \in rooms /\ sid \in users /\ rid \in RoomID
  BY <1>1, RoomsOfUser
<1>6. \A u \in UserID : /\ Inside(u) = RoomsIn(in_rooms[u])
                        /\ Inside(u)' = IF u = sid THEN RoomsIn(in_rooms[u]) \ {rid}
                                                   ELSE RoomsIn(in_rooms[u])
  BY <1>1, <1>4 DEF Inside
<1>7. [u \in UserID |-> IF Up THEN Inside(u) ELSE {}]'
          = [[u \in UserID |-> IF Up THEN Inside(u) ELSE {}] EXCEPT ![sid] = @ \ {rid}]
  BY <1>6, UpState, UpStep
<1>8. Chat!Announced(rid)
  <2>1. Chat!Said(rid) /\ Chat!LastSaid(rid) = msg
    BY <1>2, <1>5, Saying
  <2> QED
    BY <1>2, <2>1 DEF Chat!Announced
<1>9. rid \in Inside(sid)
  BY <1>1, <1>6
<1>10. Chat!Leave(sid, rid)
  BY <1>1, <1>5, <1>7, <1>8, <1>9, UpState, UpStep DEF Chat!Leave
<1> QED
  BY <1>5, <1>10 DEF Chat!Next, Up
------------------------------------------------------------------------------
LEMMA SameInside ==
    ASSUME UNCHANGED <<in_rooms, task>> PROVE \A u \in UserID : Inside(u)' = Inside(u)
  BY DEF Inside, Entering, Pending

LEMMA IdleInside ==
    ASSUME task.op \in {"idle", "disconnect", "complete", "ch_nick"}
    PROVE  \A u \in UserID : Inside(u) = RoomsIn(in_rooms[u])
  BY DEF Inside

\* A member says something in a room, to all of it or to another member.
LEMMA SayStep ==
    ASSUME TypeOK, Up, TypeOK', Up', NEW sid \in UserID, NEW rid \in RoomID, NEW msg \in Message,
           sid \in users, rid \in rooms, msg.sid = sid, rid \in Inside(sid),
           msg.sent_to \in UserID => rid \in Inside(msg.sent_to),
           messages' = [messages EXCEPT ![rid] = PushHistory(@, msg)],
           UNCHANGED <<users, rooms>>, \A u \in UserID : Inside(u)' = Inside(u)
    PROVE  Chat!Next
<1>1. Chat!Said(rid) /\ Chat!LastSaid(rid) = msg
  BY Saying
<1>2. UNCHANGED [u \in UserID |-> IF Up THEN Inside(u) ELSE {}]
  BY UpState, UpStep
<1>3. Chat!Say(sid, rid)
  BY <1>1, <1>2, UpState, UpStep DEF Chat!Say
<1> QED
  BY <1>3 DEF Chat!Next, Up

LEMMA MemberStepMaps ==
    ASSUME TypeOK, IInv, Up, TypeOK', Up', NEW sid \in UserID, NEW h,
           \/ ReqMessage(sid, h) \/ ReqMouse(sid, h) \/ ReqCustomR(sid, h)
           \/ \E is_typing \in BOOLEAN : ReqTyping(sid, h, is_typing)
           \/ \E target \in UserID : ReqMessageDM(sid, h, target) \/ ReqCustomU(sid, h, target)
    PROVE  [Chat!Next]_Chat!vars
<1>0. PICK rid : rid = in_rooms[sid][h]
  OBVIOUS
<1>1. PICK op : MemberRequest(op, sid, h)
  BY DEF ReqMessage, ReqMouse, ReqCustomR, ReqTyping, ReqMessageDM, ReqCustomU
<1>2. UNCHANGED <<users, in_rooms, rooms, task>> /\ task.op = "idle"
  BY <1>1, IdleOrLoop DEF MemberRequest, Ready, roomVars
<1>3. /\ rid \in RoomID /\ rid \in RoomsIn(in_rooms[sid]) /\ sid \in users /\ rid \in rooms
  BY <1>0, <1>1, HandleType, RoomsOfUser DEF MemberRequest
<1>4. /\ \A u \in UserID : Inside(u)' = Inside(u)
      /\ \A u \in UserID : Inside(u) = RoomsIn(in_rooms[u])
  BY <1>2, SameInside, IdleInside
<1>5. msgid_counter \in Nat
  BY TalkerAssumption DEF TypeOK
<1>6. CASE ReqMessage(sid, h)
  <2>0. PICK msg : msg = TextMessage(msgid_counter, "message", sid, None)
    OBVIOUS
  <2>1. messages' = [messages EXCEPT ![rid] = PushHistory(@, msg)]
    BY <1>0, <1>6, <2>0 DEF ReqMessage
  <2>2. msg \in Message
    BY <1>5, <2>0, SystemMessage DEF Content
  <2>3. msg.sid = sid /\ msg.sent_to = None
    BY <2>0 DEF TextMessage
  <2>4. rid \in Inside(sid) /\ (msg.sent_to \in UserID => rid \in Inside(msg.sent_to))
    BY <1>3, <1>4, <2>3, TalkerAssumption
  <2>5. Chat!Next
    BY <1>2, <1>3, <1>4, <2>1, <2>2, <2>3, <2>4, SayStep
  <2> QED
    BY <2>5
<1>7. ASSUME NEW target \in UserID, ReqMessageDM(sid, h, target) PROVE [Chat!Next]_Chat!vars
  <2>0. PICK msg : msg = TextMessage(msgid_counter, "message", sid, target)
    OBVIOUS
  <2>1. CASE target \in users /\ rid \in RoomsIn(in_rooms[target])
    <3>1. messages' = [messages EXCEPT ![rid] = PushHistory(@, msg)]
      BY <1>0, <1>7, <2>0, <2>1 DEF ReqMessageDM
    <3>2. msg \in Message
      BY <1>5, <2>0, SystemMessage DEF Content
    <3>3. msg.sid = sid /\ msg.sent_to = target
      BY <2>0 DEF TextMessage
    <3>4. rid \in Inside(sid) /\ (msg.sent_to \in UserID => rid \in Inside(msg.sent_to))
      BY <1>3, <1>4, <2>1, <3>3
    <3>5. Chat!Next
      BY <1>2, <1>3, <1>4, <3>1, <3>2, <3>3, <3>4, SayStep
    <3> QED
      BY <3>5
  <2>2. CASE ~ (target \in users /\ rid \in RoomsIn(in_rooms[target]))
    <3>1. UNCHANGED messages
      BY <1>0, <1>7, <2>2 DEF ReqMessageDM
    <3> QED
      BY <1>2, <1>4, <3>1, NothingSeen DEF Up
  <2> QED
    BY <2>1, <2>2
<1>8. CASE UNCHANGED messages
  BY <1>2, <1>4, <1>8, NothingSeen DEF Up
<1>9. UNCHANGED messages \/ ReqMessage(sid, h) \/ \E target \in UserID : ReqMessageDM(sid, h, target)
  BY DEF ReqMouse, ReqCustomR, ReqTyping, ReqCustomU
<1> QED
  BY <1>6, <1>7, <1>8, <1>9
------------------------------------------------------------------------------
(* The loops. *)

LEMMA DisconnectRoomStep ==
    ASSUME TypeOK, IInv, Up, TypeOK', Up', DisconnectRoom PROVE Chat!Next
<1> DEFINE rest == [task EXCEPT !.todo = Rest(@)]
<1>1. PICK rid : rid = First(task.todo)
  OBVIOUS
<1>2. /\ task.op = "disconnect" /\ rid \in RoomID /\ IsTask(task)
      /\ rid \in RoomsIn(task.todo) /\ task.sid \in UserID
  BY <1>1, RunningType DEF DisconnectRoom
<1>3. /\ UNCHANGED <<users, in_rooms, rooms>> /\ LeaveRoom(task.sid, rid, <<>>)
      /\ task' \in {NoTask, rest}
  BY <1>1 DEF DisconnectRoom, EndOr, userVars, roomVars
<1>4. task'.op \in {"idle", "disconnect"}
  BY <1>2, <1>3, IdleOrLoop DEF IsTask
<1>5. PICK msg \in Message : /\ msg.sid = SYSTEM /\ msg.sent_to = None
                             /\ messages' = [messages EXCEPT ![rid] = PushHistory(@, msg)]
  BY <1>3, LeaveMessage
<1>6. rid \in rooms
  <2>1. Leaving(task.sid) = RoomsIn(task.todo)
    BY <1>2 DEF Leaving
  <2> QED
    BY <1>2, <2>1 DEF IInv, MembersAgree
<1>7. \A u \in UserID : Inside(u)' = Inside(u)
  BY <1>2, <1>3, <1>4 DEF Inside
<1> QED
  BY <1>3, <1>5, <1>6, <1>7, AnnounceStep

LEMMA ExclusiveLeaveStep ==
    ASSUME TypeOK, IInv, Loops, Up, TypeOK', Up', ExclusiveLeave PROVE Chat!Next
<1> DEFINE rest == [task EXCEPT !.todo = Rest(@)]
<1>1. PICK sid, rid : sid = task.sid /\ rid = First(task.todo)
  OBVIOUS
<1>2. /\ task.op = "exclusive" /\ rid \in RoomID /\ IsTask(task)
      /\ rid \in RoomsIn(task.todo) /\ sid \in UserID
  BY <1>1, RunningType DEF ExclusiveLeave
<1>3. /\ UNCHANGED <<users, rooms>> /\ user_room_leave(sid, rid, <<>>) /\ task' = rest
  BY <1>1 DEF ExclusiveLeave, userVars, roomVars
<1>4. task'.op = "exclusive" /\ task'.sid = sid /\ task'.rid = task.rid
  BY <1>1, <1>2, <1>3 DEF IsTask
<1>5. PICK msg \in Message : /\ msg.sid = SYSTEM /\ msg.sent_to = None
                             /\ messages' = [messages EXCEPT ![rid] = PushHistory(@, msg)]
  BY <1>3, LeaveMessage DEF user_room_leave
<1>6. rid \in RoomsIn(in_rooms[sid]) /\ rid # task.rid
  BY <1>1, <1>2 DEF IInv, TaskInStep, Loops
<1>7. rid \in rooms
  BY <1>2, <1>6, RoomsOfUser
<1>8. /\ RoomsIn(in_rooms'[sid]) = RoomsIn(in_rooms[sid]) \ {rid}
      /\ \A u \in UserID \ {sid} : in_rooms'[u] = in_rooms[u]
  BY <1>2, <1>3, <1>4, <1>6, LeaveStep
<1>9. \A u \in UserID : Inside(u)' = Inside(u)
  BY <1>1, <1>2, <1>4, <1>6, <1>8 DEF Inside
<1> QED
  BY <1>3, <1>5, <1>7, <1>9, AnnounceStep

LEMMA ExclusiveJoinStep ==
    ASSUME TypeOK, IInv, ExclusiveJoin PROVE UNCHANGED Chat!vars
<1> DEFINE join == Loop("room_join", task.sid, <<task.rid>>, task.rid)
<1>1. PICK sid : sid = task.sid
  OBVIOUS
<1>2. /\ UNCHANGED <<users, rooms, messages, panicked>> /\ task.op = "exclusive"
      /\ ~ HasNext(task.todo) /\ task' = join
      /\ in_rooms' = [in_rooms EXCEPT ![sid] =
                          IF task.rid \in RoomsIn(in_rooms[sid]) THEN in_rooms[sid] ELSE <<>>]
  BY <1>1 DEF ExclusiveJoin, userVars, roomVars
<1>3. join.op = "room_join" /\ join.sid = sid /\ Pending(join) = {}
  BY <1>1, IdleOrLoop
<1> HIDE DEF join
<1>4. RoomsIn(task.todo) = {}
  <2>1. task.todo \in Vector
    BY DEF TypeOK, IsTask
  <2> QED
    BY <1>2, <2>1, NoNext
<1>5. sid \in UserID /\ RoomsIn(in_rooms[sid]) \subseteq {task.rid} /\ RoomsIn(<<>>) = {}
  <2>1. RoomsIn(<<>>) = {}
    BY DEF RoomsIn
  <2> QED
    BY <1>1, <1>2, <1>4, <2>1 DEF IInv, TaskInStep, TypeOK
<1>6. /\ \A u \in UserID \ {sid} : in_rooms'[u] = in_rooms[u]
      /\ RoomsIn(in_rooms'[sid]) = RoomsIn(in_rooms[sid])
  BY <1>2, <1>5 DEF TypeOK
<1>7. /\ \A u \in UserID \ {sid} : Inside(u)' = RoomsIn(in_rooms[u]) /\ Inside(u) = RoomsIn(in_rooms[u])
      /\ Inside(sid)' = RoomsIn(in_rooms[sid]) /\ Inside(sid) = RoomsIn(in_rooms[sid])
  BY <1>1, <1>2, <1>3, <1>5, <1>6 DEF Inside, Entering
<1> QED
  BY <1>2, <1>7, NothingSeen

\* ensure_room has run before the join is refused.
LEMMA JoinRefusedStep ==
    ASSUME TypeOK, IInv, Loops, Up, TypeOK', Up', JoinRefused PROVE [Chat!Next]_Chat!vars
<1>1. PICK rid : rid = First(task.todo)
  OBVIOUS
<1>2. /\ UNCHANGED <<users, in_rooms, messages>> /\ task' = NoTask
      /\ rooms' = rooms \cup {rid} /\ Expect(task.op = "room_join", "init_rooms")
  BY <1>1 DEF JoinRefused, ensure_room, userVars
<1>3. rid \in RoomID /\ HasNext(task.todo)
  BY <1>1, RunningType DEF JoinRefused
<1>4. task.op = "room_join"
  <2>1. "init_rooms" # None
    BY TalkerAssumption
  <2> QED
    BY <1>2, <2>1 DEF Expect, Up
<1>5. Entering = {} /\ NoTask.op = "idle"
  BY <1>3, <1>4, IdleOrLoop DEF Loops, Entering
<1>6. \A u \in UserID : Inside(u)' = Inside(u)
  BY <1>2, <1>4, <1>5 DEF Inside
<1> QED
  BY <1>2, <1>3, <1>6, OpenStep

\* An iteration of a join changes the map, but nobody has been told yet.
LEMMA JoinRoomStep ==
    ASSUME TypeOK, IInv, Up, TypeOK', Up', JoinRoom PROVE [Chat!Next]_Chat!vars
<1>1. PICK sid, rid : sid = task.sid /\ rid = First(task.todo)
  OBVIOUS
<1>2. /\ task.op \in {"user_joined", "room_join"} /\ sid \in UserID /\ rid \in RoomID
      /\ IsTask(task) /\ task # NoTask /\ Rest(task.todo) \in Vector
  BY <1>1, RunningType DEF JoinRoom
<1>3. PICK d : /\ d.rid = rid /\ d.mid = msgid_counter
               /\ task' = Task(task.op, sid, Rest(task.todo), task.rid, Append(task.done, d))
  BY <1>1 DEF JoinRoom
<1>4. /\ UNCHANGED <<users, messages>> /\ ~ CannotJoin(sid, rid) /\ rooms' = rooms \cup {rid}
      /\ in_rooms' = [in_rooms EXCEPT ![sid] = AddRoom(in_rooms[sid], rid)]
  BY <1>1 DEF JoinRoom, ensure_room, userVars
<1>5. in_rooms[sid] \in Vector /\ Len(in_rooms[sid]) <= MaxRooms
  BY <1>2 DEF TypeOK, IInv, HandlesOK
<1>6. rid \notin RoomsIn(in_rooms[sid])
      /\ (FreeSlots(in_rooms[sid]) = {} => Len(in_rooms[sid]) < MaxRooms)
  BY <1>4, <1>5, VectorAsFunction, RoomHandlesAssumption DEF CannotJoin
<1>7. /\ RoomsIn(in_rooms'[sid]) = RoomsIn(in_rooms[sid]) \cup {rid}
      /\ \A u \in UserID \ {sid} : in_rooms'[u] = in_rooms[u]
  <2>1. RoomsIn(AddRoom(in_rooms[sid], rid)) = RoomsIn(in_rooms[sid]) \cup {rid}
    BY <1>2, <1>5, <1>6, AddRoomOf
  <2> QED
    BY <1>2, <1>4, <2>1 DEF TypeOK
<1>8. task'.op = task.op /\ task'.sid = sid /\ Entering' = Entering \cup {rid}
  <2>1. d.rid \in RoomID /\ d.mid \in Nat
    BY <1>2, <1>3, TalkerAssumption DEF TypeOK
  <2>2. Pending(task') = Pending(task) \cup {d}
    BY <1>1, <1>2, <1>3, <2>1, DoneIsTask
  <2> QED
    BY <1>3, <2>2 DEF Task, Entering
<1>9. \A u \in UserID : Inside(u)' = Inside(u)
  <2>1. \A u \in UserID \ {sid} : Inside(u)' = Inside(u)
    BY <1>1, <1>7, <1>8 DEF Inside
  <2>2. /\ Inside(sid) = RoomsIn(in_rooms[sid]) \ Entering
        /\ Inside(sid)' = RoomsIn(in_rooms'[sid]) \ Entering'
    BY <1>1, <1>2, <1>8 DEF Inside
  <2>3. Inside(sid)' = Inside(sid)
    BY <1>6, <1>7, <1>8, <2>2
  <2> QED
    BY <2>1, <2>3
<1> QED
  BY <1>2, <1>4, <1>9, OpenStep

LEMMA SendRoomsStep ==
    ASSUME TypeOK, IInv, Up, TypeOK', Up', SendRooms PROVE Chat!Next
<1> DEFINE next == [task EXCEPT !.op = "complete"]
<1>1. PICK sid : sid = task.sid
  OBVIOUS
<1>2. /\ UNCHANGED <<users, in_rooms, rooms, messages>> /\ task' \in {NoTask, next}
      /\ task.op \in {"user_joined", "room_join"}
  BY DEF SendRooms, userVars, roomVars
<1>3. PICK R : R = Entering
  OBVIOUS
<1>4. task'.op \in {"idle", "complete"}
  <2>1. IsTask(task)
    BY DEF TypeOK
  <2>2. next.op = "complete"
    BY <2>1 DEF IsTask
  <2> QED
    BY <1>2, <2>2, IdleOrLoop
<1>5. sid \in users /\ sid \in UserID /\ R \subseteq RoomsIn(in_rooms[sid])
  BY <1>1, <1>2, <1>3 DEF IInv, TaskInStep, Entering, TypeOK
<1>6. /\ \A u \in UserID : Inside(u)' = RoomsIn(in_rooms[u])
      /\ \A u \in UserID \ {sid} : Inside(u) = RoomsIn(in_rooms[u])
      /\ Inside(sid) = RoomsIn(in_rooms[sid]) \ R
  BY <1>1, <1>2, <1>3, <1>4, <1>5 DEF Inside
<1>7. R \in SUBSET RoomID /\ R \subseteq rooms \ Inside(sid) /\ Inside(sid) \cup R = RoomsIn(in_rooms[sid])
  BY <1>5, <1>6, RoomsOfUser
<1>8. Inside(sid) \cup R \in {S \in SUBSET RoomID : Cardinality(S) <= MaxRooms}
  <2>1. in_rooms[sid] \in Vector /\ Len(in_rooms[sid]) <= MaxRooms
    BY <1>5 DEF TypeOK, IInv, HandlesOK
  <2>2. /\ Cardinality(RoomsIn(in_rooms[sid])) <= Len(in_rooms[sid]) /\ Len(in_rooms[sid]) \in Nat
        /\ Cardinality(RoomsIn(in_rooms[sid])) \in Nat
    BY <2>1, RoomsFit, VectorAsFunction, FS_CardinalityType
  <2>3. Cardinality(RoomsIn(in_rooms[sid])) <= MaxRooms
    BY <2>1, <2>2, RoomHandlesAssumption
  <2>4. RoomsIn(in_rooms[sid]) \in SUBSET RoomID
    BY <1>5, RoomsOfUser
  <2> QED
    BY <1>7, <2>3, <2>4
<1>9. [u \in UserID |-> IF Up THEN Inside(u) ELSE {}]'
          = [[u \in UserID |-> IF Up THEN Inside(u) ELSE {}] EXCEPT ![sid] = @ \cup R]
  BY <1>6, <1>7, UpState, UpStep
<1>10. Chat!Enter(sid, R)
  BY <1>2, <1>5, <1>7, <1>8, <1>9, UpState, UpStep DEF Chat!Enter
<1> QED
  BY <1>5, <1>7, <1>10 DEF Chat!Next, Up

LEMMA CompleteStep ==
    ASSUME TypeOK, IInv, Up, TypeOK', Up', user_room_join_unimmediate_complete PROVE Chat!Next
<1> DEFINE next == [task EXCEPT !.done = Tail(@)]
<1>1. PICK d, msg : d = Head(task.done) /\ msg = TextMessage(d.mid, "user_joined", SYSTEM, None)
  OBVIOUS
<1>2. /\ UNCHANGED <<users, in_rooms, rooms>> /\ task' \in {NoTask, next}
      /\ task.op = "complete" /\ task.done # <<>>
  BY DEF user_room_join_unimmediate_complete, userVars, roomVars
<1>3. messages' = [messages EXCEPT ![d.rid] = PushHistory(@, msg)]
  BY <1>1 DEF user_room_join_unimmediate_complete
<1>4. IsTask(task) /\ task # NoTask
  BY <1>2, IdleOrLoop DEF TypeOK
<1>5. d \in Pending(task) /\ task'.op \in {"idle", "complete"}
  BY <1>1, <1>2, <1>4, TailIsTask, IdleOrLoop DEF IsTask
<1>6. d.mid \in Nat /\ d.rid \in rooms
  <2>1. task.sid \in UserID /\ d.rid \in RoomsIn(in_rooms[task.sid]) /\ d.mid \in Nat
    BY <1>2, <1>4, <1>5 DEF IInv, TaskInStep, TypeOK, IsTask
  <2> QED
    BY <2>1, RoomsOfUser
<1>7. msg \in Message /\ msg.sid = SYSTEM /\ msg.sent_to = None
  BY <1>1, <1>6 DEF TextMessage, Message, Content
<1>8. \A u \in UserID : Inside(u)' = Inside(u)
  BY <1>2, <1>5 DEF Inside
<1>9. PICK rid : rid = d.rid
  OBVIOUS
<1> QED
  BY <1>2, <1>3, <1>6, <1>7, <1>8, <1>9, AnnounceStep

LEMMA ChNickRoomStep ==
    ASSUME TypeOK, IInv, Up, TypeOK', Up', ChNickRoom PROVE Chat!Next
<1> DEFINE rest == [task EXCEPT !.todo = Rest(@)]
<1>1. PICK rid, msg : /\ rid = First(task.todo)
                      /\ msg = TextMessage(msgid_counter, "user_ch_nick", SYSTEM, None)
  OBVIOUS
<1>2. /\ task.op = "ch_nick" /\ rid \in RoomsIn(task.todo) /\ IsTask(task)
  BY <1>1, RunningType DEF ChNickRoom
<1>3. /\ UNCHANGED <<users, in_rooms, rooms>> /\ task' \in {NoTask, rest}
  BY DEF ChNickRoom, EndOr, userVars, roomVars
<1>4. messages' = [messages EXCEPT ![rid] = PushHistory(@, msg)]
  BY <1>1 DEF ChNickRoom
<1>5. rid \in rooms
  <2>1. task.sid \in UserID /\ rid \in RoomsIn(in_rooms[task.sid])
    BY <1>2 DEF IInv, TaskInStep, TypeOK
  <2> QED
    BY <2>1, RoomsOfUser
<1>6. msgid_counter \in Nat
  BY TalkerAssumption DEF TypeOK
<1>7. msg \in Message /\ msg.sid = SYSTEM /\ msg.sent_to = None
  BY <1>1, <1>6 DEF TextMessage, Message, Content
<1>8. task'.op \in {"idle", "ch_nick"}
  BY <1>2, <1>3, IdleOrLoop DEF IsTask
<1>9. \A u \in UserID : Inside(u)' = Inside(u)
  BY <1>2, <1>3, <1>8 DEF Inside
<1> QED
  BY <1>3, <1>4, <1>5, <1>7, <1>9, AnnounceStep

LEMMA EverySecondStep ==
    ASSUME TypeOK, IInv, Up, TypeOK', Up', EverySecond PROVE Chat!Next
<1>1. PICK R : R = {r \in Unused : saturating_sub1(empty_timer[r]) = 0}
  OBVIOUS
<1>2. /\ UNCHANGED <<users, in_rooms, task>> /\ task.op = "idle" /\ rooms' = rooms \ R
      /\ messages' = [r \in RoomID |-> IF r \in R THEN <<>> ELSE messages[r]]
  BY <1>1, IdleOrLoop DEF EverySecond
<1>3. R \in SUBSET RoomID /\ R \subseteq rooms /\ \A r \in R : members[r] = {}
  BY <1>1 DEF Unused, TypeOK
<1>4. /\ \A u \in UserID : Inside(u) = RoomsIn(in_rooms[u])
      /\ \A u \in UserID : Inside(u)' = Inside(u)
  BY <1>2, IdleInside, SameInside
<1>5. \A u \in UserID : Inside(u) \cap R = {}
  BY <1>3, <1>4 DEF IInv, MembersAgree
<1>6. UNCHANGED [u \in UserID |-> IF Up THEN Inside(u) ELSE {}]
  BY <1>4, UpState, UpStep
<1>7. Chat!Forget(R)
  BY <1>2, <1>3, <1>5, <1>6, UpState, UpStep DEF Chat!Forget
<1> QED
  BY <1>3, <1>7 DEF Chat!Next, Up
------------------------------------------------------------------------------
(* Loops is an invariant. *)

LEMMA LoopsSame == ASSUME Loops, UNCHANGED task PROVE Loops'
  BY DEF Loops, Pending

LEMMA OtherTask ==
    ASSUME task'.op \notin {"exclusive", "room_join"} PROVE Loops'
  BY DEF Loops

LEMMA LoopsInit == Init => Loops
<1> SUFFICES ASSUME Init PROVE Loops
  OBVIOUS
<1>1. task.op = "idle"
  BY IdleOrLoop DEF Init
<1> QED
  BY <1>1 DEF Loops

LEMMA LoopsRequest ==
    ASSUME TypeOK, Loops, NEW sid \in UserID, OnMessage(sid) PROVE Loops'
<1>1. CASE OnConnect(sid)
  BY <1>1, LoopsSame DEF OnConnect
<1>2. CASE OnDisconnect(sid)
  <2>1. task' \in {NoTask, Loop("disconnect", sid, in_rooms[sid], None)}
    BY <1>2 DEF OnDisconnect, EndOr
  <2>2. task'.op \in {"idle", "disconnect"}
    BY <2>1, IdleOrLoop
  <2> QED
    BY <2>2, OtherTask
<1>3. ASSUME NEW prof, NEW list, ReqUserJoined(sid, prof, list) PROVE Loops'
  <2>1. task' \in {NoTask, Loop("user_joined", sid, Dedup(list), None)}
    BY <1>3 DEF ReqUserJoined
  <2>2. task'.op \in {"idle", "user_joined"}
    BY <2>1, IdleOrLoop
  <2> QED
    BY <2>2, OtherTask
<1>4. ASSUME NEW prof, ReqUserChNick(sid, prof) PROVE Loops'
  <2>1. task' \in {NoTask, Loop("ch_nick", sid, in_rooms[sid], None)}
    BY <1>4 DEF ReqUserChNick, EndOr
  <2>2. task'.op \in {"idle", "ch_nick"}
    BY <2>1, IdleOrLoop
  <2> QED
    BY <2>2, OtherTask
<1>5. ASSUME NEW rid \in RoomID, NEW exclusive, ReqRoomJoin(sid, rid, exclusive) PROVE Loops'
  <2> DEFINE first == Loop("exclusive", sid, Vacate(in_rooms[sid], rid), rid)
             join  == Loop("room_join", sid, <<rid>>, rid)
  <2>1. task' \in {first, join}
    BY <1>5 DEF ReqRoomJoin
  <2>2. /\ join.op = "room_join" /\ join.todo = <<rid>> /\ Pending(join) = {}
        /\ first.op = "exclusive" /\ first.todo = Vacate(in_rooms[sid], rid) /\ first.rid = rid
    BY IdleOrLoop
  <2> HIDE DEF first, join
  <2>3. rid \notin RoomsIn(Vacate(in_rooms[sid], rid))
    <3>1. in_rooms[sid] \in Vector
      BY DEF TypeOK
    <3> QED
      BY <3>1, VacateOf
  <2>4. DOMAIN <<rid>> = {1}
    OBVIOUS
  <2>5. CASE task' = first
    BY <2>2, <2>3, <2>5 DEF Loops
  <2>6. CASE task' = join
    BY <2>2, <2>4, <2>6 DEF Loops
  <2> QED
    BY <2>1, <2>5, <2>6
<1>6. ASSUME NEW h, RoomRequest(sid, h) PROVE Loops'
  <2>1. UNCHANGED task
    BY <1>6 DEF RoomRequest, ReqRoomLeave, ReqMessage, ReqMouse, ReqCustomR, ReqTyping,
           ReqMessageDM, ReqCustomU, MemberRequest
  <2> QED
    BY <2>1, LoopsSame
<1> QED
  BY <1>1, <1>2, <1>3, <1>4, <1>5, <1>6 DEF OnMessage, UserRequest

LEMMA LoopsContinue == ASSUME TypeOK, Loops, Continue PROVE Loops'
<1> DEFINE rest == [task EXCEPT !.todo = Rest(@)]
           next == [task EXCEPT !.op = "complete"]
           tail == [task EXCEPT !.done = Tail(@)]
<1>0. IsTask(task)
  BY DEF TypeOK
<1>1. /\ rest.op = task.op /\ rest.todo = Rest(task.todo) /\ rest.rid = task.rid
      /\ next.op = "complete" /\ tail.op = task.op /\ NoTask.op = "idle"
  BY <1>0, IdleOrLoop DEF IsTask
<1> HIDE DEF rest, next, tail
<1>2. CASE DisconnectRoom
  <2>1. task' \in {NoTask, rest} /\ task.op = "disconnect"
    BY <1>2 DEF DisconnectRoom, Running, EndOr, rest
  <2> QED
    BY <1>1, <2>1, OtherTask
<1>3. CASE ExclusiveLeave
  <2>1. task' = rest /\ task.op = "exclusive" /\ task.todo \in Vector /\ HasNext(task.todo)
    BY <1>3, RunningType DEF ExclusiveLeave, rest
  <2>2. RoomsIn(Rest(task.todo)) \subseteq RoomsIn(task.todo)
    BY <2>1, RestOf
  <2> QED
    BY <1>1, <2>1, <2>2 DEF Loops
<1>4. CASE ExclusiveJoin
  <2> DEFINE join == Loop("room_join", task.sid, <<task.rid>>, task.rid)
  <2>1. task' = join
    BY <1>4 DEF ExclusiveJoin
  <2>2. join.op = "room_join" /\ join.todo = <<task.rid>> /\ Pending(join) = {}
    BY IdleOrLoop
  <2> HIDE DEF join
  <2>3. DOMAIN <<task.rid>> = {1}
    OBVIOUS
  <2> QED
    BY <2>1, <2>2, <2>3 DEF Loops
<1>5. CASE JoinRefused
  BY <1>1, <1>5, OtherTask DEF JoinRefused
<1>6. CASE JoinRoom
  <2>1. PICK d : task' = Task(task.op, task.sid, Rest(task.todo), task.rid, Append(task.done, d))
    BY <1>6 DEF JoinRoom
  <2>2. task'.op = task.op /\ task'.todo = Rest(task.todo) /\ task.op \in {"user_joined", "room_join"}
    BY <1>6, <2>1 DEF Task, JoinRoom, Running
  <2>3. ASSUME task.op = "room_join" PROVE DOMAIN task'.todo = {1} /\ ~ HasNext(task'.todo)
    <3>1. DOMAIN task.todo = {1} /\ task.todo \in Vector /\ HasNext(task.todo)
      BY <1>6, <2>3, RunningType DEF JoinRoom, Loops
    <3>2. FirstIdx(task.todo) = 1
      BY <3>1, NextRoom
    <3>3. Rest(task.todo) = [task.todo EXCEPT ![1] = None]
      BY <3>2 DEF Rest
    <3>4. DOMAIN Rest(task.todo) = {1} /\ Rest(task.todo)[1] = None
      BY <3>1, <3>3
    <3> QED
      BY <2>2, <3>4 DEF HasNext
  <2> QED
    BY <2>2, <2>3 DEF Loops
<1>7. CASE SendRooms
  <2>1. task' \in {NoTask, next}
    BY <1>7 DEF SendRooms, next
  <2> QED
    BY <1>1, <2>1, OtherTask
<1>8. CASE user_room_join_unimmediate_complete
  <2>1. task' \in {NoTask, tail} /\ task.op = "complete"
    BY <1>8 DEF user_room_join_unimmediate_complete, tail
  <2> QED
    BY <1>1, <2>1, OtherTask
<1>9. CASE ChNickRoom
  <2>1. task' \in {NoTask, rest} /\ task.op = "ch_nick"
    BY <1>9 DEF ChNickRoom, Running, EndOr, rest
  <2> QED
    BY <1>1, <2>1, OtherTask
<1> QED
  BY <1>2, <1>3, <1>4, <1>5, <1>6, <1>7, <1>8, <1>9 DEF Continue

LEMMA LoopsStep == TypeOK /\ Loops /\ [Next]_vars => Loops'
<1> SUFFICES ASSUME TypeOK, Loops, [Next]_vars PROVE Loops'
  OBVIOUS
<1>1. CASE EverySecond \/ UNCHANGED vars
  <2>1. UNCHANGED task
    BY <1>1 DEF EverySecond, vars
  <2> QED
    BY <2>1, LoopsSame
<1> QED
  BY <1>1, LoopsRequest, LoopsContinue DEF Next
------------------------------------------------------------------------------
LEMMA MappedInit == Init => Chat!Init
<1> SUFFICES ASSUME Init PROVE Chat!Init
  OBVIOUS
<1>1. Up = TRUE /\ users = {} /\ rooms = {} /\ messages = [r \in RoomID |-> <<>>]
  BY DEF Init, Up
<1>2. \A u \in UserID : Inside(u) = {}
  <2>1. task.op = "idle" /\ RoomsIn(<<>>) = {}
    BY IdleOrLoop DEF Init, RoomsIn
  <2> QED
    BY <2>1 DEF Init, Inside
<1> QED
  BY <1>1, <1>2 DEF Chat!Init

LEMMA MappedStep ==
    TypeOK /\ IInv /\ Loops /\ [Next]_vars => [Chat!Next]_Chat!vars
<1> SUFFICES ASSUME TypeOK, IInv, Loops, [Next]_vars PROVE [Chat!Next]_Chat!vars
  OBVIOUS
<1>1. CASE UNCHANGED vars
  <2>1. UNCHANGED <<panicked, users, rooms, messages, in_rooms, task>>
    BY <1>1 DEF vars, userVars, roomVars
  <2> QED
    BY <2>1, SameInside, NothingSeen
<1>2. ASSUME Next PROVE Up
  <2>1. ASSUME NEW stimulus, Ready(stimulus) PROVE Up
    BY <2>1 DEF Ready, Up
  <2>2. ASSUME NEW ops, Running(ops) PROVE Up
    BY <2>2 DEF Running, Up
  <2>3. ASSUME NEW sid, NEW h, RoomRequest(sid, h) PROVE Up
    <3>1. \E op : MemberRequest(op, sid, h) \/ ReqRoomLeave(sid, h)
      BY <2>3 DEF RoomRequest, ReqMessage, ReqMouse, ReqCustomR, ReqTyping, ReqMessageDM, ReqCustomU
    <3> QED
      BY <2>1, <3>1 DEF MemberRequest, ReqRoomLeave
  <2>4. ASSUME NEW sid, OnMessage(sid) PROVE Up
    BY <2>1, <2>3, <2>4 DEF OnMessage, OnConnect, OnDisconnect, ReqUserJoined, UserRequest,
       ReqUserChNick, ReqRoomJoin
  <2>5. CASE Continue
    BY <2>2, <2>5 DEF Continue, DisconnectRoom, ExclusiveLeave, ExclusiveJoin, JoinRefused, JoinRoom,
       SendRooms, user_room_join_unimmediate_complete, ChNickRoom, Up
  <2>6. CASE EverySecond
    BY <2>6 DEF EverySecond, Up
  <2> QED
    BY <1>2, <2>4, <2>5, <2>6 DEF Next
<1>3. CASE Next /\ ~ Up'
  BY <1>2, <1>3, Fallen
<1>4. CASE Next /\ Up'
  <2>1. Up /\ TypeOK'
    BY <1>2, <1>4, TypeStep
  <2>2. ASSUME NEW sid \in UserID, OnMessage(sid) PROVE [Chat!Next]_Chat!vars
    <3>1. CASE OnConnect(sid) \/ OnDisconnect(sid)
      BY <1>4, <2>1, <3>1, ConnectStep, DisconnectStep
    <3>2. ASSUME NEW prof, NEW list, ReqUserJoined(sid, prof, list) PROVE [Chat!Next]_Chat!vars
      BY <3>2, UserJoinedStep
    <3>3. CASE UserRequest(sid)
      BY <1>4, <2>1, <3>3, ChNickStep, RoomJoinStep DEF UserRequest
    <3>4. ASSUME NEW h, RoomRequest(sid, h) PROVE [Chat!Next]_Chat!vars
      BY <1>4, <2>1, <3>4, RoomLeaveStep, MemberStepMaps DEF RoomRequest
    <3> QED
      BY <2>2, <3>1, <3>2, <3>3, <3>4 DEF OnMessage
  <2>3. CASE Continue
    BY <1>4, <2>1, <2>3, DisconnectRoomStep, ExclusiveLeaveStep, ExclusiveJoinStep, JoinRefusedStep,
       JoinRoomStep, SendRoomsStep, CompleteStep, ChNickRoomStep DEF Continue
  <2>4. CASE EverySecond
    BY <1>4, <2>1, <2>4, EverySecondStep
  <2> QED
    BY <1>4, <2>2, <2>3, <2>4 DEF Next
<1> QED
  BY <1>1, <1>3, <1>4

\* The handlers of talker.rs, with their loops, handles, timers and limits,
\* keep what ChatRooms promises.
THEOREM Refinement == Spec => ImplementsChatRooms
<1>1. Init => Loops /\ Chat!Init
  BY LoopsInit, MappedInit
<1>2. Spec => []Loops
  BY <1>1, TypeCorrect, LoopsStep, PTL DEF Spec
<1>3. Spec => Chat!Init /\ [][Chat!Next]_Chat!vars
  BY <1>1, <1>2, Invariant, MappedStep, PTL DEF Spec
<1> QED
  BY <1>3 DEF ImplementsChatRooms, Chat!Spec
==============================================================================
