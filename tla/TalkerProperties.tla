--------------------------- MODULE TalkerProperties ---------------------------
(***************************************************************************)
(* What the talker owes its users.  The first group relates the two maps   *)
(* of the talker to each other, the second what it sent to what it knows.  *)
(***************************************************************************)
EXTENDS Talker
LOCAL INSTANCE SequencesExt

Ops == {"idle", "disconnect", "user_joined", "exclusive", "room_join", "complete",
        "ch_nick"}
Sites == {None, "init_rooms", "leave", "join", "complete", "chnick", "member", "typing"}
Content == {"user_joined", "user_left", "user_ch_nick", "message"}
Message == [id : Nat, content : Content, sid : UserID \cup {SYSTEM},
            sent_to : UserID \cup {None}]

\* What the iterations of a joining loop leave for the second one, each of the
\* records holding what the messages of its room will say.
Pending(t) == {t.done[i] : i \in DOMAIN t.done}

IsTask(t) == /\ t \in [op : Ops, sid : UserID \cup {None}, rid : RoomID \cup {None},
                     todo : Vector, done : Seq(Pending(t))]
             /\ t # NoTask => t.op # "idle" /\ t.sid # None
             /\ \A d \in Pending(t) : d.rid \in RoomID /\ d.mid \in Nat

TypeOK ==
    /\ users \in SUBSET UserID /\ joined \in SUBSET users /\ users \subseteq seen
    /\ seen \in SUBSET UserID
    /\ profile \in [UserID -> Profile]
    /\ in_rooms \in [UserID -> Vector]
    /\ user_limits \in [UserID -> [UserKinds -> Window]]
    /\ rooms \in SUBSET RoomID
    /\ members \in [RoomID -> SUBSET UserID]
    /\ messages \in [RoomID -> Seq(Message)]
    /\ empty_timer \in [RoomID -> 0 .. RoomEmptyTimer]
    /\ typing_timer \in [RoomID -> [UserID -> 0 .. RoomTypingTimer]]
    /\ room_limits \in [RoomID -> [UserID -> [RoomKinds -> Window]]]
    /\ ratelimit_idx \in Seconds /\ msgid_counter \in 0 .. MessageIDs - 1
    /\ IsTask(task) /\ panicked \in Sites
------------------------------------------------------------------------------
\* The rooms on_disconnect has still to tell of user u.
Leaving(u) == IF task.op = "disconnect" /\ task.sid = u THEN RoomsIn(task.todo) ELSE {}

\* A user's vector names exactly the rooms that have the user as a member, and
\* a room somebody is in exists: join, leave, exclusive join, disconnection
\* and the timer keep the two maps together.  While on_disconnect runs, the
\* rooms it has not reached yet still have the member.
MembersAgree ==
    /\ \A u \in UserID, r \in RoomID :
           u \in members[r] <=> r \in RoomsIn(in_rooms[u]) \cup Leaving(u)
    /\ \A r \in RoomID : members[r] # {} => r \in rooms

\* Handles stay small: a vector names no room twice, holds at most as many
\* handles as a RoomHandle can count, and does not end in a free one.
HandlesOK ==
    \A u \in UserID :
        /\ NoDuplicates(in_rooms[u]) /\ Len(in_rooms[u]) <= MaxRooms
        /\ Trimmed(in_rooms[u])

\* What a handler that loops relies on from one iteration to the next, and what
\* is left of a user that is gone: nothing but the loop of on_disconnect.
TaskInStep ==
    /\ \A u \in UserID \ users : in_rooms[u] = <<>>
    /\ task.op = "disconnect" => task.sid \notin users
    /\ task.op \notin {"idle", "disconnect"} => task.sid \in users
    /\ task.op \in {"disconnect", "exclusive", "ch_nick"} => NoDuplicates(task.todo)
    /\ task.op \in {"exclusive", "ch_nick"} =>
           RoomsIn(task.todo) \subseteq RoomsIn(in_rooms[task.sid])
    /\ task.op = "exclusive" =>
           RoomsIn(in_rooms[task.sid]) \subseteq RoomsIn(task.todo) \cup {task.rid}
    /\ task.op \in {"user_joined", "room_join", "complete"} =>
           \A d \in Pending(task) : d.rid \in RoomsIn(in_rooms[task.sid])

\* Of all the expects and unwraps of the handlers, which are all about one map
\* naming what another map lacks, only the unwrap in req_user_joined can fail.
OnlyInitRoomsPanics == panicked \in {None, "init_rooms"}

\* The countdown of a room starts in full when its last member leaves,
\* however long it lived and whatever counted down before.
FullCountdown == \A r \in rooms : members[r] # {} => empty_timer[r] = RoomEmptyTimer

CountedDown(r) == members[r] = {} /\ task = NoTask /\ saturating_sub1(empty_timer[r]) = 0
Drops == \A r \in rooms \ rooms' : CountedDown(r)

\* A room is dropped, and its history forgotten, only by a tick and only while
\* nobody is in it or in the middle of joining it.
DroppedOnlyEmpty == [][Drops]_vars

\* A join of a room that is refused all the same starts its countdown again.
Refused(r) == r \in rooms /\ empty_timer'[r] > empty_timer[r] /\ members'[r] = {}

\* A room nobody is in does not stay forever, if joins of it are not refused
\* again and again: each refusal keeps it for another room_empty_timer.
EmptyRoomReclaimed ==
    \A r \in RoomID :
        <>[][~ Refused(r)]_vars
            => (r \in rooms /\ members[r] = {}
                    ~> r \notin rooms \/ members[r] # {} \/ panicked # None)
------------------------------------------------------------------------------
Idle == task = NoTask /\ panicked = None

\* Whatever a user is sent about a room comes with a handle that means this
\* room in the last ROOM message the user was sent, in every order of joins,
\* leaves, re-used handles and broadcasts.
NeverMisrouted == \A u \in UserID : ~ client[u].misrouted

\* Of a list of users in room r, the entries under the profile the room was told.
Told(r, entries) == {e \in entries : r \notin client[e[1]].renamed}
Names(entries)   == {e[1] : e \in entries}

\* Between two requests, a user who has read everything knows which handles
\* mean which rooms, who is in each of the rooms, and under which nick, though
\* the talker sends differences only (the full list it used to send after each
\* of them is commented out as redundant).  The one nick it may not know is that
\* of a user who sent USER_JOINED after joining the room.
RosterInStep ==
    Idle => \A u \in users : \A h \in DOMAIN in_rooms[u] :
                LET r    == in_rooms[u][h]
                    here == get_users(members[r], profile)
                IN  r # None =>
                        /\ h \in DOMAIN client[u].rooms /\ client[u].rooms[h] = r
                        /\ Told(r, client[u].roster[r]) = Told(r, here)
                        /\ Names(client[u].roster[r]) = members[r]
                        /\ Cardinality(client[u].roster[r]) = Cardinality(members[r])

\* The rooms array of the last ROOM message, against which protocol.md defines
\* every room handle, is the talker's.
RoomsArrayInStep == Idle => \A u \in users : client[u].rooms = in_rooms[u]

\* What a new member is sent as history is what the old members saw: the
\* public part of the saved history ends every member's own log.
HistoryInStep ==
    Idle => \A u \in users : \A r \in RoomsIn(in_rooms[u]) :
                IsSuffix(get_history(messages[r]), client[u].log[r])

\* No member ever sees a private message in a log ...
LogsPublic ==
    \A u \in UserID, r \in RoomID : \A i \in DOMAIN client[u].log[r] :
        client[u].log[r][i].sent_to = None

\* ... nor a message out of order or twice, the ids of a USER_JOINED with several
\* rooms being drawn before any of them is sent.
LogsOrdered ==
    \A u \in UserID, r \in RoomID :
        LET log == client[u].log[r]
        IN  \A i \in DOMAIN log : i > 1 => log[i - 1].id < log[i].id

\* A log is what was said to all of the room, in the order in which it was said.
LogsPublicAndOrdered == LogsPublic /\ LogsOrdered

\* The history of a room is bounded by history_max, or by one if that is 0.
HistoryBounded == \A r \in RoomID : Len(messages[r]) <= HistoryMax \/ Len(messages[r]) = 1

\* protocol.md of the room list of USER_JOINED: it is "stably deduplicated",
\* so no list of rooms brings the talker down.
InitRoomsAccepted == panicked # "init_rooms"

\* Nobody is shown as typing who is not: a member who left, rejoined, stopped
\* or was timed out has been taken off everybody's list.
NoGhostTyping ==
    Idle => \A u \in users : \A r \in RoomsIn(in_rooms[u]) :
                client[u].typing[r] \subseteq get_typing(members[r], typing_timer[r])

Typed(u) == \E r \in RoomID : typing_timer'[r][u] > typing_timer[r][u]

\* A user who sends no more TYPING is at last shown as typing to nobody.
TypingEnds ==
    \A u \in UserID :
        <>[][~ Typed(u)]_vars
            => []<>(panicked # None \/ \A v \in UserID, r \in RoomID : u \notin client[v].typing[r])
==============================================================================
