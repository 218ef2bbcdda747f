----------------------------- MODULE ClientProofs -----------------------------
(***************************************************************************)
(* What the clients know, for any number of users, rooms and handles: the  *)
(* handle an event comes with means the room it was meant for, and between *)
(* two requests a client knows who is in its rooms, and whom it shows as   *)
(* typing is.                                                              *)
(*                                                                         *)
(* A client is told of what happens in differences, by handlers that loop  *)
(* over rooms.  The invariant says how far each of the loops has come: who *)
(* has joined a room that has not been told of it, whose nick or departure *)
(* is still to be told there, and which user has more rooms than the last  *)
(* ROOM it was sent.                                                       *)
(***************************************************************************)
EXTENDS TalkerProofs

\* Clients, as records of maps from rooms.
Shaped(c) ==
    /\ c = [rooms |-> c.rooms, roster |-> c.roster, typing |-> c.typing, log |-> c.log,
            misrouted |-> c.misrouted, renamed |-> c.renamed]
    /\ c.roster = [r \in RoomID |-> c.roster[r]]
    /\ c.typing = [r \in RoomID |-> c.typing[r]]
    /\ c.log = [r \in RoomID |-> c.log[r]]
AllShaped(clients) == /\ clients = [u \in UserID |-> clients[u]]
                      /\ \A u \in UserID : Shaped(clients[u])

\* The array a client has been sent names every room of the vector.
Finds(c, array) ==
    \A h \in DOMAIN array : array[h] # None => h \in DOMAIN c.rooms /\ c.rooms[h] = array[h]

\* A user whose vector may hold rooms it has not been told of yet.
Unread(u) == /\ task.sid = u
             /\ \/ task.op = "user_joined"
                \/ task.op = "room_join" /\ ~ HasNext(task.todo)

\* Who is a member of room r, and nobody has been told of it yet.
Unannounced(r) == IF \E d \in Pending(task) : d.rid = r THEN {task.sid} ELSE {}

\* Whose change of profile, or departure, room r has not been told of yet, and
\* who is excused there because it never will be.
Changing(r) ==
    IF task.op \in {"ch_nick", "disconnect"} /\ r \in RoomsIn(task.todo) THEN {task.sid} ELSE {}
Excused(r) == Changing(r) \cup {u \in UserID : r \in client[u].renamed}

\* The second halves of the joins that wait, one for each room.
DoneOK ==
    /\ \A d \in Pending(task) :
           /\ d.rh \in Nat /\ d.rh + 1 \in DOMAIN in_rooms[task.sid]
           /\ in_rooms[task.sid][d.rh + 1] = d.rid
           /\ d.users = get_users(members[d.rid], profile)
    /\ \A i, j \in DOMAIN task.done : task.done[i].rid = task.done[j].rid => i = j
    /\ task.op \in {"idle", "disconnect", "exclusive", "ch_nick"} => task.done = <<>>
    /\ task.op = "room_join" /\ HasNext(task.todo) =>
           task.done = <<>> /\ task.todo = <<task.rid>>

\* A list of users: one entry for each name, its profile up to date but for
\* those who are excused.
Lists(roster, names, prof, excused) ==
    /\ Names(roster) = names
    /\ \A e \in roster : e = <<e[1], e[2]>> /\ (e[1] \notin excused => e[2] = prof[e[1]])
    /\ \A e, f \in roster : e[1] = f[1] => e = f

\* What user u knows of room r.
Knows(u, r) ==
    /\ Lists(client[u].roster[r], members[r] \ Unannounced(r), profile, Excused(r))
    /\ client[u].typing[r] \subseteq get_typing(members[r], typing_timer[r])

InStep ==
    /\ DoneOK
    /\ \A u \in UserID : \A r \in RoomsIn(in_rooms[u]) : u \notin Unannounced(r) => Knows(u, r)
    /\ \A u \in UserID : ~ Unread(u) => Finds(client[u], in_rooms[u])

Replicas == AllShaped(client) /\ NeverMisrouted /\ (panicked = None => InStep)

FiniteOK == IsFiniteSet(rooms) /\ \A r \in RoomID : IsFiniteSet(members[r])

CInv == Replicas /\ FiniteOK
------------------------------------------------------------------------------
(* What is sent. *)

LEMMA Successors ==
    ASSUME NEW T, 0 \in T, \A n \in Nat : n \in T => n + 1 \in T
    PROVE  Nat \subseteq T
<1> SUFFICES ASSUME Nat \ T # {} PROVE FALSE
  OBVIOUS
<1>1. PICK m \in Nat \ T : \A k \in Nat \ T : m <= k
  BY Least
<1>2. m - 1 \in Nat /\ (m - 1) + 1 = m
  OBVIOUS
<1>3. m - 1 \in T
  BY <1>1, <1>2
<1> QED
  BY <1>2, <1>3

\* The clients after each of the batches.
Sending(batches, f) ==
    /\ f[0] = client
    /\ \A i \in 1 .. Len(batches) : f[i] = DeliverBatch(f[i - 1], batches[i])

LEMMA DeliverIs ==
    ASSUME NEW batches, Len(batches) \in Nat, Deliver(batches)
    PROVE  \E f : Sending(batches, f) /\ client' = f[Len(batches)]
<1> DEFINE L == Len(batches)
           Body(f, n) == [i \in 0 .. n |-> IF i = 0 THEN client
                                                    ELSE DeliverBatch(f[i - 1], batches[i])]
           T == {n \in Nat : \E f : f = Body(f, n)}
<1>1. 0 \in T
  <2> DEFINE f == [i \in 0 .. 0 |-> client]
  <2>1. f = Body(f, 0)
    OBVIOUS
  <2> QED
    BY <2>1
<1>2. ASSUME NEW n \in Nat, n \in T PROVE n + 1 \in T
  <2>1. PICK f : f = Body(f, n)
    BY <1>2
  <2> DEFINE g == [i \in 0 .. n + 1 |-> IF i = n + 1 THEN DeliverBatch(f[n], batches[n + 1])
                                                     ELSE f[i]]
  <2>2. ASSUME NEW i \in 0 .. n + 1
        PROVE  g[i] = IF i = 0 THEN client ELSE DeliverBatch(g[i - 1], batches[i])
    <3>1. CASE i = n + 1
      BY <3>1
    <3>2. CASE i \in 0 .. n
      <4>1. g[i] = f[i] /\ (i # 0 => g[i - 1] = f[i - 1])
        BY <3>2
      <4>2. f[i] = IF i = 0 THEN client ELSE DeliverBatch(f[i - 1], batches[i])
        BY <2>1, <3>2
      <4> QED
        BY <4>1, <4>2
    <3> QED
      BY <3>1, <3>2
  <2>3. g = Body(g, n + 1)
    BY <2>2
  <2> HIDE DEF g, Body
  <2> QED
    BY <2>3
<1>3. L \in T
  BY <1>1, <1>2, Successors
<1>4. PICK f : f = Body(f, L)
  BY <1>3
<1> DEFINE h == CHOOSE f2 : f2 = Body(f2, L)
<1>5. h = Body(h, L)
  BY <1>4
<1>6. client' = h[L]
  BY DEF Deliver
<1>7. h[0] = client /\ \A i \in 1 .. L : h[i] = DeliverBatch(h[i - 1], batches[i])
  <2> HIDE DEF h
  <2>1. \A i \in 0 .. L : h[i] = IF i = 0 THEN client ELSE DeliverBatch(h[i - 1], batches[i])
    BY <1>5
  <2>2. 0 \in 0 .. L /\ \A i \in 1 .. L : i \in 0 .. L /\ i # 0
    OBVIOUS
  <2> QED
    BY <2>1, <2>2
<1> QED
  BY <1>6, <1>7 DEF Sending

LEMMA DeliverNone == ASSUME Deliver(<<>>) PROVE client' = client
<1>1. Len(<<>>) = 0
  OBVIOUS
<1> QED
  BY <1>1, DeliverIs DEF Sending

LEMMA DeliverOne ==
    ASSUME NEW a, Deliver(<<a>>) PROVE client' = DeliverBatch(client, a)
<1>1. Len(<<a>>) = 1 /\ <<a>>[1] = a
  OBVIOUS
<1>2. PICK f : Sending(<<a>>, f) /\ client' = f[1]
  BY <1>1, DeliverIs
<1> QED
  BY <1>1, <1>2 DEF Sending

LEMMA DeliverTwo ==
    ASSUME NEW a, NEW b, Deliver(<<a, b>>)
    PROVE  client' = DeliverBatch(DeliverBatch(client, a), b)
<1>1. Len(<<a, b>>) = 2 /\ <<a, b>>[1] = a /\ <<a, b>>[2] = b
  OBVIOUS
<1>2. PICK f : Sending(<<a, b>>, f) /\ client' = f[2]
  BY <1>1, DeliverIs
<1>3. f[1] = DeliverBatch(client, a)
  BY <1>1, <1>2 DEF Sending
<1>4. f[2] = DeliverBatch(f[1], b)
  BY <1>1, <1>2 DEF Sending
<1> QED
  BY <1>2, <1>3, <1>4

LEMMA DeliverThree ==
    ASSUME NEW s, Len(s) = 3, Deliver(s)
    PROVE  client' = DeliverBatch(DeliverBatch(DeliverBatch(client, s[1]), s[2]), s[3])
<1>0. Len(s) \in Nat
  OBVIOUS
<1>1. PICK f : Sending(s, f) /\ client' = f[3]
  BY <1>0, DeliverIs
<1>2. f[1] = DeliverBatch(client, s[1])
  BY <1>1 DEF Sending
<1>3. f[2] = DeliverBatch(f[1], s[2])
  BY <1>1 DEF Sending
<1>4. f[3] = DeliverBatch(f[2], s[3])
  BY <1>1 DEF Sending
<1> QED
  BY <1>1, <1>2, <1>3, <1>4

LEMMA DeliverFour ==
    ASSUME NEW a, NEW b, NEW c, NEW d, Deliver(<<a, b, c, d>>)
    PROVE  client' = DeliverBatch(DeliverBatch(DeliverBatch(DeliverBatch(client, a), b), c), d)
<1> DEFINE s == <<a, b, c, d>>
<1>1. Len(s) = 4 /\ s[1] = a /\ s[2] = b /\ s[3] = c /\ s[4] = d
  OBVIOUS
<1> HIDE DEF s
<1>2. PICK f : Sending(s, f) /\ client' = f[4]
  BY <1>1, DeliverIs DEF s
<1>3. f[1] = DeliverBatch(client, a)
  BY <1>1, <1>2 DEF Sending
<1>4. f[2] = DeliverBatch(f[1], b)
  BY <1>1, <1>2 DEF Sending
<1>5. f[3] = DeliverBatch(f[2], c)
  BY <1>1, <1>2 DEF Sending
<1>6. f[4] = DeliverBatch(f[3], d)
  BY <1>1, <1>2 DEF Sending
<1> QED
  BY <1>2, <1>3, <1>4, <1>5, <1>6
------------------------------------------------------------------------------
(* Lists of users. *)

LEMMA ListsNone == ASSUME NEW prof, NEW excused PROVE Lists({}, {}, prof, excused)
  BY DEF Lists, Names

LEMMA ListsUsers ==
    ASSUME NEW mem, NEW prof, NEW excused PROVE Lists(get_users(mem, prof), mem, prof, excused)
<1> DEFINE roster == get_users(mem, prof)
<1>1. \A e \in roster : \E u \in mem : e = <<u, prof[u]>>
  BY DEF get_users
<1>2. \A u \in mem : <<u, prof[u]>> \in roster
  BY DEF get_users
<1> HIDE DEF roster
<1>3. \A e \in roster : e[1] \in mem /\ e = <<e[1], prof[e[1]]>>
  BY <1>1
<1>4. Names(roster) = mem
  <2>1. \A u \in mem : u \in Names(roster)
    <3> TAKE u \in mem
    <3>1. <<u, prof[u]>>[1] = u
      OBVIOUS
    <3> QED
      BY <1>2, <3>1 DEF Names
  <2> QED
    BY <1>3, <2>1 DEF Names
<1>5. \A e, f \in roster : e[1] = f[1] => e = f
  BY <1>3
<1>6. \A e \in roster : e = <<e[1], e[2]>> /\ e[2] = prof[e[1]]
  BY <1>3
<1> QED
  BY <1>4, <1>5, <1>6 DEF Lists, roster

\* A user leaves the list.
LEMMA ListsLess ==
    ASSUME NEW roster, NEW names, NEW prof, NEW excused, Lists(roster, names, prof, excused),
           NEW sid
    PROVE  Lists(Others(roster, sid), names \ {sid}, prof, excused \ {sid})
  BY DEF Lists, Names, Others

\* A user enters it, or comes under another profile.
LEMMA ListsMore ==
    ASSUME NEW roster, NEW names, NEW prof, NEW excused, Lists(roster, names, prof, excused),
           NEW sid
    PROVE  Lists(Others(roster, sid) \cup {<<sid, prof[sid]>>}, names \cup {sid}, prof,
                 excused \ {sid})
<1> DEFINE new == <<sid, prof[sid]>>
           more == Others(roster, sid) \cup {new}
<1>1. new[1] = sid /\ new[2] = prof[sid] /\ new = <<new[1], new[2]>>
  OBVIOUS
<1> HIDE DEF new
<1>2. Lists(Others(roster, sid), names \ {sid}, prof, excused \ {sid})
  BY ListsLess
<1>3. \A e \in Others(roster, sid) : e[1] # sid
  BY DEF Others
<1>4. Names(more) = Names(Others(roster, sid)) \cup {sid}
  BY <1>1 DEF Names
<1>5. Names(more) = names \cup {sid}
  BY <1>2, <1>4 DEF Lists
<1>6. \A e \in more : e = <<e[1], e[2]>> /\ (e[1] \notin excused \ {sid} => e[2] = prof[e[1]])
  BY <1>1, <1>2 DEF Lists
<1>7. \A e, f \in more : e[1] = f[1] => e = f
  BY <1>1, <1>2, <1>3 DEF Lists
<1> QED
  BY <1>5, <1>6, <1>7 DEF Lists, new

\* More of its users are excused, and only those have another profile.
LEMMA ListsStill ==
    ASSUME NEW roster, NEW names, NEW prof, NEW excused, Lists(roster, names, prof, excused),
           NEW prof2, NEW excused2, names \cap excused \subseteq excused2,
           \A u \in names : u \notin excused2 => prof2[u] = prof[u]
    PROVE  Lists(roster, names, prof2, excused2)
<1>1. \A e \in roster : e[1] \in names
  BY DEF Lists, Names
<1> QED
  BY <1>1 DEF Lists
------------------------------------------------------------------------------
(* What a client does with an event. *)

\* The list of users, that of those who type, and the log that event e leaves.
RosterBy(e, roster) ==
    CASE e.type = "HISTORY" -> {}
      [] e.type = "USER_UPDATE" -> e.users
      [] e.type \in {"USER_JOINED", "USER_CHANGE_NICK"} ->
             Others(roster, e.user[1]) \cup {e.user}
      [] e.type = "USER_LEFT" -> Others(roster, e.sid)
      [] OTHER -> roster
TypingBy(e, typing) ==
    CASE e.type = "HISTORY" -> {}
      [] e.type = "USER_LEFT" -> typing \ {e.sid}
      [] e.type = "TYPING" -> e.sids
      [] OTHER -> typing
LogBy(e, log) ==
    CASE e.type = "HISTORY" -> LastN(e.hist)
      [] e.type = "MESSAGE" -> LastN(Append(log, e.msg))
      [] OTHER -> log

Types == {"HISTORY", "USER_UPDATE", "USER_JOINED", "USER_CHANGE_NICK", "USER_LEFT", "TYPING",
          "MESSAGE", "MESSAGE_DM", "MOUSE", "CUSTOM_R", "CUSTOM_U"}

\* What becomes of a client c that is sent e in room rid.
Entered(c, d, rid, e) ==
    /\ Shaped(d) /\ d.rooms = c.rooms /\ d.misrouted = c.misrouted
    /\ d.renamed = IF e.type = "HISTORY" THEN c.renamed \ {rid} ELSE c.renamed
    /\ d.roster = [c.roster EXCEPT ![rid] = RosterBy(e, c.roster[rid])]
    /\ d.typing = [c.typing EXCEPT ![rid] = TypingBy(e, c.typing[rid])]
    /\ d.log = [c.log EXCEPT ![rid] = LogBy(e, c.log[rid])]

LEMMA InRoomOf ==
    ASSUME NEW c, Shaped(c), NEW rid \in RoomID, NEW e, e.type \in Types
    PROVE  Entered(c, InRoom(c, rid, e), rid, e)
<1> DEFINE d == InRoom(c, rid, e)
           Goal == /\ Shaped(d) /\ d.rooms = c.rooms /\ d.misrouted = c.misrouted
                   /\ d.renamed = IF e.type = "HISTORY" THEN c.renamed \ {rid} ELSE c.renamed
                   /\ d.roster = [c.roster EXCEPT ![rid] = RosterBy(e, c.roster[rid])]
                   /\ d.typing = [c.typing EXCEPT ![rid] = TypingBy(e, c.typing[rid])]
                   /\ d.log = [c.log EXCEPT ![rid] = LogBy(e, c.log[rid])]
<1> SUFFICES Goal
  BY DEF Entered
<1>1. /\ c.roster = [c.roster EXCEPT ![rid] = c.roster[rid]]
      /\ c.typing = [c.typing EXCEPT ![rid] = c.typing[rid]]
      /\ c.log = [c.log EXCEPT ![rid] = c.log[rid]]
  BY DEF Shaped
<1>2. CASE e.type = "HISTORY"
  <2>1. d = [c EXCEPT !.log[rid] = LastN(e.hist), !.roster[rid] = {}, !.typing[rid] = {},
                      !.renamed = @ \ {rid}]
    BY <1>2 DEF InRoom
  <2>2. d = [rooms |-> c.rooms, roster |-> [c.roster EXCEPT ![rid] = {}],
             typing |-> [c.typing EXCEPT ![rid] = {}],
             log |-> [c.log EXCEPT ![rid] = LastN(e.hist)],
             misrouted |-> c.misrouted, renamed |-> c.renamed \ {rid}]
    BY <2>1 DEF Shaped
  <2>3. /\ RosterBy(e, c.roster[rid]) = {} /\ TypingBy(e, c.typing[rid]) = {}
        /\ LogBy(e, c.log[rid]) = LastN(e.hist)
    BY <1>2 DEF RosterBy, TypingBy, LogBy
  <2> HIDE DEF d
  <2> QED
    BY <1>2, <2>2, <2>3 DEF Shaped
<1>3. CASE e.type = "USER_UPDATE"
  <2>1. d = [c EXCEPT !.roster[rid] = e.users]
    BY <1>3 DEF InRoom
  <2>2. /\ RosterBy(e, c.roster[rid]) = e.users /\ TypingBy(e, c.typing[rid]) = c.typing[rid]
        /\ LogBy(e, c.log[rid]) = c.log[rid]
    BY <1>3 DEF RosterBy, TypingBy, LogBy
  <2> HIDE DEF d
  <2> QED
    BY <1>1, <1>3, <2>1, <2>2 DEF Shaped
<1>4. CASE e.type \in {"USER_JOINED", "USER_CHANGE_NICK"}
  <2>1. d = [c EXCEPT !.roster[rid] = Others(@, e.user[1]) \cup {e.user}]
    BY <1>4 DEF InRoom
  <2>2. /\ RosterBy(e, c.roster[rid]) = Others(c.roster[rid], e.user[1]) \cup {e.user}
        /\ TypingBy(e, c.typing[rid]) = c.typing[rid] /\ LogBy(e, c.log[rid]) = c.log[rid]
    BY <1>4 DEF RosterBy, TypingBy, LogBy
  <2> HIDE DEF d
  <2> QED
    BY <1>1, <1>4, <2>1, <2>2 DEF Shaped
<1>5. CASE e.type = "USER_LEFT"
  <2>1. d = [c EXCEPT !.roster[rid] = Others(@, e.sid), !.typing[rid] = @ \ {e.sid}]
    BY <1>5 DEF InRoom
  <2>2. /\ RosterBy(e, c.roster[rid]) = Others(c.roster[rid], e.sid)
        /\ TypingBy(e, c.typing[rid]) = c.typing[rid] \ {e.sid}
        /\ LogBy(e, c.log[rid]) = c.log[rid]
    BY <1>5 DEF RosterBy, TypingBy, LogBy
  <2> HIDE DEF d
  <2> QED
    BY <1>1, <1>5, <2>1, <2>2 DEF Shaped
<1>6. CASE e.type = "TYPING"
  <2>1. d = [c EXCEPT !.typing[rid] = e.sids]
    BY <1>6 DEF InRoom
  <2>2. /\ RosterBy(e, c.roster[rid]) = c.roster[rid] /\ TypingBy(e, c.typing[rid]) = e.sids
        /\ LogBy(e, c.log[rid]) = c.log[rid]
    BY <1>6 DEF RosterBy, TypingBy, LogBy
  <2> HIDE DEF d
  <2> QED
    BY <1>1, <1>6, <2>1, <2>2 DEF Shaped
<1>7. CASE e.type = "MESSAGE"
  <2>1. d = [c EXCEPT !.log[rid] = LastN(Append(@, e.msg))]
    BY <1>7 DEF InRoom
  <2>2. /\ RosterBy(e, c.roster[rid]) = c.roster[rid]
        /\ TypingBy(e, c.typing[rid]) = c.typing[rid]
        /\ LogBy(e, c.log[rid]) = LastN(Append(c.log[rid], e.msg))
    BY <1>7 DEF RosterBy, TypingBy, LogBy
  <2> HIDE DEF d
  <2> QED
    BY <1>1, <1>7, <2>1, <2>2 DEF Shaped
<1>8. CASE e.type \in {"MESSAGE_DM", "MOUSE", "CUSTOM_R", "CUSTOM_U"}
  <2>1. d = c
    BY <1>8 DEF InRoom
  <2>2. /\ RosterBy(e, c.roster[rid]) = c.roster[rid]
        /\ TypingBy(e, c.typing[rid]) = c.typing[rid] /\ LogBy(e, c.log[rid]) = c.log[rid]
    BY <1>8 DEF RosterBy, TypingBy, LogBy
  <2> HIDE DEF d
  <2> QED
    BY <1>1, <1>8, <2>1, <2>2 DEF Shaped
<1> QED
  BY <1>2, <1>3, <1>4, <1>5, <1>6, <1>7, <1>8 DEF Types

\* An event about a room says what the event says.
LEMMA AboutOf ==
    ASSUME NEW rid, NEW rh, NEW e, "rh" \notin DOMAIN e, "room" \notin DOMAIN e
    PROVE  LET ev == About(rid, rh, e)
           IN  ev.rh = rh /\ ev.room = rid /\ \A x \in DOMAIN e : ev[x] = e[x]
  BY DEF About

\* What the users of mem hear about room rid.
Heard(cs, ds, rid, mem, e) ==
    /\ AllShaped(ds)
    /\ \A u \in UserID :
           /\ ds[u].rooms = cs[u].rooms /\ ds[u].misrouted = cs[u].misrouted
           /\ ds[u].renamed = IF u \in mem /\ e.type = "HISTORY" THEN cs[u].renamed \ {rid}
                                                                  ELSE cs[u].renamed
           /\ \A r \in RoomID :
                  /\ ds[u].roster[r] = IF u \in mem /\ r = rid
                                       THEN RosterBy(e, cs[u].roster[r]) ELSE cs[u].roster[r]
                  /\ ds[u].typing[r] = IF u \in mem /\ r = rid
                                       THEN TypingBy(e, cs[u].typing[r]) ELSE cs[u].typing[r]
                  /\ ds[u].log[r] = IF u \in mem /\ r = rid
                                    THEN LogBy(e, cs[u].log[r]) ELSE cs[u].log[r]

LEMMA ReceiveOf ==
    ASSUME NEW c, Shaped(c), NEW rid \in RoomID, NEW ev, ev.type \in Types,
           ev.room = rid, Resolve(c, ev.rh) = rid
    PROVE  Receive(c, ev) = InRoom(c, rid, ev)
<1>1. ev.type # "ROOM"
  BY DEF Types
<1> QED
  BY <1>1 DEF Receive

LEMMA BatchOf ==
    ASSUME NEW cs, AllShaped(cs), NEW rid \in RoomID, NEW mem, NEW e, NEW batch,
           e.type \in Types, DOMAIN batch = mem,
           \A u \in mem : /\ \A ro : RosterBy(batch[u], ro) = RosterBy(e, ro)
                          /\ \A ty : TypingBy(batch[u], ty) = TypingBy(e, ty)
                          /\ \A lg : LogBy(batch[u], lg) = LogBy(e, lg)
                          /\ batch[u].type = e.type
                          /\ batch[u].room = rid /\ Resolve(cs[u], batch[u].rh) = rid
    PROVE  Heard(cs, DeliverBatch(cs, batch), rid, mem, e)
<1> DEFINE ds == DeliverBatch(cs, batch)
<1>1. ds = [u \in UserID |-> IF u \in mem THEN Receive(cs[u], batch[u]) ELSE cs[u]]
  BY DEF DeliverBatch
<1> HIDE DEF ds
<1>2. ASSUME NEW u \in UserID
      PROVE  /\ Shaped(ds[u])
             /\ ds[u].rooms = cs[u].rooms /\ ds[u].misrouted = cs[u].misrouted
             /\ ds[u].renamed = IF u \in mem /\ e.type = "HISTORY" THEN cs[u].renamed \ {rid}
                                                                    ELSE cs[u].renamed
             /\ \A r \in RoomID :
                    /\ ds[u].roster[r] = IF u \in mem /\ r = rid
                                         THEN RosterBy(e, cs[u].roster[r]) ELSE cs[u].roster[r]
                    /\ ds[u].typing[r] = IF u \in mem /\ r = rid
                                         THEN TypingBy(e, cs[u].typing[r]) ELSE cs[u].typing[r]
                    /\ ds[u].log[r] = IF u \in mem /\ r = rid
                                      THEN LogBy(e, cs[u].log[r]) ELSE cs[u].log[r]
  <2>0. Shaped(cs[u])
    BY DEF AllShaped
  <2>1. CASE u \notin mem
    BY <1>1, <2>0, <2>1
  <2>2. CASE u \in mem
    <3> DEFINE c == cs[u]
               ev == batch[u]
    <3>1. ds[u] = Receive(c, ev)
      BY <1>1, <2>2
    <3>2. /\ RosterBy(ev, c.roster[rid]) = RosterBy(e, c.roster[rid])
          /\ TypingBy(ev, c.typing[rid]) = TypingBy(e, c.typing[rid])
          /\ LogBy(ev, c.log[rid]) = LogBy(e, c.log[rid])
          /\ ev.type = e.type /\ ev.room = rid /\ Resolve(c, ev.rh) = rid
      BY <2>2
    <3>3. Shaped(c)
      BY <2>0
    <3> HIDE DEF c, ev
    <3>4. Entered(c, ds[u], rid, ev)
      <4>1. ev.type \in Types
        BY <3>2
      <4>2. ds[u] = InRoom(c, rid, ev)
        BY <3>1, <3>2, <3>3, <4>1, ReceiveOf
      <4> QED
        BY <3>3, <4>1, <4>2, InRoomOf
    <3>5. /\ Shaped(ds[u]) /\ ds[u].rooms = c.rooms /\ ds[u].misrouted = c.misrouted
          /\ ds[u].renamed = IF ev.type = "HISTORY" THEN c.renamed \ {rid} ELSE c.renamed
          /\ ds[u].roster = [c.roster EXCEPT ![rid] = RosterBy(ev, c.roster[rid])]
          /\ ds[u].typing = [c.typing EXCEPT ![rid] = TypingBy(ev, c.typing[rid])]
          /\ ds[u].log = [c.log EXCEPT ![rid] = LogBy(ev, c.log[rid])]
      BY <3>4 DEF Entered
    <3>6. \A r \in RoomID :
              /\ ds[u].roster[r] = IF r = rid THEN RosterBy(ev, c.roster[r]) ELSE c.roster[r]
              /\ ds[u].typing[r] = IF r = rid THEN TypingBy(ev, c.typing[r]) ELSE c.typing[r]
              /\ ds[u].log[r] = IF r = rid THEN LogBy(ev, c.log[r]) ELSE c.log[r]
      BY <3>3, <3>5 DEF Shaped
    <3>7. /\ c.rooms = cs[u].rooms /\ c.misrouted = cs[u].misrouted
          /\ c.renamed = cs[u].renamed /\ c.roster = cs[u].roster /\ c.typing = cs[u].typing
          /\ c.log = cs[u].log
      BY DEF c
    <3> QED
      BY <2>2, <3>2, <3>5, <3>6, <3>7
  <2> QED
    BY <2>1, <2>2
<1>3. ds = [u \in UserID |-> ds[u]]
  BY <1>1
<1>4. AllShaped(ds)
  BY <1>2, <1>3 DEF AllShaped
<1> QED
  BY <1>2, <1>4 DEF Heard, ds

\* An event that is not ROOM, before anybody has a handle for it.
IsEvent(e) ==
    /\ e.type \in Types /\ "rh" \notin DOMAIN e /\ "room" \notin DOMAIN e
    /\ "type" \in DOMAIN e
    /\ e.type = "USER_UPDATE" => "users" \in DOMAIN e
    /\ e.type \in {"USER_JOINED", "USER_CHANGE_NICK"} => "user" \in DOMAIN e
    /\ e.type = "USER_LEFT" => "sid" \in DOMAIN e
    /\ e.type = "TYPING" => "sids" \in DOMAIN e
    /\ e.type = "HISTORY" => "hist" \in DOMAIN e
    /\ e.type = "MESSAGE" => "msg" \in DOMAIN e

LEMMA SameEvent ==
    ASSUME NEW e, IsEvent(e), NEW rid, NEW rh
    PROVE  LET ev == About(rid, rh, e)
           IN  /\ \A ro : RosterBy(ev, ro) = RosterBy(e, ro)
               /\ \A ty : TypingBy(ev, ty) = TypingBy(e, ty)
               /\ \A lg : LogBy(ev, lg) = LogBy(e, lg)
               /\ ev.type = e.type /\ ev.room = rid /\ ev.rh = rh
<1> DEFINE ev == About(rid, rh, e)
<1>1. ev.rh = rh /\ ev.room = rid /\ \A x \in DOMAIN e : ev[x] = e[x]
  BY AboutOf DEF IsEvent
<1> HIDE DEF ev
<1>2. /\ ev.type = e.type
      /\ e.type = "USER_UPDATE" => ev.users = e.users
      /\ e.type \in {"USER_JOINED", "USER_CHANGE_NICK"} => ev.user = e.user
      /\ e.type = "USER_LEFT" => ev.sid = e.sid
      /\ e.type = "TYPING" => ev.sids = e.sids
      /\ e.type = "HISTORY" => ev.hist = e.hist
      /\ e.type = "MESSAGE" => ev.msg = e.msg
  BY <1>1 DEF IsEvent
<1>3. ASSUME NEW ro PROVE RosterBy(ev, ro) = RosterBy(e, ro)
  BY <1>2 DEF RosterBy
<1>4. ASSUME NEW ty PROVE TypingBy(ev, ty) = TypingBy(e, ty)
  BY <1>2 DEF TypingBy
<1>5. ASSUME NEW lg PROVE LogBy(ev, lg) = LogBy(e, lg)
  BY <1>2 DEF LogBy
<1> QED
  BY <1>1, <1>2, <1>3, <1>4, <1>5 DEF ev

\* send_to_room reaches the members whose clients know their handles ...
LEMMA ToRoomHeard ==
    ASSUME TypeOK, HandlesOK, NEW cs, AllShaped(cs), NEW rid \in RoomID,
           NEW mem \in SUBSET UserID,
           \A u \in mem : rid \in RoomsIn(in_rooms[u]) /\ Finds(cs[u], in_rooms[u]),
           NEW e, IsEvent(e)
    PROVE  Heard(cs, DeliverBatch(cs, ToRoom(rid, mem, e)), rid, mem, e)
<1> DEFINE batch == ToRoom(rid, mem, e)
           rh(u) == room_get_rh_by_id(in_rooms[u], rid)
<1>1. DOMAIN batch = mem /\ \A u \in mem : batch[u] = About(rid, rh(u), e)
  BY DEF ToRoom
<1>2. ASSUME NEW u \in mem PROVE Resolve(cs[u], rh(u)) = rid
  <2>1. /\ rh(u) \in Nat /\ rh(u) + 1 \in DOMAIN in_rooms[u]
        /\ in_rooms[u][rh(u) + 1] = rid
    <3>1. in_rooms[u] \in Vector /\ Len(in_rooms[u]) <= MaxRooms
      BY DEF TypeOK, HandlesOK
    <3> QED
      BY <3>1, HandleOf
  <2> HIDE DEF rh
  <2> QED
    BY <2>1, RoomHandlesAssumption DEF Resolve, Finds
<1> HIDE DEF batch, rh
<1>3. ASSUME NEW u \in mem
      PROVE  /\ \A ro : RosterBy(batch[u], ro) = RosterBy(e, ro)
             /\ \A ty : TypingBy(batch[u], ty) = TypingBy(e, ty)
             /\ \A lg : LogBy(batch[u], lg) = LogBy(e, lg)
             /\ batch[u].type = e.type
             /\ batch[u].room = rid /\ Resolve(cs[u], batch[u].rh) = rid
  BY <1>1, <1>2, SameEvent
<1>4. e.type \in Types
  BY DEF IsEvent
<1>5. Heard(cs, DeliverBatch(cs, batch), rid, mem, e)
  BY <1>1, <1>3, <1>4, BatchOf
<1> QED
  BY <1>5 DEF batch

\* ... and what is sent to a single one of them reaches that one.
LEMMA ToOneHeard ==
    ASSUME NEW cs, AllShaped(cs), NEW rid \in RoomID, NEW sid, NEW rh,
           Resolve(cs[sid], rh) = rid, NEW e, IsEvent(e)
    PROVE  Heard(cs, DeliverBatch(cs, ToUser(sid, About(rid, rh, e))), rid, {sid}, e)
<1> DEFINE batch == ToUser(sid, About(rid, rh, e))
<1>1. DOMAIN batch = {sid} /\ \A u \in {sid} : batch[u] = About(rid, rh, e)
  BY DEF ToUser
<1> HIDE DEF batch
<1>2. ASSUME NEW u \in {sid}
      PROVE  /\ \A ro : RosterBy(batch[u], ro) = RosterBy(e, ro)
             /\ \A ty : TypingBy(batch[u], ty) = TypingBy(e, ty)
             /\ \A lg : LogBy(batch[u], lg) = LogBy(e, lg)
             /\ batch[u].type = e.type
             /\ batch[u].room = rid /\ Resolve(cs[u], batch[u].rh) = rid
  BY <1>1, SameEvent
<1>3. e.type \in Types
  BY DEF IsEvent
<1>4. Heard(cs, DeliverBatch(cs, batch), rid, {sid}, e)
  BY <1>1, <1>2, <1>3, BatchOf
<1> QED
  BY <1>4 DEF batch

\* A client keeps its handles, whatever it hears.
LEMMA HeardFinds ==
    ASSUME NEW cs, NEW ds, NEW rid, NEW mem, NEW e, Heard(cs, ds, rid, mem, e),
           NEW u \in UserID, NEW array, Finds(cs[u], array)
    PROVE  Finds(ds[u], array)
  BY DEF Heard, Finds

\* What the logs are when msg has been sent to the users of mem in room rid, and
\* when nothing has that a log holds.
Said(cs, ds, rid, mem, msg) ==
    \A u \in UserID, r \in RoomID :
        ds[u].log[r] = IF u \in mem /\ r = rid THEN LastN(Append(cs[u].log[r], msg))
                                              ELSE cs[u].log[r]
SameLogs(cs, ds) == \A u \in UserID, r \in RoomID : ds[u].log[r] = cs[u].log[r]

LEMMA SaidHeard ==
    ASSUME NEW cs, NEW ds, NEW rid, NEW mem, NEW msg,
           Heard(cs, ds, rid, mem, [type |-> "MESSAGE", msg |-> msg])
    PROVE  Said(cs, ds, rid, mem, msg)
<1> DEFINE e == [type |-> "MESSAGE", msg |-> msg]
<1>1. \A lg : LogBy(e, lg) = LastN(Append(lg, msg))
  BY DEF LogBy
<1> HIDE DEF e
<1>2. Heard(cs, ds, rid, mem, e)
  BY DEF e
<1> QED
  BY <1>1, <1>2 DEF Heard, Said

LEMMA NothingSaid ==
    ASSUME NEW cs, NEW ds, NEW rid, NEW mem, NEW e, Heard(cs, ds, rid, mem, e),
           e.type \notin {"HISTORY", "MESSAGE"}
    PROVE  SameLogs(cs, ds)
<1>1. \A lg : LogBy(e, lg) = lg
  BY DEF LogBy
<1>2. \A u \in UserID, r \in RoomID :
          ds[u].log[r] = IF u \in mem /\ r = rid THEN LogBy(e, cs[u].log[r]) ELSE cs[u].log[r]
  BY DEF Heard
<1> QED
  BY <1>1, <1>2 DEF SameLogs

\* The events that no list depends on.
Talk == {"MESSAGE", "MESSAGE_DM", "MOUSE", "CUSTOM_R", "CUSTOM_U"}

\* ROOM tells a client its handles; what it knows of the rooms it stays in it
\* keeps.
Opened(cs, ds, sid, array) ==
    /\ AllShaped(ds)
    /\ \A u \in UserID \ {sid} : ds[u] = cs[u]
    /\ ds[sid].rooms = array /\ ds[sid].misrouted = cs[sid].misrouted
    /\ ds[sid].renamed = cs[sid].renamed
    /\ \A r \in RoomsIn(array) : /\ ds[sid].roster[r] = cs[sid].roster[r]
                                 /\ ds[sid].typing[r] = cs[sid].typing[r]
    /\ \A r \in RoomID : ds[sid].log[r] = IF r \in RoomsIn(array) THEN cs[sid].log[r] ELSE <<>>

LEMMA RoomOpened ==
    ASSUME NEW cs, AllShaped(cs), NEW sid \in UserID, NEW array \in Vector
    PROVE  Opened(cs, DeliverBatch(cs, ToUser(sid, [type |-> "ROOM", rooms |-> array])),
                  sid, array)
<1> DEFINE batch == ToUser(sid, [type |-> "ROOM", rooms |-> array])
           ds == DeliverBatch(cs, batch)
           c == cs[sid]
           kept(f, empty) == [r \in RoomID |-> IF r \in RoomsIn(array) THEN f[r] ELSE empty]
           d == [rooms |-> array, roster |-> kept(c.roster, {}), typing |-> kept(c.typing, {}),
                 log |-> kept(c.log, <<>>), misrouted |-> c.misrouted, renamed |-> c.renamed]
<1>1. DOMAIN batch = {sid} /\ batch[sid] = [type |-> "ROOM", rooms |-> array]
  BY DEF ToUser
<1>2. ds = [u \in UserID |-> IF u = sid THEN Receive(c, batch[sid]) ELSE cs[u]]
  BY <1>1 DEF DeliverBatch
<1>3. Shaped(c)
  BY DEF AllShaped
<1>4. Receive(c, batch[sid]) = d
  <2>1. Receive(c, batch[sid]) = OpenRooms(c, array)
    BY <1>1 DEF Receive
  <2> HIDE DEF c, batch
  <2>2. OpenRooms(c, array) =
            [c EXCEPT !.rooms = array, !.roster = kept(c.roster, {}),
                      !.typing = kept(c.typing, {}), !.log = kept(c.log, <<>>)]
    <3>1. /\ c.roster = c["roster"] /\ c.typing = c["typing"] /\ c.log = c["log"]
      OBVIOUS
    <3> QED
      BY <1>3, <3>1, Zenon DEF OpenRooms
  <2>3. OpenRooms(c, array) = d
    <3> DEFINE roster == kept(c.roster, {})
               typing == kept(c.typing, {})
               log == kept(c.log, <<>>)
    <3>1. OpenRooms(c, array) =
              [c EXCEPT !.rooms = array, !.roster = roster, !.typing = typing, !.log = log]
      BY <2>2
    <3>2. d = [rooms |-> array, roster |-> roster, typing |-> typing, log |-> log,
               misrouted |-> c.misrouted, renamed |-> c.renamed]
      OBVIOUS
    <3> HIDE DEF roster, typing, log, d
    <3> QED
      BY <1>3, <3>1, <3>2 DEF Shaped
  <2> QED
    BY <2>1, <2>3
<1>5. RoomsIn(array) \subseteq RoomID
  BY VectorAsFunction DEF RoomsIn
<1>6. /\ Shaped(d) /\ d.rooms = array /\ d.misrouted = c.misrouted /\ d.renamed = c.renamed
      /\ \A r \in RoomsIn(array) : d.roster[r] = c.roster[r] /\ d.typing[r] = c.typing[r]
      /\ \A r \in RoomID : d.log[r] = IF r \in RoomsIn(array) THEN c.log[r] ELSE <<>>
  <2> HIDE DEF c
  <2> QED
    BY <1>5 DEF Shaped
<1> HIDE DEF ds, d, batch
<1>7. AllShaped(ds)
  BY <1>2, <1>4, <1>6 DEF AllShaped
<1> QED
  BY <1>2, <1>4, <1>6, <1>7 DEF Opened, ds, batch
------------------------------------------------------------------------------
(* Steps that change what nobody keeps a list of. *)

\* The rooms and lists of the clients are what they were.
SameLists(cs, ds) ==
    /\ AllShaped(ds)
    /\ \A u \in UserID :
           /\ ds[u].rooms = cs[u].rooms /\ ds[u].misrouted = cs[u].misrouted
           /\ ds[u].renamed = cs[u].renamed
           /\ \A r \in RoomID : /\ ds[u].roster[r] = cs[u].roster[r]
                                /\ ds[u].typing[r] = cs[u].typing[r]

LEMMA TalkHeard ==
    ASSUME NEW cs, NEW ds, NEW rid, NEW mem, NEW e, Heard(cs, ds, rid, mem, e), e.type \in Talk
    PROVE  SameLists(cs, ds)
<1>1. \A ro : RosterBy(e, ro) = ro
  BY DEF Talk, RosterBy
<1>2. \A ty : TypingBy(e, ty) = ty
  BY DEF Talk, TypingBy
<1>3. e.type # "HISTORY"
  BY DEF Talk
<1> QED
  BY <1>1, <1>2, <1>3 DEF Heard, SameLists

LEMMA TalkEvents ==
    ASSUME NEW x
    PROVE  /\ \A ty \in {"MESSAGE", "MESSAGE_DM"} : LET e == [type |-> ty, msg |-> x]
                                                    IN  IsEvent(e) /\ e.type \in Talk
           /\ \A ty \in {"MOUSE", "CUSTOM_R", "CUSTOM_U"} : LET e == [type |-> ty, sid |-> x]
                                                            IN  IsEvent(e) /\ e.type \in Talk
  BY DEF IsEvent, Types, Talk

\* The members of a room have handles for it.
Reachable(cs, rid, mem) ==
    /\ mem \in SUBSET UserID
    /\ \A u \in mem : rid \in RoomsIn(in_rooms[u]) /\ Finds(cs[u], in_rooms[u])

LEMMA Reached ==
    ASSUME TypeOK, IInv, InStep, NEW rid \in RoomID, NEW mem, mem \subseteq members[rid],
           task.op = "disconnect" => task.sid \notin mem, \A u \in mem : ~ Unread(u)
    PROVE  Reachable(client, rid, mem)
<1>1. mem \subseteq UserID
  BY DEF TypeOK
<1>2. \A u \in mem : rid \in RoomsIn(in_rooms[u])
  BY MemberIsUser
<1> QED
  BY <1>1, <1>2 DEF Reachable, InStep

LEMMA StillReachable ==
    ASSUME NEW cs, NEW ds, NEW r, NEW mem, NEW e, Heard(cs, ds, r, mem, e),
           NEW rid, NEW mem2, Reachable(cs, rid, mem2)
    PROVE  Reachable(ds, rid, mem2)
  BY HeardFinds DEF Reachable

LEMMA RoomsType ==
    ASSUME TypeOK, NEW u \in UserID PROVE RoomsIn(in_rooms[u]) \subseteq RoomID
<1>1. in_rooms[u] \in Vector
  BY DEF TypeOK
<1> QED
  BY <1>1, VectorAsFunction DEF RoomsIn

LEMMA QuietReplicas ==
    ASSUME TypeOK, InStep, NeverMisrouted, SameLists(client, client'),
           UNCHANGED <<in_rooms, members, profile, task>>,
           \A u \in UserID, r \in RoomID :
               client[u].typing[r] \subseteq get_typing(members[r], typing_timer[r])
                   => client[u].typing[r] \subseteq get_typing(members[r], typing_timer'[r])
    PROVE  Replicas'
<1>1. AllShaped(client') /\ NeverMisrouted'
  BY DEF SameLists, NeverMisrouted
<1>2. DoneOK'
  BY DEF InStep, DoneOK, Pending
<1>3. \A r \in RoomID : Unannounced(r)' = Unannounced(r) /\ Excused(r)' = Excused(r)
  BY DEF Unannounced, Pending, Changing, Excused, SameLists
<1>4. \A u \in UserID, r \in RoomID : Knows(u, r) => Knows(u, r)'
  BY <1>3 DEF Knows, SameLists
<1> QED
  <2>1. \A u \in UserID : \A r \in RoomsIn(in_rooms'[u]) :
            u \notin Unannounced(r)' => Knows(u, r)'
    BY <1>3, <1>4, RoomsType DEF InStep
  <2>2. \A u \in UserID : ~ Unread(u)' => Finds(client'[u], in_rooms'[u])
    BY DEF InStep, Unread, Finds, SameLists
  <2> QED
    BY <1>1, <1>2, <2>1, <2>2 DEF Replicas, InStep

\* Requests about a room, of which a talker without a loop has the state.
LEMMA RequestIdle ==
    ASSUME TypeOK, IInv, Replicas, NEW op, NEW sid \in UserID, NEW h, MemberRequest(op, sid, h)
    PROVE  /\ InStep /\ AllShaped(client) /\ NeverMisrouted
           /\ UNCHANGED <<in_rooms, members, profile, task>> /\ task.op = "idle"
           /\ in_rooms[sid][h] \in RoomID
           /\ Reachable(client, in_rooms[sid][h], members[in_rooms[sid][h]])
<1>1. /\ UNCHANGED <<in_rooms, members, profile, task>> /\ task.op = "idle" /\ panicked = None
  BY IdleOrLoop DEF MemberRequest, Ready
<1>2. in_rooms[sid][h] \in RoomID
  BY HandleType DEF MemberRequest
<1>3. InStep /\ AllShaped(client) /\ NeverMisrouted
  BY <1>1 DEF Replicas
<1>4. \A u \in UserID : ~ Unread(u)
  BY <1>1 DEF Unread
<1>5. members[in_rooms[sid][h]] \in SUBSET UserID
  BY <1>2 DEF TypeOK
<1>6. Reachable(client, in_rooms[sid][h], members[in_rooms[sid][h]])
  BY <1>1, <1>2, <1>3, <1>4, <1>5, Reached
<1> QED
  BY <1>1, <1>2, <1>3, <1>6

LEMMA SendHeard ==
    ASSUME TypeOK, IInv, NEW cs, AllShaped(cs), NEW rid \in RoomID, NEW mem,
           Reachable(cs, rid, mem), NEW e, IsEvent(e)
    PROVE  Heard(cs, DeliverBatch(cs, ToRoom(rid, mem, e)), rid, mem, e)
<1>1. HandlesOK
  BY DEF IInv
<1> QED
  BY <1>1, ToRoomHeard DEF Reachable

\* One event that no list depends on, or none.
LEMMA TalkStep ==
    ASSUME TypeOK, IInv, InStep, AllShaped(client), NeverMisrouted,
           UNCHANGED <<in_rooms, members, profile, task, typing_timer>>,
           NEW rid \in RoomID, NEW mem, Reachable(client, rid, mem),
           NEW e, IsEvent(e), e.type \in Talk,
           Deliver(<<ToRoom(rid, mem, e)>>) \/ Deliver(<<>>)
    PROVE  Replicas'
<1>1. SameLists(client, client')
  <2>1. CASE Deliver(<<ToRoom(rid, mem, e)>>)
    <3>1. client' = DeliverBatch(client, ToRoom(rid, mem, e))
      BY <2>1, DeliverOne
    <3> QED
      BY <3>1, SendHeard, TalkHeard
  <2>2. CASE Deliver(<<>>)
    BY <2>2, DeliverNone DEF SameLists
  <2> QED
    BY <2>1, <2>2
<1> QED
  BY <1>1, QuietReplicas

LEMMA ClientMessage ==
    ASSUME TypeOK, IInv, Replicas, NEW sid \in UserID, NEW h,
           ReqMessage(sid, h) \/ ReqMouse(sid, h) \/ ReqCustomR(sid, h)
    PROVE  Replicas'
<1> DEFINE rid == in_rooms[sid][h]
<1>1. PICK op : MemberRequest(op, sid, h)
  BY DEF ReqMessage, ReqMouse, ReqCustomR
<1>2. /\ InStep /\ AllShaped(client) /\ NeverMisrouted
      /\ UNCHANGED <<in_rooms, members, profile, task>> /\ rid \in RoomID
      /\ Reachable(client, rid, members[rid])
  BY <1>1, RequestIdle
<1>3. UNCHANGED typing_timer
  BY DEF ReqMessage, ReqMouse, ReqCustomR
<1>4. PICK e : IsEvent(e) /\ e.type \in Talk /\ Deliver(<<ToRoom(rid, members[rid], e)>>)
  <2>1. CASE ReqMessage(sid, h)
    BY <2>1, TalkEvents DEF ReqMessage, MessageTo
  <2>2. CASE ReqMouse(sid, h) \/ ReqCustomR(sid, h)
    BY <2>2, TalkEvents DEF ReqMouse, ReqCustomR
  <2> QED
    BY <2>1, <2>2
<1> HIDE DEF rid
<1> QED
  BY <1>2, <1>3, <1>4, TalkStep

LEMMA ClientPrivate ==
    ASSUME TypeOK, IInv, Replicas, NEW sid \in UserID, NEW h, NEW target \in UserID,
           ReqMessageDM(sid, h, target) \/ ReqCustomU(sid, h, target)
    PROVE  Replicas'
<1> DEFINE rid == in_rooms[sid][h]
           there == target \in users /\ rid \in RoomsIn(in_rooms[target])
<1>1. PICK op : MemberRequest(op, sid, h)
  BY DEF ReqMessageDM, ReqCustomU
<1>2. /\ InStep /\ AllShaped(client) /\ NeverMisrouted
      /\ UNCHANGED <<in_rooms, members, profile, task>> /\ rid \in RoomID
      /\ Reachable(client, rid, members[rid])
  BY <1>1, RequestIdle
<1>3. UNCHANGED typing_timer
  BY DEF ReqMessageDM, ReqCustomU
<1>4. sid \in members[rid] /\ (there => target \in members[rid])
  <2>1. rid \in RoomsIn(in_rooms[sid])
    BY <1>1, HandleType DEF MemberRequest
  <2> QED
    BY <2>1, RoomsOfUser
<1>5. there => Reachable(client, rid, {sid, target}) /\ Reachable(client, rid, {target})
  BY <1>2, <1>4 DEF Reachable
<1>6. Reachable(client, rid, {})
  BY DEF Reachable
<1>7. PICK e, mem : /\ IsEvent(e) /\ e.type \in Talk /\ Reachable(client, rid, mem)
                    /\ Deliver(<<ToRoom(rid, mem, e)>>) \/ Deliver(<<>>)
  <2>1. CASE ReqMessageDM(sid, h, target)
    <3>1. PICK msg : Deliver(IF there
                         THEN <<ToRoom(rid, {sid, target}, [type |-> "MESSAGE_DM", msg |-> msg])>>
                         ELSE <<>>)
      BY <2>1 DEF ReqMessageDM
    <3> DEFINE e == [type |-> "MESSAGE_DM", msg |-> msg]
    <3>2. IsEvent(e) /\ e.type \in Talk
      BY TalkEvents
    <3> HIDE DEF e, there, rid
    <3>3. CASE there
      BY <1>5, <3>1, <3>2, <3>3 DEF e
    <3>4. CASE ~ there
      BY <1>6, <3>1, <3>2, <3>4
    <3> QED
      BY <3>3, <3>4
  <2>2. CASE ReqCustomU(sid, h, target)
    <3>1. there /\ Deliver(<<ToRoom(rid, {target}, [type |-> "CUSTOM_U", sid |-> sid])>>)
      BY <2>2 DEF ReqCustomU
    <3> QED
      BY <1>5, <3>1, TalkEvents
  <2> QED
    BY <2>1, <2>2
<1> HIDE DEF rid
<1> QED
  BY <1>2, <1>3, <1>7, TalkStep

\* Whoever is not said to have stopped typing types still.
StillTyping(r) == get_typing(members[r], typing_timer[r])
                      \subseteq get_typing(members[r], typing_timer'[r])

\* TYPING in room rid: everybody in the room shows the same users as typing.
TypingHeard(cs, ds, rid) ==
    /\ AllShaped(ds)
    /\ \A u \in UserID :
           /\ ds[u].rooms = cs[u].rooms /\ ds[u].misrouted = cs[u].misrouted
           /\ ds[u].renamed = cs[u].renamed
           /\ \A r \in RoomID :
                  /\ ds[u].roster[r] = cs[u].roster[r]
                  /\ ds[u].typing[r] = IF u \in members[r] /\ r = rid
                                       THEN get_typing(members[rid], typing_timer'[rid])
                                       ELSE cs[u].typing[r]
                  /\ ds[u].log[r] = cs[u].log[r]

LEMMA TypingSent ==
    ASSUME TypeOK, IInv, NEW cs, AllShaped(cs), NEW rid \in RoomID,
           Reachable(cs, rid, members[rid])
    PROVE  TypingHeard(cs, DeliverBatch(cs, ToRoom(rid, members[rid],
                                                   TypingIn(rid, typing_timer'))), rid)
<1> DEFINE e == TypingIn(rid, typing_timer')
           ds == DeliverBatch(cs, ToRoom(rid, members[rid], e))
<1>1. IsEvent(e) /\ e.type = "TYPING" /\ e.sids = get_typing(members[rid], typing_timer'[rid])
  BY DEF TypingIn, IsEvent, Types
<1>2. Heard(cs, ds, rid, members[rid], e)
  <2> HIDE DEF e
  <2> QED
    BY <1>1, SendHeard
<1> HIDE DEF ds, e
<1>3. \A ro : RosterBy(e, ro) = ro
  BY <1>1 DEF RosterBy
<1>4. \A ty : TypingBy(e, ty) = get_typing(members[rid], typing_timer'[rid])
  BY <1>1 DEF TypingBy
<1>5. e.type # "HISTORY"
  BY <1>1
<1>6. \A lg : LogBy(e, lg) = lg
  BY <1>1 DEF LogBy
<1>7. TypingHeard(cs, ds, rid)
  BY <1>2, <1>3, <1>4, <1>5, <1>6 DEF Heard, TypingHeard
<1> QED
  BY <1>7 DEF ds, e

\* A step at the end of which the typing lists of some rooms are as sent, and in
\* the others whoever was typing still is.
TypingTold(cs, S) ==
    /\ AllShaped(cs)
    /\ \A u \in UserID :
           /\ cs[u].rooms = client[u].rooms /\ cs[u].misrouted = client[u].misrouted
           /\ cs[u].renamed = client[u].renamed
           /\ \A r \in RoomID :
                  /\ cs[u].roster[r] = client[u].roster[r]
                  /\ cs[u].typing[r] = IF u \in members[r] /\ r \in S
                                       THEN get_typing(members[r], typing_timer'[r])
                                       ELSE client[u].typing[r]
                  /\ cs[u].log[r] = client[u].log[r]

LEMMA TypingStep ==
    ASSUME TypeOK, IInv, InStep, NeverMisrouted, task.op = "idle",
           UNCHANGED <<in_rooms, members, profile, task>>,
           NEW S, TypingTold(client', S), \A r \in RoomID : r \notin S => StillTyping(r)
    PROVE  Replicas'
<1>1. AllShaped(client') /\ NeverMisrouted'
  BY DEF TypingTold, NeverMisrouted
<1>2. DoneOK'
  BY DEF InStep, DoneOK, Pending
<1>3. \A r \in RoomID : Unannounced(r)' = Unannounced(r) /\ Excused(r)' = Excused(r)
  BY DEF Unannounced, Pending, Changing, Excused, TypingTold
<1>4. ASSUME NEW u \in UserID, NEW r \in RoomsIn(in_rooms[u]), Knows(u, r) PROVE Knows(u, r)'
  <2>1. r \in RoomID /\ u \in members[r]
    BY RoomsOfUser
  <2>2. client'[u].typing[r] \subseteq get_typing(members[r], typing_timer'[r])
    BY <1>4, <2>1 DEF Knows, TypingTold, StillTyping
  <2> QED
    BY <1>3, <1>4, <2>1, <2>2 DEF Knows, TypingTold
<1>5. \A u \in UserID : \A r \in RoomsIn(in_rooms'[u]) : u \notin Unannounced(r)' => Knows(u, r)'
  BY <1>3, <1>4, RoomsType DEF InStep
<1>6. \A u \in UserID : ~ Unread(u)' => Finds(client'[u], in_rooms'[u])
  BY DEF InStep, Unread, Finds, TypingTold
<1> QED
  BY <1>1, <1>2, <1>5, <1>6 DEF Replicas, InStep

LEMMA ClientTyping ==
    ASSUME TypeOK, IInv, Replicas, NEW sid \in UserID, NEW h, NEW is_typing \in BOOLEAN,
           ReqTyping(sid, h, is_typing)
    PROVE  Replicas' /\ \E S : TypingTold(client', S)
<1> DEFINE rid == in_rooms[sid][h]
           changed == (typing_timer[rid][sid] # 0) # is_typing
<1>1. MemberRequest("TYPING", sid, h)
  BY DEF ReqTyping
<1>2. /\ InStep /\ AllShaped(client) /\ NeverMisrouted
      /\ UNCHANGED <<in_rooms, members, profile, task>> /\ task.op = "idle" /\ rid \in RoomID
      /\ Reachable(client, rid, members[rid])
  BY <1>1, RequestIdle
<1>3. /\ typing_timer' = [typing_timer EXCEPT ![rid][sid] = IF is_typing THEN RoomTypingTimer
                                                                         ELSE 0]
      /\ Deliver(IF changed THEN <<ToRoom(rid, members[rid], TypingIn(rid, typing_timer'))>>
                            ELSE <<>>)
  BY DEF ReqTyping
<1> HIDE DEF rid
<1>4. \A r \in RoomID : r # rid => StillTyping(r)
  BY <1>2, <1>3 DEF StillTyping, TypeOK
<1>5. CASE changed
  <2>1. client' = DeliverBatch(client, ToRoom(rid, members[rid], TypingIn(rid, typing_timer')))
    BY <1>3, <1>5, DeliverOne
  <2>2. TypingHeard(client, client', rid)
    BY <1>2, <2>1, TypingSent
  <2>3. TypingTold(client', {rid})
    BY <2>2 DEF TypingHeard, TypingTold
  <2>4. \A r \in RoomID : r \notin {rid} => StillTyping(r)
    BY <1>4
  <2> QED
    BY <1>2, <2>3, <2>4, TypingStep
<1>6. CASE ~ changed
  <2>1. client' = client
    BY <1>3, <1>6, DeliverNone
  <2>2. TypingTold(client', {})
    BY <1>2, <2>1 DEF TypingTold
  <2>3. typing_timer[rid][sid] \in 0 .. RoomTypingTimer /\ RoomTypingTimer \in Nat
    BY <1>2, TalkerAssumption DEF TypeOK
  <2>4. typing_timer[rid][sid] # 0 => typing_timer'[rid][sid] # 0
    <3>1. typing_timer'[rid][sid] = IF is_typing THEN RoomTypingTimer ELSE 0
      BY <1>2, <1>3 DEF TypeOK
    <3>2. typing_timer[rid][sid] # 0 => is_typing
      BY <1>6
    <3> QED
      BY <2>3, <3>1, <3>2
  <2>5. \A u \in UserID : u # sid => typing_timer'[rid][u] = typing_timer[rid][u]
    BY <1>2, <1>3 DEF TypeOK
  <2>6. StillTyping(rid)
    BY <1>2, <2>4, <2>5 DEF StillTyping, get_typing, TypeOK
  <2> QED
    BY <1>2, <1>4, <2>2, <2>6, TypingStep
<1> QED
  BY <1>5, <1>6
------------------------------------------------------------------------------
(* The timer. *)

LEMMA SomeOrder ==
    ASSUME NEW S, IsFiniteSet(S)
    PROVE  /\ Cardinality(S) \in Nat
           /\ \A i \in 1 .. Cardinality(S) : InSomeOrder(S)[i] \in S
           /\ \A x \in S : \E i \in 1 .. Cardinality(S) : InSomeOrder(S)[i] = x
<1> DEFINE n == Cardinality(S)
           Covers(f) == \A x \in S : \E i \in DOMAIN f : f[i] = x
<1>1. n \in Nat /\ \E g \in [1 .. n -> S] : \A x \in S : \E i \in 1 .. n : g[i] = x
  BY Enumerated
<1>2. PICK g \in [1 .. n -> S] : \A x \in S : \E i \in 1 .. n : g[i] = x
  BY <1>1
<1>3. DOMAIN g = 1 .. n
  OBVIOUS
<1>4. Covers(g)
  BY <1>2, <1>3
<1>5. InSomeOrder(S) = CHOOSE f \in [1 .. n -> S] : Covers(f)
  BY DEF InSomeOrder
<1> DEFINE o == CHOOSE f \in [1 .. n -> S] : Covers(f)
<1>6. o \in [1 .. n -> S] /\ Covers(o)
  BY <1>4
<1> HIDE DEF n, o
<1>7. \A i \in 1 .. n : o[i] \in S
  BY <1>6
<1>8. \A x \in S : \E i \in 1 .. n : o[i] = x
  BY <1>6
<1> QED
  BY <1>1, <1>5, <1>7, <1>8 DEF n, o

\* Rooms that nobody is told about have nobody in them who has stopped typing.
LEMMA NotStopped ==
    ASSUME TypeOK, IInv, EverySecond, NEW r \in RoomID, r \notin Stopped PROVE StillTyping(r)
<1>1. typing_timer' = [q \in RoomID |-> [u \in UserID |-> saturating_sub1(typing_timer[q][u])]]
  BY DEF EverySecond
<1>2. ASSUME NEW u \in members[r], typing_timer[r][u] # 0 PROVE typing_timer'[r][u] # 0
  <2>1. u \in UserID /\ r \in rooms
    BY DEF TypeOK, IInv, MembersAgree
  <2>2. typing_timer[r][u] # 1
    BY <2>1 DEF Stopped
  <2>3. typing_timer[r][u] \in Nat
    BY <2>1, TalkerAssumption DEF TypeOK
  <2>4. typing_timer'[r][u] = saturating_sub1(typing_timer[r][u])
    BY <1>1, <2>1
  <2> QED
    BY <1>2, <2>2, <2>3, <2>4 DEF saturating_sub1
<1> QED
  BY <1>2 DEF StillTyping, get_typing

LEMMA ClientEverySecond ==
    ASSUME TypeOK, IInv, Replicas, FiniteOK, EverySecond
    PROVE  Replicas' /\ \E S : TypingTold(client', S)
<1> DEFINE n == Cardinality(Stopped)
           room(i) == InSomeOrder(Stopped)[i]
           batch(i) == ToRoom(room(i), members[room(i)], TypingIn(room(i), typing_timer'))
           batches == [i \in 1 .. n |-> batch(i)]
<1>1. /\ UNCHANGED <<in_rooms, members, profile, task>> /\ task.op = "idle" /\ panicked = None
      /\ Deliver(batches)
  BY IdleOrLoop DEF EverySecond
<1>2. InStep /\ AllShaped(client) /\ NeverMisrouted
  BY <1>1 DEF Replicas
<1>3. Stopped \in SUBSET rooms /\ \A r \in Stopped : r \in RoomID
  BY DEF Stopped, TypeOK
<1>4. IsFiniteSet(Stopped)
  BY <1>3, FS_Subset DEF FiniteOK
<1>5. /\ n \in Nat /\ \A i \in 1 .. n : room(i) \in Stopped
      /\ \A r \in Stopped : \E i \in 1 .. n : room(i) = r
  BY <1>4, SomeOrder
<1> HIDE DEF n, room
<1>6. Len(batches) = n /\ \A i \in 1 .. n : batches[i] = batch(i)
  BY <1>5
<1> HIDE DEF batch, batches
<1>7. PICK f : Sending(batches, f) /\ client' = f[n]
  BY <1>1, <1>5, <1>6, DeliverIs
<1>8. f[0] = client /\ \A i \in 1 .. n : f[i] = DeliverBatch(f[i - 1], batch(i))
  BY <1>6, <1>7 DEF Sending
<1> DEFINE told(k) == {room(i) : i \in 1 .. k}
           T == {k \in Nat : k <= n => TypingTold(f[k], told(k))}
<1>9. \A r \in RoomID : Reachable(client, r, members[r])
  <2>1. \A u \in UserID : ~ Unread(u)
    BY <1>1 DEF Unread
  <2>2. \A r \in RoomID : members[r] \subseteq members[r] /\ members[r] \subseteq UserID
    BY DEF TypeOK
  <2> QED
    BY <1>1, <1>2, <2>1, <2>2, Reached
<1>10. 0 \in T
  <2>1. told(0) = {}
    OBVIOUS
  <2> HIDE DEF told
  <2>2. TypingTold(f[0], {})
    BY <1>2, <1>8 DEF TypingTold
  <2> QED
    BY <2>1, <2>2
<1>11. ASSUME NEW k \in Nat, k \in T PROVE k + 1 \in T
  <2> SUFFICES ASSUME k + 1 <= n PROVE TypingTold(f[k + 1], told(k + 1))
    OBVIOUS
  <2>1. TypingTold(f[k], told(k)) /\ k + 1 \in 1 .. n /\ (k + 1) - 1 = k
    BY <1>5, <1>11
  <2>2. told(k + 1) = told(k) \cup {room(k + 1)}
    <3>1. 1 .. k + 1 = (1 .. k) \cup {k + 1}
      OBVIOUS
    <3> QED
      BY <3>1
  <2>3. room(k + 1) \in RoomID
    BY <1>3, <1>5, <2>1
  <2> DEFINE r == room(k + 1)
             S == told(k)
             S2 == told(k + 1)
             cs == f[k]
             ds == f[k + 1]
  <2>4. ds = DeliverBatch(cs, ToRoom(r, members[r], TypingIn(r, typing_timer')))
    BY <1>8, <2>1 DEF batch
  <2>5. r \in RoomID /\ S2 = S \cup {r} /\ TypingTold(cs, S)
    BY <2>1, <2>2, <2>3
  <2> HIDE DEF r, S, S2, cs, ds, told
  <2>6. Reachable(cs, r, members[r]) /\ AllShaped(cs)
    BY <1>9, <2>5 DEF Reachable, Finds, TypingTold
  <2>7. TypingHeard(cs, ds, r)
    BY <2>4, <2>5, <2>6, TypingSent
  <2>8. TypingTold(ds, S2)
    BY <2>5, <2>7 DEF TypingHeard, TypingTold
  <2> QED
    BY <2>8 DEF ds, S2
<1>12. n \in T
  <2> HIDE DEF T
  <2> QED
    BY <1>5, <1>10, <1>11, Successors
<1>13. TypingTold(client', told(n))
  BY <1>5, <1>7, <1>12
<1>14. Stopped \subseteq told(n)
  BY <1>5
<1> HIDE DEF told
<1>15. \A r \in RoomID : r \notin told(n) => StillTyping(r)
  BY <1>14, NotStopped
<1> QED
  BY <1>1, <1>2, <1>13, <1>15, TypingStep
------------------------------------------------------------------------------
(* Requests that begin a loop. *)

LEMMA NoDone ==
    ASSUME NEW t, t.done = <<>> PROVE Pending(t) = {}
  BY DEF Pending

LEMMA NoDoneOK ==
    ASSUME task'.done = <<>>,
           task'.op = "room_join" /\ HasNext(task'.todo) => task'.todo = <<task'.rid>>
    PROVE  DoneOK' /\ Pending(task') = {} /\ \A r : Unannounced(r)' = {}
<1>1. Pending(task') = {} /\ DOMAIN task'.done = {}
  BY NoDone
<1>2. \A r : Unannounced(r)' = {}
  BY <1>1 DEF Unannounced
<1> QED
  BY <1>1, <1>2 DEF DoneOK

LEMMA NobodyWaits ==
    ASSUME InStep, task.done = <<>>
    PROVE  Pending(task) = {} /\ \A r : Unannounced(r) = {}
<1>1. Pending(task) = {}
  BY NoDone
<1> QED
  BY <1>1 DEF Unannounced

\* A step that changes no list, but maybe profiles, and who is excused.
LEMMA LoopStep ==
    ASSUME TypeOK, IInv, InStep, NeverMisrouted, AllShaped(client'),
           UNCHANGED <<members, typing_timer>>, task.done = <<>>, task'.done = <<>>,
           task'.op = "room_join" /\ HasNext(task'.todo) => task'.todo = <<task'.rid>>,
           \A u \in UserID :
               /\ RoomsIn(in_rooms'[u]) \subseteq RoomsIn(in_rooms[u])
               /\ ~ client'[u].misrouted
               /\ \A r \in RoomsIn(in_rooms'[u]) : /\ client'[u].roster[r] = client[u].roster[r]
                                                   /\ client'[u].typing[r] = client[u].typing[r],
           \A r \in RoomID : \A v \in members[r] :
               v \notin Excused(r)' => v \notin Excused(r) /\ profile'[v] = profile[v],
           \A u \in UserID : ~ Unread(u)' => Finds(client'[u], in_rooms'[u])
    PROVE  Replicas'
<1>1. DoneOK' /\ \A r : Unannounced(r)' = {}
  BY NoDoneOK
<1>2. \A r : Unannounced(r) = {}
  BY NobodyWaits
<1>3. ASSUME NEW u \in UserID, NEW r \in RoomsIn(in_rooms'[u]) PROVE Knows(u, r)'
  <2>1. r \in RoomID /\ r \in RoomsIn(in_rooms[u])
    BY <1>3, RoomsType
  <2>2. Knows(u, r)
    BY <1>2, <2>1 DEF InStep
  <2> DEFINE roster == client[u].roster[r]
             names == members[r]
             excused == Excused(r)
             excused2 == Excused(r)'
             prof2 == profile'
  <2>3. Lists(roster, names, profile, excused)
    BY <1>2, <2>2 DEF Knows
  <2>4. \A v \in names : v \notin excused2 => v \notin excused /\ prof2[v] = profile[v]
    BY <2>1
  <2> HIDE DEF roster, names, excused, excused2, prof2
  <2>5. Lists(roster, names, prof2, excused2)
    BY <2>3, <2>4, ListsStill
  <2>6. Lists(client'[u].roster[r], members'[r] \ Unannounced(r)', profile', Excused(r)')
    BY <1>1, <1>3, <2>5 DEF roster, names, excused2, prof2
  <2>7. client'[u].typing[r] \subseteq get_typing(members'[r], typing_timer'[r])
    BY <1>3, <2>2 DEF Knows
  <2> QED
    BY <2>6, <2>7 DEF Knows
<1>4. NeverMisrouted'
  BY DEF NeverMisrouted
<1> QED
  BY <1>1, <1>3, <1>4 DEF Replicas, InStep

LEMMA LoopFields ==
    ASSUME NEW op, NEW sid, NEW todo, NEW rid
    PROVE  LET t == Loop(op, sid, todo, rid)
           IN  t.op = op /\ t.sid = sid /\ t.todo = todo /\ t.rid = rid /\ t.done = <<>>
  BY DEF Loop, Task

LEMMA NoTaskFields == NoTask.op = "idle" /\ NoTask.done = <<>>
  BY DEF NoTask, Task

LEMMA ReadyState ==
    ASSUME TypeOK, IInv, Replicas, NEW stimulus, Ready(stimulus)
    PROVE  /\ InStep /\ NeverMisrouted /\ AllShaped(client)
           /\ task.op = "idle" /\ task.done = <<>> /\ panicked = None
           /\ \A r : Changing(r) = {}
           /\ \A u : ~ Unread(u)
           /\ \A u \in UserID : Finds(client[u], in_rooms[u])
<1>1. task.op = "idle" /\ task.done = <<>> /\ panicked = None
  BY NoTaskFields DEF Ready
<1>2. InStep /\ NeverMisrouted /\ AllShaped(client)
  BY <1>1 DEF Replicas
<1> QED
  BY <1>1, <1>2 DEF Changing, Unread, InStep

LEMMA ClientConnect ==
    ASSUME TypeOK, IInv, Replicas, NEW sid \in UserID, OnConnect(sid) PROVE Replicas'
<1>1. /\ UNCHANGED <<in_rooms, members, profile, task, typing_timer, client>>
      /\ Ready("CONNECT")
  BY DEF OnConnect, memberVars
<1>2. InStep /\ NeverMisrouted /\ AllShaped(client)
  BY <1>1, ReadyState
<1>3. SameLists(client, client')
  BY <1>1, <1>2 DEF SameLists
<1> QED
  BY <1>1, <1>2, <1>3, QuietReplicas

LEMMA RenamedClients ==
    ASSUME TypeOK, AllShaped(client), NEW sid \in UserID, NEW prof, NEW unannounced,
           Renamed(sid, prof, unannounced)
    PROVE  /\ AllShaped(client')
           /\ \A u \in UserID : /\ client'[u].rooms = client[u].rooms
                                /\ client'[u].misrouted = client[u].misrouted
                                /\ client'[u].roster = client[u].roster
                                /\ client'[u].typing = client[u].typing
                                /\ client'[u].log = client[u].log
                                /\ u # sid => client'[u].renamed = client[u].renamed
                                /\ u # sid => profile'[u] = profile[u]
           /\ profile'[sid] = prof
           /\ client'[sid].renamed = IF prof = profile[sid] THEN client[sid].renamed
                                                            ELSE unannounced
<1> DEFINE new == IF prof = profile[sid] THEN client[sid].renamed ELSE unannounced
           c == client[sid]
           d == [c EXCEPT !.renamed = new]
<1>1. client' = [client EXCEPT ![sid] = d]
  BY DEF Renamed
<1>2. Shaped(c)
  BY DEF AllShaped
<1> HIDE DEF new, c
<1>3. /\ Shaped(d) /\ d.rooms = c.rooms /\ d.misrouted = c.misrouted /\ d.roster = c.roster
      /\ d.typing = c.typing /\ d.log = c.log /\ d.renamed = new
  BY <1>2 DEF Shaped
<1> HIDE DEF d
<1>4. client' = [u \in UserID |-> IF u = sid THEN d ELSE client[u]]
  BY <1>1 DEF AllShaped
<1>5. /\ \A u \in UserID : u # sid => profile'[u] = profile[u]
      /\ profile'[sid] = prof
  BY DEF Renamed, TypeOK
<1>6. AllShaped(client')
  BY <1>3, <1>4 DEF AllShaped
<1> QED
  BY <1>3, <1>4, <1>5, <1>6 DEF c, new

LEMMA ClientUserJoined ==
    ASSUME TypeOK, IInv, Replicas, NEW sid \in UserID, NEW prof, NEW list,
           ReqUserJoined(sid, prof, list)
    PROVE  Replicas'
<1> DEFINE loop == Loop("user_joined", sid, Dedup(list), None)
<1>1. /\ UNCHANGED <<in_rooms, members, typing_timer>> /\ Ready("USER_JOINED")
      /\ Renamed(sid, prof, RoomsIn(in_rooms[sid])) /\ task' \in {NoTask, loop}
  BY DEF ReqUserJoined, memberVars
<1>2. loop.op = "user_joined" /\ loop.done = <<>>
  BY LoopFields
<1> HIDE DEF loop
<1>3. task'.op \in {"idle", "user_joined"} /\ task'.done = <<>>
  BY <1>1, <1>2, NoTaskFields
<1>4. /\ InStep /\ NeverMisrouted /\ AllShaped(client) /\ task.op = "idle"
      /\ task.done = <<>> /\ \A r : Changing(r) = {}
      /\ \A u \in UserID : Finds(client[u], in_rooms[u])
  BY <1>1, ReadyState
<1>5. /\ AllShaped(client')
      /\ \A u \in UserID : /\ client'[u].rooms = client[u].rooms
                           /\ client'[u].misrouted = client[u].misrouted
                           /\ client'[u].roster = client[u].roster
                           /\ client'[u].typing = client[u].typing
                           /\ u # sid => client'[u].renamed = client[u].renamed
                           /\ u # sid => profile'[u] = profile[u]
      /\ profile'[sid] = prof
      /\ client'[sid].renamed = IF prof = profile[sid] THEN client[sid].renamed
                                                       ELSE RoomsIn(in_rooms[sid])
  BY <1>1, <1>4, RenamedClients
<1>6. ASSUME NEW r \in RoomID, NEW v \in members[r], v \notin Excused(r)'
      PROVE  v \notin Excused(r) /\ profile'[v] = profile[v]
  <2>1. v \in UserID /\ r \in RoomsIn(in_rooms[v])
    BY <1>4, MemberIsUser DEF TypeOK
  <2>2. r \notin client'[v].renamed
    BY <1>6, <2>1 DEF Excused
  <2>3. r \notin client[v].renamed /\ profile'[v] = profile[v]
    BY <1>5, <2>1, <2>2
  <2> QED
    BY <1>4, <2>3 DEF Excused
<1>7. \A u \in UserID : Finds(client'[u], in_rooms'[u]) /\ ~ client'[u].misrouted
  BY <1>1, <1>4, <1>5 DEF Finds, NeverMisrouted
<1> QED
  BY <1>1, <1>3, <1>4, <1>5, <1>6, <1>7, LoopStep

LEMMA ClientChNick ==
    ASSUME TypeOK, IInv, Replicas, NEW sid \in UserID, NEW prof, ReqUserChNick(sid, prof)
    PROVE  Replicas'
<1> DEFINE loop == Loop("ch_nick", sid, in_rooms[sid], None)
<1>1. /\ UNCHANGED <<in_rooms, members, typing_timer>> /\ Ready("USER_CHANGE_NICK")
      /\ Renamed(sid, prof, {})
      /\ task' = IF prof = profile[sid] THEN NoTask ELSE EndOr(loop)
  BY DEF ReqUserChNick, memberVars
<1>2. loop.op = "ch_nick" /\ loop.done = <<>> /\ loop.todo = in_rooms[sid] /\ loop.sid = sid
  BY LoopFields
<1> HIDE DEF loop
<1>3. task'.op \in {"idle", "ch_nick"} /\ task'.done = <<>>
  BY <1>1, <1>2, NoTaskFields DEF EndOr
<1>4. /\ InStep /\ NeverMisrouted /\ AllShaped(client) /\ task.op = "idle"
      /\ task.done = <<>> /\ \A r : Changing(r) = {}
      /\ \A u \in UserID : Finds(client[u], in_rooms[u])
  BY <1>1, ReadyState
<1>5. /\ AllShaped(client')
      /\ \A u \in UserID : /\ client'[u].rooms = client[u].rooms
                           /\ client'[u].misrouted = client[u].misrouted
                           /\ client'[u].roster = client[u].roster
                           /\ client'[u].typing = client[u].typing
                           /\ u # sid => client'[u].renamed = client[u].renamed
                           /\ u # sid => profile'[u] = profile[u]
      /\ profile'[sid] = prof
      /\ client'[sid].renamed = IF prof = profile[sid] THEN client[sid].renamed ELSE {}
  BY <1>1, <1>4, RenamedClients
<1>6. ASSUME NEW r \in RoomID, NEW v \in members[r], v \notin Excused(r)'
      PROVE  v \notin Excused(r) /\ profile'[v] = profile[v]
  <2>1. v \in UserID /\ r \in RoomsIn(in_rooms[v])
    BY <1>4, MemberIsUser DEF TypeOK
  <2>2. r \notin client'[v].renamed /\ v \notin Changing(r)'
    BY <1>6, <2>1 DEF Excused
  <2>3. v = sid => prof = profile[sid]
    <3> SUFFICES ASSUME v = sid, prof # profile[sid] PROVE FALSE
      OBVIOUS
    <3>1. HasNext(in_rooms[sid])
      <4>1. in_rooms[sid] \in Vector /\ RoomsIn(in_rooms[sid]) # {}
        BY <2>1 DEF TypeOK
      <4> QED
        BY <4>1, NoNext
    <3>2. task' = loop
      BY <1>1, <1>2, <3>1 DEF EndOr
    <3> QED
      BY <1>2, <2>1, <2>2, <3>2 DEF Changing
  <2>4. r \notin client[v].renamed /\ profile'[v] = profile[v]
    BY <1>5, <2>1, <2>2, <2>3
  <2> QED
    BY <1>4, <2>4 DEF Excused
<1>7. \A u \in UserID : Finds(client'[u], in_rooms'[u]) /\ ~ client'[u].misrouted
  BY <1>1, <1>4, <1>5 DEF Finds, NeverMisrouted
<1> QED
  BY <1>1, <1>3, <1>4, <1>5, <1>6, <1>7, LoopStep

LEMMA ClientRoomJoin ==
    ASSUME TypeOK, IInv, Replicas, NEW sid \in UserID, NEW rid \in RoomID, NEW exclusive,
           ReqRoomJoin(sid, rid, exclusive)
    PROVE  Replicas'
<1> DEFINE first == Loop("exclusive", sid, Vacate(in_rooms[sid], rid), rid)
           join == Loop("room_join", sid, <<rid>>, rid)
<1>1. /\ UNCHANGED <<in_rooms, members, typing_timer, profile, client>> /\ Ready("ROOM_JOIN")
      /\ task' \in {first, join}
  BY DEF ReqRoomJoin, memberVars
<1>2. /\ first.op = "exclusive" /\ first.done = <<>>
      /\ join.op = "room_join" /\ join.done = <<>> /\ join.todo = <<rid>> /\ join.rid = rid
  BY LoopFields
<1>3. HasNext(<<rid>>)
  BY RoomHandlesAssumption DEF HasNext
<1> HIDE DEF first, join
<1>4. /\ task'.op \in {"exclusive", "room_join"} /\ task'.done = <<>>
      /\ task'.op = "room_join" => task'.todo = <<task'.rid>> /\ HasNext(task'.todo)
  BY <1>1, <1>2, <1>3
<1>5. /\ InStep /\ NeverMisrouted /\ AllShaped(client) /\ task.op = "idle"
      /\ task.done = <<>> /\ \A r : Changing(r) = {}
      /\ \A u \in UserID : Finds(client[u], in_rooms[u])
  BY <1>1, ReadyState
<1>6. \A r : Excused(r) \subseteq Excused(r)'
  BY <1>1, <1>5 DEF Excused
<1>7. \A u \in UserID : ~ client'[u].misrouted /\ Finds(client'[u], in_rooms'[u])
  BY <1>1, <1>5 DEF NeverMisrouted
<1> QED
  BY <1>1, <1>4, <1>5, <1>6, <1>7, LoopStep

LEMMA NewShaped == Shaped(NewClient)
  BY DEF Shaped, NewClient

LEMMA ClientDisconnect ==
    ASSUME TypeOK, IInv, Replicas, NEW sid \in UserID, OnDisconnect(sid) PROVE Replicas'
<1> DEFINE loop == Loop("disconnect", sid, in_rooms[sid], None)
<1>1. /\ UNCHANGED <<members, typing_timer>> /\ Ready("DISCONNECT")
      /\ in_rooms' = [in_rooms EXCEPT ![sid] = <<>>]
      /\ profile' = [profile EXCEPT ![sid] = DefaultProfile]
      /\ client' = [client EXCEPT ![sid] = NewClient]
      /\ task' = EndOr(loop)
  BY DEF OnDisconnect, memberVars
<1>2. loop.op = "disconnect" /\ loop.done = <<>> /\ loop.todo = in_rooms[sid] /\ loop.sid = sid
  BY LoopFields
<1> HIDE DEF loop
<1>3. task'.op \in {"idle", "disconnect"} /\ task'.done = <<>>
  BY <1>1, <1>2, NoTaskFields DEF EndOr
<1>4. /\ InStep /\ NeverMisrouted /\ AllShaped(client) /\ task.op = "idle"
      /\ task.done = <<>> /\ \A r : Changing(r) = {}
      /\ \A u \in UserID : Finds(client[u], in_rooms[u])
  BY <1>1, ReadyState
<1>5. /\ \A u \in UserID : u # sid => /\ in_rooms'[u] = in_rooms[u]
                                      /\ profile'[u] = profile[u] /\ client'[u] = client[u]
      /\ in_rooms'[sid] = <<>> /\ client'[sid] = NewClient
      /\ client' = [u \in UserID |-> client'[u]]
  BY <1>1, <1>4 DEF TypeOK, AllShaped
<1>6. RoomsIn(<<>>) = {} /\ Finds(NewClient, <<>>) /\ ~ NewClient.misrouted
  BY DEF RoomsIn, Finds, NewClient
<1>7. AllShaped(client')
  BY <1>4, <1>5, NewShaped DEF AllShaped
<1>8. ASSUME NEW r \in RoomID, NEW v \in members[r], v \notin Excused(r)'
      PROVE  v \notin Excused(r) /\ profile'[v] = profile[v]
  <2>1. v \in UserID /\ r \in RoomsIn(in_rooms[v])
    BY <1>4, MemberIsUser DEF TypeOK
  <2>2. r \notin client'[v].renamed /\ v \notin Changing(r)'
    BY <1>8, <2>1 DEF Excused
  <2>3. v # sid
    <3> SUFFICES ASSUME v = sid PROVE FALSE
      OBVIOUS
    <3>1. HasNext(in_rooms[sid])
      <4>1. in_rooms[sid] \in Vector /\ RoomsIn(in_rooms[sid]) # {}
        BY <2>1 DEF TypeOK
      <4> QED
        BY <4>1, NoNext
    <3>2. task' = loop
      BY <1>1, <1>2, <3>1 DEF EndOr
    <3> QED
      BY <1>2, <2>1, <2>2, <3>2 DEF Changing
  <2> QED
    BY <1>4, <1>5, <2>1, <2>2, <2>3 DEF Excused
<1>9. ASSUME NEW u \in UserID
      PROVE  /\ RoomsIn(in_rooms'[u]) \subseteq RoomsIn(in_rooms[u])
             /\ ~ client'[u].misrouted
             /\ \A r \in RoomsIn(in_rooms'[u]) : /\ client'[u].roster[r] = client[u].roster[r]
                                                 /\ client'[u].typing[r] = client[u].typing[r]
             /\ Finds(client'[u], in_rooms'[u])
  <2>1. CASE u = sid
    BY <1>5, <1>6, <2>1
  <2>2. CASE u # sid
    BY <1>4, <1>5, <2>2 DEF NeverMisrouted
  <2> QED
    BY <2>1, <2>2
<1> QED
  BY <1>1, <1>3, <1>4, <1>7, <1>8, <1>9, LoopStep

LEMMA ClientExclusiveJoin ==
    ASSUME TypeOK, IInv, Replicas, ExclusiveJoin PROVE Replicas'
<1> DEFINE sid  == task.sid
           join == Loop("room_join", sid, <<task.rid>>, task.rid)
<1>1. /\ UNCHANGED <<members, typing_timer, profile, client>> /\ panicked = None
      /\ task.op = "exclusive" /\ ~ HasNext(task.todo) /\ task' = join
      /\ in_rooms' = [in_rooms EXCEPT ![sid] =
                          IF task.rid \in RoomsIn(in_rooms[sid]) THEN in_rooms[sid] ELSE <<>>]
  BY DEF ExclusiveJoin, userVars, memberVars
<1>2. /\ join.op = "room_join" /\ join.done = <<>> /\ join.todo = <<task.rid>>
      /\ join.rid = task.rid /\ join.sid = sid
  BY LoopFields
<1>3. /\ InStep /\ NeverMisrouted /\ AllShaped(client)
  BY <1>1 DEF Replicas
<1>4. task.done = <<>> /\ (\A r : Changing(r) = {}) /\ \A u : ~ Unread(u)
  BY <1>1, <1>3 DEF InStep, DoneOK, Changing, Unread
<1> HIDE DEF join
<1>5. /\ \A u \in UserID : in_rooms'[u] = in_rooms[u] \/ in_rooms'[u] = <<>>
  BY <1>1 DEF TypeOK
<1>6. RoomsIn(<<>>) = {} /\ \A c : Finds(c, <<>>)
  BY DEF RoomsIn, Finds
<1>7. \A u \in UserID : ~ Unread(u)' => Finds(client'[u], in_rooms'[u])
  BY <1>1, <1>3, <1>4, <1>5, <1>6 DEF InStep
<1>8. \A r : Excused(r) \subseteq Excused(r)'
  BY <1>1, <1>4 DEF Excused
<1>9. \A u \in UserID : /\ RoomsIn(in_rooms'[u]) \subseteq RoomsIn(in_rooms[u])
                        /\ ~ client'[u].misrouted
  BY <1>1, <1>3, <1>5, <1>6 DEF NeverMisrouted
<1>10. task'.done = <<>> /\ task'.todo = <<task'.rid>>
  BY <1>1, <1>2
<1> QED
  BY <1>1, <1>3, <1>4, <1>7, <1>8, <1>9, <1>10, LoopStep

LEMMA ClientJoinRefused ==
    ASSUME TypeOK, IInv, Replicas, JoinRefused PROVE Replicas'
<1>1. /\ UNCHANGED <<members, typing_timer, profile, client, in_rooms>> /\ panicked = None
      /\ task' = NoTask /\ task.op \in {"user_joined", "room_join"} /\ HasNext(task.todo)
      /\ Expect(task.op = "room_join", "init_rooms")
  BY DEF JoinRefused, Running, userVars, memberVars
<1>2. /\ InStep /\ NeverMisrouted /\ AllShaped(client)
  BY <1>1 DEF Replicas
<1>3. CASE task.op = "user_joined"
  <2>1. panicked' # None
    BY <1>1, <1>3, TalkerAssumption DEF Expect
  <2>2. NeverMisrouted'
    BY <1>1, <1>2 DEF NeverMisrouted
  <2> QED
    BY <1>1, <1>2, <2>1, <2>2 DEF Replicas
<1>4. CASE task.op = "room_join"
  <2>1. task.done = <<>> /\ (\A r : Changing(r) = {}) /\ \A u : ~ Unread(u)
    BY <1>1, <1>2, <1>4 DEF InStep, DoneOK, Changing, Unread
  <2>2. task'.op = "idle" /\ task'.done = <<>>
    BY <1>1, NoTaskFields
  <2>3. \A u \in UserID : Finds(client'[u], in_rooms'[u]) /\ ~ client'[u].misrouted
    BY <1>1, <1>2, <2>1 DEF InStep, NeverMisrouted
  <2>4. \A r : Excused(r) \subseteq Excused(r)'
    BY <1>1, <2>1 DEF Excused
  <2> QED
    BY <1>1, <1>2, <2>1, <2>2, <2>3, <2>4, LoopStep
<1> QED
  BY <1>1, <1>3, <1>4
------------------------------------------------------------------------------
(* Leaving a room. *)

\* What the clients make of a user's leaving of room rid.
LeftBy(cs, sid, rid) ==
    /\ AllShaped(cs)
    /\ \A u \in UserID :
           /\ cs[u].rooms = client[u].rooms /\ cs[u].misrouted = client[u].misrouted
           /\ cs[u].renamed = client[u].renamed
           /\ \A r \in RoomID :
                  /\ cs[u].roster[r] = IF u \in members[rid] \ {sid} /\ r = rid
                                       THEN Others(client[u].roster[r], sid)
                                       ELSE client[u].roster[r]
                  /\ cs[u].typing[r] = IF u \in members[rid] \ {sid} /\ r = rid
                                       THEN client[u].typing[r] \ {sid}
                                       ELSE client[u].typing[r]

LEMMA LeaveSent ==
    ASSUME TypeOK, IInv, InStep, AllShaped(client), NEW sid \in UserID, NEW rid \in RoomID,
           task.op = "disconnect" => task.sid = sid, \A u \in UserID : ~ Unread(u),
           NEW msg
    PROVE  LET mem == members[rid] \ {sid}
               a   == MessageTo(rid, mem, msg)
               b   == ToRoom(rid, mem, [type |-> "USER_LEFT", sid |-> sid])
               ds  == DeliverBatch(DeliverBatch(client, a), b)
           IN  LeftBy(ds, sid, rid) /\ Said(client, ds, rid, mem, msg)
<1> DEFINE mem == members[rid] \ {sid}
           e1  == [type |-> "MESSAGE", msg |-> msg]
           e2  == [type |-> "USER_LEFT", sid |-> sid]
           cs  == DeliverBatch(client, ToRoom(rid, mem, e1))
           ds  == DeliverBatch(cs, ToRoom(rid, mem, e2))
<1>1. Reachable(client, rid, mem)
  <2>1. mem \subseteq members[rid] /\ (\A u \in mem : u \in UserID) /\ sid \notin mem
    BY DEF TypeOK
  <2> HIDE DEF mem
  <2> QED
    BY <2>1, Reached
<1>2. IsEvent(e1) /\ e1.type \in Talk
  BY TalkEvents
<1>3. IsEvent(e2) /\ e2.type = "USER_LEFT" /\ e2.sid = sid
  BY DEF IsEvent, Types
<1> HIDE DEF e1, e2, mem
<1>4. Heard(client, cs, rid, mem, e1)
  BY <1>1, <1>2, SendHeard
<1>a. Said(client, cs, rid, mem, msg)
  BY <1>4, SaidHeard DEF e1
<1>5. SameLists(client, cs) /\ Reachable(cs, rid, mem)
  BY <1>1, <1>2, <1>4, TalkHeard, StillReachable
<1> HIDE DEF cs
<1>6. Heard(cs, ds, rid, mem, e2)
  BY <1>3, <1>5, SendHeard DEF SameLists
<1>7. \A ro : RosterBy(e2, ro) = Others(ro, sid)
  BY <1>3 DEF RosterBy
<1>8. \A ty : TypingBy(e2, ty) = ty \ {sid}
  BY <1>3 DEF TypingBy
<1>9. e2.type # "HISTORY"
  BY <1>3
<1> HIDE DEF ds
<1>10. LeftBy(ds, sid, rid)
  <2>1. AllShaped(ds)
    BY <1>6 DEF Heard
  <2>2. ASSUME NEW u \in UserID
        PROVE  /\ ds[u].rooms = client[u].rooms /\ ds[u].misrouted = client[u].misrouted
               /\ ds[u].renamed = client[u].renamed
    BY <1>5, <1>6, <1>9 DEF Heard, SameLists
  <2>3. ASSUME NEW u \in UserID, NEW r \in RoomID
        PROVE  /\ ds[u].roster[r] = IF u \in mem /\ r = rid
                                    THEN Others(client[u].roster[r], sid)
                                    ELSE client[u].roster[r]
               /\ ds[u].typing[r] = IF u \in mem /\ r = rid
                                    THEN client[u].typing[r] \ {sid}
                                    ELSE client[u].typing[r]
    <3>1. cs[u].roster[r] = client[u].roster[r] /\ cs[u].typing[r] = client[u].typing[r]
      BY <1>5 DEF SameLists
    <3>2. /\ ds[u].roster[r] = IF u \in mem /\ r = rid
                               THEN RosterBy(e2, cs[u].roster[r]) ELSE cs[u].roster[r]
          /\ ds[u].typing[r] = IF u \in mem /\ r = rid
                               THEN TypingBy(e2, cs[u].typing[r]) ELSE cs[u].typing[r]
      BY <1>6 DEF Heard
    <3> QED
      BY <1>7, <1>8, <3>1, <3>2
  <2> QED
    BY <2>1, <2>2, <2>3 DEF LeftBy, mem
<1>11. SameLogs(cs, ds)
  BY <1>3, <1>6, NothingSaid
<1>12. Said(client, ds, rid, mem, msg)
  BY <1>a, <1>11 DEF Said, SameLogs
<1> QED
  BY <1>10, <1>12 DEF ds, cs, e1, e2, mem, MessageTo

\* Clients that have been sent all that cs have been sent and perhaps their rooms,
\* of which they have no more than before.
AsTold(cs) ==
    \A u \in UserID :
        /\ RoomsIn(in_rooms'[u]) \subseteq RoomsIn(in_rooms[u])
        /\ client'[u].misrouted = cs[u].misrouted /\ client'[u].renamed = cs[u].renamed
        /\ \A r \in RoomsIn(in_rooms'[u]) : /\ client'[u].roster[r] = cs[u].roster[r]
                                            /\ client'[u].typing[r] = cs[u].typing[r]
        /\ Finds(client'[u], in_rooms'[u])

\* What other rooms have not been told they still have not.
NobodyElse(sid, rid) ==
    \A r \in RoomID : Changing(r) \subseteq Changing(r)' \cup (IF r = rid THEN {sid} ELSE {})

LEMMA LeftStep ==
    ASSUME TypeOK, IInv, InStep, NeverMisrouted, UNCHANGED profile,
           NEW sid \in UserID, NEW rid \in RoomID, SetMembers(rid, sid, members[rid] \ {sid}),
           NEW cs, LeftBy(cs, sid, rid), AllShaped(client'),
           task.done = <<>>, task'.done = <<>>,
           task'.op = "room_join" /\ HasNext(task'.todo) => task'.todo = <<task'.rid>>,
           rid \notin RoomsIn(in_rooms'[sid]),
           AsTold(cs), NobodyElse(sid, rid)
    PROVE  Replicas'
<1>1. DoneOK' /\ \A r : Unannounced(r)' = {}
  BY NoDoneOK
<1>2. \A r : Unannounced(r) = {}
  BY NobodyWaits
<1>3. /\ members'[rid] = members[rid] \ {sid}
      /\ \A r \in RoomID : r # rid => /\ members'[r] = members[r]
                                      /\ typing_timer'[r] = typing_timer[r]
      /\ \A u \in UserID : u # sid => typing_timer'[rid][u] = typing_timer[rid][u]
  BY DEF SetMembers, TypeOK
<1>4. \A r \in RoomID : Excused(r) \subseteq Excused(r)' \cup (IF r = rid THEN {sid} ELSE {})
  BY DEF Excused, LeftBy, AsTold, NobodyElse
<1>5. ASSUME NEW u \in UserID, NEW r \in RoomsIn(in_rooms'[u]) PROVE Knows(u, r)'
  <2>1. r \in RoomID /\ r \in RoomsIn(in_rooms[u]) /\ u \in members[r]
    BY <1>5, RoomsOfUser DEF AsTold
  <2>2. Knows(u, r)
    BY <1>2, <2>1 DEF InStep
  <2>0. client'[u].roster[r] = cs[u].roster[r] /\ client'[u].typing[r] = cs[u].typing[r]
    BY <1>5 DEF AsTold
  <2> DEFINE roster == client[u].roster[r]
             names == members[r]
             excused == Excused(r)
             excused2 == Excused(r)'
  <2>3. Lists(roster, names, profile, excused)
    BY <1>2, <2>2 DEF Knows
  <2>4. CASE r # rid
    <3>1. names \cap excused \subseteq excused2
      BY <1>4, <2>1, <2>4
    <3> HIDE DEF roster, names, excused, excused2
    <3>2. Lists(roster, names, profile, excused2)
      BY <2>3, <3>1, ListsStill
    <3>3. client'[u].roster[r] = roster /\ client'[u].typing[r] = client[u].typing[r]
      BY <2>0, <2>1, <2>4 DEF LeftBy, roster
    <3>4. members'[r] \ Unannounced(r)' = names
      BY <1>1, <1>3, <2>1, <2>4 DEF names
    <3>5. Lists(client'[u].roster[r], members'[r] \ Unannounced(r)', profile', Excused(r)')
      BY <3>2, <3>3, <3>4 DEF excused2
    <3> QED
      BY <1>3, <2>1, <2>2, <2>4, <3>3, <3>5 DEF Knows
  <2>5. CASE r = rid
    <3>1. u # sid
      BY <1>5, <2>5
    <3>2. (names \ {sid}) \cap (excused \ {sid}) \subseteq excused2
      BY <1>4, <2>1, <2>5
    <3> HIDE DEF roster, names, excused, excused2
    <3>3. Lists(Others(roster, sid), names \ {sid}, profile, excused \ {sid})
      BY <2>3, ListsLess
    <3>4. Lists(Others(roster, sid), names \ {sid}, profile, excused2)
      BY <3>2, <3>3, ListsStill
    <3>5. /\ client'[u].roster[r] = Others(roster, sid)
          /\ client'[u].typing[r] = client[u].typing[r] \ {sid}
      BY <2>0, <2>1, <2>5, <3>1 DEF LeftBy, roster
    <3>6. members'[r] \ Unannounced(r)' = names \ {sid}
      BY <1>1, <1>3, <2>5 DEF names
    <3>7. Lists(client'[u].roster[r], members'[r] \ Unannounced(r)', profile', Excused(r)')
      BY <3>4, <3>5, <3>6 DEF excused2
    <3>8. client'[u].typing[r] \subseteq get_typing(members'[r], typing_timer'[r])
      <4>1. client[u].typing[r] \subseteq get_typing(members[r], typing_timer[r])
        BY <2>2 DEF Knows
      <4>2. members[r] \subseteq UserID
        BY <2>1 DEF TypeOK
      <4> QED
        BY <1>3, <2>5, <3>5, <4>1, <4>2 DEF get_typing
    <3> QED
      BY <3>7, <3>8 DEF Knows
  <2> QED
    BY <2>4, <2>5
<1>6. NeverMisrouted'
  BY DEF NeverMisrouted, LeftBy, AsTold
<1> QED
  BY <1>1, <1>5, <1>6 DEF Replicas, InStep, AsTold

LEMMA ConcatNone == ASSUME NEW a, NEW b PROVE <<a, b>> \o <<>> = <<a, b>>
  OBVIOUS

LEMMA ConcatOne ==
    ASSUME NEW a, NEW b, NEW c
    PROVE  LET s == <<a, b>> \o <<c>> IN Len(s) = 3 /\ s[1] = a /\ s[2] = b /\ s[3] = c
  OBVIOUS

\* What LeaveRoom sends, if nothing follows it.
LEMMA LeaveDelivered ==
    ASSUME TypeOK, IInv, InStep, AllShaped(client), NEW sid \in UserID, NEW rid \in RoomID,
           task.op = "disconnect" => task.sid = sid, \A u \in UserID : ~ Unread(u),
           LeaveRoom(sid, rid, <<>>)
    PROVE  /\ LeftBy(client', sid, rid) /\ SetMembers(rid, sid, members[rid] \ {sid})
           /\ Said(client, client', rid, members[rid] \ {sid},
                   TextMessage(msgid_counter, "user_left", SYSTEM, None))
<1> DEFINE mem == members[rid] \ {sid}
           msg == TextMessage(msgid_counter, "user_left", SYSTEM, None)
           a   == MessageTo(rid, mem, msg)
           b   == ToRoom(rid, mem, [type |-> "USER_LEFT", sid |-> sid])
<1>1. Deliver(<<a, b>> \o <<>>) /\ SetMembers(rid, sid, members[rid] \ {sid})
  BY DEF LeaveRoom
<1>2. LET ds == DeliverBatch(DeliverBatch(client, a), b)
      IN  LeftBy(ds, sid, rid) /\ Said(client, ds, rid, mem, msg)
  BY LeaveSent
<1> HIDE DEF a, b
<1>3. client' = DeliverBatch(DeliverBatch(client, a), b)
  BY <1>1, ConcatNone, DeliverTwo
<1> QED
  BY <1>1, <1>2, <1>3

LEMMA ClientDisconnectRoom ==
    ASSUME TypeOK, IInv, Replicas, DisconnectRoom PROVE Replicas'
<1> DEFINE rid  == First(task.todo)
           rest == [task EXCEPT !.todo = Rest(@)]
<1>0. PICK sid \in UserID : sid = task.sid
  BY RunningType DEF DisconnectRoom
<1>1. /\ task.op = "disconnect" /\ rid \in RoomID /\ rid \in RoomsIn(task.todo)
      /\ task.todo \in Vector /\ HasNext(task.todo) /\ IsTask(task) /\ panicked = None
  BY RunningType DEF DisconnectRoom
<1>2. /\ UNCHANGED <<in_rooms, profile>> /\ LeaveRoom(sid, rid, <<>>) /\ task' = EndOr(rest)
  BY <1>0 DEF DisconnectRoom, userVars
<1>3. InStep /\ NeverMisrouted /\ AllShaped(client)
  BY <1>1 DEF Replicas
<1>4. task.done = <<>> /\ \A u \in UserID : ~ Unread(u)
  BY <1>1, <1>3 DEF InStep, DoneOK, Unread
<1>5. /\ rest.op = "disconnect" /\ rest.sid = sid /\ rest.todo = Rest(task.todo)
      /\ rest.done = <<>>
  BY <1>0, <1>1, <1>4 DEF IsTask
<1>6. NoDuplicates(task.todo) /\ in_rooms[sid] = <<>>
  BY <1>0, <1>1 DEF IInv, TaskInStep
<1>7. Rest(task.todo) \in Vector /\ RoomsIn(Rest(task.todo)) = RoomsIn(task.todo) \ {rid}
  BY <1>1, <1>6, RestOf
<1>8. task'.done = <<>> /\ task'.op \in {"idle", "disconnect"}
  <2> HIDE DEF rest
  <2> QED
    BY <1>2, <1>5, NoTaskFields DEF EndOr
<1> HIDE DEF rid, rest
<1>9. \A r \in RoomID : Changing(r) \subseteq Changing(r)' \cup (IF r = rid THEN {sid} ELSE {})
  <2> SUFFICES ASSUME NEW r \in RoomID, r # rid, r \in RoomsIn(task.todo)
               PROVE  Changing(r)' = {sid}
    BY <1>0, <1>1 DEF Changing
  <2>1. r \in RoomsIn(rest.todo)
    BY <1>5, <1>7
  <2>2. HasNext(rest.todo)
    BY <1>5, <1>7, <2>1, NoNext
  <2>3. task' = rest
    BY <1>2, <2>2 DEF EndOr
  <2> QED
    BY <1>5, <2>1, <2>3 DEF Changing
<1>10. LeftBy(client', sid, rid) /\ SetMembers(rid, sid, members[rid] \ {sid})
  BY <1>0, <1>1, <1>2, <1>3, <1>4, LeaveDelivered
<1>11. rid \notin RoomsIn(in_rooms'[sid])
  BY <1>2, <1>6 DEF RoomsIn
<1>12. \A u \in UserID : Finds(client'[u], in_rooms'[u])
  BY <1>2, <1>3, <1>4, <1>10 DEF InStep, LeftBy, Finds
<1> DEFINE cs == client'
<1>13. LeftBy(cs, sid, rid) /\ AllShaped(client')
  BY <1>10 DEF LeftBy
<1>14. \A u \in UserID :
           /\ RoomsIn(in_rooms'[u]) \subseteq RoomsIn(in_rooms[u])
           /\ client'[u].misrouted = cs[u].misrouted /\ client'[u].renamed = cs[u].renamed
           /\ \A r \in RoomsIn(in_rooms'[u]) : /\ client'[u].roster[r] = cs[u].roster[r]
                                               /\ client'[u].typing[r] = cs[u].typing[r]
  BY <1>2
<1> HIDE DEF cs
<1>15. AsTold(cs) /\ NobodyElse(sid, rid)
  BY <1>9, <1>12, <1>14 DEF AsTold, NobodyElse
<1> QED
  BY <1>1, <1>2, <1>3, <1>4, <1>8, <1>10, <1>11, <1>13, <1>15, LeftStep

\* The handles of a user who leaves.
LEMMA LeaverFinds ==
    ASSUME TypeOK, IInv, InStep, \A u \in UserID : ~ Unread(u), NEW sid \in UserID,
           NEW rid \in RoomID, in_rooms' = [in_rooms EXCEPT ![sid] = Trim(Vacate(@, rid))]
    PROVE  /\ rid \notin RoomsIn(in_rooms'[sid])
           /\ \A u \in UserID : /\ RoomsIn(in_rooms'[u]) \subseteq RoomsIn(in_rooms[u])
                                /\ Finds(client[u], in_rooms'[u])
<1> DEFINE array == in_rooms[sid]
           left == Trim(Vacate(array, rid))
<1>1. array \in Vector
  BY DEF TypeOK
<1>2. /\ in_rooms'[sid] = left /\ \A u \in UserID : u # sid => in_rooms'[u] = in_rooms[u]
  BY DEF TypeOK
<1>3. RoomsIn(left) = RoomsIn(array) \ {rid}
  <2> HIDE DEF array
  <2>1. /\ Vacate(array, rid) \in Vector
        /\ RoomsIn(Vacate(array, rid)) = RoomsIn(array) \ {rid}
    BY <1>1, VacateOf
  <2> QED
    BY <2>1, TrimOf
<1>4. \A i \in DOMAIN left : left[i] # None => i \in DOMAIN array /\ left[i] = array[i]
  BY <1>1, LeftHandles
<1>5. \A u \in UserID : Finds(client[u], in_rooms[u])
  BY DEF InStep
<1>6. Finds(client[sid], left)
  <2> HIDE DEF left
  <2> QED
    BY <1>4, <1>5 DEF Finds
<1> HIDE DEF left
<1> QED
  BY <1>2, <1>3, <1>5, <1>6

LEMMA ClientExclusiveLeave ==
    ASSUME TypeOK, IInv, Replicas, ExclusiveLeave PROVE Replicas'
<1> DEFINE rid  == First(task.todo)
           rest == [task EXCEPT !.todo = Rest(@)]
<1>0. PICK sid \in UserID : sid = task.sid
  BY RunningType DEF ExclusiveLeave
<1>1. /\ task.op = "exclusive" /\ rid \in RoomID /\ IsTask(task) /\ panicked = None
  BY RunningType DEF ExclusiveLeave
<1>2. /\ UNCHANGED profile /\ LeaveRoom(sid, rid, <<>>) /\ task' = rest
      /\ in_rooms' = [in_rooms EXCEPT ![sid] = Trim(Vacate(@, rid))]
  BY <1>0 DEF ExclusiveLeave, user_room_leave, userVars
<1>3. InStep /\ NeverMisrouted /\ AllShaped(client)
  BY <1>1 DEF Replicas
<1>4. task.done = <<>> /\ (\A u \in UserID : ~ Unread(u)) /\ \A r : Changing(r) = {}
  BY <1>1, <1>3 DEF InStep, DoneOK, Unread, Changing
<1>5. task'.op = "exclusive" /\ task'.done = <<>>
  BY <1>1, <1>2, <1>4 DEF IsTask
<1> HIDE DEF rid, rest
<1>6. LeftBy(client', sid, rid) /\ SetMembers(rid, sid, members[rid] \ {sid})
  BY <1>1, <1>2, <1>3, <1>4, LeaveDelivered
<1>7. /\ rid \notin RoomsIn(in_rooms'[sid])
      /\ \A u \in UserID : /\ RoomsIn(in_rooms'[u]) \subseteq RoomsIn(in_rooms[u])
                           /\ Finds(client[u], in_rooms'[u])
  BY <1>1, <1>2, <1>3, <1>4, LeaverFinds
<1>8. \A u \in UserID : Finds(client'[u], in_rooms'[u])
  BY <1>6, <1>7 DEF LeftBy, Finds
<1> DEFINE cs == client'
<1>9. LeftBy(cs, sid, rid) /\ AllShaped(client')
  BY <1>6 DEF LeftBy
<1>10. \A u \in UserID :
           /\ client'[u].misrouted = cs[u].misrouted /\ client'[u].renamed = cs[u].renamed
           /\ \A r \in RoomsIn(in_rooms'[u]) : /\ client'[u].roster[r] = cs[u].roster[r]
                                               /\ client'[u].typing[r] = cs[u].typing[r]
  OBVIOUS
<1>11. \A r \in RoomID : Changing(r) \subseteq Changing(r)' \cup (IF r = rid THEN {sid} ELSE {})
  BY <1>4
<1> HIDE DEF cs
<1>12. AsTold(cs) /\ NobodyElse(sid, rid)
  BY <1>7, <1>8, <1>10, <1>11 DEF AsTold, NobodyElse
<1> QED
  BY <1>1, <1>2, <1>3, <1>4, <1>5, <1>6, <1>7, <1>9, <1>12, LeftStep

LEMMA ClientRoomLeave ==
    ASSUME TypeOK, IInv, Replicas, NEW sid \in UserID, NEW h, ReqRoomLeave(sid, h)
    PROVE  Replicas'
<1> DEFINE rid   == in_rooms[sid][h]
           array == Trim(Vacate(in_rooms[sid], rid))
           mem   == members[rid] \ {sid}
           msg   == TextMessage(msgid_counter, "user_left", SYSTEM, None)
           a     == MessageTo(rid, mem, msg)
           b     == ToRoom(rid, mem, [type |-> "USER_LEFT", sid |-> sid])
           c     == ToUser(sid, [type |-> "ROOM", rooms |-> array])
           cs    == DeliverBatch(DeliverBatch(client, a), b)
<1>1. /\ Ready("ROOM_LEAVE") /\ rid \in RoomID /\ UNCHANGED <<profile, task>>
  BY HandleType DEF ReqRoomLeave
<1>2. /\ in_rooms' = [in_rooms EXCEPT ![sid] = Trim(Vacate(@, rid))]
      /\ Deliver(<<a, b>> \o <<c>>) /\ SetMembers(rid, sid, mem)
  BY DEF ReqRoomLeave, user_room_leave, LeaveRoom
<1>3. /\ InStep /\ NeverMisrouted /\ AllShaped(client) /\ task.op = "idle"
      /\ task.done = <<>> /\ (\A r : Changing(r) = {}) /\ \A u : ~ Unread(u)
  BY <1>1, ReadyState
<1>4. LeftBy(cs, sid, rid)
  BY <1>1, <1>3, LeaveSent
<1>5. array \in Vector /\ in_rooms'[sid] = array
  <2>1. in_rooms[sid] \in Vector
    BY DEF TypeOK
  <2> HIDE DEF rid
  <2>2. Vacate(in_rooms[sid], rid) \in Vector
    BY <1>1, <2>1, VacateOf
  <2> QED
    BY <1>2, <2>2, TrimOf DEF TypeOK
<1> HIDE DEF rid
<1>6. /\ rid \notin RoomsIn(in_rooms'[sid])
      /\ \A u \in UserID : /\ RoomsIn(in_rooms'[u]) \subseteq RoomsIn(in_rooms[u])
                           /\ Finds(client[u], in_rooms'[u])
  BY <1>1, <1>2, <1>3, LeaverFinds
<1> HIDE DEF array, a, b
<1>7. client' = DeliverBatch(cs, c)
  <2> DEFINE s == <<a, b>> \o <<c>>
  <2>1. Len(s) = 3 /\ s[1] = a /\ s[2] = b /\ s[3] = c
    <3> HIDE DEF c
    <3> QED
      BY ConcatOne
  <2> HIDE DEF s, c
  <2>2. client' = DeliverBatch(DeliverBatch(DeliverBatch(client, s[1]), s[2]), s[3])
    BY <1>2, <2>1, DeliverThree DEF s
  <2> QED
    BY <2>1, <2>2
<1> HIDE DEF cs
<1>8. Opened(cs, client', sid, array)
  <2>1. AllShaped(cs)
    BY <1>4 DEF LeftBy
  <2> QED
    BY <1>5, <1>7, <2>1, RoomOpened
<1> HIDE DEF c, mem
<1>9. \A u \in UserID : Finds(client'[u], in_rooms'[u])
  <2>1. ASSUME NEW u \in UserID, u # sid PROVE Finds(client'[u], in_rooms'[u])
    BY <1>4, <1>6, <1>8, <2>1 DEF LeftBy, Opened, Finds
  <2>2. Finds(client'[sid], array)
    BY <1>8 DEF Opened, Finds
  <2> QED
    BY <1>5, <2>1, <2>2
<1>10. AllShaped(client')
  BY <1>8 DEF Opened
<1>11. ASSUME NEW u \in UserID
       PROVE  /\ client'[u].misrouted = cs[u].misrouted /\ client'[u].renamed = cs[u].renamed
              /\ \A r \in RoomsIn(in_rooms'[u]) : /\ client'[u].roster[r] = cs[u].roster[r]
                                                  /\ client'[u].typing[r] = cs[u].typing[r]
  <2>1. CASE u = sid
    BY <1>5, <1>8, <2>1 DEF Opened
  <2>2. CASE u # sid
    BY <1>8, <2>2 DEF Opened
  <2> QED
    BY <2>1, <2>2
<1>12. \A r \in RoomID : Changing(r) \subseteq Changing(r)' \cup (IF r = rid THEN {sid} ELSE {})
  BY <1>3
<1>13. /\ UNCHANGED profile /\ SetMembers(rid, sid, members[rid] \ {sid}) /\ rid \in RoomID
       /\ task'.done = <<>> /\ task'.op = "idle"
  BY <1>1, <1>2, <1>3 DEF mem
<1>14. AsTold(cs) /\ NobodyElse(sid, rid)
  BY <1>6, <1>9, <1>11, <1>12 DEF AsTold, NobodyElse
<1>15. InStep /\ NeverMisrouted /\ task.done = <<>> /\ rid \notin RoomsIn(in_rooms'[sid])
  BY <1>3, <1>6
<1> HIDE DEF msg
<1> QED
  BY <1>4, <1>10, <1>13, <1>14, <1>15, LeftStep
------------------------------------------------------------------------------
(* Joining a room. *)

\* A step of JoinRoom, with the second half d that it leaves to be done.
Joining(sid, rid, d) ==
    /\ task.op \in {"user_joined", "room_join"} /\ task.sid = sid /\ HasNext(task.todo)
    /\ sid \in UserID /\ rid \in RoomID /\ rid = First(task.todo) /\ panicked = None
    /\ IsTask(task) /\ rid \notin RoomsIn(in_rooms[sid])
    /\ in_rooms' = [in_rooms EXCEPT ![sid] = AddRoom(@, rid)]
    /\ in_rooms[sid] \in Vector /\ in_rooms'[sid] = AddRoom(in_rooms[sid], rid)
    /\ RoomsIn(in_rooms'[sid]) = RoomsIn(in_rooms[sid]) \cup {rid}
    /\ in_rooms'[sid] \in Vector /\ Len(in_rooms'[sid]) <= MaxRooms
    /\ SetMembers(rid, sid, members[rid] \cup {sid}) /\ sid \notin members[rid]
    /\ UNCHANGED <<profile, client>>
    /\ d.rid = rid /\ d.rh = room_get_rh_by_id(in_rooms'[sid], rid)
    /\ d.users = get_users(members[rid] \cup {sid}, profile)
    /\ d.mid = msgid_counter /\ d.hist = get_history(messages[rid])
    /\ task'.op = task.op /\ task'.sid = sid /\ task'.todo = Rest(task.todo)
    /\ task'.done = Append(task.done, d) /\ Pending(task') = Pending(task) \cup {d}
    /\ \A e \in Pending(task) : e.rid \in RoomsIn(in_rooms[sid]) /\ e.rid \in RoomID /\ e.rid # rid

LEMMA JoinRoomJoins ==
    ASSUME TypeOK, IInv, JoinRoom PROVE \E sid, rid, d : Joining(sid, rid, d)
<1> DEFINE sid   == task.sid
           rid   == First(task.todo)
           mem   == members[rid] \cup {sid}
           array == AddRoom(in_rooms[sid], rid)
           d     == [rid   |-> rid,
                     rh    |-> room_get_rh_by_id(in_rooms'[sid], rid),
                     mid   |-> msgid_counter,
                     hist  |-> get_history(messages[rid]),
                     users |-> get_users(mem, profile)]
<1>1. /\ task.op \in {"user_joined", "room_join"} /\ sid \in UserID /\ rid \in RoomID
      /\ IsTask(task) /\ task # NoTask /\ Rest(task.todo) \in Vector /\ HasNext(task.todo)
      /\ panicked = None
  BY RunningType DEF JoinRoom
<1>2. /\ task' = Task(task.op, sid, Rest(task.todo), task.rid, Append(task.done, d))
      /\ ~ CannotJoin(sid, rid) /\ in_rooms' = [in_rooms EXCEPT ![sid] = array]
      /\ SetMembers(rid, sid, mem) /\ UNCHANGED <<profile, client>>
  BY DEF JoinRoom, userVars
<1>3. /\ in_rooms[sid] \in Vector /\ NoDuplicates(in_rooms[sid])
      /\ Len(in_rooms[sid]) <= MaxRooms /\ Trimmed(in_rooms[sid])
  BY <1>1 DEF TypeOK, IInv, HandlesOK
<1>4. rid \notin RoomsIn(in_rooms[sid])
      /\ (FreeSlots(in_rooms[sid]) = {} => Len(in_rooms[sid]) < MaxRooms)
  BY <1>2, <1>3, VectorAsFunction, RoomHandlesAssumption DEF CannotJoin
<1>5. /\ array \in Vector /\ Len(array) <= MaxRooms
      /\ RoomsIn(array) = RoomsIn(in_rooms[sid]) \cup {rid}
  BY <1>1, <1>3, <1>4, AddRoomOf
<1> HIDE DEF array
<1>6. in_rooms'[sid] = array
  BY <1>1, <1>2 DEF TypeOK
<1>7. sid \notin members[rid]
  BY <1>1, <1>4 DEF IInv, MembersAgree, Leaving
<1>8. /\ d.rid = rid /\ d.rh = room_get_rh_by_id(in_rooms'[sid], rid)
      /\ d.users = get_users(mem, profile)
      /\ d.mid = msgid_counter /\ d.hist = get_history(messages[rid])
  OBVIOUS
<1> HIDE DEF d
<1>9. Pending(task') = Pending(task) \cup {d}
  <2>1. d.rid \in RoomID /\ d.mid \in Nat
    BY <1>1, <1>8, TalkerAssumption DEF TypeOK
  <2> QED
    BY <1>1, <1>2, <2>1, DoneIsTask
<1>10. /\ task'.op = task.op /\ task'.sid = sid /\ task'.todo = Rest(task.todo)
       /\ task'.done = Append(task.done, d)
  BY <1>2 DEF Task
<1>11. \A e \in Pending(task) :
           e.rid \in RoomsIn(in_rooms[sid]) /\ e.rid \in RoomID /\ e.rid # rid
  <2>1. \A e \in Pending(task) : e.rid \in RoomsIn(in_rooms[sid])
    BY <1>1 DEF IInv, TaskInStep
  <2> QED
    BY <1>1, <1>4, <2>1 DEF IsTask
<1>12. in_rooms' = [in_rooms EXCEPT ![sid] = AddRoom(@, rid)]
  BY <1>2 DEF array
<1> HIDE DEF sid, rid, mem
<1>13. Joining(sid, rid, d)
  <2>1. mem = members[rid] \cup {sid} /\ task.sid = sid /\ rid = First(task.todo)
        /\ array = AddRoom(in_rooms[sid], rid)
    BY DEF mem, sid, rid, array
  <2> QED
    BY <1>1, <1>2, <1>3, <1>4, <1>5, <1>6, <1>7, <1>8, <1>9, <1>10, <1>11, <1>12, <2>1
       DEF Joining
<1> QED
  BY <1>13

\* ROOM_JOIN joins no more than one room.
LEMMA JoiningLast ==
    ASSUME InStep, NEW sid, NEW rid, NEW d, Joining(sid, rid, d), task.op = "room_join"
    PROVE  ~ HasNext(task'.todo)
<1> DEFINE one == <<task.rid>>
<1>1. task.todo = one /\ task.todo \in Vector
  BY DEF InStep, DoneOK, Joining, IsTask
<1>2. NoDuplicates(one) /\ RoomsIn(one) \subseteq {task.rid}
  BY DEF NoDuplicates, RoomsIn
<1> HIDE DEF one
<1>3. HasNext(one) /\ one \in Vector
  BY <1>1 DEF Joining
<1>4. First(one) \in RoomsIn(one) /\ RoomsIn(Rest(one)) = RoomsIn(one) \ {First(one)}
  BY <1>2, <1>3, NextRoom, RestOf
<1>5. RoomsIn(Rest(one)) = {}
  BY <1>2, <1>4
<1>6. ~ HasNext(Rest(one))
  BY <1>5 DEF HasNext, RoomsIn
<1> QED
  BY <1>1, <1>6 DEF Joining

LEMMA JoiningDone ==
    ASSUME TypeOK, InStep, NEW sid, NEW rid, NEW d, Joining(sid, rid, d) PROVE DoneOK'
<1>1. /\ IsTask(task) /\ task'.done = Append(task.done, d) /\ task'.sid = sid /\ task.sid = sid
      /\ task'.op \in {"user_joined", "room_join"} /\ Pending(task') = Pending(task) \cup {d}
      /\ d.rid = rid /\ rid \in RoomID
      /\ \A e \in Pending(task) :
             e.rid \in RoomsIn(in_rooms[sid]) /\ e.rid \in RoomID /\ e.rid # rid
  BY DEF Joining
<1>2. /\ members'[rid] = members[rid] \cup {sid} /\ UNCHANGED profile
      /\ \A r \in RoomID : r # rid => members'[r] = members[r]
  BY <1>1 DEF Joining, SetMembers, TypeOK
<1>3. /\ in_rooms[sid] \in Vector /\ in_rooms'[sid] = AddRoom(in_rooms[sid], rid)
      /\ in_rooms'[sid] \in Vector /\ Len(in_rooms'[sid]) <= MaxRooms
      /\ rid \in RoomsIn(in_rooms'[sid]) /\ d.rh = room_get_rh_by_id(in_rooms'[sid], rid)
      /\ d.users = get_users(members[rid] \cup {sid}, profile)
  BY DEF Joining
<1>4. ASSUME NEW e \in Pending(task')
      PROVE  /\ e.rh \in Nat /\ e.rh + 1 \in DOMAIN in_rooms'[sid]
             /\ in_rooms'[sid][e.rh + 1] = e.rid
             /\ e.users = get_users(members'[e.rid], profile')
  <2>1. CASE e = d
    <3>1. /\ e.rh \in Nat /\ e.rh + 1 \in DOMAIN in_rooms'[sid]
          /\ in_rooms'[sid][e.rh + 1] = rid
      BY <1>3, <2>1, HandleOf
    <3> QED
      BY <1>1, <1>2, <1>3, <2>1, <3>1
  <2>2. CASE e \in Pending(task)
    <3>1. /\ e.rh \in Nat /\ e.rh + 1 \in DOMAIN in_rooms[sid]
          /\ in_rooms[sid][e.rh + 1] = e.rid /\ e.users = get_users(members[e.rid], profile)
      BY <1>1, <2>2 DEF InStep, DoneOK
    <3>2. e.rid \in RoomID /\ e.rid # rid /\ e.rid # None
      BY <1>1, <2>2, RoomHandlesAssumption
    <3>3. /\ e.rh + 1 \in DOMAIN in_rooms'[sid]
          /\ in_rooms'[sid][e.rh + 1] = in_rooms[sid][e.rh + 1]
      BY <1>1, <1>3, <3>1, <3>2, KeptHandles
    <3> QED
      BY <1>2, <3>1, <3>2, <3>3
  <2> QED
    BY <1>1, <2>1, <2>2
<1>5. \A i, j \in DOMAIN task'.done : task'.done[i].rid = task'.done[j].rid => i = j
  <2> DEFINE done == task.done
             n == Len(done)
             more == Append(done, d)
  <2>1. done \in Seq(Pending(task) \cup {d})
    <3>1. done \in Seq(Pending(task))
      BY <1>1 DEF IsTask
    <3> QED
      BY <3>1, SeqMonotonic
  <2>2. /\ n \in Nat /\ DOMAIN done = 1 .. n /\ Len(more) = n + 1 /\ more[n + 1] = d
        /\ \A i \in 1 .. n : more[i] = done[i]
    BY <2>1, AppendProperties, LenProperties
  <2>3. DOMAIN more = 1 .. n + 1
    BY <2>1, <2>2, AppendProperties, LenProperties
  <2>4. \A i \in 1 .. n : done[i].rid # rid
    BY <1>1, <2>2 DEF Pending
  <2>5. \A i, j \in 1 .. n : done[i].rid = done[j].rid => i = j
    BY <2>2 DEF InStep, DoneOK
  <2> HIDE DEF done, n, more
  <2>6. \A i \in 1 .. n + 1 : i \in 1 .. n \/ i = n + 1
    BY <2>2
  <2>7. \A i, j \in 1 .. n + 1 : more[i].rid = more[j].rid => i = j
    BY <1>1, <2>2, <2>4, <2>5, <2>6
  <2> QED
    BY <1>1, <2>3, <2>7 DEF more, done
<1>6. task'.op = "room_join" => ~ HasNext(task'.todo)
  <2>1. task'.op = task.op
    BY DEF Joining
  <2> QED
    BY <2>1, JoiningLast
<1> QED
  BY <1>1, <1>4, <1>5, <1>6 DEF DoneOK

LEMMA ClientJoinRoom ==
    ASSUME TypeOK, IInv, Replicas, JoinRoom PROVE Replicas'
<1>1. PICK sid, rid, d : Joining(sid, rid, d)
  BY JoinRoomJoins
<1>2. InStep /\ NeverMisrouted /\ AllShaped(client)
  BY <1>1 DEF Replicas, Joining
<1>3. /\ sid \in UserID /\ rid \in RoomID /\ sid \notin members[rid]
      /\ task.op \in {"user_joined", "room_join"} /\ task'.op = task.op
      /\ task.sid = sid /\ task'.sid = sid /\ UNCHANGED <<profile, client>>
      /\ Pending(task') = Pending(task) \cup {d} /\ d.rid = rid
  BY <1>1 DEF Joining
<1>4. /\ members'[rid] = members[rid] \cup {sid}
      /\ \A r \in RoomID : r # rid => /\ members'[r] = members[r]
                                      /\ typing_timer'[r] = typing_timer[r]
      /\ \A u \in UserID : u # sid => typing_timer'[rid][u] = typing_timer[rid][u]
  BY <1>1 DEF Joining, SetMembers, TypeOK
<1>5. /\ \A u \in UserID : u # sid => in_rooms'[u] = in_rooms[u]
      /\ RoomsIn(in_rooms'[sid]) = RoomsIn(in_rooms[sid]) \cup {rid}
  BY <1>1 DEF Joining, TypeOK
<1>6. /\ Unannounced(rid)' = {sid} /\ Unannounced(rid) \subseteq {sid}
      /\ \A r : r # rid => Unannounced(r)' = Unannounced(r)
  BY <1>3 DEF Unannounced
<1>7. \A r : Excused(r)' = Excused(r)
  BY <1>3 DEF Excused, Changing
<1>8. ASSUME NEW u \in UserID, NEW r \in RoomsIn(in_rooms'[u]), u \notin Unannounced(r)'
      PROVE  Knows(u, r)'
  <2>1. CASE r # rid
    <3>1. r \in RoomsIn(in_rooms[u])
      BY <1>5, <1>8, <2>1
    <3>2. r \in RoomID /\ Knows(u, r)
      BY <1>2, <1>6, <1>8, <2>1, <3>1, RoomsType DEF InStep
    <3> QED
      BY <1>3, <1>4, <1>6, <1>7, <2>1, <3>2 DEF Knows
  <2>2. CASE r = rid
    <3>1. u # sid /\ u \notin Unannounced(rid)
      BY <1>6, <1>8, <2>2
    <3>2. Knows(u, rid)
      BY <1>2, <1>5, <1>8, <2>2, <3>1 DEF InStep
    <3>3. members'[rid] \ Unannounced(rid)' = members[rid] \ Unannounced(rid)
      BY <1>3, <1>4, <1>6
    <3>4. client'[u].typing[rid] \subseteq get_typing(members'[rid], typing_timer'[rid])
      <4>1. client[u].typing[rid] \subseteq get_typing(members[rid], typing_timer[rid])
        BY <3>2 DEF Knows
      <4>2. members[rid] \subseteq UserID
        BY <1>3 DEF TypeOK
      <4> QED
        BY <1>3, <1>4, <4>1, <4>2 DEF get_typing
    <3> QED
      BY <1>3, <1>7, <2>2, <3>2, <3>3, <3>4 DEF Knows
  <2> QED
    BY <2>1, <2>2
<1>9. ASSUME NEW u \in UserID, ~ Unread(u)' PROVE Finds(client'[u], in_rooms'[u])
  <2>1. Unread(sid)'
    BY <1>1, <1>2, <1>3, JoiningLast DEF Unread
  <2>2. u # sid
    BY <1>9, <2>1
  <2>3. ~ Unread(u)
    BY <1>3, <2>2 DEF Unread
  <2> QED
    BY <1>2, <1>3, <1>5, <2>2, <2>3 DEF InStep
<1>10. NeverMisrouted' /\ AllShaped(client')
  BY <1>2, <1>3 DEF NeverMisrouted
<1>11. DoneOK'
  BY <1>1, <1>2, JoiningDone
<1> QED
  BY <1>8, <1>9, <1>10, <1>11 DEF Replicas, InStep

LEMMA ClientSendRooms ==
    ASSUME TypeOK, IInv, Replicas, SendRooms PROVE Replicas'
<1> DEFINE next == [task EXCEPT !.op = "complete"]
<1>0. PICK sid \in UserID : sid = task.sid
  BY IdleOrLoop DEF SendRooms, IInv, TaskInStep, TypeOK
<1>1. /\ panicked = None /\ task.op \in {"user_joined", "room_join"} /\ ~ HasNext(task.todo)
      /\ Deliver(<<ToUser(sid, [type |-> "ROOM", rooms |-> in_rooms[sid]])>>)
      /\ task' = IF task.done = <<>> THEN NoTask ELSE next
      /\ UNCHANGED <<in_rooms, members, typing_timer, profile>>
  BY <1>0 DEF SendRooms, userVars, memberVars
<1>2. InStep /\ NeverMisrouted /\ AllShaped(client)
  BY <1>1 DEF Replicas
<1>3. IsTask(task) /\ task # NoTask
  BY <1>1, IdleOrLoop DEF TypeOK
<1>4. /\ Pending(next) = Pending(task) /\ next.op = "complete" /\ next.sid = sid
      /\ next.done = task.done
  BY <1>0, <1>3, CompleteIsTask DEF IsTask
<1> HIDE DEF next
<1>5. Opened(client, client', sid, in_rooms[sid])
  <2>1. client' = DeliverBatch(client, ToUser(sid, [type |-> "ROOM", rooms |-> in_rooms[sid]]))
    BY <1>1, DeliverOne
  <2> QED
    BY <1>2, <2>1, RoomOpened DEF TypeOK
<1>6. /\ Pending(task') = Pending(task) /\ task'.op \in {"idle", "complete"}
      /\ task'.op = "idle" => task'.done = <<>>
      /\ task'.done = task.done
      /\ Pending(task) # {} => task'.sid = sid
  <2>1. task.done = <<>> => Pending(task) = {} /\ Pending(NoTask) = {}
    BY NoTaskFields, NoDone
  <2> QED
    BY <1>1, <1>4, <2>1, NoTaskFields
<1>7. \A r : Unannounced(r)' = Unannounced(r)
  BY <1>0, <1>6 DEF Unannounced
<1>8. \A r : Excused(r)' = Excused(r)
  BY <1>1, <1>5, <1>6 DEF Excused, Changing, Opened
<1>9. DoneOK'
  <2>1. ASSUME NEW d \in Pending(task')
        PROVE  /\ d.rh \in Nat /\ d.rh + 1 \in DOMAIN in_rooms'[task'.sid]
               /\ in_rooms'[task'.sid][d.rh + 1] = d.rid
               /\ d.users = get_users(members'[d.rid], profile')
    BY <1>0, <1>1, <1>2, <1>6, <2>1 DEF InStep, DoneOK
  <2>2. \A i, j \in DOMAIN task'.done : task'.done[i].rid = task'.done[j].rid => i = j
    BY <1>2, <1>6 DEF InStep, DoneOK
  <2> QED
    BY <1>6, <2>1, <2>2 DEF DoneOK
<1>10. ASSUME NEW u \in UserID, NEW r \in RoomsIn(in_rooms'[u]), u \notin Unannounced(r)'
       PROVE  Knows(u, r)'
  <2>1. r \in RoomsIn(in_rooms[u]) /\ Knows(u, r)
    BY <1>1, <1>2, <1>7, <1>10 DEF InStep
  <2>2. client'[u].roster[r] = client[u].roster[r] /\ client'[u].typing[r] = client[u].typing[r]
    <3>1. CASE u = sid
      BY <1>5, <2>1, <3>1 DEF Opened
    <3>2. CASE u # sid
      BY <1>5, <3>2 DEF Opened
    <3> QED
      BY <3>1, <3>2
  <2> QED
    BY <1>1, <1>7, <1>8, <2>1, <2>2 DEF Knows
<1>11. ASSUME NEW u \in UserID PROVE Finds(client'[u], in_rooms'[u])
  <2>1. CASE u = sid
    BY <1>1, <1>5, <2>1 DEF Opened, Finds
  <2>2. CASE u # sid
    <3>1. ~ Unread(u)
      BY <1>0, <2>2 DEF Unread
    <3> QED
      BY <1>1, <1>2, <1>5, <2>2, <3>1 DEF Opened, InStep
  <2> QED
    BY <2>1, <2>2
<1>12. NeverMisrouted'
  <2>1. \A u \in UserID : client'[u].misrouted = client[u].misrouted
    BY <1>5 DEF Opened
  <2> QED
    BY <1>2, <2>1 DEF NeverMisrouted
<1> QED
  BY <1>5, <1>9, <1>10, <1>11, <1>12 DEF Replicas, InStep, Opened

\* The second half of a join takes its room off the list of those that wait.
LEMMA DoneRest ==
    ASSUME IsTask(task), task # NoTask, task.done # <<>>, DoneOK,
           NEW next, next.done = Tail(task.done)
    PROVE  LET d == Head(task.done)
           IN  /\ d \in Pending(task) /\ \A e \in Pending(next) : e \in Pending(task)
               /\ \A e \in Pending(task) : e \in Pending(next) <=> e.rid # d.rid
               /\ \A i, j \in DOMAIN next.done : next.done[i].rid = next.done[j].rid => i = j
               /\ Len(task.done) = 1 => Pending(next) = {}
<1> DEFINE d    == Head(task.done)
           done == task.done
           rest == Tail(task.done)
           n    == Len(task.done)
<1>1. done \in Seq(Pending(task)) /\ done # <<>>
  BY DEF IsTask
<1>2. /\ n \in Nat /\ DOMAIN done = 1 .. n /\ n >= 1 /\ d = done[1]
      /\ rest \in Seq(Pending(task)) /\ Len(rest) = n - 1
      /\ \A i \in 1 .. n - 1 : rest[i] = done[i + 1]
  BY <1>1, HeadTailProperties, LenProperties, EmptySeq
<1>3. DOMAIN rest = 1 .. n - 1
  BY <1>2, LenProperties
<1>4. \A i, j \in 1 .. n : done[i].rid = done[j].rid => i = j
  BY <1>2 DEF DoneOK
<1>5. /\ \A e : e \in Pending(task) <=> \E i \in 1 .. n : e = done[i]
      /\ \A e : e \in Pending(next) <=> \E i \in 1 .. n - 1 : e = rest[i]
  BY <1>2, <1>3 DEF Pending
<1>6. next.done = rest
  OBVIOUS
<1> HIDE DEF d, done, rest, n
<1>7. 1 \in 1 .. n /\ \A i \in 1 .. n - 1 : i + 1 \in 1 .. n /\ i + 1 # 1
  BY <1>2
<1>8. \A i \in 1 .. n : i # 1 => i - 1 \in 1 .. n - 1 /\ rest[i - 1] = done[i]
  <2> TAKE i \in 1 .. n
  <2> HAVE i # 1
  <2>1. i - 1 \in 1 .. n - 1 /\ (i - 1) + 1 = i
    BY <1>2
  <2> QED
    BY <1>2, <2>1
<1>9. d \in Pending(task) /\ \A e \in Pending(next) : e \in Pending(task) /\ e.rid # d.rid
  BY <1>2, <1>4, <1>5, <1>7
<1>10. \A e \in Pending(task) : e.rid # d.rid => e \in Pending(next)
  BY <1>2, <1>5, <1>8
<1>11. \A i, j \in 1 .. n - 1 : rest[i].rid = rest[j].rid => i = j
  BY <1>2, <1>4, <1>7
<1>12. n = 1 => Pending(next) = {}
  BY <1>5
<1> QED
  BY <1>3, <1>6, <1>9, <1>10, <1>11, <1>12 DEF d, n

\* What everybody knows when room rid has been told that sid is a member.
Welcomed(ds, sid, rid) ==
    /\ AllShaped(ds)
    /\ \A u \in UserID : /\ ds[u].rooms = client[u].rooms
                         /\ ds[u].misrouted = client[u].misrouted
                         /\ ds[u].renamed = IF u = sid THEN client[u].renamed \ {rid}
                                                       ELSE client[u].renamed
    /\ \A u \in UserID, r \in RoomID :
           /\ ds[u].roster[r] = IF r # rid \/ u \notin members[rid] THEN client[u].roster[r]
                                ELSE IF u = sid THEN get_users(members[rid], profile)
                                ELSE Others(client[u].roster[r], sid) \cup {<<sid, profile[sid]>>}
           /\ ds[u].typing[r] = IF r = rid /\ u = sid THEN {} ELSE client[u].typing[r]

\* What the logs are then.
Briefed(ds, sid, rid, hist, msg) ==
    \A u \in UserID, r \in RoomID :
        ds[u].log[r] = IF r # rid \/ u \notin members[rid] THEN client[u].log[r]
                       ELSE LastN(Append(IF u = sid THEN LastN(hist) ELSE client[u].log[r], msg))

LEMMA Welcome ==
    ASSUME TypeOK, IInv, InStep, AllShaped(client), NEW sid \in UserID, NEW rid \in RoomID,
           sid \in members[rid], task.op = "complete",
           NEW rh, rh \in Nat, rh + 1 \in DOMAIN in_rooms[sid], in_rooms[sid][rh + 1] = rid,
           NEW told, told = get_users(members[rid], profile), NEW hist, NEW msg
    PROVE  LET own(e) == ToUser(sid, About(rid, rh, e))
               mem == members[rid]
               d1 == DeliverBatch(client, own([type |-> "HISTORY", hist |-> hist]))
               d2 == DeliverBatch(d1, ToRoom(rid, mem, [type |-> "USER_JOINED",
                                                        user |-> <<sid, profile[sid]>>]))
               d3 == DeliverBatch(d2, own([type |-> "USER_UPDATE", users |-> told]))
               d4 == DeliverBatch(d3, MessageTo(rid, mem, msg))
           IN  Welcomed(d4, sid, rid) /\ Briefed(d4, sid, rid, hist, msg)
<1> DEFINE mem == members[rid]
           e1 == [type |-> "HISTORY", hist |-> hist]
           new == <<sid, profile[sid]>>
           e2 == [type |-> "USER_JOINED", user |-> new]
           e3 == [type |-> "USER_UPDATE", users |-> told]
           e4 == [type |-> "MESSAGE", msg |-> msg]
           d1 == DeliverBatch(client, ToUser(sid, About(rid, rh, e1)))
           d2 == DeliverBatch(d1, ToRoom(rid, mem, e2))
           d3 == DeliverBatch(d2, ToUser(sid, About(rid, rh, e3)))
           d4 == DeliverBatch(d3, MessageTo(rid, mem, msg))
<1>1. \A u \in UserID : ~ Unread(u)
  BY DEF Unread
<1>2. Reachable(client, rid, mem)
  <2>1. mem \subseteq members[rid] /\ \A u \in mem : ~ Unread(u)
    BY <1>1 DEF TypeOK
  <2> HIDE DEF mem
  <2> QED
    BY <2>1, Reached
<1>3. Resolve(client[sid], rh) = rid
  BY <1>1, RoomHandlesAssumption DEF InStep, Finds, Resolve
<1>4. IsEvent(e1) /\ IsEvent(e2) /\ IsEvent(e3) /\ IsEvent(e4) /\ e4.type \in Talk
  BY DEF IsEvent, Types, Talk
<1>5. new[1] = sid /\ e1.type = "HISTORY"
  OBVIOUS
<1>6. /\ \A ro : RosterBy(e1, ro) = {}
      /\ \A ty : TypingBy(e1, ty) = {}
  BY DEF RosterBy, TypingBy
<1>7. /\ \A ro : RosterBy(e2, ro) = Others(ro, sid) \cup {new}
      /\ \A ty : TypingBy(e2, ty) = ty
      /\ e2.type # "HISTORY"
  <2>1. e2.type = "USER_JOINED" /\ e2.user = new
    OBVIOUS
  <2> HIDE DEF e2, new
  <2> QED
    BY <1>5, <2>1 DEF RosterBy, TypingBy
<1>8. /\ \A ro : RosterBy(e3, ro) = told
      /\ \A ty : TypingBy(e3, ty) = ty
      /\ e3.type # "HISTORY"
  BY DEF RosterBy, TypingBy
<1>9. MessageTo(rid, mem, msg) = ToRoom(rid, mem, e4)
  BY DEF MessageTo
<1> HIDE DEF e1, e2, e3, e4, mem
<1>10. Heard(client, d1, rid, {sid}, e1)
  BY <1>3, <1>4, ToOneHeard
<1>11. AllShaped(d1) /\ Reachable(d1, rid, mem)
  <2>1. AllShaped(d1)
    BY <1>10 DEF Heard
  <2>2. Reachable(d1, rid, mem)
    BY <1>2, <1>10, StillReachable
  <2> QED
    BY <2>1, <2>2
<1>12. Heard(d1, d2, rid, mem, e2)
  BY <1>4, <1>11, SendHeard
<1>13. AllShaped(d2) /\ Reachable(d2, rid, mem)
  <2>1. AllShaped(d2)
    BY <1>12 DEF Heard
  <2>2. Reachable(d2, rid, mem)
    BY <1>11, <1>12, StillReachable
  <2> QED
    BY <2>1, <2>2
<1>14. Resolve(d2[sid], rh) = rid
  <2>1. d1[sid].rooms = client[sid].rooms /\ d2[sid].rooms = d1[sid].rooms
    BY <1>10, <1>12 DEF Heard
  <2> QED
    BY <1>3, <2>1 DEF Resolve
<1>15. Heard(d2, d3, rid, {sid}, e3)
  BY <1>4, <1>13, <1>14, ToOneHeard
<1>16. AllShaped(d3) /\ Reachable(d3, rid, mem)
  <2>1. AllShaped(d3)
    BY <1>15 DEF Heard
  <2>2. Reachable(d3, rid, mem)
    BY <1>13, <1>15, StillReachable
  <2> QED
    BY <2>1, <2>2
<1>17. Heard(d3, d4, rid, mem, e4)
  BY <1>4, <1>9, <1>16, SendHeard
<1>18. SameLists(d3, d4)
  BY <1>4, <1>17, TalkHeard
<1> HIDE DEF d1, d2, d3, d4
<1>19. ASSUME NEW u \in UserID
       PROVE  /\ d4[u].rooms = client[u].rooms
              /\ d4[u].misrouted = client[u].misrouted
              /\ d4[u].renamed = IF u = sid THEN client[u].renamed \ {rid}
                                            ELSE client[u].renamed
  <2>1. /\ d1[u].rooms = client[u].rooms /\ d1[u].misrouted = client[u].misrouted
        /\ d1[u].renamed = IF u \in {sid} /\ e1.type = "HISTORY" THEN client[u].renamed \ {rid}
                                                                 ELSE client[u].renamed
    BY <1>10 DEF Heard
  <2>2. /\ d2[u].rooms = d1[u].rooms /\ d2[u].misrouted = d1[u].misrouted
        /\ d2[u].renamed = d1[u].renamed
    BY <1>7, <1>12 DEF Heard
  <2>3. /\ d3[u].rooms = d2[u].rooms /\ d3[u].misrouted = d2[u].misrouted
        /\ d3[u].renamed = d2[u].renamed
    BY <1>8, <1>15 DEF Heard
  <2>4. /\ d4[u].rooms = d3[u].rooms /\ d4[u].misrouted = d3[u].misrouted
        /\ d4[u].renamed = d3[u].renamed
    BY <1>18 DEF SameLists
  <2> QED
    BY <1>5, <2>1, <2>2, <2>3, <2>4
<1>20. ASSUME NEW u \in UserID, NEW r \in RoomID
       PROVE  /\ d4[u].roster[r] = IF r # rid \/ u \notin mem THEN client[u].roster[r]
                                   ELSE IF u = sid THEN told
                                   ELSE Others(client[u].roster[r], sid) \cup {new}
              /\ d4[u].typing[r] = IF r = rid /\ u = sid THEN {} ELSE client[u].typing[r]
  <2>1. d4[u].roster[r] = d3[u].roster[r] /\ d4[u].typing[r] = d3[u].typing[r]
    BY <1>18 DEF SameLists
  <2>2. /\ d1[u].roster[r] = IF u \in {sid} /\ r = rid
                             THEN RosterBy(e1, client[u].roster[r]) ELSE client[u].roster[r]
        /\ d1[u].typing[r] = IF u \in {sid} /\ r = rid
                             THEN TypingBy(e1, client[u].typing[r]) ELSE client[u].typing[r]
    BY <1>10 DEF Heard
  <2>3. /\ d2[u].roster[r] = IF u \in mem /\ r = rid
                             THEN RosterBy(e2, d1[u].roster[r]) ELSE d1[u].roster[r]
        /\ d2[u].typing[r] = IF u \in mem /\ r = rid
                             THEN TypingBy(e2, d1[u].typing[r]) ELSE d1[u].typing[r]
    BY <1>12 DEF Heard
  <2>4. /\ d3[u].roster[r] = IF u \in {sid} /\ r = rid
                             THEN RosterBy(e3, d2[u].roster[r]) ELSE d2[u].roster[r]
        /\ d3[u].typing[r] = IF u \in {sid} /\ r = rid
                             THEN TypingBy(e3, d2[u].typing[r]) ELSE d2[u].typing[r]
    BY <1>15 DEF Heard
  <2>5. sid \in mem
    BY DEF mem
  <2> HIDE DEF new
  <2> QED
    BY <1>6, <1>7, <1>8, <2>1, <2>2, <2>3, <2>4, <2>5
<1>21. AllShaped(d4)
  BY <1>18 DEF SameLists
<1>22. Welcomed(d4, sid, rid)
  BY <1>19, <1>20, <1>21 DEF Welcomed, mem, new
<1>23. \A lg : LogBy(e1, lg) = LastN(hist)
  BY DEF e1, LogBy
<1>24. SameLogs(d1, d2) /\ SameLogs(d2, d3) /\ Said(d3, d4, rid, mem, msg)
  <2>1. e2.type \notin {"HISTORY", "MESSAGE"} /\ e3.type \notin {"HISTORY", "MESSAGE"}
    BY DEF e2, e3
  <2> QED
    BY <1>12, <1>15, <1>17, <2>1, NothingSaid, SaidHeard DEF e4
<1>25. ASSUME NEW u \in UserID, NEW r \in RoomID
       PROVE  d4[u].log[r] = IF r # rid \/ u \notin members[rid] THEN client[u].log[r]
                             ELSE LastN(Append(IF u = sid THEN LastN(hist)
                                               ELSE client[u].log[r], msg))
  <2>1. d1[u].log[r] = IF u = sid /\ r = rid THEN LastN(hist) ELSE client[u].log[r]
    <3>1. d1[u].log[r] = IF u \in {sid} /\ r = rid THEN LogBy(e1, client[u].log[r])
                                                  ELSE client[u].log[r]
      BY <1>10 DEF Heard
    <3> QED
      BY <1>23, <3>1
  <2>2. d3[u].log[r] = d1[u].log[r]
    BY <1>24 DEF SameLogs
  <2>3. d4[u].log[r] = IF u \in mem /\ r = rid THEN LastN(Append(d3[u].log[r], msg))
                                               ELSE d3[u].log[r]
    BY <1>24 DEF Said
  <2> QED
    BY <2>1, <2>2, <2>3 DEF mem
<1>26. Briefed(d4, sid, rid, hist, msg)
  BY <1>25 DEF Briefed
<1> QED
  BY <1>22, <1>26 DEF d1, d2, d3, d4, e1, e2, e3, mem, new

LEMMA ClientComplete ==
    ASSUME TypeOK, IInv, Replicas, user_room_join_unimmediate_complete PROVE Replicas'
<1>0. PICK sid \in UserID : sid = task.sid
  BY IdleOrLoop DEF user_room_join_unimmediate_complete, IInv, TaskInStep, TypeOK
<1>d. PICK d : d = Head(task.done)
  OBVIOUS
<1> DEFINE rid  == d.rid
           mem  == members[rid]
           msg  == TextMessage(d.mid, "user_joined", SYSTEM, None)
           next == [task EXCEPT !.done = Tail(@)]
           own(e) == ToUser(sid, About(rid, d.rh, e))
           b1 == own([type |-> "HISTORY", hist |-> d.hist])
           b2 == ToRoom(rid, mem, [type |-> "USER_JOINED", user |-> <<sid, profile[sid]>>])
           b3 == own([type |-> "USER_UPDATE", users |-> d.users])
           b4 == MessageTo(rid, mem, msg)
<1>1. /\ panicked = None /\ task.op = "complete" /\ task.done # <<>>
      /\ Deliver(<<b1, b2, b3, b4>>) /\ task' = IF Len(task.done) = 1 THEN NoTask ELSE next
      /\ UNCHANGED <<in_rooms, members, typing_timer, profile>>
  BY <1>0, <1>d DEF user_room_join_unimmediate_complete, userVars, memberVars
<1>2. InStep /\ NeverMisrouted /\ AllShaped(client)
  BY <1>1 DEF Replicas
<1>3. IsTask(task) /\ task # NoTask
  BY <1>1, IdleOrLoop DEF TypeOK
<1>4. next.op = "complete" /\ next.sid = sid /\ next.done = Tail(task.done)
  BY <1>0, <1>1, <1>3 DEF IsTask
<1> HIDE DEF next
<1>5. /\ d \in Pending(task) /\ \A e \in Pending(next) : e \in Pending(task)
      /\ \A e \in Pending(task) : e \in Pending(next) <=> e.rid # rid
      /\ \A i, j \in DOMAIN next.done : next.done[i].rid = next.done[j].rid => i = j
      /\ Len(task.done) = 1 => Pending(next) = {}
  BY <1>d, <1>1, <1>2, <1>3, <1>4, DoneRest DEF InStep
<1>6. rid \in RoomsIn(in_rooms[sid])
  BY <1>0, <1>1, <1>5 DEF IInv, TaskInStep
<1>7. rid \in RoomID /\ sid \in mem
  BY <1>6, RoomsOfUser
<1>8. /\ d.rh \in Nat /\ d.rh + 1 \in DOMAIN in_rooms[sid] /\ in_rooms[sid][d.rh + 1] = rid
      /\ d.users = get_users(mem, profile)
  BY <1>0, <1>2, <1>5 DEF InStep, DoneOK
<1>9. Welcomed(client', sid, rid)
  <2>1. client' = DeliverBatch(DeliverBatch(DeliverBatch(DeliverBatch(client, b1), b2), b3), b4)
    <3> HIDE DEF b1, b2, b3, b4
    <3> QED
      BY <1>1, DeliverFour
  <2> HIDE DEF msg
  <2>2. Welcomed(DeliverBatch(DeliverBatch(DeliverBatch(DeliverBatch(client, b1), b2), b3), b4),
                 sid, rid)
    BY <1>1, <1>2, <1>7, <1>8, Welcome
  <2> HIDE DEF b1, b2, b3, b4
  <2> QED
    BY <2>1, <2>2
<1> HIDE DEF b1, b2, b3, b4, rid, mem, msg
<1>10. /\ Pending(task') = Pending(next) /\ task'.op \in {"idle", "complete"}
       /\ Pending(next) # {} => task'.sid = sid
       /\ task'.op = "idle" => task'.done = <<>>
       /\ \A i, j \in DOMAIN task'.done : task'.done[i].rid = task'.done[j].rid => i = j
  <2>1. CASE Len(task.done) = 1
    <3>1. task' = NoTask /\ Pending(NoTask) = {} /\ DOMAIN NoTask.done = {}
      BY <1>1, <2>1, NoTaskFields, NoDone
    <3> QED
      BY <1>5, <2>1, <3>1, NoTaskFields
  <2>2. CASE Len(task.done) # 1
    <3>1. task' = next
      BY <1>1, <2>2
    <3> QED
      BY <1>4, <1>5, <3>1
  <2> QED
    BY <2>1, <2>2
<1>11. /\ Unannounced(rid) = {sid} /\ Unannounced(rid)' = {}
       /\ \A r : r # rid => Unannounced(r)' = Unannounced(r)
  <2>1. \E e \in Pending(task) : e.rid = rid
    BY <1>5 DEF rid
  <2>2. ~ \E e \in Pending(task') : e.rid = rid
    BY <1>5, <1>10
  <2>3. \A r : r # rid => ((\E e \in Pending(task') : e.rid = r)
                             <=> (\E e \in Pending(task) : e.rid = r))
    BY <1>5, <1>10
  <2>4. Pending(task') # {} => task'.sid = sid
    BY <1>10
  <2>5. ASSUME NEW r, r # rid PROVE Unannounced(r)' = Unannounced(r)
    BY <1>0, <2>3, <2>4, <2>5 DEF Unannounced
  <2> QED
    BY <1>0, <2>1, <2>2, <2>5 DEF Unannounced
<1>12. /\ Excused(rid) \ {sid} \subseteq Excused(rid)'
       /\ \A r : r # rid => Excused(r)' = Excused(r)
  <2>1. \A r : Changing(r) = {} /\ Changing(r)' = {}
    BY <1>1, <1>10 DEF Changing
  <2>2. \A u \in UserID : client'[u].renamed = IF u = sid THEN client[u].renamed \ {rid}
                                                          ELSE client[u].renamed
    BY <1>9 DEF Welcomed
  <2> QED
    BY <2>1, <2>2 DEF Excused
<1>13. DoneOK'
  <2>1. ASSUME NEW e \in Pending(task')
        PROVE  /\ e.rh \in Nat /\ e.rh + 1 \in DOMAIN in_rooms'[task'.sid]
               /\ in_rooms'[task'.sid][e.rh + 1] = e.rid
               /\ e.users = get_users(members'[e.rid], profile')
    BY <1>0, <1>1, <1>2, <1>5, <1>10, <2>1 DEF InStep, DoneOK
  <2> QED
    BY <1>10, <2>1 DEF DoneOK
<1>14. ASSUME NEW u \in UserID, NEW r \in RoomsIn(in_rooms'[u]), u \notin Unannounced(r)'
       PROVE  Knows(u, r)'
  <2>1. r \in RoomID /\ r \in RoomsIn(in_rooms[u]) /\ u \in members[r]
    BY <1>1, <1>14, RoomsOfUser
  <2>2. CASE r # rid
    <3>1. Knows(u, r)
      BY <1>2, <1>11, <1>14, <2>1, <2>2 DEF InStep
    <3>2. client'[u].roster[r] = client[u].roster[r] /\ client'[u].typing[r] = client[u].typing[r]
      BY <1>9, <2>1, <2>2 DEF Welcomed
    <3> QED
      BY <1>1, <1>11, <1>12, <2>2, <3>1, <3>2 DEF Knows
  <2>3. CASE r = rid /\ u = sid
    <3>1. client'[u].roster[r] = get_users(mem, profile) /\ client'[u].typing[r] = {}
      BY <1>7, <1>9, <2>3 DEF Welcomed, mem
    <3>2. Lists(get_users(mem, profile), mem, profile, Excused(r)')
      BY ListsUsers
    <3>3. mem = members'[r] \ Unannounced(r)'
      BY <1>1, <1>11, <2>3 DEF mem
    <3> QED
      BY <1>1, <3>1, <3>2, <3>3 DEF Knows
  <2>4. CASE r = rid /\ u # sid
    <3> DEFINE roster == client[u].roster[rid]
               names == mem \ {sid}
               excused == Excused(rid)
               excused2 == Excused(rid)'
    <3>1. Knows(u, rid)
      BY <1>2, <1>11, <2>1, <2>4 DEF InStep
    <3>2. Lists(roster, names, profile, excused)
      BY <1>11, <3>1 DEF Knows, mem
    <3>3. (names \cup {sid}) \cap (excused \ {sid}) \subseteq excused2
      BY <1>12
    <3>4. names \cup {sid} = mem
      BY <1>7
    <3> HIDE DEF roster, names, excused, excused2
    <3>5. Lists(Others(roster, sid) \cup {<<sid, profile[sid]>>}, names \cup {sid}, profile,
                excused \ {sid})
      BY <3>2, ListsMore
    <3>6. Lists(Others(roster, sid) \cup {<<sid, profile[sid]>>}, names \cup {sid}, profile,
                excused2)
      BY <3>3, <3>5, ListsStill
    <3>7. /\ client'[u].roster[rid] = Others(roster, sid) \cup {<<sid, profile[sid]>>}
          /\ client'[u].typing[rid] = client[u].typing[rid]
      BY <1>7, <1>9, <2>1, <2>4 DEF Welcomed, roster
    <3>8. members'[rid] \ Unannounced(rid)' = names \cup {sid}
      BY <1>1, <1>11, <3>4 DEF mem
    <3>9. Lists(client'[u].roster[rid], members'[rid] \ Unannounced(rid)', profile', Excused(rid)')
      BY <1>1, <3>6, <3>7, <3>8 DEF excused2
    <3> QED
      BY <1>1, <2>4, <3>1, <3>7, <3>9 DEF Knows
  <2> QED
    BY <2>2, <2>3, <2>4
<1>15. ASSUME NEW u \in UserID PROVE Finds(client'[u], in_rooms'[u])
  <2>1. ~ Unread(u)
    BY <1>1 DEF Unread
  <2>2. Finds(client[u], in_rooms[u]) /\ client'[u].rooms = client[u].rooms
    BY <1>2, <1>9, <2>1 DEF InStep, Welcomed
  <2> QED
    BY <1>1, <2>2 DEF Finds
<1>16. NeverMisrouted' /\ AllShaped(client')
  BY <1>2, <1>9 DEF NeverMisrouted, Welcomed
<1> QED
  BY <1>13, <1>14, <1>15, <1>16 DEF Replicas, InStep
------------------------------------------------------------------------------
(* A change of nick, told to a room. *)

\* What the clients know when room rid has been told of the profile of sid.
Introduced(ds, sid, rid) ==
    /\ AllShaped(ds)
    /\ \A u \in UserID : /\ ds[u].rooms = client[u].rooms
                         /\ ds[u].misrouted = client[u].misrouted
                         /\ ds[u].renamed = client[u].renamed
    /\ \A u \in UserID, r \in RoomID :
           /\ ds[u].roster[r] = IF r # rid \/ u \notin members[rid] THEN client[u].roster[r]
                                ELSE Others(client[u].roster[r], sid) \cup {<<sid, profile[sid]>>}
           /\ ds[u].typing[r] = client[u].typing[r]

LEMMA Introduce ==
    ASSUME TypeOK, IInv, InStep, AllShaped(client), NEW sid, NEW rid \in RoomID,
           task.op = "ch_nick", NEW msg
    PROVE  LET mem == members[rid]
               d1 == DeliverBatch(client, ToRoom(rid, mem, [type |-> "USER_CHANGE_NICK",
                                                            user |-> <<sid, profile[sid]>>]))
               d2 == DeliverBatch(d1, MessageTo(rid, mem, msg))
           IN  Introduced(d2, sid, rid) /\ Said(client, d2, rid, mem, msg)
<1> DEFINE mem == members[rid]
           new == <<sid, profile[sid]>>
           e1 == [type |-> "USER_CHANGE_NICK", user |-> new]
           e2 == [type |-> "MESSAGE", msg |-> msg]
           d1 == DeliverBatch(client, ToRoom(rid, mem, e1))
           d2 == DeliverBatch(d1, MessageTo(rid, mem, msg))
<1>1. Reachable(client, rid, mem)
  <2>1. mem \subseteq members[rid] /\ \A u \in mem : ~ Unread(u)
    BY DEF Unread
  <2> HIDE DEF mem
  <2> QED
    BY <2>1, Reached
<1>2. IsEvent(e1) /\ IsEvent(e2) /\ e2.type \in Talk
  BY DEF IsEvent, Types, Talk
<1>3. /\ \A ro : RosterBy(e1, ro) = Others(ro, sid) \cup {new}
      /\ \A ty : TypingBy(e1, ty) = ty
      /\ e1.type # "HISTORY"
  <2>1. e1.type = "USER_CHANGE_NICK" /\ e1.user = new /\ new[1] = sid
    OBVIOUS
  <2> HIDE DEF e1, new
  <2> QED
    BY <2>1 DEF RosterBy, TypingBy
<1>4. MessageTo(rid, mem, msg) = ToRoom(rid, mem, e2)
  BY DEF MessageTo
<1> HIDE DEF e1, e2, mem
<1>5. Heard(client, d1, rid, mem, e1)
  BY <1>1, <1>2, SendHeard
<1>6. AllShaped(d1) /\ Reachable(d1, rid, mem)
  <2>1. AllShaped(d1)
    BY <1>5 DEF Heard
  <2>2. Reachable(d1, rid, mem)
    BY <1>1, <1>5, StillReachable
  <2> QED
    BY <2>1, <2>2
<1>7. Heard(d1, d2, rid, mem, e2)
  BY <1>2, <1>4, <1>6, SendHeard
<1>8. SameLists(d1, d2)
  BY <1>2, <1>7, TalkHeard
<1> HIDE DEF d1, d2, new
<1>9. ASSUME NEW u \in UserID
      PROVE  /\ d2[u].rooms = client[u].rooms /\ d2[u].misrouted = client[u].misrouted
             /\ d2[u].renamed = client[u].renamed
  <2>1. /\ d1[u].rooms = client[u].rooms /\ d1[u].misrouted = client[u].misrouted
        /\ d1[u].renamed = client[u].renamed
    BY <1>3, <1>5 DEF Heard
  <2> QED
    BY <1>8, <2>1 DEF SameLists
<1>10. ASSUME NEW u \in UserID, NEW r \in RoomID
       PROVE  /\ d2[u].roster[r] = IF r # rid \/ u \notin mem THEN client[u].roster[r]
                                   ELSE Others(client[u].roster[r], sid) \cup {new}
              /\ d2[u].typing[r] = client[u].typing[r]
  <2>1. d2[u].roster[r] = d1[u].roster[r] /\ d2[u].typing[r] = d1[u].typing[r]
    BY <1>8 DEF SameLists
  <2>2. /\ d1[u].roster[r] = IF u \in mem /\ r = rid
                             THEN RosterBy(e1, client[u].roster[r]) ELSE client[u].roster[r]
        /\ d1[u].typing[r] = IF u \in mem /\ r = rid
                             THEN TypingBy(e1, client[u].typing[r]) ELSE client[u].typing[r]
    BY <1>5 DEF Heard
  <2> QED
    BY <1>3, <2>1, <2>2
<1>11. AllShaped(d2)
  BY <1>8 DEF SameLists
<1>12. Introduced(d2, sid, rid)
  BY <1>9, <1>10, <1>11 DEF Introduced, mem, new
<1>13. SameLogs(client, d1) /\ Said(d1, d2, rid, mem, msg)
  <2>1. e1.type \notin {"HISTORY", "MESSAGE"}
    BY DEF e1
  <2> QED
    BY <1>5, <1>7, <2>1, NothingSaid, SaidHeard DEF e2
<1>14. Said(client, d2, rid, mem, msg)
  BY <1>13 DEF Said, SameLogs
<1> QED
  BY <1>12, <1>14 DEF d1, d2, e1, mem, new

LEMMA ClientChNickRoom ==
    ASSUME TypeOK, IInv, Replicas, ChNickRoom PROVE Replicas'
<1>0. PICK sid \in UserID, rid \in RoomID : sid = task.sid /\ rid = First(task.todo)
  BY RunningType DEF ChNickRoom
<1> DEFINE mem  == members[rid]
           msg  == TextMessage(msgid_counter, "user_ch_nick", SYSTEM, None)
           b1   == ToRoom(rid, mem, [type |-> "USER_CHANGE_NICK", user |-> <<sid, profile[sid]>>])
           b2   == MessageTo(rid, mem, msg)
           rest == [task EXCEPT !.todo = Rest(@)]
<1>1. /\ task.op = "ch_nick" /\ rid \in RoomsIn(task.todo)
      /\ task.todo \in Vector /\ HasNext(task.todo) /\ IsTask(task) /\ panicked = None
  BY <1>0, RunningType DEF ChNickRoom
<1>2. /\ UNCHANGED <<in_rooms, members, typing_timer, profile>> /\ Deliver(<<b1, b2>>)
      /\ task' = EndOr(rest)
  BY <1>0 DEF ChNickRoom, userVars, memberVars
<1>3. InStep /\ NeverMisrouted /\ AllShaped(client)
  BY <1>1 DEF Replicas
<1>4. task.done = <<>> /\ \A u \in UserID : ~ Unread(u)
  BY <1>1, <1>3 DEF InStep, DoneOK, Unread
<1>5. /\ rest.op = "ch_nick" /\ rest.sid = sid /\ rest.todo = Rest(task.todo)
      /\ rest.done = <<>>
  BY <1>0, <1>1, <1>4 DEF IsTask
<1>6. NoDuplicates(task.todo) /\ sid \in members[rid]
  <2>1. NoDuplicates(task.todo) /\ rid \in RoomsIn(in_rooms[sid])
    BY <1>0, <1>1 DEF IInv, TaskInStep
  <2> QED
    BY <2>1, RoomsOfUser
<1>7. Rest(task.todo) \in Vector /\ RoomsIn(Rest(task.todo)) = RoomsIn(task.todo) \ {rid}
  BY <1>0, <1>1, <1>6, RestOf
<1>8. task'.done = <<>> /\ task'.op \in {"idle", "ch_nick"}
  <2> HIDE DEF rest
  <2> QED
    BY <1>2, <1>5, NoTaskFields DEF EndOr
<1>9. Introduced(client', sid, rid)
  <2>1. client' = DeliverBatch(DeliverBatch(client, b1), b2)
    <3> HIDE DEF b1, b2
    <3> QED
      BY <1>2, DeliverTwo
  <2> HIDE DEF msg
  <2>2. Introduced(DeliverBatch(DeliverBatch(client, b1), b2), sid, rid)
    BY <1>1, <1>3, Introduce
  <2> HIDE DEF b1, b2
  <2> QED
    BY <2>1, <2>2
<1> HIDE DEF mem, msg, b1, b2, rest
<1>10. \A r \in RoomID : Changing(r) \subseteq Changing(r)' \cup (IF r = rid THEN {sid} ELSE {})
  <2> SUFFICES ASSUME NEW r \in RoomID, r # rid, r \in RoomsIn(task.todo)
               PROVE  Changing(r)' = {sid}
    BY <1>0, <1>1 DEF Changing
  <2>1. r \in RoomsIn(rest.todo)
    BY <1>5, <1>7
  <2>2. HasNext(rest.todo)
    BY <1>5, <1>7, <2>1, NoNext
  <2>3. task' = rest
    BY <1>2, <2>2 DEF EndOr
  <2> QED
    BY <1>5, <2>1, <2>3 DEF Changing
<1>11. \A r \in RoomID : Excused(r) \subseteq Excused(r)' \cup (IF r = rid THEN {sid} ELSE {})
  <2>1. \A u \in UserID : client'[u].renamed = client[u].renamed
    BY <1>9 DEF Introduced
  <2> QED
    BY <1>10, <2>1 DEF Excused
<1>12. DoneOK' /\ (\A r : Unannounced(r)' = {}) /\ \A r : Unannounced(r) = {}
  BY <1>3, <1>4, <1>8, NoDoneOK, NobodyWaits
<1>13. ASSUME NEW u \in UserID, NEW r \in RoomsIn(in_rooms'[u]) PROVE Knows(u, r)'
  <2>1. r \in RoomID /\ r \in RoomsIn(in_rooms[u]) /\ u \in members[r]
    BY <1>2, <1>13, RoomsOfUser
  <2>2. Knows(u, r)
    BY <1>3, <1>12, <2>1 DEF InStep
  <2> DEFINE roster == client[u].roster[r]
             names == members[r]
             excused == Excused(r)
             excused2 == Excused(r)'
  <2>3. Lists(roster, names, profile, excused)
    BY <1>12, <2>2 DEF Knows
  <2>4. client'[u].typing[r] = client[u].typing[r]
    BY <1>9, <2>1 DEF Introduced
  <2>5. members'[r] \ Unannounced(r)' = names
    BY <1>2, <1>12
  <2>6. CASE r # rid
    <3>1. client'[u].roster[r] = roster
      BY <1>9, <2>1, <2>6 DEF Introduced
    <3>2. names \cap excused \subseteq excused2
      BY <1>11, <2>1, <2>6
    <3> HIDE DEF roster, names, excused, excused2
    <3>3. Lists(roster, names, profile, excused2)
      BY <2>3, <3>2, ListsStill
    <3>4. Lists(client'[u].roster[r], members'[r] \ Unannounced(r)', profile', Excused(r)')
      BY <1>2, <2>5, <3>1, <3>3 DEF excused2
    <3> QED
      BY <1>2, <2>2, <2>4, <3>4 DEF Knows
  <2>7. CASE r = rid
    <3> DEFINE more == Others(roster, sid) \cup {<<sid, profile[sid]>>}
    <3>1. client'[u].roster[r] = more
      BY <1>9, <2>1, <2>7 DEF Introduced
    <3>2. names \cup {sid} = names
      BY <1>6, <2>7
    <3>3. names \cap (excused \ {sid}) \subseteq excused2
      BY <1>11, <2>1, <2>7
    <3> HIDE DEF roster, names, excused, excused2
    <3>4. Lists(more, names \cup {sid}, profile, excused \ {sid})
      BY <2>3, ListsMore
    <3> HIDE DEF more
    <3>5. Lists(more, names, profile, excused2)
      BY <3>2, <3>3, <3>4, ListsStill
    <3>6. Lists(client'[u].roster[r], members'[r] \ Unannounced(r)', profile', Excused(r)')
      BY <1>2, <2>5, <3>1, <3>5 DEF excused2
    <3> QED
      BY <1>2, <2>2, <2>4, <3>6 DEF Knows
  <2> QED
    BY <2>6, <2>7
<1>14. ASSUME NEW u \in UserID PROVE Finds(client'[u], in_rooms'[u])
  <2>1. Finds(client[u], in_rooms[u]) /\ client'[u].rooms = client[u].rooms
    BY <1>3, <1>4, <1>9 DEF InStep, Introduced
  <2> QED
    BY <1>2, <2>1 DEF Finds
<1>15. NeverMisrouted' /\ AllShaped(client')
  BY <1>3, <1>9 DEF NeverMisrouted, Introduced
<1> QED
  BY <1>12, <1>13, <1>14, <1>15 DEF Replicas, InStep
------------------------------------------------------------------------------
(* The invariant. *)

LEMMA FiniteStep == TypeOK /\ FiniteOK /\ [Next]_vars => FiniteOK'
<1> SUFFICES ASSUME TypeOK, FiniteOK, [Next]_vars PROVE FiniteOK'
  OBVIOUS
<1>1. CASE JoinRefused \/ JoinRoom
  <2> DEFINE rid == First(task.todo)
  <2>1. rid \in RoomID
    BY <1>1, RunningType DEF JoinRefused, JoinRoom
  <2>2. rooms' = rooms \cup {rid}
    BY <1>1 DEF JoinRefused, JoinRoom, ensure_room
  <2>3. members' = members \/ members' = [members EXCEPT ![rid] = @ \cup {task.sid}]
    BY <1>1 DEF JoinRefused, JoinRoom, SetMembers, memberVars
  <2> HIDE DEF rid
  <2>4. IsFiniteSet(rooms \cup {rid}) /\ IsFiniteSet(members[rid] \cup {task.sid})
    BY <2>1, FS_AddElement DEF FiniteOK
  <2>5. \A r \in RoomID : IsFiniteSet(members'[r])
    <3> TAKE r \in RoomID
    <3>1. \/ members'[r] = members[r]
          \/ r = rid /\ members'[r] = members[rid] \cup {task.sid}
      <4>1. members = [q \in RoomID |-> members[q]]
        BY DEF TypeOK
      <4>2. CASE members' = members
        BY <4>2
      <4>3. CASE members' = [members EXCEPT ![rid] = members[rid] \cup {task.sid}]
        BY <2>1, <4>1, <4>3
      <4> QED
        BY <2>3, <4>2, <4>3
    <3> QED
      BY <2>4, <3>1 DEF FiniteOK
  <2> QED
    BY <2>2, <2>4, <2>5 DEF FiniteOK
<1>2. CASE EverySecond
  <2>1. rooms' \subseteq rooms /\ members' = members
    BY <1>2 DEF EverySecond
  <2> QED
    BY <2>1, FS_Subset DEF FiniteOK
<1>3. CASE ~ EverySecond /\ ~ JoinRefused /\ ~ JoinRoom
  BY <1>3, OtherSteps, FS_Subset DEF FiniteOK
<1> QED
  BY <1>1, <1>2, <1>3

LEMMA ClientInit == Init => CInv
<1> SUFFICES ASSUME Init PROVE CInv
  OBVIOUS
<1>1. /\ client = [u \in UserID |-> NewClient] /\ task.op = "idle" /\ task.done = <<>>
      /\ \A u \in UserID : in_rooms[u] = <<>>
  BY NoTaskFields DEF Init
<1>2. AllShaped(client) /\ NeverMisrouted
  BY <1>1, NewShaped DEF AllShaped, NeverMisrouted, NewClient
<1>3. DoneOK
  <2>1. Pending(task) = {} /\ DOMAIN task.done = {}
    BY <1>1, NoDone
  <2> QED
    BY <1>1, <2>1 DEF DoneOK
<1>4. InStep
  BY <1>1, <1>3 DEF InStep, RoomsIn, Finds
<1>5. FiniteOK
  BY FS_EmptySet DEF Init, FiniteOK
<1> QED
  BY <1>2, <1>4, <1>5 DEF CInv, Replicas

LEMMA ClientStep == TypeOK /\ IInv /\ CInv /\ [Next]_vars => CInv'
<1> SUFFICES ASSUME TypeOK, IInv, CInv, [Next]_vars PROVE CInv'
  OBVIOUS
<1>0. Replicas /\ FiniteOK
  BY DEF CInv
<1> SUFFICES Replicas'
  BY <1>0, FiniteStep DEF CInv
<1>1. ASSUME NEW sid \in UserID, OnMessage(sid) PROVE Replicas'
  <2>1. CASE OnConnect(sid)
    BY <1>0, <2>1, ClientConnect
  <2>2. CASE OnDisconnect(sid)
    BY <1>0, <2>2, ClientDisconnect
  <2>3. CASE \E prof \in Profile, list \in InitRooms : ReqUserJoined(sid, prof, list)
    BY <1>0, <2>3, ClientUserJoined
  <2>4. CASE UserRequest(sid)
    BY <1>0, <2>4, ClientChNick, ClientRoomJoin DEF UserRequest
  <2>5. CASE \E h \in DOMAIN in_rooms[sid] : RoomRequest(sid, h)
    <3>1. PICK h : RoomRequest(sid, h)
      BY <2>5
    <3>2. CASE ReqRoomLeave(sid, h)
      BY <1>0, <3>2, ClientRoomLeave
    <3>3. CASE ReqMessage(sid, h) \/ ReqMouse(sid, h) \/ ReqCustomR(sid, h)
      BY <1>0, <3>3, ClientMessage
    <3>4. CASE \E is_typing \in BOOLEAN : ReqTyping(sid, h, is_typing)
      BY <1>0, <3>4, ClientTyping
    <3>5. CASE \E target \in UserID : ReqMessageDM(sid, h, target) \/ ReqCustomU(sid, h, target)
      BY <1>0, <3>5, ClientPrivate
    <3> QED
      BY <3>1, <3>2, <3>3, <3>4, <3>5 DEF RoomRequest
  <2> QED
    BY <1>1, <2>1, <2>2, <2>3, <2>4, <2>5 DEF OnMessage
<1>2. CASE Continue
  BY <1>0, <1>2, ClientDisconnectRoom, ClientExclusiveLeave, ClientExclusiveJoin,
     ClientJoinRefused, ClientJoinRoom, ClientSendRooms, ClientComplete, ClientChNickRoom
     DEF Continue
<1>3. CASE EverySecond
  BY <1>0, <1>3, ClientEverySecond
<1>4. CASE UNCHANGED vars
  <2>1. UNCHANGED <<in_rooms, members, typing_timer, profile, task, client, panicked>>
    BY <1>4 DEF vars, userVars, memberVars
  <2>2. CASE panicked # None
    BY <1>0, <2>1, <2>2 DEF Replicas, NeverMisrouted
  <2>3. CASE panicked = None
    <3>1. InStep /\ NeverMisrouted /\ AllShaped(client)
      BY <1>0, <2>3 DEF Replicas
    <3>2. SameLists(client, client')
      BY <2>1, <3>1 DEF SameLists
    <3> QED
      BY <2>1, <3>1, <3>2, QuietReplicas
  <2> QED
    BY <2>2, <2>3
<1> QED
  BY <1>1, <1>2, <1>3, <1>4 DEF Next

LEMMA ClientInvariant == Spec => [](TypeOK /\ IInv /\ CInv)
<1>1. Init => TypeOK /\ IInv /\ CInv
  BY TypeInit, InvInit, ClientInit
<1>2. (TypeOK /\ IInv /\ CInv) /\ [Next]_vars => (TypeOK /\ IInv /\ CInv)'
  BY TypeStep, InvStep, ClientStep
<1> QED
  BY <1>1, <1>2, PTL DEF Spec

\* Whatever send_uni and send_to_room send about a room, at whatever point of a
\* handler, comes with a handle that means this room to its receiver.
THEOREM HandlesAreUnderstood == Spec => []NeverMisrouted
<1>1. CInv => NeverMisrouted
  BY DEF CInv, Replicas
<1> QED
  BY <1>1, ClientInvariant, PTL

\* Between two requests nobody has anything left to be told.
LEMMA WhenIdle ==
    ASSUME CInv, Idle, NEW u \in UserID
    PROVE  /\ Finds(client[u], in_rooms[u])
           /\ \A r \in RoomsIn(in_rooms[u]) :
                  /\ Lists(client[u].roster[r], members[r], profile,
                           {v \in UserID : r \in client[v].renamed})
                  /\ client[u].typing[r] \subseteq get_typing(members[r], typing_timer[r])
<1>1. InStep /\ task.op = "idle" /\ task.done = <<>>
  BY NoTaskFields DEF CInv, Replicas, Idle
<1>2. (\A r : Unannounced(r) = {}) /\ ~ Unread(u) /\ \A r : Changing(r) = {}
  BY <1>1, NobodyWaits DEF Unread, Changing
<1>3. \A r : Excused(r) = {v \in UserID : r \in client[v].renamed}
  BY <1>2 DEF Excused
<1>4. \A r \in RoomsIn(in_rooms[u]) : Knows(u, r)
  BY <1>1, <1>2 DEF InStep
<1> QED
  BY <1>1, <1>2, <1>3, <1>4 DEF Knows, InStep

\* TYPING, USER_LEFT, HISTORY and the timer, between them, leave nobody on a
\* list of typing users who is not typing.
THEOREM NobodyShownInVain == Spec => []NoGhostTyping
<1>1. TypeOK /\ CInv => NoGhostTyping
  BY WhenIdle DEF NoGhostTyping, TypeOK
<1> QED
  BY <1>1, ClientInvariant, PTL

\* The lists of users the clients keep from the differences they are sent are
\* those of the talker.
THEOREM RostersAreRight == Spec => []RosterInStep
<1>1. TypeOK /\ CInv => RosterInStep
  <2> SUFFICES ASSUME TypeOK, CInv, Idle, NEW u \in users, NEW h \in DOMAIN in_rooms[u],
                      in_rooms[u][h] # None
               PROVE  LET r    == in_rooms[u][h]
                          here == get_users(members[r], profile)
                      IN  /\ h \in DOMAIN client[u].rooms /\ client[u].rooms[h] = r
                          /\ Told(r, client[u].roster[r]) = Told(r, here)
                          /\ Names(client[u].roster[r]) = members[r]
                          /\ Cardinality(client[u].roster[r]) = Cardinality(members[r])
    BY DEF RosterInStep
  <2> DEFINE r       == in_rooms[u][h]
             here    == get_users(members[r], profile)
             roster  == client[u].roster[r]
             excused == {v \in UserID : r \in client[v].renamed}
  <2>1. u \in UserID /\ r \in RoomsIn(in_rooms[u])
    BY DEF TypeOK, RoomsIn
  <2>2. Finds(client[u], in_rooms[u]) /\ Lists(roster, members[r], profile, excused)
    BY <2>1, WhenIdle
  <2>3. h \in DOMAIN client[u].rooms /\ client[u].rooms[h] = r
    BY <2>2 DEF Finds
  <2>4. r \in RoomID
    BY <2>1, RoomsType
  <2>5. members[r] \subseteq UserID /\ IsFiniteSet(members[r])
    BY <2>4 DEF TypeOK, CInv, FiniteOK
  <2>6. Names(roster) = members[r] /\ \A e, f \in roster : e[1] = f[1] => e = f
    BY <2>2 DEF Lists
  <2>7. Cardinality(roster) = Cardinality(members[r])
    <3> DEFINE mem == members[r]
    <3>1. {e[1] : e \in roster} = mem /\ IsFiniteSet(mem)
      BY <2>5, <2>6 DEF Names
    <3> HIDE DEF roster, mem
    <3>2. Cardinality(roster) = Cardinality(mem)
      BY <2>6, <3>1, OneForEach
    <3> QED
      BY <3>2 DEF mem
  <2>8. \A e \in roster : r \notin client[e[1]].renamed => e = <<e[1], profile[e[1]]>>
    BY <2>2, <2>5 DEF Lists, Names
  <2>9. \A v \in members[r] : \E e \in roster : e[1] = v
    BY <2>6 DEF Names
  <2>10. \A e \in roster : e[1] \in members[r]
    BY <2>6 DEF Names
  <2>11. Told(r, roster) = Told(r, here)
    <3> HIDE DEF roster, r
    <3>1. ASSUME NEW e \in Told(r, roster) PROVE e \in Told(r, here)
      BY <2>8, <2>10, <3>1 DEF Told, get_users
    <3>2. ASSUME NEW e \in Told(r, here) PROVE e \in Told(r, roster)
      <4>1. PICK v \in members[r] : e = <<v, profile[v]>>
        BY <3>2 DEF Told, get_users
      <4>2. e[1] = v /\ r \notin client[v].renamed
        BY <3>2, <4>1 DEF Told
      <4>3. PICK f \in roster : f[1] = v
        BY <2>9, <4>1
      <4>4. f = e
        BY <2>8, <4>1, <4>2, <4>3
      <4> QED
        BY <4>2, <4>3, <4>4 DEF Told
    <3> QED
      BY <3>1, <3>2
  <2> QED
    BY <2>3, <2>6, <2>7, <2>11
<1> QED
  BY <1>1, ClientInvariant, PTL
==============================================================================
