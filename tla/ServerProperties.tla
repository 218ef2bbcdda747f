--------------------------- MODULE ServerProperties ---------------------------
(***************************************************************************)
(* What the channels owe the talker and the clients, and where the tasks   *)
(* can all wait for each other.                                            *)
(***************************************************************************)
EXTENDS Server

Ops == [op : {"Connect", "Request", "Disconnect"}, sid : UserID, rid : BOOLEAN,
        data : {"whole", "bytes", "null"}]
Kinds  == {"broadcast", "answer", "silence", "refusal"}
Events == [op : {"Event"}, sid : UserID, n : Nat, kind : Kinds] \cup {Shutdown, Keepalive}

Sayings == [rid : BOOLEAN, data : {"none", "whole", "bytes", "null"}]

Bounded(channel, messages, capacity) ==
    channel \in Seq(messages) /\ Len(channel) <= capacity

TypeOK ==
    /\ router \in [pc : {"select", "to_listener", "to_talker", "stop_listener", "stop_talker",
                         "await_talker", "await_listener", "done"},
                   msg : Ops \cup Events \cup {Nothing}]
    /\ talker \in [pc : {"recv", "exited"}, users : SUBSET UserID, out : SUBSET UserID,
                   reply : [sid : UserID, kind : Kinds] \cup {NoReply}]
    /\ listener \in [pc : {"bind", "select", "send", "exited"}, msg : Events \cup {Nothing},
                     pending : SUBSET connections]
    /\ conn \in [UserID -> [pc : {"none", "connect", "run", "request", "write", "leaving", "gone"},
                           waits : BOOLEAN, rid : BOOLEAN, data : {"whole", "bytes", "null"}]]
    /\ accepting \in 0 .. accepts /\ accepts \in 0 .. MaxAccepts /\ budget \in 0 .. Budget
    /\ connections = {sid \in UserID : conn[sid].pc # "none"}
    /\ next_sid \in UserID /\ spinning \in BOOLEAN
    /\ Bounded(listener_c2s, Ops, ListenerC2S) /\ Bounded(talker_c2s, Ops \cup {Shutdown}, TalkerC2S)
    /\ Bounded(talker_s2c, Events, TalkerS2C) /\ Bounded(listener_s2c, Events, ListenerS2C)
    /\ tx2 \in [UserID -> Seq(Events)] /\ \A sid \in UserID : Len(tx2[sid]) <= Tx2
    /\ sent \in [UserID -> Nat] /\ consumed \in [UserID -> Nat] /\ owed \in [UserID -> Nat]
    /\ surprised \in BOOLEAN /\ pinging \in BOOLEAN
    /\ said \in [UserID -> Sayings]
------------------------------------------------------------------------------
(* Order. *)

\* The talker is told of a user once, before any request of that user, and of
\* its departure after the last one: its expects and unwraps about users that
\* must be there, and the map insert that would replace one, rely on it.
NeverSurprised == ~ surprised

\* What is on its way to a connection, and from it, the next to arrive first.
AtRouter(pc)    == IF router.pc = pc THEN <<router.msg>> ELSE <<>>
AtListener(sid) == IF sid \in listener.pending THEN <<listener.msg>> ELSE <<>>
Down(sid) == tx2[sid] \o AtListener(sid) \o listener_s2c \o AtRouter("to_listener") \o talker_s2c
Up        == talker_c2s \o AtRouter("to_talker") \o listener_c2s

\* The events to a connection among the messages s are those with the numbers
\* after a up to b, each once and in this order.
Mine(s, sid) == {i \in DOMAIN s : s[i].op = "Event" /\ s[i].sid = sid}
InOrder(s, sid, a, b) ==
    /\ a <= b /\ {s[i].n : i \in Mine(s, sid)} = a + 1 .. b
    /\ \A i, j \in Mine(s, sid) : i < j => s[i].n < s[j].n

\* A client that stays is sent everything the talker says to it, once and in
\* this order, across two tasks and three channels.
EventsInOrder ==
    ListenerRuns => \A sid \in UserID :
        Open(sid) => InOrder(Down(sid), sid, consumed[sid], sent[sid])

NoNull == \A i \in DOMAIN listener_c2s : listener_c2s[i].data # "null"

\* protocol.md on bytes in JSON: "It may also be null for the server to expect
\* a binary message right after".  What the handler sends up is the message its
\* client has written, with the id that came with it, and with the bytes that
\* followed if there was null for its data, whatever was written to the client
\* between the two frames; nothing goes up with null.
DataFollows ==
    /\ NoNull
    /\ \A sid \in UserID :
           conn[sid].pc = "request" => said[sid] = [rid |-> conn[sid].rid, data |-> conn[sid].data]

HasId(m, sid) == \/ m.op = "Request" /\ m.sid = sid /\ m.rid
                 \/ m.op = "Event" /\ m.sid = sid /\ m.kind = "answer"
Count(s, sid) == Cardinality({i \in DOMAIN s : HasId(s[i], sid)})
One(test)     == IF test THEN 1 ELSE 0
Underway(sid) == One(conn[sid].rid) + One(talker.reply = [sid |-> sid, kind |-> "answer"])
                 + Count(Up \o Down(sid), sid)

\* A request with an id is answered once: until it is, it is in one place, the
\* handler that waits for its data or sends it, a channel, or the talker, and
\* its answer in one channel; whatever else the client is sent meanwhile.
RequestsKept ==
    TalkerRuns /\ ListenerRuns => \A sid \in UserID : Open(sid) => owed[sid] = Underway(sid)
------------------------------------------------------------------------------
(* Waiting. *)

RouterOnTalker ==
    /\ TalkerRuns
    /\ \/ router.pc \in {"to_talker", "stop_talker"} /\ ~ HasRoom(talker_c2s, TalkerC2S)
       \/ router.pc = "await_talker"
RouterOnListener ==
    /\ ListenerRuns
    /\ \/ router.pc \in {"to_listener", "stop_listener"} /\ ~ HasRoom(listener_s2c, ListenerS2C)
       \/ router.pc = "await_listener"
TalkerOnRouter == talker.pc = "recv" /\ ~ TalkerReady /\ ~ HasRoom(talker_s2c, TalkerS2C)
ConnOnRouter(sid) ==
    conn[sid].pc \in {"connect", "request"} /\ ~ HasRoom(listener_c2s, ListenerC2S)
ListenerOnConn ==
    /\ listener.pc = "send"
    /\ \E sid \in listener.pending : ConnOnRouter(sid) /\ ~ HasRoom(tx2[sid], Tx2)

Deadlocked == \/ RouterOnTalker /\ TalkerOnRouter
              \/ RouterOnListener /\ ListenerOnConn
              \/ spinning

\* The listener waits, with the lock, for a client that does not read.
Stalled ==
    /\ listener.pc = "send"
    /\ \E sid \in listener.pending \ Readers : conn[sid].pc = "write" /\ ~ HasRoom(tx2[sid], Tx2)

Stuck == Deadlocked \/ Stalled

Quiet == /\ router.pc = "select" /\ TalkerReady /\ ListenerSelects
         /\ listener_c2s = <<>> /\ talker_c2s = <<>> /\ talker_s2c = <<>> /\ listener_s2c = <<>>
         /\ \A sid \in UserID : \/ conn[sid].pc \in {"none", "run", "gone"} /\ tx2[sid] = <<>>
                                \/ conn[sid].pc = "write" /\ sid \notin Readers

\* The server stops short of an answer in four ways only: the router and the
\* talker fill each other's channel, the router waits for the listener, which
\* waits, with the lock, for a connection that waits for the router, every
\* sid has been used, or the listener waits for a client that does not read.
OnlyKnownDeadlocks ==
    ~ ENABLED Internal => Quiet \/ Stuck \/ router.pc = "done"

Stopping == router.pc \notin {"select", "to_listener", "to_talker"}

Upstream(sid) == \E i \in DOMAIN Up : Up[i] \in Ops /\ Up[i].sid = sid

\* A way to be stuck excuses an answer only if the server stays in it: that a
\* client has kept the others waiting, and has left, excuses nothing.
StuckForEver == <>[]Stuck

\* However a connection ends, the talker hears of it.
DepartureTold ==
    \/ StuckForEver
    \/ \A sid \in UserID :
           conn[sid].pc \in {"leaving", "gone"}
               ~> \/ conn[sid].pc = "gone" /\ sid \notin talker.users /\ ~ Upstream(sid)
                  \/ Stopping

\* What the talker has said to a client that stays and reads reaches it, though
\* others do not read.
EventsArrive ==
    \/ StuckForEver
    \/ \A sid \in Readers :
           sent[sid] > consumed[sid] ~> sent[sid] = consumed[sid] \/ ~ Open(sid) \/ Stopping

\* The requests with an id of which the handler has all it needs.
Due(sid) == owed[sid] - (IF conn[sid].waits /\ conn[sid].rid THEN 1 ELSE 0)

\* A client that stays and reads has its requests answered, all of them, if the
\* talker does not fall.
RequestsAnswered ==
    \/ StuckForEver
    \/ \A sid \in Readers :
           Due(sid) > 0 ~> Due(sid) = 0 \/ ~ Open(sid) \/ Stopping \/ ~ TalkerRuns

\* Once the router leaves its loop the server ends, or is stuck for ever.
ShutdownEnds == StuckForEver \/ (Stopping ~> router.pc = "done")

\* server.rs: "wait for them to shut down".
ShutdownCompletes == router.pc = "stop_listener" ~> router.pc = "done"

\* config.toml on ping_interval: "0 to disable pings completely".
PingsDisabled == PingInterval = 0 => listener.msg # Keepalive

\* listener.rs: "waiting for connection threads to exit".
ConnectionsAwaited ==
    listener.pc = "exited" => \A sid \in UserID : conn[sid].pc \in {"none", "gone"}
==============================================================================
