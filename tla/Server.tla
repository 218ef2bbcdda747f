-------------------------------- MODULE Server --------------------------------
(***************************************************************************)
(* The tasks of the server and the bounded channels between them:          *)
(* src/server.rs (the router), src/server/listener.rs, the two protocol    *)
(* handlers, one task per connection, and the talker, of which only what   *)
(* it takes and how much it sends matters here (see Talker).               *)
(*                                                                         *)
(*    connections --listener_c2s--> router --talker_c2s--> talker          *)
(*    connections <--tx2[sid]-- listener <--listener_s2c-- router          *)
(*                                                router <--talker_s2c--   *)
(*                                                                         *)
(* A send waits while its channel is full; a channel whose receiver is     *)
(* gone takes nothing.  The listener holds the lock on connections while   *)
(* it sends, so that no connection is registered meanwhile.                *)
(*                                                                         *)
(*   router    pc: where Server::run is; msg: what it is sending           *)
(*   talker    pc, the users it knows, whom it has still to send an event, *)
(*             and the response it has to send after that                  *)
(*   listener  pc; msg and pending: what it is sending, and to whom        *)
(*   conn      per sid: pc of the task, and its handler's (see Frames)     *)
(*   accepting, connections, next_sid, spinning      AcceptersState        *)
(*   pinging   whether the ping interval has another tick                  *)
(*   accepts, budget                                 counted for bounds    *)
(*   sent, consumed, owed, surprised, said           history: the events   *)
(*             sent to a sid and taken by its handler, the requests with   *)
(*             an id it has read and not answered, and the message its     *)
(*             client has written and the handler has not sent on          *)
(***************************************************************************)
EXTENDS Integers, Sequences, FiniteSets, Frames

CONSTANTS SidCount,     \* u32::MAX: the sids are 0 .. u32::MAX - 1
          ListenerC2S, ListenerS2C, TalkerS2C, TalkerC2S, Tx2,  \* capacities
          Protocol,     \* the protocol each connection has asked for
          Readers,      \* the sids of clients that read what they are sent
          PingInterval, \* ping_interval: 0 for no pings
          MaxAccepts,   \* bound: connections accepted
          Budget        \* bound: frames read, ticks and pings

UserID == 0 .. SidCount - 1

ASSUME ServerAssumption ==
    /\ SidCount \in Nat \ {0} /\ Readers \subseteq UserID
    /\ {ListenerC2S, ListenerS2C, TalkerS2C, TalkerC2S, Tx2} \subseteq Nat \ {0}
    /\ Protocol \in [UserID -> PROTOCOLS]
    /\ PingInterval \in Nat /\ MaxAccepts \in Nat /\ Budget \in Nat

VARIABLES router, talker, listener, conn,
          accepting, connections, next_sid, spinning,
          listener_c2s, listener_s2c, talker_s2c, talker_c2s, tx2,
          pinging, accepts, budget, sent, consumed, owed, surprised, said

accepter == <<accepting, connections, next_sid, spinning, accepts>>
history  == <<sent, consumed, owed, surprised>>
upward   == <<listener_c2s, talker_c2s>>
downward == <<talker_s2c, listener_s2c, tx2>>
outside  == <<budget, pinging, said>>
vars == <<router, talker, listener, conn, accepter, upward, downward, outside, history>>

\* Toward the talker, and toward the clients: an event is a broadcast, or the
\* answer to a request, or a response without an id, to one that succeeded
\* (silence) or did not (refusal).
Op(op, sid, h)      == [op |-> op, sid |-> sid, rid |-> h.rid, data |-> h.data]
Event(sid, n, kind) == [op |-> "Event", sid |-> sid, n |-> n, kind |-> kind]
Shutdown  == [op |-> "Shutdown"]
Keepalive == [op |-> "Keepalive"]
Nothing   == [op |-> "None"]

\* Mutant: a channel takes one message more than it holds.
HasRoom_over(channel, capacity) == Len(channel) <= capacity

HasRoom(channel, capacity) == Len(channel) < capacity
Spend == budget > 0 /\ budget' = budget - 1

TalkerRuns   == talker.pc # "exited"
ListenerRuns == listener.pc # "exited"
------------------------------------------------------------------------------
(* Server::run, the router. *)

InSelect == router.pc = "select" /\ TalkerRuns /\ ListenerRuns

\* The select is biased: what the talker says goes first.
RouterFromTalker ==
    /\ InSelect /\ talker_s2c # <<>>
    /\ router' = [pc |-> "to_listener", msg |-> Head(talker_s2c)]
    /\ talker_s2c' = Tail(talker_s2c)
    /\ UNCHANGED <<talker, listener, conn, accepter, upward, listener_s2c, tx2, outside, history>>

RouterFromListener ==
    /\ InSelect /\ talker_s2c = <<>> /\ listener_c2s # <<>>
    /\ router' = [pc |-> "to_talker", msg |-> Head(listener_c2s)]
    /\ listener_c2s' = Tail(listener_c2s)
    /\ UNCHANGED <<talker, listener, conn, accepter, talker_c2s, downward, outside, history>>

RouterSends ==
    /\ \/ /\ router.pc = "to_listener"
          /\ listener_s2c' = IF ListenerRuns THEN Append(listener_s2c, router.msg)
                                             ELSE listener_s2c
          /\ HasRoom(listener_s2c, ListenerS2C) \/ ~ ListenerRuns
          /\ UNCHANGED talker_c2s
       \/ /\ router.pc = "to_talker"
          /\ talker_c2s' = IF TalkerRuns THEN Append(talker_c2s, router.msg) ELSE talker_c2s
          /\ HasRoom(talker_c2s, TalkerC2S) \/ ~ TalkerRuns
          /\ UNCHANGED listener_s2c
    /\ router' = [pc |-> "select", msg |-> Nothing]
    /\ UNCHANGED <<talker, listener, conn, accepter, listener_c2s, talker_s2c, tx2, outside, history>>

\* A task has ended: the loop is left.
RouterBreaks ==
    /\ router.pc = "select" /\ ~ (TalkerRuns /\ ListenerRuns)
    /\ router' = [router EXCEPT !.pc = "stop_listener"]
    /\ UNCHANGED <<talker, listener, conn, accepter, upward, downward, outside, history>>

\* Both are told to shut down, then both are awaited.
RouterStops ==
    /\ \/ /\ router.pc = "stop_listener"
          /\ HasRoom(listener_s2c, ListenerS2C) \/ ~ ListenerRuns
          /\ listener_s2c' = IF ListenerRuns THEN Append(listener_s2c, Shutdown) ELSE listener_s2c
          /\ router' = [router EXCEPT !.pc = "stop_talker"]
          /\ UNCHANGED talker_c2s
       \/ /\ router.pc = "stop_talker"
          /\ HasRoom(talker_c2s, TalkerC2S) \/ ~ TalkerRuns
          /\ talker_c2s' = IF TalkerRuns THEN Append(talker_c2s, Shutdown) ELSE talker_c2s
          /\ router' = [router EXCEPT !.pc = "await_talker"]
          /\ UNCHANGED listener_s2c
       \/ /\ router.pc = "await_talker" /\ ~ TalkerRuns
          /\ router' = [router EXCEPT !.pc = "await_listener"]
          /\ UNCHANGED <<listener_s2c, talker_c2s>>
    /\ UNCHANGED <<talker, listener, conn, accepter, listener_c2s, talker_s2c, tx2, outside, history>>

\* The process ends when Server::run returns, and with it every task.
RouterDone ==
    /\ router.pc = "await_listener" /\ ~ ListenerRuns
    /\ router' = [router EXCEPT !.pc = "done"]
    /\ accepting' = 0
    /\ conn' = [sid \in UserID |-> [NewHandler EXCEPT !.pc =
                                      IF sid \in connections THEN "gone" ELSE "none"]]
    /\ tx2' = [sid \in UserID |-> <<>>]
    /\ UNCHANGED <<talker, listener, connections, next_sid, spinning, accepts, upward,
                   talker_s2c, listener_s2c, outside, history>>
------------------------------------------------------------------------------
(* The talker.  Whom a request, a disconnection or a tick concerns is not    *)
(* decided here; at most one event for each user stands for all of them.     *)

NoReply == [sid |-> -1, kind |-> "none"]
TalkerReady == talker.pc = "recv" /\ talker.out = {} /\ talker.reply = NoReply

TalkerConnect(sid) ==
    /\ talker' = [talker EXCEPT !.users = @ \cup {sid}, !.out = {sid}]
    /\ surprised' = (surprised \/ sid \in talker.users)

\* Every request has one response, sent to who made it, after all else.
TalkerRequest(sid, rid) ==
    /\ \/ \E out \in SUBSET (talker.users \ {sid}),
             kind \in IF rid THEN {"answer"} ELSE {"silence", "refusal"} :
                talker' = [talker EXCEPT !.out = out, !.reply = [sid |-> sid, kind |-> kind]]
       \/ talker' = [talker EXCEPT !.pc = "exited"]      \* it panics
    /\ surprised' = (surprised \/ sid \notin talker.users)

TalkerDisconnect(sid) ==
    /\ \E out \in SUBSET (talker.users \ {sid}) :
           talker' = [talker EXCEPT !.users = @ \ {sid}, !.out = out]
    /\ surprised' = (surprised \/ sid \notin talker.users)

TalkerRecv ==
    /\ TalkerReady /\ talker_c2s # <<>>
    /\ talker_c2s' = Tail(talker_c2s)
    /\ LET m == Head(talker_c2s)
       IN  \/ m.op = "Connect"    /\ TalkerConnect(m.sid)
           \/ m.op = "Request"    /\ TalkerRequest(m.sid, m.rid)
           \/ m.op = "Disconnect" /\ TalkerDisconnect(m.sid)
           \/ /\ m.op = "Shutdown"
              /\ talker' = [talker EXCEPT !.pc = "exited"] /\ UNCHANGED surprised
    /\ UNCHANGED <<router, listener, conn, accepter, listener_c2s, downward, outside, sent, consumed, owed>>

TalkerTick ==
    /\ TalkerReady /\ Spend
    /\ \E out \in SUBSET talker.users \ {{}} : talker' = [talker EXCEPT !.out = out]
    /\ UNCHANGED <<router, listener, conn, accepter, upward, downward, pinging, said, history>>

\* send_uni.
SendUni(sid, kind) ==
    /\ HasRoom(talker_s2c, TalkerS2C)
    /\ talker_s2c' = Append(talker_s2c, Event(sid, sent[sid] + 1, kind))
    /\ sent' = [sent EXCEPT ![sid] = @ + 1]
    /\ UNCHANGED <<router, listener, conn, accepter, upward, listener_s2c, tx2, outside,
                   consumed, owed, surprised>>

TalkerSends ==
    /\ talker.pc = "recv"
    /\ \/ \E sid \in talker.out : /\ SendUni(sid, "broadcast")
                                  /\ talker' = [talker EXCEPT !.out = @ \ {sid}]
       \/ /\ talker.out = {} /\ talker.reply # NoReply
          /\ SendUni(talker.reply.sid, talker.reply.kind)
          /\ talker' = [talker EXCEPT !.reply = NoReply]

------------------------------------------------------------------------------
(* Listener::run. *)

ListenerSelects == listener.pc = "select"
LockFree == listener.pc # "send" /\ ~ spinning

\* The handler of the connection still has its end of the channel.  A
\* connection that was registered stays in the map when its task is gone.
\* Mutant: the end of a connection that waits to say goodbye is kept.
Open_late(sid) == conn[sid].pc \in {"connect", "run", "request", "write", "leaving"}

Open(sid) == conn[sid].pc \in {"connect", "run", "request", "write"}

\* Mutant: the listener does not stop.
ListenerSending_on(msg, sids) ==
    listener' = IF sids # {} THEN [pc |-> "send", msg |-> msg, pending |-> sids]
                             ELSE [pc |-> "select", msg |-> Nothing, pending |-> {}]

\* Begin to send to some connections; to none, and the loop goes on.
ListenerSending(msg, sids) ==
    listener' = IF sids # {} THEN [pc |-> "send", msg |-> msg, pending |-> sids]
                ELSE [pc |-> IF msg = Shutdown THEN "exited" ELSE "select",
                      msg |-> Nothing, pending |-> {}]

ListenerBinds ==
    /\ listener.pc = "bind"
    /\ \E pc \in {"select", "exited"} : listener' = [listener EXCEPT !.pc = pc]
    /\ UNCHANGED <<router, talker, conn, accepter, upward, downward, outside, history>>

ListenerRecv ==
    /\ ListenerSelects /\ listener_s2c # <<>>
    /\ LET msg == Head(listener_s2c)
       IN  ListenerSending(msg, IF msg.op = "Event" THEN {msg.sid} \cap connections
                                                    ELSE connections)
    /\ listener_s2c' = Tail(listener_s2c)
    /\ UNCHANGED <<router, talker, conn, accepter, upward, talker_s2c, tx2, outside, history>>

\* A tick of the interval, at any time.  The first one comes at once, even if
\* ping_interval is 0 and there is to be no other.
ListenerPings ==
    /\ ListenerSelects /\ pinging
    /\ pinging' = (PingInterval # 0)
    /\ IF connections = {} THEN UNCHANGED budget ELSE Spend
    /\ ListenerSending(Keepalive, connections)
    /\ UNCHANGED <<router, talker, conn, accepter, upward, downward, said, history>>

\* Mutant: try_send, which loses what does not fit.
ListenerSends_try(sid) ==
    /\ listener.pc = "send" /\ ~ spinning /\ sid \in listener.pending
    /\ tx2' = IF Open(sid) /\ HasRoom(tx2[sid], Tx2)
              THEN [tx2 EXCEPT ![sid] = Append(@, listener.msg)] ELSE tx2
    /\ ListenerSending(listener.msg, listener.pending \ {sid})
    /\ UNCHANGED <<router, talker, conn, accepter, upward, talker_s2c, listener_s2c,
                   outside, history>>

ListenerSends(sid) ==
    /\ listener.pc = "send" /\ ~ spinning /\ sid \in listener.pending
    /\ IF Open(sid) THEN /\ HasRoom(tx2[sid], Tx2)
                        /\ tx2' = [tx2 EXCEPT ![sid] = Append(@, listener.msg)]
                   ELSE UNCHANGED tx2
    /\ ListenerSending(listener.msg, listener.pending \ {sid})
    /\ UNCHANGED <<router, talker, conn, accepter, upward, talker_s2c, listener_s2c,
                   outside, history>>

\* A task is spawned for the stream; the handshake may fail.
ListenerAccepts ==
    /\ ListenerSelects /\ accepts < MaxAccepts
    /\ accepts' = accepts + 1 /\ accepting' = accepting + 1
    /\ UNCHANGED <<router, talker, listener, conn, connections, next_sid, spinning,
                   upward, downward, outside, history>>

HandshakeFails ==
    /\ accepting > 0 /\ accepting' = accepting - 1
    /\ UNCHANGED <<router, talker, listener, conn, connections, next_sid, spinning,
                   accepts, upward, downward, outside, history>>

\* The first sid from next_sid on that no connection has; when each has one,
\* the task looks for one forever, and keeps the lock.
\* Mutant: a sid is free as soon as its connection has closed.
FreeSids_closed == {sid \in UserID : ~ Open(sid)}

FreeSids == UserID \ connections
NextSid  == LET after(k) == (next_sid + k) % SidCount
            IN  after(CHOOSE k \in UserID : /\ after(k) \in FreeSids
                                            /\ \A j \in 0 .. k - 1 : after(j) \notin FreeSids)

Register ==
    /\ accepting > 0 /\ LockFree
    /\ accepting' = accepting - 1
    /\ IF FreeSids = {}
       THEN spinning' = TRUE /\ UNCHANGED <<connections, next_sid, conn>>
       ELSE /\ connections' = connections \cup {NextSid}
            /\ next_sid' = (NextSid + 1) % SidCount
            /\ conn' = [conn EXCEPT ![NextSid].pc = "connect"]
            /\ UNCHANGED spinning
    /\ UNCHANGED <<router, talker, listener, accepts, upward, downward, outside, history>>
------------------------------------------------------------------------------
(* The task of a connection: accept_inner and the protocol handlers. *)

connUnchanged == <<router, talker, listener, accepter, talker_c2s, talker_s2c, listener_s2c>>

\* The handler of a connection goes on as h; when it returns, its end of the
\* channel goes with it.
\* Mutant: the task ends without a word.
Becomes_silent(sid, h) ==
    /\ conn' = [conn EXCEPT ![sid] = IF h = Left THEN [NewHandler EXCEPT !.pc = "gone"] ELSE h]
    /\ tx2'  = [tx2 EXCEPT ![sid] = IF h = Left THEN <<>> ELSE @]

Becomes(sid, h) ==
    /\ conn' = [conn EXCEPT ![sid] = h]
    /\ tx2'  = [tx2 EXCEPT ![sid] = IF h = Left THEN <<>> ELSE @]

\* tx.send: Connect, a request and Disconnect wait for room in the one channel.
ConnSends(sid) ==
    /\ conn[sid].pc \in {"connect", "request", "leaving"}
    /\ HasRoom(listener_c2s, ListenerC2S)
    /\ LET pc == conn[sid].pc
       IN  /\ listener_c2s' = Append(listener_c2s,
                  Op(CASE pc = "connect" -> "Connect" [] pc = "request" -> "Request"
                       [] pc = "leaving" -> "Disconnect", sid, conn[sid]))
           /\ conn' = [conn EXCEPT ![sid] = [NewHandler EXCEPT !.pc =
                                                IF pc = "leaving" THEN "gone" ELSE "run"]]
    /\ said' = [said EXCEPT ![sid] = Unsaid]
    /\ UNCHANGED <<connUnchanged, tx2, budget, pinging, history>>

\* What becomes of a message from the listener.  A response without an id is
\* not written, and ends the connection if it tells of an error.
\* Mutant: responses are not written at all.
Written_broadcasts(h, msg) ==
    CASE msg.op = "Shutdown"                              -> Left
      [] msg.op = "Event" /\ msg.kind = "refusal"         -> Left
      [] msg.op = "Event" /\ msg.kind \in {"silence", "answer"} -> h
      [] OTHER                                            -> [h EXCEPT !.pc = "write"]

\* Mutant: when it writes, the handler forgets the id of the message that waits.
Written_forgets(h, msg) ==
    CASE msg.op = "Shutdown"                      -> Left
      [] msg.op = "Event" /\ msg.kind = "refusal" -> Left
      [] msg.op = "Event" /\ msg.kind = "silence" -> h
      [] OTHER -> [NewHandler EXCEPT !.pc = "write", !.waits = h.waits]

Written(h, msg) ==
    CASE msg.op = "Shutdown"                      -> Left
      [] msg.op = "Event" /\ msg.kind = "refusal" -> Left
      [] msg.op = "Event" /\ msg.kind = "silence" -> h
      [] OTHER                                    -> [h EXCEPT !.pc = "write"]

HandlerRecv(sid) ==
    /\ conn[sid].pc = "run" /\ tx2[sid] # <<>>
    /\ LET msg == Head(tx2[sid])
           h   == Written(conn[sid], msg)
       IN  /\ conn' = [conn EXCEPT ![sid] = h]
           /\ tx2'  = [tx2 EXCEPT ![sid] = IF h = Left THEN <<>> ELSE Tail(@)]
           /\ consumed' = IF msg.op = "Event" THEN [consumed EXCEPT ![sid] = msg.n] ELSE consumed
           /\ owed' = IF h.pc = "write" /\ msg.op = "Event" /\ msg.kind = "answer"
                      THEN [owed EXCEPT ![sid] = @ - 1] ELSE owed
    /\ UNCHANGED <<connUnchanged, listener_c2s, outside, sent, surprised>>

\* stream.send is through; a client that does not read keeps it waiting.
WriteDone(sid) ==
    /\ conn[sid].pc = "write"
    /\ conn' = [conn EXCEPT ![sid].pc = "run"]
    /\ UNCHANGED <<connUnchanged, listener_c2s, tx2, outside, history>>

\* The stream ends or breaks; that the client sent a frame the handler refuses
\* comes to the same.
ClientLeaves(sid) ==
    /\ conn[sid].pc \in {"run", "write"} /\ Becomes(sid, Left)
    /\ UNCHANGED <<connUnchanged, listener_c2s, outside, history>>

\* A message and its binary data are one for the budget.
HandlerReads(sid) ==
    /\ conn[sid].pc = "run"
    /\ IF conn[sid].waits THEN UNCHANGED budget ELSE Spend
    /\ \E f \in Frames(Protocol[sid]) :
           LET h == AfterFrame(Protocol[sid], conn[sid], f)
           IN  /\ h # Left /\ Becomes(sid, h)
               /\ owed' = [owed EXCEPT ![sid] =
                              IF f.head = "rid" /\ f.body # "bad" THEN @ + 1 ELSE @]
               /\ said' = [said EXCEPT ![sid] = Meant(Protocol[sid], @, f)]
    /\ UNCHANGED <<connUnchanged, listener_c2s, pinging, sent, consumed, surprised>>
------------------------------------------------------------------------------
Init ==
    /\ router   = [pc |-> "select", msg |-> Nothing]
    /\ talker   = [pc |-> "recv", users |-> {}, out |-> {}, reply |-> NoReply]
    /\ listener = [pc |-> "bind", msg |-> Nothing, pending |-> {}]
    /\ conn = [sid \in UserID |-> NewHandler]
    /\ accepting = 0 /\ connections = {} /\ next_sid = 0 /\ spinning = FALSE
    /\ listener_c2s = <<>> /\ talker_c2s = <<>> /\ talker_s2c = <<>> /\ listener_s2c = <<>>
    /\ tx2 = [sid \in UserID |-> <<>>]
    /\ accepts = 0 /\ budget = Budget
    /\ sent = [sid \in UserID |-> 0] /\ consumed = [sid \in UserID |-> 0]
    /\ owed = [sid \in UserID |-> 0] /\ said = [sid \in UserID |-> Unsaid]
    /\ surprised = FALSE /\ pinging = TRUE

\* The tasks do these on their own; the rest comes from outside.
Router == \/ RouterFromTalker \/ RouterFromListener \/ RouterSends
          \/ RouterBreaks \/ RouterStops \/ RouterDone
Talker == TalkerRecv \/ TalkerSends
Listener == ListenerBinds \/ ListenerRecv \/ \E sid \in UserID : ListenerSends(sid)
Connection(sid) == ConnSends(sid) \/ HandlerRecv(sid) \/ (sid \in Readers /\ WriteDone(sid))
Internal == Router \/ Talker \/ Listener \/ Register \/ \E sid \in UserID : Connection(sid)

Outside == \/ TalkerTick \/ ListenerPings \/ ListenerAccepts \/ HandshakeFails
           \/ \E sid \in UserID : ClientLeaves(sid) \/ HandlerReads(sid)
           \/ \E sid \in UserID \ Readers : WriteDone(sid)

Next == Internal \/ Outside

\* Every task runs when it can, and the readers read what they are sent.  The
\* locks and channels of tokio are fair.
Spec == /\ Init /\ [][Next]_vars
        /\ WF_vars(Router) /\ WF_vars(Talker) /\ WF_vars(Listener) /\ WF_vars(Register)
        /\ \A sid \in UserID : WF_vars(Connection(sid))
==============================================================================
