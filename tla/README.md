# A verification project for ducktb-rs

ducktb-rs is a chat server: clients connect over WebSockets, join rooms, talk
in them and see who else is there.  This directory holds TLA+ models of it,
the TLC configurations that check them, and theorems about them that TLAPS
checks.  Source paths below are relative to the repository (`src/server.rs` is
`src/src/server.rs` in PROJECT.json, which counts from one directory higher).

## The system

```
  clients                                         one task each
     |  WebSocket
  connection tasks --listener_c2s--> router --talker_c2s--> talker
  connection tasks <--tx2[sid]-- listener <--listener_s2c-- router <--talker_s2c-- talker
```

| Component | Source | State | Operations | Hard behaviour |
|---|---|---|---|---|
| talker | `src/server/talker.rs` | users, rooms, room members, histories, timers, rate limits, message ids | ten requests, connect, disconnect, one-second timer | two maps that must agree while handlers loop; order of messages against the handles they use; timers |
| room handles | the same, `UserState.in_rooms` | a vector of rooms and holes | find, allocate, free, trim | re-use of handles, limit of 255 |
| rate limits | `src/types.rs` 308-364 | windows of five counters, one shared index | `check_add_*`, `reset_idx` | a circular array advanced by one index for members that come and go; off-by-one and overflow |
| router | `src/server.rs` | none; four bounded channels | relay in both directions, stop both tasks | sends that wait in a loop: deadlock; shutdown |
| listener | `src/server/listener.rs` | map of connections behind a lock, next sid; sockets and their lock files | bind, accept, deliver to one or to all, ping, stop | sends that wait while the lock is held; sids; tasks nobody joins; a socket left behind by a crash |
| protocol handlers | `src/server/listener/proto_*.rs` | the request at hand: its id, whether it waits for its binary data | read, forward, answer, refuse, write | order of Connect, requests and Disconnect; the wait for binary data; one response per request id |
| types and conversions | `src/types.rs`, parts of `listener.rs` and `proto_msgpack_v1.rs` | none | encoding and decoding | two encodings of each value; which addresses share a home; whose header to believe |
| configuration, entry point | `src/config.rs`, `src/main.rs` | none | parsing | not modelled: no state |
| clients | `docs/protocol.md` | rooms, lists of users, logs | read | external: what a client can keep from differences |

What makes each of them correct, and what of it is checked, is in the section
on properties.

## Modules

| Module | What it is |
|---|---|
| `Ratelimits` | one window of counters: `Sum`, `MayAdd`, `Add`, `ResetIdx`, `NextIdx` |
| `RatelimitWindow` | one limit over time, with the history of what was accepted; its properties |
| `RoomHandles` | the vector of a user |
| `Clients` | what a client knows: the replica kept from the S2C messages (external: defined by `docs/protocol.md`) |
| `ChatRooms` | what the talker promises: who is in which room, what is said there |
| `Talker` | the talker task, over `Ratelimits`, `RoomHandles` and `Clients` |
| `TalkerProperties` | its properties |
| `TalkerRefinement` | `Talker` as an implementation of `ChatRooms` |
| `Frames` | the two protocol handlers: what a WebSocket message makes of a handler |
| `Server` | router, listener, connection tasks with their handlers (`Frames`) and an abstract talker, over bounded channels |
| `ServerProperties` | its properties |
| `Binding` | `bind_listeners` for a Unix socket that several servers want |
| `Conversions` | ids, colours, homes and addresses, and the head of a msgpack frame, as operators |
| `MCTalker`, `MCServer` | constants for TLC |
| `RatelimitProofs` | theorems about `RatelimitWindow` |
| `HandleProofs`, `TalkerProofs` | lemmas about `RoomHandles`; type correctness and the inductive invariant of `Talker`, and that it implements `ChatRooms` |
| `ClientProofs` | what the clients know of the rooms they are in |
| `LogProofs` | what they remember of what was said there |
| `ServerProofs` | theorems about `Server` |
| `BindingProofs`, `ConversionProofs` | theorems about `Binding` and `Conversions` |

`Talker` and `Server` meet at the talker's two channels.  `Server` keeps of the
talker only which users it knows and whom it has still to send something to;
`Talker` takes requests one at a time, which `Server` shows it gets in the
right order (`NeverSurprised`: `OnConnect` before any request of the user,
`OnDisconnect` after the last), and sends events, which `Server` shows arrive
in the order of sending (`EventsInOrder`).  These two facts are what allows
`Talker` to have no channels, and to advance `client[u]` at the moment of
sending.

Operators with an underscore and a suffix under a comment "Mutant:" are
plausible wrong versions of the operator that follows them.  No specification
uses them; PROJECT.json names the property each one breaks.

### Talker

One action per handler, and one per iteration where a handler loops over rooms
with sends in between: `task` is the loop in progress, and nothing else is
enabled meanwhile, for no other task touches the talker's state.  This finer
grain is for the properties only: what the code `expect`s in the middle of a
loop is checked there.  A failed `expect` sets `panicked`, and no action is
enabled after it.

| Code | Actions |
|---|---|
| `on_connect` | `OnConnect` |
| `on_disconnect` | `OnDisconnect`, `DisconnectRoom` |
| `req_user_joined` | `ReqUserJoined`, `JoinRoom` or `JoinRefused`, `SendRooms`, `user_room_join_unimmediate_complete` |
| `req_room_join` | `ReqRoomJoin`, then (exclusive) `ExclusiveLeave`, `ExclusiveJoin`, then as above |
| `req_room_leave` | `ReqRoomLeave` |
| `req_user_ch_nick` | `ReqUserChNick`, `ChNickRoom` |
| `req_message`, `req_message_dm`, `req_typing`, `req_mouse`, `req_custom_r`, `req_custom_u` | `ReqMessage`, `ReqMessageDM`, `ReqTyping`, `ReqMouse`, `ReqCustomR`, `ReqCustomU` |
| `every_second` | `EverySecond` |

State that is a field of a map's entry in the code (`UserState`, `RoomState`,
`RoomMemberState`) is a function on all users, or rooms, here; the entry's
absence is `users`, `rooms` or `members` not holding the key, and what is left
of an absent entry is its initial value.

`UserState.state` (`WaitingForUserJoined`) only keeps a user from sending
`USER_JOINED` twice; other requests are accepted before it, and runs with `"EARLY"` among
their `Stimuli` have them.  `ensure_room` runs before a join can be refused, so
that a refused join creates its room, or starts its countdown again
(`JoinRefused`).

Abstracted: nick and colour are one value, a `Profile`; the address, the time
and the texts are left out; the content of a message is its kind.  Responses
are left out here, nothing in the talker depending on them (`Server` has them),
and a request that changes nothing (refused by a limit, with a bad handle) is a
stuttering step.
`HELLO` and `RATE_LIMITS` are left out: they say nothing about rooms.
Message ids count up to `MessageIDs`; that the history is a map by id matters
only to a room that keeps a message while 2^32 others are sent.

A sid is handed out once (`seen`): entries of the listener's map of connections
are never removed, so none is free again.  `Server` models this; were a sid free
as soon as its connection closes (`FreeSids_closed`), `NeverSurprised` would fail.

A limit whose `check_add_*` panics in a debug build when the counters overflow
wraps around in a release build; the wrap is modelled.

### ChatRooms and its implementation

`ChatRooms` has no handles, vectors, loops, timers or limits: a user enters
rooms, leaves them, and speaks only in one it is in, in private only to one who
is there too; what is said becomes the end of the room's history, and changes
nothing before it; a room nobody is in may be forgotten.  The
mapping in `TalkerRefinement` says when each of these happens in the talker:

| In the talker | is one step of `ChatRooms` |
|---|---|
| `SendRooms`, after the loop of `JoinRoom` | `Enter`, of all rooms at once |
| `ReqRoomJoin`, exclusive | `LeaveOthers`; the announcements follow, one by one |
| `OnDisconnect` | `Disconnect`; the announcements follow |
| `ReqRoomLeave` | `Leave`, announced at once |
| `ReqMessage`, `ReqMessageDM` | `Say` |
| `ensure_room` of a new room | `Open` |
| `EverySecond` | `Forget`, or nothing |
| any other iteration of a loop | `Announce`, or nothing |
| an `unwrap` that fails | `Fall`: nobody is there any longer, and nothing is remembered |

So nobody is ever half inside: a `USER_JOINED` with three rooms enters all of
them or none, however its loop is interrupted.

### Server

Each task has a `pc`.  A `send` on a full channel waits; a send to a receiver
that is gone does nothing.  The listener's `send_to_all` sends in any order and
holds the lock until all are through (`join_all`).  A talker's request may
panic, whatever it was; that is what the talker's own model shows possible.

`Frames` says what a frame makes of a handler.  A frame has a head, with a
request id, without one, or unreadable, and a body: a request, a custom message
whose data is `null`, or something that cannot be parsed.  json-v2 waits for a
binary frame after `null` and joins the two; msgpack-v1, whose bytes are part of
the frame, refuses `null`.  A body that cannot be parsed is answered by the
handler if the request has an id, and ends the connection otherwise; so does a
frame of the wrong kind.

The talker sends at most one event to each user for a request or a tick: more
would only lengthen the queues, and the order among them is the channel's.
After these comes the one response every request has: an `answer` if the
request has an id; if it has none a `silence`, which the handler does not
write, or a `refusal`, upon which it ends the connection.  `owed` counts the
requests with an id that a connection has made and not been answered.

`Readers` are the sids of clients that read what they are sent; of the others a
write need never be done.  The listener's pings come at any time, the first of
them at once even where `ping_interval` (`PingInterval`) is 0: `pinging` says
whether another comes.  A tick that finds no connection costs nothing of
`Budget`, since it changes nothing else.
When `Server::run` returns the process ends, and with it every task.

### Binding

`bind_listeners` locks a file beside the path of a Unix socket, removes the
path, and binds it.  Several servers do so, each of which may crash between any
two steps: the system releases the lock of a process that is gone and leaves the
path.  Entries of one server's own `listen` list are tried one after the other
in the code; here they interleave like those of different servers.  Binding to
an IP address has no steps in between and is the `ListenerBinds` of `Server`.

### Conversions

Operators, no state: what `src/types.rs` writes for an id, a colour or a home in
JSON and in MessagePack, and what it reads back; how `UserHome::from` packs an
address into 64 bits; which address `accept` and `headcb` find; the head of a
msgpack frame.  Integers are sequences of 16-bit words, so that their widths
are those of the code.

## Runs

| Run | Bounds | What it shows |
|---|---|---|
| `RatelimitWindow` | limit 2, counters below 8, at most 4 accepted events a second | the array is the sliding window; limit + 1 is never exceeded; nobody is locked out |
| `TalkerRooms` | 2 users, 3 rooms, 2 handles, 5 message ids, lists of up to 3 rooms, 2 `ROOM_JOIN` or `ROOM_LEAVE` of each user | all ways to join and leave; the handle limit is reached, joins are refused, handles are re-used, lists repeat rooms |
| `TalkerMessages` | 2 users, 2 rooms, 2 profiles, history of 2, 4 message ids; nobody leaves | histories overflow, private messages are in them, users join later, nicks change in two rooms, `USER_JOINED` comes late |
| `TalkerTimer` | 2 users, 2 rooms, 1 handle, both timers 2, no limits | expiry in every phase against typing, leaving, disconnecting, joining again, and joins that are refused |
| `ServerChannels` | 2 sids, 3 connections, every channel holds 1, 1 frame, tick or ping, one client that does not read | all interleavings of the tasks; the sids run out; requests and their answers |
| `ServerLiveness` | 2 sids, 2 connections, 1 frame, tick or ping, one client that does not read | delivery, answers, departure and shutdown, under fairness |
| `PingsDisabled` | 2 sids, 2 connections, every channel holds 1, no ping interval | a counterexample: a ping where there are to be none |
| `InitRoomsRepeated`, `RejoinExclusive`, `RatelimitDocumented`, `ShutdownHangs`, `ConnectionsLeft` | as the runs above | a counterexample each (see below) |

The three passing runs of the talker also check that it implements `ChatRooms`
(`ImplementsChatRooms`).  `Binding` and `Conversions` have no run: what is said
of them is proved for all values.

The bounds.  Two users suffice for the talker's properties, which speak of a
user and what it knows of another; three rooms are one more than there are
handles, so that a full vector and a third room meet.  `MaxMessages` stops
requests when so many ids have been drawn (a handler in progress still ends).
`Stimuli` says which requests a run takes, so that each run spends its states
on one subject; `"EARLY"` allows requests before `USER_JOINED`.  `LogMax` bounds
what a client remembers of a room.  `RateLimit` is small so that limits are
reached; the room limit bounds the joins a user makes in runs without a timer.
With `CounterValues = 1` every counter wraps at once, which switches the limits
off in `TalkerTimer`, where they are not the subject.
Channels of capacity 1 instead of 256 and 8 (`tx2`) reach what longer ones
reach with more messages: a queue is full or is not.  `Budget` bounds what
clients, the timer and pings start; a message and its binary data count as one.
The client with sid 0 speaks json-v2 and reads, the other speaks msgpack-v1 and
need not.  `TalkerRooms`, `TalkerMessages` and the
two violations on the talker use symmetry of users and of rooms, which no
action or invariant distinguishes (nor does `ImplementsChatRooms`, a safety property); the runs with
liveness properties use none.
`CHECK_DEADLOCK` is off in `TalkerRooms`, `TalkerMessages` and the violations on
the talker, which end when the ids are used up or the talker has panicked, and
in the server's, which end when the server
has; there `OnlyKnownDeadlocks` tells an end from a deadlock.

### Fairness

`Talker`: `WF(Continue)`, a handler that has begun goes on, and
`SF(EverySecond)`, tokio's interval ticks however busy the channel is:
`Talker::run` selects between channel and timer with `select!` without `biased`,
which picks at random among the branches that are ready.  The tick is disabled
while a handler runs, again and again, so that weak fairness would say nothing.
No fairness is assumed of clients.

`Server`: every task runs when it can (`WF` of the router, the talker, the
listener, of registering and of each connection); the lock and the channels of
tokio queue those who wait.  The clients in `Readers` read, the others need not;
what the listener owes the first when the second do not read is excused only if
they keep it waiting for ever (`Stalled`, hazard at `listener.rs:322`).  Frames,
ticks, pings, new connections and departures are not fair.

## Properties

*Rate limits.*  `CountersAreRecent`: the counter k seconds behind the index is
what was accepted k seconds ago.  `AtMostOneOver`.  `NeverLockedOut`.

*The talker as a whole.*  `ImplementsChatRooms`: no order of requests, loops and
ticks lets a user be in a room it did not enter, be heard where it is not, see a
history change behind its end, or lose a room it is in.

*The talker's maps.*  `MembersAgree`: `RoomState.users` and `UserState.in_rooms`
say the same, but for the rooms `on_disconnect` has not reached.  `HandlesOK`:
no room twice, no hole at the end, not too long.  `OnlyInitRoomsPanics`: no
`expect` or `unwrap` about the maps fails, but the one in `req_user_joined`.
`FullCountdown`, `DroppedOnlyEmpty`, `EmptyRoomReclaimed`: empty rooms and their
timer.  The last one holds where refused joins of the room come to an end: each
of them starts its countdown again, so that a user with a full vector, or who
repeats a refused join, keeps an empty room for ever, within its limit.

*What users know.*  Every event carries, besides the handle the client sees, the
room it was meant for, so that a client model can notice a handle that means
something else to it: `NeverMisrouted`.  `RosterInStep`: after each request,
every member's list of users, kept from differences, is the room's; but for the
profile of a user whose `USER_JOINED` came after it had joined (`renamed`), which
the talker tells nobody.
`HistoryInStep`, `LogsPublicAndOrdered`, `HistoryBounded`: what is saved for
later members.  `NoGhostTyping`, `TypingEnds`: who is shown as typing.

*The channels.*  `NeverSurprised`: the talker is told of a user once, before its
requests, and of its departure after them.  `EventsInOrder`: nothing on its way
to a client is lost, doubled or overtaken.  `DataFollows`: what a handler
sends up is the message its client wrote (`said`, kept by `Meant` from the frames
as the documentation explains them), with its own id and the bytes that followed
it, although the handler writes events to the client between the two frames; none
goes up with `null` for its data.  `RequestsKept`: a request with an id is in one
place until it is answered, once.  `OnlyKnownDeadlocks`: see below.
`DepartureTold`, `EventsArrive`, `RequestsAnswered`, `ShutdownEnds`: what must
happen at last, for clients that read, unless the server is stuck for ever
(`StuckForEver`).

*Sockets.*  `SocketIsServed`, `PathIsFree`: a server that is alive keeps its
socket, and a socket left behind keeps nobody from binding.

### Where code and documentation disagree

1. `InitRoomsRepeated`: `Vec::dedup` is not what `docs/protocol.md:98` says; a
   list [A, B, A], or with a room joined before, panics the talker.
2. `RejoinExclusive`: an exclusive join of a room one is in leaves the others and
   fails without a `ROOM` message.
3. `RatelimitDocumented`: limit + 1 events in five seconds.
4. `PingsDisabled`: `ping_interval = 0` turns off all pings but the first, which is
   due as soon as the listener runs and finds whoever has connected by then.
5. `ShutdownHangs`: `Server::run` can wait for the listener for ever.
6. `ConnectionsLeft`: the listener's wait for its connections is empty.

`OnlyKnownDeadlocks` allows four ways to stop: router and talker with both of
their channels full; router, listener and a connection in a circle; the search
for a free sid when all have been used; and a listener that waits, with the
lock, for a client that does not read (`Stalled`).  The first two need a burst of
256 messages in the program (or of 8, in the connection's channel), the third
2^32 - 1 connections over the server's lifetime: entries are never removed from
`connections`; the fourth one client and a few messages.  The liveness
properties hold but where the server stays in one of these for ever
(`StuckForEver`, `<>[]Stuck`): a wait that ends, as `Stalled` does when the client
leaves, excuses nothing.

Seen, but not the subject of a run: `history_max = 0` keeps one message
(`HistoryBounded` allows for it), where `config.toml:27` says that it disables the
history; a limit of 255, the largest of its type, limits nothing, since the sum of
the counters wraps around (or panics, in a debug build) before it exceeds the
limit (`LargestLimitsNothing`); `events` and `session_timeout` of the
configuration are used by nothing; codes 10 and 11 of `docs/protocol.md` and
`src/types.rs` differ; `MESSAGE` and `MESSAGE_DM` answer without the documented
`MessageID`; private messages take places in the history; a member who joins is
not told who is typing.  And of the conversions, each of them a hazard in
PROJECT.json and some a theorem:

- the upper half of a group id falls out of a Unix client's home
  (`HomesOfUnix`);
- an entry of `x-forwarded-for` after a comma and a space is not read
  (`EntryAddress`, read off the source), and a mapped IPv4 address in that header stays
  mapped, so that all such clients share the home 0
  (`ForwardedMappedShareHome`);
- the texts of ids and colours may begin with a plus, which `from_str_radix`
  takes.

## Proofs

For every value of the constants that satisfies the assumptions beside them:

- `RatelimitProofs`: `TypeCorrect`, `WindowIsRecent`, and `LimitHolds` (for a limit
  + 1 below the number of counter values: beyond it the sum wraps).  The first
  two are inductive with the types; the last follows from them and from the
  sum of the counters being the sum of the history, as long as nothing wraps.
- `TalkerProofs`: `TypeCorrect`, one step for each action; then `MapsAgree`,
  `HandlesFit`, `ExpectsHold`, all from
  `IInv == MembersAgree /\ HandlesOK /\ TaskInStep /\ OnlyInitRoomsPanics`.
  `MembersAgree` alone is not inductive: the loops need that the rooms still to
  be left are the user's and that no room is listed twice, that the user of a
  loop is (or, in `on_disconnect`, is not) there, and that users who are gone
  have no rooms.  This is `TaskInStep`.  `MemberCanSend` and `MemberStep` then
  show that no `expect` fails.  `CountdownIsFull` and `HistoryStaysBounded` are
  inductive with the types, and `OnlyEmptyDropped` follows from the types step
  by step.
- `HandleProofs`: what `AddRoom`, `Vacate`, `Trim`, `Rest` do to the rooms of a
  vector, and which handle finds which of them afterwards.
- `TalkerProofs`, again: `Refinement`, that `Spec` implies `ImplementsChatRooms`.
  Each action maps to a step of `ChatRooms` or to a stutter, by `TypeOK`, `IInv`
  and `Loops`: a room is not left for itself, and the loop of `ROOM_JOIN`, of one
  room, has entered nothing before its one iteration.  It needs that `None` is no
  user and no site of a panic.
- `ClientProofs`: `HandlesAreUnderstood` (`NeverMisrouted`), `RostersAreRight`
  (`RosterInStep`) and `NobodyShownInVain` (`NoGhostTyping`), from the invariant
  `CInv`.  The last two speak of the moments between two requests, and the first
  of every message; none of them is inductive, for in the middle of a loop the
  clients are at different places.  `InStep` says where, in every state:
  `Unannounced`, who is a member of a room that has not been told of it;
  `Changing`, whose new nick or departure a room has still to be told; `Unread`,
  whose vector is ahead of the last `ROOM` it was sent, so that nothing may be
  sent to it by handle meanwhile; `DoneOK`, that the second halves of a join
  which wait still say what is true.  It is kept by every iteration of every
  loop, one lemma each.  `FiniteOK`, that only finitely many rooms exist and
  each has finitely many members, is needed for the loops over maps and for the
  lengths of lists.  `DeliverIs` unfolds `Deliver` for any number of batches;
  `BatchOf` and `LoopStep` say that what is sent of one room leaves what is known
  of another, so that an iteration need speak only of its own room.
- `LogProofs`: `LogsArePublic` (`LogsPublic`), `LogsStayInOrder`
  (`LogsPublicAndOrdered`) and `HistoriesAreRight` (`HistoryInStep`), from
  `LogsOK`, `InOrder` and `Remembered`.  A saved history is a window on all that
  was said in a room, private messages included; what a client remembers is a
  window on the public part of it, and the two move at different times.  The
  difficulty is a join that waits for its second half.  `on_join_room` draws the
  id of its message and copies the history, and other joins of the same loop do
  so too before the first is sent, so that ids are not sent in the order they
  are drawn and the history is sent later than it is read.  `LogsOK` says that
  the copy is still the public part of the room's history, `InOrder` that the
  waiting id is still above every id of its room: nothing is said in a room
  between the two halves of a join of it.  `Remembered` is
  `HistoryInStep` in every state, for every member but the one who waits
  (`Unannounced`).  `StepKinds` sorts the actions into four kinds: `Quiet`, nothing
  is saved or said; `Speaks`, a message is saved, and said if it is public;
  `Joins`, the first half of a join; `Completes`, the second.  Each part of the
  invariant then has one lemma for each kind.  `get_history` is unfolded by
  `FilterIs`, and `PublicMore`, `PublicLess` say what it makes of a history that
  gets a message or loses its first, by induction over the length: as no
  induction theorem can be instantiated, `Successors` derives what is needed
  from the least number outside a set (`Least`).
  `LogsStayInOrder` holds while `msgid_counter + 1 < MessageIDs`, 2^32 in the
  program: the counter wraps, and a log that reaches across is out of order.
  `HistoriesAreRight` supposes a client that remembers at least as many messages
  as the talker saves and at least one, which is what is saved even if
  `history_max` is 0.
- `ServerProofs`: `TypeCorrect`, `TalkerNeverSurprised`, `EventsStayInOrder`,
  `RequestsAreKept`, `DataAlwaysFollows`, for any capacities, connections and
  protocols, from `IInv`.  A message on its way is in one of several channels or
  in the hands of a task; the invariant speaks of each such leg apart
  (`UpOrder`, `DownOrder`, `Load`), and says what is known at its end, so that a
  message that moves is the first of one leg and becomes the last of the next.
  The properties say the same of the legs joined end to end: `DownJoined` and
  `LoadIsUnderway` lead from the one to the other.  `TasksOK`, `HandlerOK` and `SaidOK`
  say what a task holds at each `pc`; `MeantIs` follows a frame through a handler
  and through the documentation's account of it side by side.  The first half of `Kept`, `Load <= owed`, still holds when the talker or
  the listener has fallen and requests are lost with its channel: an answer that
  arrives then was owed all the same.
- `BindingProofs`: `OneServerPerPath`, from `BindingInv`: whoever is past the lock
  holds it, so at most one is, and the path can only be its own.
- `ConversionProofs`: what is written is read back (`MessageIDRead`,
  `UserIDRead`, `UserColorRead`, `HeadRead`), for every value and in both
  encodings; a home fits 64 bits and tells apart what it should (`HomesOfIPv4`,
  `HomesOfIPv6`, `HomesApart`, but for IPv6 addresses that begin with a zero
  segment); which address counts (`OneAddressOnEitherSocket`,
  `LastForwardedCounts`, `ForwardedMappedShareHome`); no
  two requests have one code (`RequestCodesApart`).

`Binding` and `Conversions` have theorems and no run: the first is small enough
for its invariant to be seen and proved at once, the second are functions of
numbers far too many to enumerate.

The assumptions are those the modules state with ASSUME (`TalkerAssumption`,
`ClientsAssumption`, `ServerAssumption`, ...): that limits, timers, capacities and
the length of a client's log are numbers of their kind, that there is at least
one handle, sid and message id, that a channel holds at least one message, and
that `None` is nobody and no room.  The talker's `UserID`, `RoomID` and `Profile`
may be infinite.

Only model-checked:

- `OnlyKnownDeadlocks` (`ENABLED`) and all liveness, which are beyond TLAPS.
- What the runs with a counterexample show.

## Not modelled

- What serde and base64 do with structures and texts: `Frames` knows only
  whether a body can be parsed.
- Nicks and room names: how they are trimmed and which are refused (a nick that
  is refused is a frame that cannot be parsed; a room is a model value).
- The choice of the protocol by the handshake, but that it may fail; HTTP
  headers other than `x-forwarded-for`.
- `src/config.rs`, `src/main.rs`: parsing, without state.  The values are the
  constants of the modules.
- `ReloadCfg` and `reload_config`, which nothing reaches (`todo!()`).
- The text of responses and their codes; that there is one, and where it goes,
  is in `Server`.
- Code that is commented out: `talker.rs` from line 672 on, the greater part of
  `proto_msgpack_v1.rs` from line 202 on, and parts of `types.rs`.

## Plan

Done: rate limits, handles, talker, `ChatRooms` and the refinement, server with
frames, responses and clients that do not read, binding, conversions; theorems
about all of them, and about every safety property of the passing runs but
`OnlyKnownDeadlocks`.  Next, in this order:

1. The codes of the talker's responses.
2. A bound on `msgid_counter` from one on the requests, so that
   `LogsStayInOrder` would speak of a number of requests and not of ids.
